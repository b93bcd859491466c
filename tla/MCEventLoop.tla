----------------------------- MODULE MCEventLoop -----------------------------
(* Instances of EventLoop for TLC: environments. *)
EXTENDS EventLoop

(* Timers alone, write queues alone, and both in a program that shuts down. *)
TimersOnly == [ops |-> {"schedule", "add", "del"}, calls |-> 4, signals |-> 1, again |-> 0]
Queues == [ops |-> {"open", "free", "enqueue"}, calls |-> 5, signals |-> 0, again |-> 0]
Limits == [ops |-> {"open", "enqueue", "clear", "set_maxlen"}, calls |-> 4, signals |-> 0, again |-> 1]
Ending == [ops |-> {"open", "enqueue", "schedule", "shutdown"}, calls |-> 4, signals |-> 0, again |-> 1]

All == {TimersOnly, Queues, Limits, Ending}
=============================================================================

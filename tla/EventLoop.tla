------------------------------ MODULE EventLoop ------------------------------
(***************************************************************************)
(* The event loop of src/core/select.c (built on poll()), the timers of    *)
(* src/core/timer.c and, behind every file descriptor, a write queue of    *)
(* src/core/write_queue.c.  Callbacks and the main program are the user's: *)
(* wherever his code runs he may call the functions of the three, up to a  *)
(* number of times, on any object, the one he is called for included.      *)
(***************************************************************************)
EXTENDS Naturals, Sequences, FiniteSets, SequencesExt

CONSTANTS
    Ofds,          \* write queues, each with its osmo_fd
    Numbers,       \* file descriptor numbers: the system gives out the least
    Timers,
    MaxLength,     \* max_length of a write queue
    MaxTimeout,    \* bound on the timeouts, in ticks
    Environments   \* what the user does, see LoopAssumption

Calls == {"open", "free", "enqueue", "clear", "set_maxlen", "schedule", "add", "del", "shutdown"}
None == "none"

(* An environment: the calls there may be, how many of them, how many       *)
(* signals that interrupt poll() and how many writes for which the socket   *)
(* has not enough room although poll() reported it writable.                *)
ASSUME LoopAssumption ==
    /\ None \notin Ofds /\ IsFiniteSet(Timers)
    /\ Numbers \subseteq Nat \ {0} /\ MaxLength \in Nat /\ MaxTimeout \in Nat
    /\ \A env \in Environments : env \in [ops : SUBSET Calls, calls : Nat, signals : Nat, again : Nat]

VARIABLES
    env,
    left,      \* the calls, signals and failing writes that may still come
    osmo_fds,  \* the list of registered osmo_fds
    table,     \* osmo_fd_lookup: from numbers to osmo_fds
    ofd,       \* fd (0 once freed), when, and the queue with its max_length
    ready,     \* per number: what the system would report
    timer,     \* whether it is active, and the ticks until its timeout
    loop,      \* the locals of the functions that are on the stack
    shutdown,  \* shutdown_requested and shutdown_done
    last       \* per osmo_fd: the newest messages accepted and written

vars == <<env, left, osmo_fds, table, ofd, ready, timer, loop, shutdown, last>>
users == <<osmo_fds, table, ofd, timer, shutdown, last>>

NoCallback == [kind |-> "none"]
Freed == [fd |-> 0, when |-> {}, msg_queue |-> <<>>, max_length |-> 0]
NewTimer == [active |-> FALSE, left |-> 0]

Init ==
    /\ env \in Environments
    /\ left = [calls |-> env.calls, signals |-> env.signals, again |-> env.again]
    /\ osmo_fds = <<>> /\ table = [n \in Numbers |-> None]
    /\ ofd = [o \in Ofds |-> Freed]
    /\ ready = [n \in Numbers |-> {}]
    /\ timer = [t \in Timers |-> NewTimer]
    /\ loop = [pc |-> "main", poll |-> <<>>, wait |-> <<>>, evict |-> <<>>, i |-> 1,
               pending |-> FALSE, cb |-> NoCallback]
    /\ shutdown = [requested |-> FALSE, done |-> FALSE]
    /\ last = [o \in Ofds |-> [accepted |-> 0, written |-> 0]]

-----------------------------------------------------------------------------
(* timer.c *)

(* osmo_timer_del(); a mutant leaves an expired timer to be fired.          *)
TimerDelNotEvicted(t) ==
    /\ timer' = [timer EXCEPT ![t].active = FALSE]
    /\ loop' = loop
TimerDel(t) ==
    /\ timer' = [timer EXCEPT ![t].active = FALSE]
    /\ loop' = [loop EXCEPT !.evict = IF timer[t].active THEN RemoveFirst(@, t) ELSE @]

(* osmo_timer_add(): the timeout is the one it last had.                    *)
TimerAdd(t, ticks) ==
    /\ timer' = [timer EXCEPT ![t] = [active |-> TRUE, left |-> ticks]]
    /\ loop' = [loop EXCEPT !.evict = IF timer[t].active THEN RemoveFirst(@, t) ELSE @]

Due == {t \in Timers : timer[t].active /\ timer[t].left = 0}

(* osmo_timers_prepare(), osmo_timers_nearest_ms(): the ticks poll() may    *)
(* wait for, as a sequence: none if there is no timer.  A mutant takes a    *)
(* timer that is overdue for none.                                          *)
NearestInFuture ==
    LET future == {t \in Timers : timer[t].active /\ timer[t].left > 0}
    IN  IF future = {} THEN <<>> ELSE <<Min({timer[t].left : t \in future})>>
Nearest ==
    LET active == {t \in Timers : timer[t].active}
    IN  IF active = {} THEN <<>> ELSE <<Min({timer[t].left : t \in active})>>

-----------------------------------------------------------------------------
(* The calls of the user *)

UserRuns == ~shutdown.done /\ (loop.pc = "main" \/ loop.cb # NoCallback)
Free == {n \in Numbers : \A o \in Ofds : ofd[o].fd # n}
InCallbackOf(o) == loop.cb.kind \in {"read", "write"} /\ loop.cb.o = o

(* A socket is made for a new write queue: osmo_wqueue_init() and           *)
(* osmo_fd_register().                                                      *)
Register(o) ==
    /\ ofd[o].fd = 0 /\ Free # {}
    /\ ~InCallbackOf(o)
    /\ LET n == Min(Free)
       IN  /\ ofd' = [ofd EXCEPT ![o] = [fd |-> n, when |-> {"READ"}, msg_queue |-> <<>>,
                                         max_length |-> MaxLength]]
           /\ osmo_fds' = Append(osmo_fds, o)
           /\ table' = [table EXCEPT ![n] = o]
    /\ last' = [last EXCEPT ![o] = [accepted |-> 0, written |-> 0]]
    /\ UNCHANGED <<timer, loop, shutdown, ready>>

(* osmo_wqueue_clear(), osmo_fd_close() and free(); a mutant leaves the     *)
(* number of the osmo_fd in the table.                                      *)
CloseInTable(o) ==
    /\ osmo_fds' = RemoveFirst(osmo_fds, o)
    /\ ofd' = [ofd EXCEPT ![o] = Freed]
    /\ UNCHANGED table
Close(o) ==
    /\ osmo_fds' = RemoveFirst(osmo_fds, o)
    /\ ofd' = [ofd EXCEPT ![o] = Freed]
    /\ table' = [table EXCEPT ![ofd[o].fd] = None]

CloseAndFree(o) ==
    /\ ofd[o].fd # 0
    /\ Close(o)
    /\ ready' = [ready EXCEPT ![ofd[o].fd] = {}]
    /\ UNCHANGED <<timer, loop, shutdown, last>>

(* osmo_wqueue_enqueue().                                                   *)
Enqueue(o) ==
    /\ ofd[o].fd # 0 /\ Len(ofd[o].msg_queue) < ofd[o].max_length
    /\ ofd' = [ofd EXCEPT ![o].msg_queue = Append(@, last[o].accepted + 1),
                          ![o].when = @ \cup {"WRITE"}]
    /\ last' = [last EXCEPT ![o].accepted = @ + 1]
    /\ UNCHANGED <<osmo_fds, table, timer, loop, shutdown, ready>>

Clear(o) ==
    /\ ofd[o].fd # 0
    /\ ofd' = [ofd EXCEPT ![o].msg_queue = <<>>, ![o].when = @ \ {"WRITE"}]
    /\ UNCHANGED <<osmo_fds, table, timer, loop, shutdown, last, ready>>

(* osmo_wqueue_set_maxlen(): the oldest messages are dropped.               *)
SetMaxlen(o, len) ==
    /\ ofd[o].fd # 0
    /\ ofd' = [ofd EXCEPT ![o].max_length = len,
                          ![o].msg_queue = IF Len(@) > len
                                           THEN SubSeq(@, Len(@) - len + 1, Len(@)) ELSE @]
    /\ UNCHANGED <<osmo_fds, table, timer, loop, shutdown, last, ready>>

ShutdownRequest ==
    /\ shutdown' = [shutdown EXCEPT !.requested = TRUE]
    /\ UNCHANGED <<osmo_fds, table, ofd, timer, loop, last, ready>>

TimerCall(t, op) ==
    /\ \/ op = "schedule" /\ \E ticks \in 0..MaxTimeout : TimerAdd(t, ticks)
       \/ op = "add" /\ TimerAdd(t, timer[t].left)
       \/ op = "del" /\ TimerDel(t)
    /\ UNCHANGED <<osmo_fds, table, ofd, shutdown, last, ready>>

Call(op) ==
    /\ UserRuns /\ left.calls > 0
    /\ left' = [left EXCEPT !.calls = @ - 1]
    /\ \/ \E o \in Ofds :
              \/ op = "open" /\ Register(o)
              \/ op = "free" /\ CloseAndFree(o)
              \/ op = "enqueue" /\ Enqueue(o)
              \/ op = "clear" /\ Clear(o)
              \/ op = "set_maxlen" /\ \E len \in 0..MaxLength : SetMaxlen(o, len)
       \/ \E t \in Timers : TimerCall(t, op)
       \/ op = "shutdown" /\ ShutdownRequest
    /\ UNCHANGED env

-----------------------------------------------------------------------------
(* The system: sockets become readable and writable, time passes. *)

Readable(n) ==
    /\ table[n] # None /\ "READ" \notin ready[n]
    /\ ready' = [ready EXCEPT ![n] = @ \cup {"READ"}]
    /\ UNCHANGED <<env, left, loop, users>>

Writable(n) ==
    /\ table[n] # None /\ "WRITE" \notin ready[n]
    /\ ready' = [ready EXCEPT ![n] = @ \cup {"WRITE"}]
    /\ UNCHANGED <<env, left, loop, users>>

Less(n) == IF n = 0 THEN 0 ELSE n - 1

Tick ==
    /\ timer' = [t \in Timers |-> [timer[t] EXCEPT !.left = Less(@)]]
    /\ loop' = [loop EXCEPT !.wait = IF @ = <<>> THEN @ ELSE <<Less(@[1])>>]
    /\ <<timer', loop'>> # <<timer, loop>>
    /\ UNCHANGED <<env, left, osmo_fds, table, ofd, ready, shutdown, last>>

-----------------------------------------------------------------------------
(* select.c: _osmo_select_main() *)

(* poll_fill_fds() and the timeout.  An osmo_fd that asks for nothing is    *)
(* skipped there; here it has an entry without events, which poll() and     *)
(* poll_disp_fds() pass over.                                               *)
Prepare ==
    /\ loop.pc = "main" /\ ~shutdown.done
    /\ loop' = [loop EXCEPT
                   !.pc = "poll",
                   !.poll = [n \in DOMAIN osmo_fds |->
                                [fd |-> ofd[osmo_fds[n]].fd, events |-> ofd[osmo_fds[n]].when]],
                   !.wait = IF shutdown.requested /\ Nearest = <<>> THEN <<0>> ELSE Nearest]
    /\ UNCHANGED <<env, left, ready, users>>

(* poll() returns: something is ready, or the time is over; the timers that *)
(* are due are put on the eviction list.                                    *)
Poll ==
    LET result == [n \in DOMAIN loop.poll |->
                      [fd |-> loop.poll[n].fd,
                       events |-> loop.poll[n].events \cap ready[loop.poll[n].fd]]]
    IN  /\ loop.pc = "poll"
        /\ \/ loop.wait = <<0>>
           \/ \E n \in DOMAIN result : result[n].events # {}
        /\ \E order \in SetToSeqs(IF shutdown.requested THEN {} ELSE Due) :
               loop' = [loop EXCEPT !.pc = "timers", !.poll = result, !.evict = order]
        /\ UNCHANGED <<env, left, ready, users>>

Interrupted ==
    /\ loop.pc = "poll" /\ left.signals > 0
    /\ left' = [left EXCEPT !.signals = @ - 1]
    /\ loop' = [loop EXCEPT !.pc = "main", !.poll = <<>>, !.wait = <<>>]
    /\ UNCHANGED <<env, ready, users>>

(* osmo_timers_update().                                                    *)
FireTimer ==
    LET t == loop.evict[1]
    IN  /\ loop.pc = "timers" /\ loop.cb = NoCallback /\ loop.evict # <<>>
        /\ timer' = [timer EXCEPT ![t].active = FALSE]
        /\ loop' = [loop EXCEPT !.evict = Tail(@), !.cb = [kind |-> "timer"]]
        /\ UNCHANGED <<env, left, ready, osmo_fds, table, ofd, shutdown, last>>

TimersFired ==
    /\ loop.pc = "timers" /\ loop.cb = NoCallback /\ loop.evict = <<>>
    /\ loop' = [loop EXCEPT !.pc = "fds", !.i = 1, !.pending = FALSE]
    /\ UNCHANGED <<env, left, ready, users>>

(* osmo_wqueue_bfd_cb(): the part for writing, of which l is the loop that  *)
(* is left behind.                                                          *)
BeginWrite(o, l) ==
    LET q == ofd[o].msg_queue
    IN  /\ ofd' = [ofd EXCEPT ![o].when = @ \ {"WRITE"},
                              ![o].msg_queue = IF q = <<>> THEN q ELSE Tail(q)]
        /\ loop' = [l EXCEPT !.cb = IF q = <<>> THEN NoCallback
                                    ELSE [kind |-> "write", o |-> o, msg |-> q[1]]]

(* poll_disp_fds(): the next entry.                                         *)
DispatchFd ==
    LET p == loop.poll[loop.i]
        o == table[p.fd]
        flags == p.events \cap ofd[o].when
        l == [loop EXCEPT !.i = @ + 1,
                          !.pending = @ \/ (shutdown.requested /\ "WRITE" \in ofd[o].when)]
    IN  /\ loop.pc = "fds" /\ loop.cb = NoCallback /\ loop.i <= Len(loop.poll)
        /\ \/ /\ p.events = {} \/ o = None
              /\ loop' = [loop EXCEPT !.i = @ + 1]
              /\ UNCHANGED ofd
           \/ /\ p.events # {} /\ o # None
              /\ CASE "READ" \in flags ->
                        /\ loop' = [l EXCEPT !.cb = [kind |-> "read", o |-> o, flags |-> flags]]
                        /\ UNCHANGED ofd
                   [] flags = {"WRITE"} -> BeginWrite(o, l)
                   [] OTHER -> loop' = l /\ UNCHANGED ofd
        /\ UNCHANGED <<env, left, ready, osmo_fds, table, timer, shutdown, last>>

FdsDispatched ==
    /\ loop.pc = "fds" /\ loop.cb = NoCallback /\ loop.i > Len(loop.poll)
    /\ shutdown' = [shutdown EXCEPT !.done = @ \/ (shutdown.requested /\ ~loop.pending)]
    /\ loop' = [loop EXCEPT !.pc = "main", !.poll = <<>>, !.i = 1, !.wait = <<>>]
    /\ UNCHANGED <<env, left, ready, osmo_fds, table, ofd, timer, last>>

-----------------------------------------------------------------------------
(* The callbacks return *)

TimerReturns ==
    /\ loop.cb.kind = "timer"
    /\ loop' = [loop EXCEPT !.cb = NoCallback]
    /\ UNCHANGED <<env, left, ready, users>>

(* read_cb() has read what there was, or freed the queue and says so.       *)
AfterRead(o) ==
    IF ofd[o].fd # 0 /\ "WRITE" \in loop.cb.flags THEN BeginWrite(o, loop)
    ELSE loop' = [loop EXCEPT !.cb = NoCallback] /\ UNCHANGED ofd
ReadReturns ==
    /\ loop.cb.kind = "read"
    /\ AfterRead(loop.cb.o)
    /\ ready' = IF ofd[loop.cb.o].fd = 0 THEN ready
                ELSE [ready EXCEPT ![ofd[loop.cb.o].fd] = @ \ {"READ"}]
    /\ UNCHANGED <<env, left, osmo_fds, table, timer, shutdown, last>>

(* write_cb() has freed the queue, has written the message or could not:    *)
(* then it goes back to the head of the queue; one mutant puts it to the    *)
(* end, another asks for no further callback.                               *)
AfterWriteToTheEnd(o, q, written) ==
    LET rest == IF written THEN q ELSE Append(q, loop.cb.msg)
    IN  ofd' = [ofd EXCEPT ![o].msg_queue = rest,
                           ![o].when = IF rest # <<>> THEN @ \cup {"WRITE"} ELSE @]
AfterWriteSilent(o, q, written) ==
    ofd' = [ofd EXCEPT ![o].msg_queue = IF written THEN q ELSE <<loop.cb.msg>> \o q]
AfterWrite(o, q, written) ==
    LET rest == IF written THEN q ELSE <<loop.cb.msg>> \o q
    IN  ofd' = [ofd EXCEPT ![o].msg_queue = rest,
                           ![o].when = IF rest # <<>> THEN @ \cup {"WRITE"} ELSE @]

WriteReturns ==
    LET o == loop.cb.o
        n == ofd[o].fd
        room == n # 0 /\ "WRITE" \in ready[n]
        full == [ready EXCEPT ![n] = @ \ {"WRITE"}]
    IN  /\ loop.cb.kind = "write"
        /\ loop' = [loop EXCEPT !.cb = NoCallback]
        /\ \/ /\ n = 0
              /\ UNCHANGED <<ofd, ready, last, left>>
           \/ /\ room
              /\ AfterWrite(o, ofd[o].msg_queue, TRUE)
              /\ last' = [last EXCEPT ![o].written = loop.cb.msg]
              /\ ready' \in {ready, full}
              /\ UNCHANGED left
           \/ /\ n # 0 /\ (~room \/ left.again > 0)
              /\ AfterWrite(o, ofd[o].msg_queue, FALSE)
              /\ left' = [left EXCEPT !.again = IF room THEN @ - 1 ELSE @]
              /\ ready' = full
              /\ UNCHANGED last
        /\ UNCHANGED <<env, osmo_fds, table, timer, shutdown>>

Next ==
    \/ \E op \in Calls : op \in env.ops /\ Call(op)
    \/ \E n \in Numbers : Readable(n) \/ Writable(n)
    \/ Tick \/ Prepare \/ Poll \/ Interrupted \/ FireTimer \/ TimersFired
    \/ DispatchFd \/ FdsDispatched \/ TimerReturns \/ ReadReturns \/ WriteReturns

Spec == Init /\ [][Next]_vars

(* The program runs, callbacks return, time passes and peers read what they *)
(* are sent.                                                                *)
Fairness ==
    /\ WF_vars(Prepare \/ Poll \/ FireTimer \/ TimersFired \/ DispatchFd \/ FdsDispatched
               \/ TimerReturns \/ ReadReturns \/ WriteReturns)
    /\ WF_vars(Tick)
    /\ \A n \in Numbers : WF_vars(Writable(n))

FairSpec == Spec /\ Fairness

-----------------------------------------------------------------------------

(* osmo_timers_update(): whatever the callbacks before it did, the next     *)
(* timer to be fired is pending and due: it was neither deleted nor         *)
(* scheduled anew, and none is fired twice.                                 *)
EvictedAreDue ==
    /\ ToSet(loop.evict) \subseteq Due
    /\ IsInjective(loop.evict)

(* An osmo_fd that was freed, in its own callback or in that of another, is *)
(* neither found by poll_disp_fds() nor written to by osmo_wqueue_bfd_cb(). *)
NoUseAfterFree ==
    \A o \in Ofds : ofd[o].fd = 0 => /\ ofd[o] = Freed
                                     /\ o \notin ToSet(osmo_fds)
                                     /\ \A n \in Numbers : table[n] # o

(* A queue is written in the order in which it was filled, with the message *)
(* that had to be put back and those enqueued by write_cb() itself.         *)
WrittenInOrder ==
    \A o \in Ofds :
        LET open == ofd[o].fd # 0
            current == IF open /\ loop.cb.kind = "write" /\ loop.cb.o = o THEN <<loop.cb.msg>> ELSE <<>>
            seq == <<last[o].written>> \o current \o ofd[o].msg_queue
        IN  open => \A m, n \in DOMAIN seq : m < n => seq[m] < seq[n]

(* The loop does not sleep past a timer: one that is pending fires, unless  *)
(* it is deleted, or the program is shut down.                              *)
TimersFire == \A t \in Timers : timer[t].active ~> ~timer[t].active \/ shutdown.requested

(* What was accepted is written, cleared, or dropped with its queue, unless *)
(* the program shuts down.                                                  *)
QueuesDrain == \A o \in Ofds : ofd[o].msg_queue # <<>> ~> ofd[o].msg_queue = <<>> \/ shutdown.done

=============================================================================

-------------------------------- MODULE Fsm --------------------------------
(***************************************************************************)
(* Finite state machine instances and their termination cascades           *)
(* (src/core/fsm.c): parents and children, callbacks that call back into   *)
(* fsm.c, and the memory of the instances.                                 *)
(*                                                                         *)
(* fsm.c runs in one thread and calls user code at many points, which may  *)
(* call fsm.c again; so the state has the call stack, one frame for each   *)
(* function that still has something to do, and a step executes the part   *)
(* of the innermost function up to the next callback.  User code makes any *)
(* of the calls its program has there, on instances it was not told are     *)
(* gone.  Events, log output, names and T numbers are left out, except the *)
(* parent_term_event.                                                      *)
(***************************************************************************)
EXTENDS Naturals, Sequences, SequencesExt, FiniteSets

CONSTANTS
    Insts,          \* instances (memory that one may be allocated in)
    Programs,       \* programs that use them, see FsmAssumption
    None            \* no instance

Callbacks == {"main", "pre_term", "cleanup", "action", "onenter", "onleave", "timer_cb"}
CallKinds == {"term", "dispatch", "state_chg", "alloc", "change_parent",
              "unlink_parent", "term_children", "broadcast"}

(* A program says                                                           *)
(*   safely    fsm_term_safely_enabled,                                     *)
(*   dealloc   whether osmo_fsm_set_dealloc_ctx() was called with a context *)
(*             (both as set when the program starts),                       *)
(*   shape     the instances it allocates, with their parent, or None,      *)
(*   events    its parent_term_event values, 0 among them,                  *)
(*   calls     which calls it makes from which callback,                    *)
(*   bound     how many of them between two visits of the main loop.        *)
(* With broadcasts, actions make no calls: one that takes the next child    *)
(* off the list leaves the loop with the pointers llist_del() poisoned.     *)
ASSUME FsmAssumption ==
    /\ IsFiniteSet(Insts) /\ None \notin Insts
    /\ Insts \cap {"program", "collect", "dealloc"} = {}
    /\ \A p \in Programs :
          /\ DOMAIN p = {"safely", "dealloc", "shape", "events", "calls", "bound"}
          /\ p.safely \in BOOLEAN /\ p.dealloc \in BOOLEAN
          /\ DOMAIN p.shape \subseteq Insts
          /\ \A i \in DOMAIN p.shape : p.shape[i] \in Insts \cup {None}
          /\ 0 \in p.events
          /\ p.calls \in [Callbacks -> SUBSET CallKinds]
          /\ p.bound \in Nat
          /\ p.calls["action"] = {} \/ \A cb \in Callbacks : "broadcast" \notin p.calls[cb]

VARIABLES
    prog,     \* the program
    inst,     \* the instances
    stack,    \* the functions of fsm.c, and the callbacks, that are being executed
    depth,    \* fsm_term_safely.depth
    collect,  \* fsm_term_safely.collect_ctx exists
    calls     \* user calls since the main loop

vars == <<prog, inst, stack, depth, collect, calls>>

(* Besides the fields of struct osmo_fsm_inst: mem says whether the memory  *)
(* is allocated, ctx is its talloc parent (an instance, the program's, the  *)
(* collect_ctx or the dealloc_ctx), listed that it is in fsm->instances,    *)
(* cleaned that cleanup() was called, that is that the program was told.    *)
Unused == [mem |-> "none", ctx |-> "program", parent |-> None, event |-> 0,
           children |-> <<>>, listed |-> FALSE, terminating |-> FALSE,
           cleaned |-> FALSE, timer |-> FALSE]

Init ==
    /\ prog \in Programs
    /\ inst = [i \in Insts |-> Unused]
    /\ stack = <<>> /\ depth = 0 /\ collect = FALSE /\ calls = 0

Live(i) == inst[i].mem = "live"

(* llist_del() of an entry of a list of children.                           *)
Without(list, i) ==
    IF \E n \in DOMAIN list : list[n] = i
    THEN RemoveAt(list, CHOOSE n \in DOMAIN list : list[n] = i) ELSE list

-----------------------------------------------------------------------------
(* The call stack.  at is where the function continues when the callback    *)
(* above it returns.                                                        *)

Frame(fn, fi, at) == [fn |-> fn, fi |-> fi, at |-> at, child |-> None, event |-> 0,
                      cause |-> "PARENT"]
Callback(cb, fi) == Frame("user", fi, cb)

Top == Last(stack)
Below == Front(stack)
Running(fn, at) == stack # <<>> /\ Top.fn = fn /\ Top.at = at
Continue(at) == Append(Below, [Top EXCEPT !.at = at])

(* _osmo_fsm_inst_dispatch(): the stacks it may lead to.  The event is      *)
(* refused by a terminating instance and where the event masks do not have  *)
(* it; after the action nothing is left to do.                              *)
Dispatched(i, base) ==
    {base} \cup {Append(base, Callback("action", j)) :
                   j \in {j \in {i} : ~inst[j].terminating}}

(* The start of _osmo_fsm_inst_term(), up to pre_term(); the event for the  *)
(* parent is read here.                                                     *)
Term(i, cause, base) ==
    IF inst[i].terminating
    THEN stack' = base /\ UNCHANGED <<inst, depth>>
    ELSE /\ inst' = [inst EXCEPT ![i].terminating = TRUE]
         /\ depth' = IF prog.safely THEN depth + 1 ELSE depth
         /\ stack' = base \o
               << [Frame("term", i, "children") EXCEPT !.cause = cause,
                                                       !.event = inst[i].event],
                  Callback("pre_term", i) >>

-----------------------------------------------------------------------------
(* Memory *)

(* What is below roots by way of the field (ctx or parent), and roots: the  *)
(* least set with roots in which whatever is below a member is a member.    *)
Beneath(roots, field) ==
    LET closed(S) == \A j \in Insts : Live(j) /\ inst[j][field] \in S => j \in S
    IN  {i \in Insts : \A S \in SUBSET Insts : roots \subseteq S /\ closed(S) => i \in S}
(* What a talloc context holds, directly or not.                            *)
Owned(roots) == Beneath(roots, "ctx")

(* Mutants of InstFree: it frees at once; it frees the instance but not     *)
(* what was deferred.                                                       *)
InstFreeAtOnce(i, d) ==
    /\ inst' = [j \in Insts |-> IF j \in Owned({i})
                  THEN [inst[j] EXCEPT !.mem = "freed",
                                       !.timer = @ /\ j # i, !.listed = @ /\ j # i]
                  ELSE inst[j]]
    /\ UNCHANGED collect
InstFreeOnlyItself(i, d) ==
    LET off == [inst EXCEPT ![i].timer = FALSE, ![i].listed = FALSE]
    IN  IF d > 0
        THEN inst' = [off EXCEPT ![i].ctx = "collect"] /\ collect' = TRUE
        ELSE inst' = [off EXCEPT ![i].mem = "freed"] /\ UNCHANGED collect

(* osmo_fsm_inst_free() when the depth is d: deferred in a cascade, else    *)
(* the instance and all that was deferred is freed, or moved to the         *)
(* dealloc_ctx.                                                             *)
InstFree(i, d) ==
    LET off == [inst EXCEPT ![i].timer = FALSE, ![i].listed = FALSE]
        roots == {i} \cup {j \in Insts : Live(j) /\ inst[j].ctx = "collect"}
    IN  IF d > 0
        THEN inst' = [off EXCEPT ![i].ctx = "collect"] /\ collect' = TRUE
        ELSE /\ inst' = IF prog.dealloc
                        THEN [j \in Insts |-> IF j \in roots
                                THEN [off[j] EXCEPT !.ctx = "dealloc"] ELSE off[j]]
                        ELSE [j \in Insts |-> IF j \in Owned(roots)
                                THEN [off[j] EXCEPT !.mem = "freed"] ELSE off[j]]
             /\ collect' = FALSE

(* The main loop empties the dealloc_ctx (OTC_SELECT).                      *)
ClearDeallocCtx ==
    LET gone == Owned({j \in Insts : Live(j) /\ inst[j].ctx = "dealloc"})
    IN  /\ stack = <<>> /\ gone # {}
        /\ inst' = [j \in Insts |-> IF j \in gone
                       THEN [inst[j] EXCEPT !.mem = "freed"] ELSE inst[j]]
        /\ UNCHANGED <<stack, depth, collect>>

-----------------------------------------------------------------------------
(* _osmo_fsm_inst_term() after pre_term() *)

(* The children are terminated next.                                        *)
TermChildren ==
    /\ Running("term", "children")
    /\ stack' = Append(Continue("cleanup"), Frame("children", Top.fi, "loop"))
    /\ UNCHANGED <<inst, depth, collect>>

(* Off the list of the parent, then cleanup().                              *)
TermCleanup ==
    LET i == Top.fi
        p == inst[i].parent
        off == IF p = None THEN inst
               ELSE [inst EXCEPT ![p].children = Without(@, i)]
    IN  /\ Running("term", "cleanup")
        /\ inst' = [off EXCEPT ![i].cleaned = TRUE]
        /\ stack' = Append(Continue("notify"), Callback("cleanup", i))
        /\ UNCHANGED <<depth, collect>>

(* The parent's event; before it, without fsm_term_safely, the instance is  *)
(* freed.                                                                   *)
TermNotify ==
    LET i == Top.fi
        p == inst[i].parent
        base == IF depth = 0 THEN Below ELSE Continue("free")
    IN  /\ Running("term", "notify")
        /\ stack' \in IF p # None /\ Top.cause # "PARENT" THEN Dispatched(p, base)
                      ELSE {base}
        /\ IF depth = 0 THEN InstFree(i, 0) ELSE UNCHANGED <<inst, collect>>
        /\ UNCHANGED <<depth>>

TermFree ==
    /\ Running("term", "free")
    /\ depth' = depth - 1
    /\ InstFree(Top.fi, depth - 1)
    /\ stack' = Below

(* The loop of _osmo_fsm_inst_term_children(): the first child, until there *)
(* is none or it is the same as in the round before ("stuck").              *)
LoopEndsWhenEmpty == inst[Top.fi].children = <<>>   \* a mutant: no paranoia
LoopEnds == inst[Top.fi].children = <<>> \/ Head(inst[Top.fi].children) = Top.child
ChildrenLoop ==
    LET first == Head(inst[Top.fi].children)
    IN  /\ Running("children", "loop")
        /\ IF LoopEnds THEN stack' = Below /\ UNCHANGED <<inst, depth>>
           ELSE Term(first, Top.cause, Append(Below, [Top EXCEPT !.child = first]))
        /\ UNCHANGED collect

(* The loop of _osmo_fsm_inst_broadcast_children(): child is the one it     *)
(* comes to; the one after it is looked up before the event is dispatched.  *)
Successor(i, c) ==
    LET s == inst[i].children
        after == {n \in DOMAIN s : n > 1 /\ s[n - 1] = c}
    IN  IF after = {} THEN None ELSE s[CHOOSE n \in after : TRUE]
BroadcastLoop ==
    LET c == Top.child
    IN  /\ Running("broadcast", "loop")
        /\ stack' \in IF c = None THEN {Below}
                      ELSE Dispatched(c, Append(Below,
                              [Top EXCEPT !.child = Successor(Top.fi, c)]))
        /\ UNCHANGED <<inst, depth, collect>>

(* state_chg() after onleave(): the timer, then onenter(), and nothing.     *)
StateChgEnter ==
    /\ Running("state_chg", "timed") \/ Running("state_chg", "untimed")
    /\ inst' = [inst EXCEPT ![Top.fi].timer = @ \/ Top.at = "timed"]
    /\ stack' = Append(Below, Callback("onenter", Top.fi))
    /\ UNCHANGED <<depth, collect>>

-----------------------------------------------------------------------------
(* User code *)

(* User code is running: a callback, or the main loop.                      *)
InUser == stack # <<>> => Top.fn = "user"
Where == IF stack = <<>> THEN "main" ELSE Top.at

(* Instances the program still refers to: it drops its references when      *)
(* cleanup() tells it to.                                                   *)
Known == {i \in Insts : Live(i) /\ ~inst[i].cleaned}

MayCall(kind) == InUser /\ kind \in prog.calls[Where] /\ calls < prog.bound

UserReturn ==
    /\ InUser /\ stack # <<>>
    /\ stack' = Below
    /\ UNCHANGED <<inst, depth, collect>>

(* timer_cb() returns 1, or there is none: fsm_tmr_cb() terminates.         *)
TimerCbTerm ==
    /\ Running("user", "timer_cb") /\ Top.fi \in Known
    /\ Term(Top.fi, "TIMEOUT", Below)
    /\ UNCHANGED collect

TimerExpiry(i) ==
    /\ stack = <<>> /\ Live(i) /\ inst[i].timer
    /\ inst' = [inst EXCEPT ![i].timer = FALSE]
    /\ stack' = <<Callback("timer_cb", i)>>
    /\ UNCHANGED <<depth, collect>>

UserTerm(i) ==
    /\ MayCall("term")
    /\ Term(i, "REGULAR", stack)
    /\ UNCHANGED collect

UserDispatch(i) ==
    /\ MayCall("dispatch") /\ ~inst[i].terminating
    /\ stack' \in Dispatched(i, stack) \ {stack}
    /\ UNCHANGED <<inst, depth, collect>>

UserTermChildren(i) ==
    /\ MayCall("term_children")
    /\ \E cause \in {"PARENT", "REGULAR"} :
          stack' = Append(stack, [Frame("children", i, "loop") EXCEPT !.cause = cause])
    /\ UNCHANGED <<inst, depth, collect>>

UserBroadcast(i) ==
    /\ MayCall("broadcast") /\ inst[i].children # <<>>
    /\ stack' = Append(stack, [Frame("broadcast", i, "loop")
                                  EXCEPT !.child = Head(inst[i].children)])
    /\ UNCHANGED <<inst, depth, collect>>

(* state_chg() up to onleave(): refused by a terminating instance and by    *)
(* the out_state_mask; else the timer is deleted unless it is kept.         *)
UserStateChg(i) ==
    /\ MayCall("state_chg") /\ ~inst[i].terminating
    /\ \E keep \in BOOLEAN, at \in {"timed", "untimed"} :
          /\ inst' = [inst EXCEPT ![i].timer = @ /\ keep]
          /\ stack' = stack \o <<Frame("state_chg", i, at), Callback("onleave", i)>>
    /\ UNCHANGED <<depth, collect>>

(* osmo_fsm_inst_alloc(), and osmo_fsm_inst_alloc_child() if the program    *)
(* gives it a parent.  A child is put first.                                *)
UserAlloc(i) ==
    LET p == prog.shape[i]
        new(ev) == [Unused EXCEPT !.mem = "live", !.listed = TRUE, !.parent = p,
                                  !.event = ev, !.ctx = IF p = None THEN "program" ELSE p]
    IN  /\ MayCall("alloc") /\ ~Live(i)
        /\ p # None => p \in Known
        /\ \E ev \in IF p = None THEN {0} ELSE prog.events :
              inst' = [j \in Insts |-> IF j = i THEN new(ev)
                         ELSE IF j = p THEN [inst[j] EXCEPT !.children = <<i>> \o @]
                         ELSE inst[j]]
        /\ UNCHANGED <<stack, depth, collect>>

(* Mutants of Unlinked: the memory stays; the entry in the list stays.      *)
UnlinkedKeepsCtx(i, ctx) ==
    LET p == inst[i].parent
    IN  IF p = None THEN inst
        ELSE [inst EXCEPT ![i].parent = None, ![i].event = 0,
                          ![p].children = Without(@, i)]
UnlinkedStaysOnList(i, ctx) ==
    IF inst[i].parent = None THEN inst
    ELSE [inst EXCEPT ![i].ctx = ctx, ![i].parent = None, ![i].event = 0]

(* osmo_fsm_inst_unlink_parent(): the memory moves to ctx.                  *)
Unlinked(i, ctx) ==
    LET p == inst[i].parent
    IN  IF p = None THEN inst
        ELSE [inst EXCEPT ![i].ctx = ctx, ![i].parent = None, ![i].event = 0,
                          ![p].children = Without(@, i)]
UserUnlinkParent(i) ==
    /\ MayCall("unlink_parent")
    /\ inst' = Unlinked(i, "program")
    /\ UNCHANGED <<stack, depth, collect>>

(* osmo_fsm_inst_change_parent(), not to a descendant.                      *)
UserChangeParent(i) ==
    /\ MayCall("change_parent")
    /\ \E p \in Known \ Beneath({i}, "parent"), ev \in prog.events :
          inst' = [Unlinked(i, p) EXCEPT ![i].parent = p, ![i].event = ev,
                                         ![p].children = <<i>> \o @]
    /\ UNCHANGED <<stack, depth, collect>>

(* The user calls since the main loop are counted.                          *)
Count(n) == calls' = (IF stack' = <<>> THEN 0 ELSE calls + n) /\ UNCHANGED prog

(* The functions of fsm.c go on.                                            *)
Step ==
    /\ \/ TermChildren \/ TermCleanup \/ TermNotify \/ TermFree
       \/ ChildrenLoop \/ BroadcastLoop \/ StateChgEnter
       \/ UserReturn
    /\ Count(0)

UserCall ==
    /\ \/ \E i \in DOMAIN prog.shape : UserAlloc(i)
       \/ \E i \in Known :
             \/ UserTerm(i) \/ UserDispatch(i) \/ UserTermChildren(i)
             \/ UserBroadcast(i) \/ UserStateChg(i) \/ UserUnlinkParent(i)
             \/ UserChangeParent(i)
    /\ Count(1)

MainLoop ==
    /\ \/ TimerCbTerm
       \/ \E i \in Insts : TimerExpiry(i)
       \/ ClearDeallocCtx
    /\ Count(0)

Next == Step \/ UserCall \/ MainLoop

(* Callbacks return and functions go on.                                    *)
Spec == Init /\ [][Next]_vars /\ WF_vars(Step)

-----------------------------------------------------------------------------

(* What the innermost function is about to read or write: the instance it   *)
(* works on, and the parent that is unlinked from or notified.              *)
Touched ==
    CASE Top.fn = "term" /\ Top.at \in {"cleanup", "notify"} ->
            {Top.fi} \cup ({inst[Top.fi].parent} \ {None})
      [] Top.fn = "user" -> {}
      [] Top.fn = "broadcast" -> {Top.child} \ {None}
      [] OTHER -> {Top.fi}

(* fsm.c never works on memory that was freed, whatever the callbacks       *)
(* terminate: the promise of osmo_fsm_term_safely() and                     *)
(* osmo_fsm_set_dealloc_ctx().                                              *)
NoUseAfterFree == stack # <<>> => \A i \in Touched : Live(i)

(* No instance disappears unfinished: when its memory is freed, its own or  *)
(* with that of a parent, cleanup() was called, it is off fsm->instances    *)
(* and its timer is deleted.                                                *)
FreedAreFinished ==
    \A i \in Insts : inst[i].mem = "freed" =>
        inst[i].cleaned /\ ~inst[i].listed /\ ~inst[i].timer

(* Between callbacks the lists of children and the parent pointers agree.   *)
TreeConsistent ==
    \A i, p \in Known :
        inst[i].parent = p <=> \E n \in DOMAIN inst[p].children : inst[p].children[n] = i

(* When the main loop is back nothing of a cascade is left: the depth is 0, *)
(* nothing waits in the collect_ctx, no instance is half terminated.        *)
CascadeCompletes ==
    stack = <<>> =>
        /\ depth = 0 /\ ~collect
        /\ \A i \in Insts : Live(i) /\ inst[i].terminating => inst[i].cleaned
                                          /\ inst[i].ctx = "dealloc"

(* A termination comes to its end: no cycle of parents, children and        *)
(* callbacks keeps the loop over the children from ending.                  *)
TerminationEnds ==
    \A i \in Insts : inst[i].terminating ~> (inst[i].mem # "live" \/ inst[i].ctx = "dealloc")

=============================================================================

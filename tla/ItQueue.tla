------------------------------ MODULE ItQueue ------------------------------
(***************************************************************************)
(* The inter-thread message queue of src/core/it_q.c: producers append     *)
(* under the queue's mutex and only then, with the mutex released, bump an *)
(* eventfd; the receiving thread reads (and so clears) the eventfd and     *)
(* dequeues as many items as it was told of.                               *)
(*                                                                         *)
(* Every access to the list and to current_length holds the mutex, so one  *)
(* critical section is one action; the eventfd write and the eventfd read  *)
(* are outside of it and are actions of their own.                         *)
(***************************************************************************)
EXTENDS Naturals, Sequences, FiniteSets

CONSTANTS
    Producers,   \* threads that call _osmo_it_q_enqueue()
    Items,       \* the queue entries
    MaxLength,   \* q->max_length
    EfdMax       \* largest value an eventfd counter takes before write() blocks

ASSUME ProducersFinite == IsFiniteSet(Producers)
ASSUME LimitsAssumption == MaxLength \in Nat /\ EfdMax \in Nat \ {0}

VARIABLES
    registered,      \* the queue is in the global list it_queues
    has_cb,          \* a read_cb was given, so an eventfd exists
    list,            \* q->list
    current_length,  \* q->current_length
    efd,             \* counter of the eventfd
    ppc,             \* "incr": enqueued, mutex released, eventfd not yet bumped
    left             \* iterations osmo_it_q_fd_cb() still owes (val - i)

vars == <<registered, has_cb, list, current_length, efd, ppc, left>>

TypeOK ==
    /\ registered \in BOOLEAN
    /\ has_cb \in BOOLEAN
    /\ list \in Seq(Items)
    /\ current_length \in Nat
    /\ efd \in 0..EfdMax
    /\ ppc \in [Producers -> {"idle", "incr"}]
    /\ left \in 0..EfdMax

Init ==
    /\ registered = FALSE
    /\ has_cb = FALSE
    /\ list = <<>>
    /\ current_length = 0
    /\ efd = 0
    /\ ppc = [p \in Producers |-> "idle"]
    /\ left = 0

-----------------------------------------------------------------------------

(* osmo_it_q_alloc(): refused while a queue of this name is registered.     *)
Alloc(cb) ==
    /\ ~registered
    /\ registered' = TRUE
    /\ has_cb' = cb
    /\ list' = <<>>
    /\ current_length' = 0
    /\ efd' = 0
    /\ UNCHANGED <<ppc, left>>

(* The part of _osmo_it_q_enqueue() under the mutex; -ENOSPC when full.     *)
Enqueue(p, item) ==
    /\ registered
    /\ ppc[p] = "idle"
    /\ \A i \in DOMAIN list : list[i] # item
    /\ current_length + 1 <= MaxLength
    /\ list' = Append(list, item)
    /\ current_length' = current_length + 1
    /\ ppc' = [ppc EXCEPT ![p] = IF has_cb THEN "incr" ELSE "idle"]
    /\ UNCHANGED <<registered, has_cb, efd, left>>

(* eventfd_increment(), the tail of _osmo_it_q_enqueue(): write() blocks at *)
(* the counter's maximum.                                                   *)
Increment(p) ==
    /\ ppc[p] = "incr"
    /\ efd < EfdMax
    /\ efd' = efd + 1
    /\ ppc' = [ppc EXCEPT ![p] = "idle"]
    /\ UNCHANGED <<registered, has_cb, list, current_length, left>>

(* _osmo_it_q_dequeue() of a non-empty list.                                *)
PopFront ==
    /\ list # <<>>
    /\ list' = Tail(list)
    /\ current_length' = current_length - 1

(* osmo_it_q_dequeue() called directly by the user of the queue.            *)
Dequeue ==
    /\ registered
    /\ PopFront
    /\ UNCHANGED <<registered, has_cb, efd, ppc, left>>

(* A mutant of FdCb: the value read is taken as one event, not as a count.  *)
FdCbOneEvent ==
    /\ has_cb
    /\ left = 0
    /\ efd > 0
    /\ left' = 1
    /\ efd' = 0
    /\ UNCHANGED <<registered, has_cb, list, current_length, ppc>>

(* The read() at the start of osmo_it_q_fd_cb(): takes the whole counter.   *)
FdCb ==
    /\ has_cb
    /\ left = 0
    /\ efd > 0
    /\ left' = efd
    /\ efd' = 0
    /\ UNCHANGED <<registered, has_cb, list, current_length, ppc>>

(* One iteration of its loop; an empty list ends the loop.                  *)
FdCbLoop ==
    /\ left > 0
    /\ \/ PopFront /\ left' = left - 1
       \/ list = <<>> /\ left' = 0 /\ UNCHANGED <<list, current_length>>
    /\ UNCHANGED <<registered, has_cb, efd, ppc>>

(* A mutant of Flush: the counter is not reset.                             *)
FlushKeepsLength ==
    /\ registered
    /\ list # <<>>
    /\ list' = <<>>
    /\ UNCHANGED <<registered, has_cb, current_length, efd, ppc, left>>

(* osmo_it_q_flush(): the eventfd counter is left as it is.                 *)
Flush ==
    /\ registered
    /\ list # <<>>
    /\ list' = <<>>
    /\ current_length' = 0
    /\ UNCHANGED <<registered, has_cb, efd, ppc, left>>

(* osmo_it_q_destroy(): the owner calls it when no thread uses the queue.   *)
Destroy ==
    /\ registered
    /\ \A p \in Producers : ppc[p] = "idle"
    /\ left = 0
    /\ registered' = FALSE
    /\ has_cb' = FALSE
    /\ efd' = 0
    /\ list' = <<>>
    /\ current_length' = 0
    /\ UNCHANGED <<ppc, left>>

Next ==
    \/ \E cb \in BOOLEAN : Alloc(cb)
    \/ \E p \in Producers, item \in Items : Enqueue(p, item)
    \/ \E p \in Producers : Increment(p)
    \/ Dequeue
    \/ FdCb
    \/ FdCbLoop
    \/ Flush
    \/ Destroy

Spec == Init /\ [][Next]_vars

(* The receiving thread runs its select loop, and a producer that enqueued  *)
(* finishes its call.                                                       *)
Fairness ==
    /\ WF_vars(FdCb)
    /\ WF_vars(FdCbLoop)
    /\ \A p \in Producers : WF_vars(Increment(p))

FairSpec == Spec /\ Fairness

-----------------------------------------------------------------------------

Bumping == {p \in Producers : ppc[p] = "incr"}

(* current_length, maintained beside the list by enqueue, dequeue and flush,*)
(* is its length, and the list never exceeds max_length.                    *)
LengthAgrees == current_length = Len(list) /\ Len(list) <= MaxLength

(* No lost wake-up: every queued item is covered by the eventfd counter, by *)
(* a producer about to bump it, or by an iteration the running callback     *)
(* still owes -- although the bump happens after the mutex was released and *)
(* the read clears the whole counter at once.                               *)
NoLostWakeup ==
    has_cb => Len(list) <= efd + left + Cardinality(Bumping)

(* A queue with a read_cb always hands an item on (or sees it flushed).     *)
EveryItemLeaves ==
    \A item \in Items :
        (has_cb /\ \E i \in DOMAIN list : list[i] = item)
            ~> (\A i \in DOMAIN list : list[i] # item)

=============================================================================

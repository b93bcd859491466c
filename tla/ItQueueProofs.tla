--------------------------- MODULE ItQueueProofs ---------------------------
(* Proofs about the inter-thread queue, for any number of producers, any    *)
(* max_length and any eventfd limit.                                        *)
EXTENDS ItQueue, FiniteSetTheorems, TLAPS

(* The inductive invariant: NoLostWakeup alone is not inductive, because    *)
(* Destroy and Alloc need "no producer is bumping without an eventfd".      *)
Inv ==
    /\ TypeOK
    /\ LengthAgrees
    /\ NoLostWakeup
    /\ ~has_cb => efd = 0 /\ left = 0 /\ Bumping = {}
    /\ has_cb => registered

LEMMA BumpingFinite ==
    ASSUME NEW S \in SUBSET Producers
    PROVE  IsFiniteSet(S) /\ Cardinality(S) \in Nat
  BY ProducersFinite, FS_Subset, FS_CardinalityType

LEMMA InitInv == Init => Inv
  <1> SUFFICES ASSUME Init PROVE Inv
    OBVIOUS
  <1> USE LimitsAssumption DEF Init
  <1>1. TypeOK
    <2>1. registered \in BOOLEAN /\ has_cb \in BOOLEAN
      BY Zenon
    <2>2. list \in Seq(Items) /\ current_length \in Nat
          /\ efd \in 0..EfdMax /\ left \in 0..EfdMax
          /\ ppc \in [Producers -> {"idle", "incr"}]
      OBVIOUS
    <2> QED
      BY <2>1, <2>2 DEF TypeOK
  <1>2. Bumping = {}
    BY DEF Bumping
  <1> QED
    BY <1>1, <1>2 DEF Inv, LengthAgrees, NoLostWakeup

LEMMA NextInv == Inv /\ [Next]_vars => Inv'
  <1> SUFFICES ASSUME Inv, [Next]_vars PROVE Inv'
    OBVIOUS
  <1> USE LimitsAssumption
  <1>0. /\ TypeOK /\ LengthAgrees /\ NoLostWakeup
        /\ ~has_cb => efd = 0 /\ left = 0 /\ Bumping = {}
        /\ has_cb => registered
        /\ Bumping \in SUBSET Producers
        /\ Cardinality(Bumping) \in Nat /\ IsFiniteSet(Bumping)
        /\ Cardinality({}) = 0
    BY BumpingFinite, FS_EmptySet DEF Inv, Bumping
  <1>1. ASSUME NEW cb \in BOOLEAN, Alloc(cb) PROVE Inv'
    <2>1. Bumping' = {}
      BY <1>0, <1>1 DEF Alloc, Bumping, TypeOK
    <2>2. TypeOK'
      BY <1>0, <1>1 DEF Alloc, TypeOK
    <2> QED
      BY <1>0, <1>1, <2>1, <2>2 DEF Alloc, Inv, LengthAgrees, NoLostWakeup, TypeOK
  <1>2. ASSUME NEW p \in Producers, NEW item \in Items, Enqueue(p, item) PROVE Inv'
    <2>1. TypeOK'
      BY <1>0, <1>2 DEF Enqueue, TypeOK
    <2>2. Len(list') = Len(list) + 1 /\ current_length' = Len(list')
      BY <1>0, <1>2 DEF Enqueue, TypeOK, LengthAgrees
    <2>3. CASE has_cb
      <3>1. Bumping' = Bumping \cup {p} /\ p \notin Bumping
        BY <1>0, <1>2, <2>3 DEF Enqueue, Bumping, TypeOK
      <3>2. Cardinality(Bumping') = Cardinality(Bumping) + 1
        BY <1>0, <3>1, FS_AddElement
      <3> QED
        BY <1>0, <1>2, <2>1, <2>2, <2>3, <3>2
           DEF Enqueue, Inv, LengthAgrees, NoLostWakeup, TypeOK
    <2>4. CASE ~has_cb
      <3>1. Bumping' = Bumping
        BY <1>0, <1>2, <2>4 DEF Enqueue, Bumping, TypeOK
      <3> QED
        BY <1>0, <1>2, <2>1, <2>2, <2>4, <3>1
           DEF Enqueue, Inv, LengthAgrees, NoLostWakeup, TypeOK
    <2> QED
      BY <2>3, <2>4
  <1>3. ASSUME NEW p \in Producers, Increment(p) PROVE Inv'
    <2>1. TypeOK'
      BY <1>0, <1>3 DEF Increment, TypeOK
    <2>2. Bumping' = Bumping \ {p} /\ p \in Bumping
      BY <1>0, <1>3 DEF Increment, Bumping, TypeOK
    <2>3. Cardinality(Bumping') = Cardinality(Bumping) - 1
      BY <1>0, <2>2, FS_RemoveElement
    <2> QED
      BY <1>0, <1>3, <2>1, <2>2, <2>3
         DEF Increment, Inv, LengthAgrees, NoLostWakeup, TypeOK
  <1>4. ASSUME PopFront, UNCHANGED ppc PROVE
          /\ list' \in Seq(Items) /\ Len(list') = Len(list) - 1
          /\ current_length' \in Nat /\ current_length' = Len(list')
          /\ Len(list) > 0 /\ Bumping' = Bumping
    BY <1>0, <1>4 DEF PopFront, TypeOK, LengthAgrees, Bumping
  <1>5. CASE Dequeue
    BY <1>0, <1>4, <1>5 DEF Dequeue, Inv, LengthAgrees, NoLostWakeup, TypeOK
  <1>6. CASE FdCb
    <2>1. Bumping' = Bumping
      BY <1>6 DEF FdCb, Bumping
    <2> QED
      BY <1>0, <1>6, <2>1 DEF FdCb, Inv, LengthAgrees, NoLostWakeup, TypeOK
  <1>7. CASE FdCbLoop
    <2>1. CASE PopFront /\ left' = left - 1
      BY <1>0, <1>4, <1>7, <2>1 DEF FdCbLoop, Inv, LengthAgrees, NoLostWakeup, TypeOK
    <2>2. CASE list = <<>> /\ left' = 0 /\ UNCHANGED <<list, current_length>>
      <3>1. Bumping' = Bumping
        BY <1>7 DEF FdCbLoop, Bumping
      <3> QED
        BY <1>0, <1>7, <2>2, <3>1 DEF FdCbLoop, Inv, LengthAgrees, NoLostWakeup, TypeOK
    <2> QED
      BY <1>7, <2>1, <2>2 DEF FdCbLoop
  <1>8. CASE Flush
    <2>1. Bumping' = Bumping
      BY <1>8 DEF Flush, Bumping
    <2> QED
      BY <1>0, <1>8, <2>1 DEF Flush, Inv, LengthAgrees, NoLostWakeup, TypeOK
  <1>9. CASE Destroy
    <2>1. Bumping' = {}
      BY <1>0, <1>9 DEF Destroy, Bumping, TypeOK
    <2>2. registered' \in BOOLEAN /\ has_cb' \in BOOLEAN /\ ~has_cb'
      BY <1>9, Zenon DEF Destroy
    <2> QED
      BY <1>0, <1>9, <2>1, <2>2 DEF Destroy, Inv, LengthAgrees, NoLostWakeup, TypeOK
  <1>10. CASE UNCHANGED vars
    <2>1. Bumping' = Bumping
      BY <1>10 DEF vars, Bumping
    <2> QED
      BY <1>0, <1>10, <2>1 DEF vars, Inv, LengthAgrees, NoLostWakeup, TypeOK
  <1> QED
    BY <1>1, <1>2, <1>3, <1>5, <1>6, <1>7, <1>8, <1>9, <1>10 DEF Next

(* No wake-up is ever lost: whatever the number of producers and wherever   *)
(* they are between the mutex and the eventfd, each queued item is counted. *)
THEOREM NoLostWakeupHolds == Spec => []NoLostWakeup
  <1>1. Inv => NoLostWakeup
    BY DEF Inv
  <1> QED
    BY InitInv, NextInv, <1>1, PTL DEF Spec

(* The length counter and the limit max_length are kept by every operation. *)
THEOREM LengthAgreesHolds == Spec => []LengthAgrees
  <1>1. Inv => LengthAgrees
    BY DEF Inv
  <1> QED
    BY InitInv, NextInv, <1>1, PTL DEF Spec

=============================================================================

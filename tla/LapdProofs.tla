----------------------------- MODULE LapdProofs -----------------------------
(***************************************************************************)
(* What the proofs about one datalink (LapdDlProofs) and about two of them *)
(* (LapdLinkProofs) share: the fields of a datalink, and the recursion of  *)
(* lapd_send_i().                                                          *)
(***************************************************************************)
EXTENDS Lapd, WellFoundedInduction, TLAPS

(* A datalink is a record with exactly these fields.                        *)
Fields == {"mode", "state", "v_send", "v_ack", "v_recv", "seq_err_cond",
           "peer_busy", "retrans_ctr", "t200", "t203", "tx_queue", "tx_hist",
           "send_queue", "send_buffer", "send_out", "rcv_buffer", "cont_res",
           "ph", "up"}
IsDl(d) == d = [x \in Fields |-> d[x]]

-----------------------------------------------------------------------------
(* Least elements, and the recursion of Rounds. *)

LEMMA LeastElement ==
    ASSUME NEW T \in SUBSET Nat, T # {}
    PROVE  \E x \in T : \A y \in T : x <= y
  <1> DEFINE R == OpToRel(<, Nat)
  <1>1. IsWellFoundedOn(R, Nat)
    BY NatLessThanWellFounded
  <1>2. PICK x \in T : \A y \in T : ~ (<<y, x>> \in R)
    <2> HIDE DEF R
    <2> QED
      BY <1>1, WFMin
  <1>3. \A y \in T : ~(y < x)
    BY <1>2 DEF OpToRel
  <1> QED
    BY <1>3

(* A function that satisfies the recursion of Rounds up to k exists: else   *)
(* take the least k for which there is none and extend the one for k - 1.   *)
LEMMA RoundsExist ==
    ASSUME NEW d, NEW k \in Nat
    PROVE  \E r : r = [n \in 0..k |-> IF n = 0 THEN d ELSE SendFrame(r[n - 1])]
  <1> DEFINE Def(j) ==
                \E r : r = [n \in 0..j |-> IF n = 0 THEN d ELSE SendFrame(r[n - 1])]
             T == {j \in Nat : ~Def(j)}
  <1> SUFFICES ASSUME T # {} PROVE FALSE
    OBVIOUS
  <1>1. PICK x \in T : \A y \in T : x <= y
    <2> HIDE DEF Def
    <2>1. T \in SUBSET Nat
      OBVIOUS
    <2> HIDE DEF T
    <2> QED
      BY <2>1, LeastElement
  <1>2. CASE x = 0
    <2> DEFINE r == [n \in 0..0 |-> d]
    <2>1. \A n \in 0..0 : n = 0
      OBVIOUS
    <2>2. r = [n \in 0..0 |-> IF n = 0 THEN d ELSE SendFrame(r[n - 1])]
      BY <2>1
    <2>3. Def(0)
      BY <2>2
    <2> QED
      BY <2>3, <1>1, <1>2
  <1>3. CASE x # 0
    <2>1. x - 1 \in Nat /\ x \in Nat /\ x - 1 \notin T
      <3>1. x \in Nat
        <4> HIDE DEF Def
        <4> QED
          BY <1>1
      <3> HIDE DEF T
      <3> QED
        BY <1>1, <1>3, <3>1
    <2>2. PICK r : r = [n \in 0..(x - 1) |-> IF n = 0 THEN d ELSE SendFrame(r[n - 1])]
      BY <2>1
    <2> DEFINE s == [n \in 0..x |-> IF n = x THEN SendFrame(r[x - 1]) ELSE r[n]]
    <2>3. \A n \in 0..(x-1) : s[n] = r[n]
      BY <2>1
    <2>4. ASSUME NEW n \in 0..x
          PROVE  s[n] = IF n = 0 THEN d ELSE SendFrame(s[n - 1])
      <3>1. CASE n = x
        BY <3>1, <2>1, <2>3, <1>3
      <3>2. CASE n # x
        <4>1. n \in 0..(x-1)
          BY <3>2, <2>1
        <4>2. s[n] = IF n = 0 THEN d ELSE SendFrame(r[n - 1])
          BY <4>1, <2>3, <2>2
        <4>3. n # 0 => n - 1 \in 0..(x-1)
          BY <4>1, <2>1
        <4> QED
          BY <4>2, <4>3, <2>3
      <3> QED
        BY <3>1, <3>2
    <2>5. s = [n \in 0..x |-> IF n = 0 THEN d ELSE SendFrame(s[n - 1])]
      <3>1. s = [n \in 0..x |-> s[n]]
        OBVIOUS
      <3> HIDE DEF s
      <3> QED
        BY <3>1, <2>4
    <2>6. Def(x)
      BY <2>5
    <2> QED
      BY <2>6, <1>1
  <1> QED
    BY <1>2, <1>3

LEMMA RoundsEquation ==
    ASSUME NEW d
    PROVE  Rounds(d) =
             [n \in 0..VRange |-> IF n = 0 THEN d ELSE SendFrame(Rounds(d)[n - 1])]
  BY RoundsExist, ParamAssumption DEF Rounds

=============================================================================

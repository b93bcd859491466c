--------------------------- MODULE LapdLinkProofs ---------------------------
(***************************************************************************)
(* Proofs about two LAPD datalinks and the channels between them           *)
(* (LapdLink), for every window, modulus, history and environment, and for *)
(* frames that go to L1 at once: the sender's window is kept, and a sender *)
(* with unacknowledged frames has T200 running or has given up.  Each      *)
(* holds as long as what arrives from the peer fits (AcksValid and         *)
(* AsksForHeld).                                                           *)
(*                                                                         *)
(* The invariant, Windowed(d, g), is about the history as frames in a row: *)
(* it holds the frames V(A) + lo up to V(A) + hi - 1.  In multiple frame   *)
(* operation V(S) is V(A) + hi.  lo is 0 if g; otherwise an N(R) that is   *)
(* not valid, which frees slots and does not move V(A), and a suspension   *)
(* may leave a gap.                                                        *)
(***************************************************************************)
EXTENDS LapdLink, LapdProofs, FiniteSetTheorems

Seqs == 0..(VRange - 1)

(* The frames that lapd_core.c sends: no RNR, no FRMR, and DISC only as a    *)
(* command without an information field.                                    *)
Proper(f) ==
    \/ f.format = "U" /\ f.s_u \in {"SABM", "DM", "UI", "UA"}
    \/ f.format = "U" /\ f.s_u = "DISC" /\ f.cr = "cmd" /\ f.info = 0
    \/ f.format = "S" /\ f.s_u \in {"RR", "REJ"} /\ f.nr \in Seqs
    \/ f.format = "I" /\ f.cr = "cmd" /\ f.nr \in Seqs
AllProper(s) == \E S : s \in Seq(S) /\ \A f \in S : Proper(f)

(* No entry of the history has an information field.                        *)
Plain(h) == \A x \in DOMAIN h : h[x].info = 0

(* A datalink whose frames go to L1 at once, and whose peer is never busy.  *)
Formed(d) ==
    /\ ~Rts /\ IsDl(d) /\ d.state \in States
    /\ d.v_send \in Seqs /\ d.v_ack \in Seqs /\ d.v_recv \in Seqs
    /\ d.peer_busy = FALSE /\ d.retrans_ctr \in Nat
    /\ d.state = "DISC_SENT" => Plain(d.tx_hist)
    /\ AllProper(d.ph)

(* The history slots of the frames V(A) + lo up to V(A) + hi - 1.           *)
Part(a, lo, hi) == {Slot(AddMod(a, i)) : i \in lo..(hi - 1)}

(* The history is such a part; all from V(A) on, if g.                      *)
Holds(d, g, lo, hi) == lo <= hi /\ (g => lo = 0) /\ DOMAIN d.tx_hist = Part(d.v_ack, lo, hi)
Held(d, g) == \E lo, hi \in 0..K : Holds(d, g, lo, hi)

(* Multiple frame operation: the history ends at V(S), T200 guards it.      *)
Est(d, g) ==
    /\ Formed(d) /\ d.state = "MF_EST"
    /\ \E lo, hi \in 0..K :
          /\ Holds(d, g, lo, hi)
          /\ d.v_send = AddMod(d.v_ack, hi)
          /\ lo = hi \/ d.t200 # "off"

(* The same before lapd_send_i(): V(S) may have been set back.              *)
Sending(d, g) ==
    /\ Formed(d) /\ d.state = "MF_EST"
    /\ \E lo, hi, j \in 0..K :
          /\ Holds(d, g, lo, hi) /\ lo <= j /\ j <= hi
          /\ d.v_send = AddMod(d.v_ack, j)
          /\ lo = hi \/ d.t200 # "off" \/ j = lo

(* Timer recovery: V(S) is anywhere.                                        *)
Rec(d, g) ==
    /\ Formed(d) /\ d.state = "TIMER_RECOV" /\ Held(d, g)
    /\ DOMAIN d.tx_hist = {} \/ d.t200 # "off" \/ GivenUp(d)

Windowed(d, g) ==
    /\ Formed(d)
    /\ d.state = "MF_EST" => Est(d, g)
    /\ d.state = "TIMER_RECOV" => Rec(d, g)

(* e differs from d in nothing that these speak of.                         *)
Alike(d, e) ==
    /\ IsDl(e) /\ e.state = d.state
    /\ e.v_send = d.v_send /\ e.v_ack = d.v_ack
    /\ d.v_recv \in Seqs => e.v_recv \in Seqs
    /\ e.tx_hist = d.tx_hist /\ e.t200 = d.t200
    /\ e.peer_busy = d.peer_busy /\ e.retrans_ctr = d.retrans_ctr
    /\ AllProper(d.ph) => AllProper(e.ph)

-----------------------------------------------------------------------------
(* Sequence numbers *)

(* Division with remainder, and its uniqueness.                             *)
LEMMA ModDef ==
    ASSUME NEW x \in Int, NEW m \in Nat \ {0}
    PROVE  x % m \in 0..(m - 1) /\ x = m * (x \div m) + (x % m) /\ x \div m \in Int
  BY SMT

LEMMA ModUnique ==
    ASSUME NEW m \in Nat \ {0}, NEW q \in Int, NEW r \in 0..(m - 1)
    PROVE  (m * q + r) % m = r
  BY SMT

(* The operators on sequence numbers.                                       *)
LEMMA SeqFacts ==
    ASSUME NEW a \in Seqs, NEW i \in Nat
    PROVE  /\ AddMod(a, i) \in Seqs /\ IncMod(a) \in Seqs
           /\ \A b \in Seqs : SubMod(b, a) \in Seqs /\ AddMod(a, SubMod(b, a)) = b
           /\ i \in Seqs => SubMod(AddMod(a, i), a) = i
           /\ IncMod(AddMod(a, i)) = AddMod(a, i + 1)
           /\ i > 0 => SubMod(AddMod(a, i), 1) = AddMod(a, i - 1)
           /\ \A k \in Nat : AddMod(AddMod(a, i), k) = AddMod(a, i + k)
  <1>1. VRange \in Nat \ {0} /\ a \in Int
    BY ParamAssumption DEF Seqs
  <1>2. AddMod(a, i) \in Seqs /\ IncMod(a) \in Seqs
    BY <1>1, ModDef DEF AddMod, IncMod, Seqs
  <1>3. ASSUME NEW x \in Int, NEW y \in Int
        PROVE  ((x % VRange) + y) % VRange = (x + y) % VRange
    <2> DEFINE r == (x + y) % VRange
               q == (x + y) \div VRange
               p == x \div VRange
    <2>1. r \in 0..(VRange - 1) /\ q \in Int /\ x + y = VRange * q + r
      BY <1>1, ModDef
    <2>2. p \in Int /\ x = VRange * p + (x % VRange) /\ x % VRange \in Int
      BY <1>1, ModDef
    <2> HIDE DEF r, q, p
    <2>3. (x % VRange) + y = VRange * (q - p) + r
      BY <1>1, <2>1, <2>2
    <2>4. (VRange * (q - p) + r) % VRange = r
      BY <1>1, <2>1, <2>2, ModUnique
    <2> QED
      BY <2>3, <2>4 DEF r
  <1>4. ASSUME NEW x \in Seqs PROVE x % VRange = x
    <2>1. (VRange * 0 + x) % VRange = x
      BY <1>1, ModUnique DEF Seqs
    <2> QED
      BY <1>1, <2>1 DEF Seqs
  <1>5. ASSUME NEW b \in Seqs
        PROVE  SubMod(b, a) \in Seqs /\ AddMod(a, SubMod(b, a)) = b
    <2>1. SubMod(b, a) \in Seqs
      BY <1>1, ModDef DEF SubMod, Seqs
    <2>0. b - a \in Int
      BY <1>1 DEF Seqs
    <2>2. (((b - a) % VRange) + a) % VRange = (b - a + a) % VRange
      BY <2>0, <1>1, <1>3, Zenon
    <2>3. AddMod(a, SubMod(b, a)) = b % VRange
      BY <1>1, <2>1, <2>2 DEF AddMod, SubMod, Seqs
    <2> QED
      BY <1>4, <2>1, <2>3
  <1>6. i \in Seqs => SubMod(AddMod(a, i), a) = i
    <2>0. a + i \in Int /\ 0 - a \in Int
      BY <1>1
    <2>1. (((a + i) % VRange) + (0 - a)) % VRange = (a + i + (0 - a)) % VRange
      BY <2>0, <1>3, Zenon
    <2>2. (a + i) % VRange \in Int
      BY <1>1, ModDef
    <2> QED
      BY <1>1, <1>4, <2>1, <2>2 DEF SubMod, AddMod
  <1>9. ASSUME NEW k \in Nat PROVE AddMod(AddMod(a, i), k) = AddMod(a, i + k)
    <2>0. a + i \in Int /\ k \in Int /\ a + i + k = a + (i + k)
      BY <1>1
    <2>1. (((a + i) % VRange) + k) % VRange = (a + i + k) % VRange
      BY <2>0, <1>3, Zenon
    <2> QED
      BY <2>0, <2>1 DEF AddMod
  <1>7. IncMod(AddMod(a, i)) = AddMod(a, i + 1)
    BY <1>9 DEF IncMod, AddMod
  <1>8. SubMod(AddMod(a, i), 1) = AddMod(a, i - 1)
    <2>0. a + i \in Int /\ 0 - 1 \in Int
      BY <1>1
    <2>1. (((a + i) % VRange) + (0 - 1)) % VRange = (a + i + (0 - 1)) % VRange
      BY <2>0, <1>3, Zenon
    <2>2. (a + i) % VRange \in Int
      BY <1>1, ModDef
    <2> QED
      BY <1>1, <2>1, <2>2 DEF SubMod, AddMod
  <1> QED
    BY <1>2, <1>5, <1>6, <1>7, <1>8, <1>9

(* Fewer than HistRange frames in a row have slots of their own.            *)
LEMMA SlotsDistinct ==
    ASSUME NEW a \in Seqs, NEW i \in 0..K, NEW k \in 0..K,
           Slot(AddMod(a, i)) = Slot(AddMod(a, k))
    PROVE  i = k
  <1>1. VRange \in Nat \ {0} /\ HistRange \in Nat \ {0} /\ K \in Nat /\ K < HistRange /\ a \in Int
    BY ParamAssumption, HistAssumption DEF Seqs
  <1>2. PICK t \in Int : VRange = HistRange * t
    <2>1. VRange = HistRange * (VRange \div HistRange) + (VRange % HistRange) /\ VRange \div HistRange \in Int
      BY <1>1, ModDef
    <2>2. VRange = HistRange * (VRange \div HistRange)
      <3> DEFINE u == HistRange * (VRange \div HistRange)
      <3>1. u \in Int /\ VRange = u + (VRange % HistRange) /\ VRange % HistRange = 0
        BY <1>1, <2>1, HistAssumption
      <3> HIDE DEF u
      <3>2. VRange = u
        BY <3>1
      <3> QED
        BY <3>2 DEF u
    <2> QED
      BY <2>1, <2>2, Zenon
  <1>3. ASSUME NEW x \in Int
        PROVE  \E q \in Int : x = HistRange * q + Slot(x % VRange)
    <2> DEFINE y == x % VRange
    <2>1. y \in Int /\ x = VRange * (x \div VRange) + y /\ x \div VRange \in Int
      BY <1>1, ModDef
    <2> HIDE DEF y
    <2>2. y = HistRange * (y \div HistRange) + (y % HistRange) /\ y \div HistRange \in Int /\ y % HistRange \in Int
      BY <1>1, <2>1, ModDef
    <2> DEFINE u == x \div VRange
               v == y \div HistRange
               w == y % HistRange
    <2>3. u \in Int /\ v \in Int /\ w \in Int /\ x = VRange * u + y /\ y = HistRange * v + w
      BY <2>1, <2>2
    <2> HIDE DEF u, v, w
    <2>4. x = (HistRange * t) * u + (HistRange * v + w)
      BY <1>2, <2>3, Zenon
    <2>5. x = HistRange * (t * u + v) + w /\ t * u + v \in Int
      BY <1>1, <1>2, <2>3, <2>4
    <2>6. w = Slot(x % VRange)
      BY DEF Slot, w, y
    <2> QED
      BY <2>5, <2>6, Zenon
  <1>0. a + i \in Int /\ a + k \in Int
    BY <1>1
  <1>4. PICK q \in Int : a + i = HistRange * q + Slot((a + i) % VRange)
    BY <1>0, <1>3, Zenon
  <1>5. PICK p \in Int : a + k = HistRange * p + Slot((a + k) % VRange)
    BY <1>0, <1>3, Zenon
  <1>6. Slot((a + i) % VRange) \in Int
    BY <1>1, ModDef DEF Slot
  <1>7. i - k = HistRange * (q - p)
    BY <1>1, <1>4, <1>5, <1>6 DEF AddMod
  <1>8. q - p = 0
    <2>1. CASE q - p >= 1
      <3>1. HistRange * (q - p) >= HistRange
        BY <1>1, <2>1
      <3> QED
        BY <1>1, <1>7, <3>1
    <2>2. CASE q - p <= -1
      <3>1. HistRange * (q - p) <= -HistRange
        BY <1>1, <2>2
      <3> QED
        BY <1>1, <1>7, <3>1
    <2> QED
      BY <2>1, <2>2
  <1> QED
    BY <1>1, <1>7, <1>8

(* The slots of frames in a row: which are among them, one more of them.    *)
LEMMA PartFacts ==
    ASSUME NEW a \in Seqs, NEW lo \in 0..K, NEW hi \in 0..K, lo <= hi
    PROVE  /\ \A j \in 0..hi : Slot(AddMod(a, j)) \in Part(a, lo, hi) <=> lo <= j /\ j < hi
           /\ Part(a, lo, hi) = {} <=> lo = hi
           /\ Part(a, lo, hi) \cup {Slot(AddMod(a, hi))} = Part(a, lo, hi + 1)
  <1>1. K \in Nat
    BY ParamAssumption
  <1>2. ASSUME NEW j \in 0..hi
        PROVE  Slot(AddMod(a, j)) \in Part(a, lo, hi) <=> lo <= j /\ j < hi
    <2>1. ASSUME Slot(AddMod(a, j)) \in Part(a, lo, hi) PROVE lo <= j /\ j < hi
      <3>1. PICK i \in lo..(hi - 1) : Slot(AddMod(a, j)) = Slot(AddMod(a, i))
        BY <2>1 DEF Part
      <3>2. i \in 0..K /\ j \in 0..K
        BY <1>1
      <3>3. i = j
        BY <3>1, <3>2, SlotsDistinct
      <3> QED
        BY <3>3
    <2>2. ASSUME lo <= j, j < hi PROVE Slot(AddMod(a, j)) \in Part(a, lo, hi)
      <3>1. j \in lo..(hi - 1)
        BY <2>2
      <3> QED
        BY <3>1 DEF Part
    <2> QED
      BY <2>1, <2>2
  <1>3. Part(a, lo, hi) = {} <=> lo = hi
    <2>1. ASSUME lo # hi PROVE lo \in lo..(hi - 1)
      BY <2>1
    <2>2. ASSUME lo = hi PROVE lo..(hi - 1) = {}
      BY <2>2
    <2> QED
      BY <2>1, <2>2 DEF Part
  <1>4. Part(a, lo, hi) \cup {Slot(AddMod(a, hi))} = Part(a, lo, hi + 1)
    <2>1. lo..(hi + 1 - 1) = (lo..(hi - 1)) \cup {hi}
      OBVIOUS
    <2> QED
      BY <2>1 DEF Part
  <1> QED
    BY <1>2, <1>3, <1>4

(* What an N(R) leaves of them.                                             *)
LEMMA PartLeft ==
    ASSUME NEW a \in Seqs, NEW nr \in Seqs, NEW lo \in 0..K, NEW hi \in 0..K, lo <= hi,
           NEW j, j = SubMod(nr, a)
    PROVE  /\ j <= hi => Part(a, lo, hi) \ Part(a, 0, j) =
                            Part(nr, IF lo <= j THEN 0 ELSE lo - j, hi - j)
           /\ j >= hi => Part(a, lo, hi) \ Part(a, 0, j) = {}
           /\ j \in Seqs
  <1>1. K \in Nat /\ VRange \in Nat /\ K < VRange
    BY ParamAssumption
  <1>2. j \in Seqs /\ nr = AddMod(a, j)
    BY SeqFacts
  <1>3. ASSUME j >= hi PROVE Part(a, lo, hi) \ Part(a, 0, j) = {}
    <2>1. lo..(hi - 1) \subseteq 0..(j - 1)
      BY <1>2, <1>3 DEF Seqs
    <2> QED
      BY <2>1 DEF Part
  <1>4. ASSUME j <= hi
        PROVE  Part(a, lo, hi) \ Part(a, 0, j) = Part(nr, IF lo <= j THEN 0 ELSE lo - j, hi - j)
    <2> DEFINE l == IF lo <= j THEN 0 ELSE lo - j
    <2>0. j \in 0..hi /\ j \in 0..K /\ l \in 0..K /\ l + j >= lo /\ (l = 0 \/ l + j = lo)
      BY <1>1, <1>2, <1>4 DEF Seqs
    <2> HIDE DEF l
    <2>1. ASSUME NEW i \in 0..K PROVE AddMod(nr, i) = AddMod(a, j + i)
      <3>1. j \in Nat /\ i \in Nat
        BY <2>0
      <3> QED
        BY <3>1, <1>2, SeqFacts
    <2>2. ASSUME NEW x \in Part(a, lo, hi), x \notin Part(a, 0, j)
          PROVE  x \in Part(nr, l, hi - j)
      <3>1. PICK i \in lo..(hi - 1) : x = Slot(AddMod(a, i))
        BY DEF Part
      <3>2. ~(i \in 0..(j - 1))
        BY <2>2, <3>1 DEF Part
      <3>3. i - j \in l..(hi - j - 1) /\ i - j \in 0..K /\ j + (i - j) = i
        BY <1>1, <2>0, <3>1, <3>2
      <3>4. x = Slot(AddMod(nr, i - j))
        BY <2>1, <3>1, <3>3
      <3> QED
        BY <3>3, <3>4 DEF Part
    <2>3. ASSUME NEW x \in Part(nr, l, hi - j)
          PROVE  x \in Part(a, lo, hi) /\ x \notin Part(a, 0, j)
      <3>1. PICK i \in l..(hi - j - 1) : x = Slot(AddMod(nr, i))
        BY DEF Part
      <3>2. i \in 0..K /\ j + i \in lo..(hi - 1) /\ j + i \in 0..K /\ ~(j + i < j)
        BY <1>1, <2>0, <3>1
      <3>3. x = Slot(AddMod(a, j + i))
        BY <2>1, <3>1, <3>2
      <3>4. x \notin Part(a, 0, j)
        <4> SUFFICES ASSUME x \in Part(a, 0, j) PROVE FALSE
          OBVIOUS
        <4>1. PICK k \in 0..(j - 1) : x = Slot(AddMod(a, k))
          BY DEF Part
        <4>2. k \in 0..K /\ k < j
          BY <1>1, <2>0, <4>1
        <4>3. k = j + i
          BY <3>2, <3>3, <4>1, <4>2, SlotsDistinct
        <4> QED
          BY <3>2, <4>2, <4>3
      <3> QED
        BY <3>2, <3>3, <3>4 DEF Part
    <2>4. Part(a, lo, hi) \ Part(a, 0, j) = Part(nr, l, hi - j)
      BY <2>2, <2>3
    <2> QED
      BY <2>4 DEF l
  <1> QED
    BY <1>2, <1>3, <1>4

-----------------------------------------------------------------------------
(* Steps that leave alone what the invariant speaks of *)

LEMMA AlikeKeeps ==
    ASSUME NEW d, NEW e, NEW g, Alike(d, e)
    PROVE  /\ Formed(d) => Formed(e)
           /\ Held(d, g) => Held(e, g)
           /\ Est(d, g) => Est(e, g)
           /\ Sending(d, g) => Sending(e, g)
           /\ Rec(d, g) => Rec(e, g)
           /\ Windowed(d, g) => Windowed(e, g)
  <1>1. Formed(d) => Formed(e)
    BY DEF Alike, Formed
  <1>2. \A lo, hi : Holds(d, g, lo, hi) => Holds(e, g, lo, hi)
    BY DEF Alike, Holds
  <1>3. GivenUp(d) => GivenUp(e)
    BY DEF Alike, GivenUp
  <1>4. Est(d, g) => Est(e, g)
    BY <1>1, <1>2 DEF Alike, Est
  <1>5. Sending(d, g) => Sending(e, g)
    BY <1>1, <1>2 DEF Alike, Sending
  <1>6. Held(d, g) => Held(e, g)
    BY <1>2 DEF Held
  <1>7. Rec(d, g) => Rec(e, g)
    BY <1>1, <1>3, <1>6 DEF Alike, Rec
  <1> QED
    BY <1>1, <1>4, <1>5, <1>6, <1>7 DEF Windowed, Alike

LEMMA ProperAppend ==
    ASSUME NEW s, NEW f, AllProper(s), Proper(f)
    PROVE  AllProper(Append(s, f))
  <1>1. PICK S : s \in Seq(S) /\ \A x \in S : Proper(x)
    BY DEF AllProper
  <1> DEFINE T == S \cup {f}
  <1>2. s \in Seq(T) /\ f \in T /\ \A x \in T : Proper(x)
    BY <1>1
  <1> HIDE DEF T
  <1>3. Append(s, f) \in Seq(T)
    BY <1>2
  <1> QED
    BY <1>2, <1>3 DEF AllProper

LEMMA ProperConcat ==
    ASSUME NEW s, NEW t, AllProper(s), AllProper(t)
    PROVE  AllProper(s \o t)
  <1>1. PICK S : s \in Seq(S) /\ \A x \in S : Proper(x)
    BY DEF AllProper
  <1>2. PICK T : t \in Seq(T) /\ \A x \in T : Proper(x)
    BY DEF AllProper
  <1> DEFINE U == S \cup T
  <1>3. s \in Seq(U) /\ t \in Seq(U) /\ \A x \in U : Proper(x)
    BY <1>1, <1>2
  <1> HIDE DEF U
  <1>4. s \o t \in Seq(U)
    BY <1>3
  <1> QED
    BY <1>3, <1>4 DEF AllProper

LEMMA ProperRest ==
    ASSUME NEW s, AllProper(s), s # <<>>
    PROVE  Proper(Head(s)) /\ AllProper(Tail(s))
  <1>1. PICK S : s \in Seq(S) /\ \A x \in S : Proper(x)
    BY DEF AllProper
  <1>2. Head(s) \in S /\ Tail(s) \in Seq(S)
    BY <1>1
  <1> QED
    BY <1>1, <1>2 DEF AllProper

LEMMA ProperNone == AllProper(<<>>)
  <1> DEFINE S == {}
  <1>1. <<>> \in Seq(S) /\ \A f \in S : Proper(f)
    OBVIOUS
  <1> HIDE DEF S
  <1> QED
    BY <1>1 DEF AllProper

LEMMA AlikeUp ==
    ASSUME NEW d, IsDl(d), NEW p
    PROVE  Alike(d, SendDlSimple(d, p)) /\ Alike(d, MdlError(d, p)) /\ Alike(d, DataInd(d, p))
  BY DEF SendDlSimple, MdlError, DataInd, Alike, IsDl, Fields

LEMMA AlikePh ==
    ASSUME NEW d, IsDl(d), ~Rts, NEW f, Proper(f)
    PROVE  Alike(d, SendPh(d, f))
  <1>1. SendPh(d, f) = [d EXCEPT !.ph = Append(d.ph, f)]
    BY DEF SendPh
  <1>2. AllProper(d.ph) => AllProper(Append(d.ph, f))
    BY ProperAppend
  <1> DEFINE s == Append(d.ph, f)
  <1> HIDE DEF s
  <1>3. SendPh(d, f) = [d EXCEPT !.ph = s]
    BY <1>1 DEF s
  <1> QED
    BY <1>2, <1>3 DEF Alike, IsDl, Fields, s

LEMMA AlikeFrames ==
    ASSUME NEW d, Formed(d), NEW f, NEW x, NEW y
    PROVE  /\ Alike(d, SendUA(d, f, x)) /\ Alike(d, SendDM(d, f))
           /\ Alike(d, SendRR(d, x, y)) /\ Alike(d, SendREJ(d, x))
           /\ Alike(d, UdataReq(d, x)) /\ Alike(d, AnswerPoll(d, f))
  <1>1. \A p : Proper(p) => Alike(d, SendPh(d, p))
    BY AlikePh DEF Formed
  <1>2. Alike(d, d)
    BY DEF Alike, Formed
  <1>3. \A u \in {"DM", "UI", "UA"} : \A a, b, c : Proper(UFrame(u, a, b, c))
    BY DEF Proper, UFrame
  <1>4. \A u \in {"RR", "REJ"} : \A a, b : Proper(SFrame(u, a, b, d.v_recv))
    BY DEF Proper, SFrame, Formed
  <1>5. Alike(d, SendRR(d, x, y)) /\ Alike(d, SendREJ(d, x)) /\ Alike(d, SendRR(d, 1, "resp"))
    BY <1>1, <1>4 DEF SendRR, SendREJ
  <1>6. Alike(d, SendUA(d, f, x)) /\ Alike(d, SendDM(d, f)) /\ Alike(d, UdataReq(d, x))
    BY <1>1, <1>3 DEF SendUA, SendDM, UdataReq
  <1> QED
    BY <1>2, <1>5, <1>6 DEF AnswerPoll

(* A repeated DISC has no information field either.                         *)
LEMMA AlikeResend ==
    ASSUME NEW d, Formed(d), d.state \in {"SABM_SENT", "DISC_SENT"},
           Slot(d.v_send) \in DOMAIN d.tx_hist
    PROVE  Alike(d, SendResend(d))
  <1> DEFINE x == d.tx_hist[Slot(d.v_send)].info
             u == IF d.state = "SABM_SENT" THEN "SABM" ELSE "DISC"
             f == UFrame(u, "cmd", 1, x)
  <1>1. d.state = "DISC_SENT" => x = 0
    BY DEF Formed, Plain
  <1> HIDE DEF x
  <1>2. Proper(f)
    BY <1>1 DEF Proper, UFrame
  <1>3. SendResend(d) = SendPh(d, f)
    BY DEF SendResend, x
  <1> HIDE DEF f
  <1> QED
    BY <1>2, <1>3, AlikePh DEF Formed

LEMMA AlikeBuffers ==
    ASSUME NEW d, IsDl(d), NEW f
    PROVE  /\ Alike(d, FlushSend(d)) /\ Alike(d, FlushTxQueue(d))
           /\ Alike(d, LoadBuffer(d)) /\ Alike(d, UpdatePendingFrames(d))
           /\ Alike(d, Reassemble(d, f)) /\ Alike(d, ForgetBuffer(d, f))
           /\ Alike(d, StopT203(d))
  <1>1. Alike(d, FlushSend(d)) /\ Alike(d, FlushTxQueue(d)) /\ Alike(d, StopT203(d))
    BY DEF FlushSend, FlushTxQueue, StopT203, Alike, IsDl, Fields
  <1>2. Alike(d, LoadBuffer(d))
    BY DEF LoadBuffer, Alike, IsDl, Fields
  <1>3. Alike(d, UpdatePendingFrames(d))
    BY DEF UpdatePendingFrames, Alike, IsDl, Fields
  <1>4. Alike(d, Reassemble(d, f)) /\ Alike(d, ForgetBuffer(d, f))
    BY DEF Reassemble, ForgetBuffer, DataInd, Alike, IsDl, Fields
  <1> QED
    BY <1>1, <1>2, <1>3, <1>4

-----------------------------------------------------------------------------
(* lapd_send_i() *)

LEMMA Timed ==
    ASSUME NEW d, Formed(d)
    PROVE  /\ Formed(StartT200(d)) /\ StartT200(d).t200 # "off"
           /\ Formed(StopT200(d)) /\ StopT200(d).t200 = "off"
           /\ \A e \in {StartT200(d), StopT200(d)} :
                 /\ e.state = d.state /\ e.v_send = d.v_send /\ e.v_ack = d.v_ack
                 /\ e.v_recv = d.v_recv /\ e.tx_hist = d.tx_hist
                 /\ e.retrans_ctr = d.retrans_ctr
  <1>1. StartT200(d).t200 # "off" /\ StopT200(d).t200 = "off"
    BY DEF StartT200, StopT200, IsDl, Fields, Formed
  <1>2. \A e \in {StartT200(d), StopT200(d)} :
           /\ IsDl(e) /\ e.state = d.state /\ e.v_send = d.v_send /\ e.v_ack = d.v_ack
           /\ e.v_recv = d.v_recv /\ e.tx_hist = d.tx_hist
           /\ e.retrans_ctr = d.retrans_ctr /\ e.peer_busy = d.peer_busy /\ e.ph = d.ph
    BY DEF StartT200, StopT200, IsDl, Fields, Formed
  <1> QED
    BY <1>1, <1>2 DEF Formed

LEMMA Transmitted ==
    ASSUME NEW d, Formed(d), NEW t, t = TransmitHist(d)
    PROVE  /\ Formed(t) /\ t.state = d.state /\ t.v_ack = d.v_ack
           /\ t.tx_hist = d.tx_hist /\ t.v_send = IncMod(d.v_send) /\ t.t200 # "off"
  <1> DEFINE next == [d EXCEPT !.v_send = IncMod(@)]
             timed == IF next.t200 = "off" THEN StartT200(StopT203(next)) ELSE next
             x == d.tx_hist[Slot(d.v_send)]
             f == IFrame(d.v_send, d.v_recv, 0, x.seg, x.more)
  <1>1. IncMod(d.v_send) \in Seqs
    BY SeqFacts DEF Formed
  <1>2. Formed(next) /\ next.state = d.state /\ next.v_ack = d.v_ack
        /\ next.tx_hist = d.tx_hist /\ next.v_send = IncMod(d.v_send)
    BY <1>1 DEF Formed, IsDl, Fields
  <1> HIDE DEF next
  <1>3. Formed(timed) /\ timed.state = d.state /\ timed.v_ack = d.v_ack
        /\ timed.tx_hist = d.tx_hist /\ timed.v_send = IncMod(d.v_send) /\ timed.t200 # "off"
    <2> DEFINE n == StopT203(next)
    <2>1. Alike(next, n)
      BY <1>2, AlikeBuffers DEF Formed
    <2>2. Formed(n)
      BY <1>2, <2>1, AlikeKeeps
    <2> HIDE DEF n
    <2>3. /\ Formed(StartT200(n)) /\ StartT200(n).t200 # "off"
          /\ StartT200(n).state = n.state /\ StartT200(n).v_send = n.v_send
          /\ StartT200(n).v_ack = n.v_ack /\ StartT200(n).tx_hist = n.tx_hist
      BY <2>2, Timed
    <2> QED
      BY <1>2, <2>1, <2>3 DEF Alike, n
  <1> HIDE DEF timed
  <1>4. Proper(f)
    BY DEF Proper, IFrame, Formed
  <1> HIDE DEF f
  <1>5. Alike(timed, SendPh(timed, f))
    BY <1>3, <1>4, AlikePh DEF Formed
  <1>6. t = SendPh(timed, f)
    BY DEF TransmitHist, timed, next, f, x
  <1>7. Formed(t)
    BY <1>3, <1>5, <1>6, AlikeKeeps
  <1> QED
    BY <1>3, <1>5, <1>6, <1>7 DEF Alike

LEMMA Stored ==
    ASSUME NEW d, Formed(d), NEW t, t = StoreNextSegment(d)
    PROVE  /\ Formed(t) /\ t.state = d.state /\ t.v_ack = d.v_ack /\ t.v_send = d.v_send
           /\ DOMAIN t.tx_hist = DOMAIN d.tx_hist \cup {Slot(d.v_send)}
  <1> DEFINE h == Slot(d.v_send)
             n == d.send_out + 1
             x == HistEntry(0, d.send_buffer[1], n)
             hist == [y \in DOMAIN d.tx_hist \cup {h} |-> IF y = h THEN x ELSE d.tx_hist[y]]
  <1>1. DOMAIN hist = DOMAIN d.tx_hist \cup {h}
    OBVIOUS
  <1>2. t = [[d EXCEPT !.tx_hist = hist] EXCEPT !.send_out = n]
    BY DEF StoreNextSegment, StoreHist
  <1> HIDE DEF hist, n
  <1>3. t.tx_hist = hist /\ t.state = d.state /\ t.v_ack = d.v_ack /\ t.v_send = d.v_send
        /\ IsDl(t) /\ t.v_recv = d.v_recv /\ t.peer_busy = d.peer_busy
        /\ t.retrans_ctr = d.retrans_ctr /\ t.ph = d.ph
    BY <1>2 DEF Formed, IsDl, Fields
  <1>4. Plain(d.tx_hist) => Plain(hist)
    <2>1. x.info = 0
      BY DEF HistEntry
    <2> HIDE DEF x
    <2> QED
      BY <2>1 DEF Plain, hist
  <1> QED
    BY <1>1, <1>3, <1>4 DEF Formed

(* One round: V(S) moves on through the history, or a segment is added.     *)
LEMMA RoundSends ==
    ASSUME NEW d, NEW g, NEW lo \in 0..K, NEW hi \in 0..K, NEW j \in 0..K,
           Formed(d), d.state = "MF_EST",
           Holds(d, g, lo, hi), lo <= j, j <= hi, d.v_send = AddMod(d.v_ack, j),
           lo = hi \/ d.t200 # "off" \/ j = lo,
           NEW e, e = SendFrame(d)
    PROVE  /\ Formed(e) /\ e.state = "MF_EST"
           /\ \E top, k \in 0..K :
                 /\ Holds(e, g, lo, top) /\ lo <= k /\ k <= top
                 /\ e.v_send = AddMod(e.v_ack, k)
                 /\ lo = top \/ e.t200 # "off" \/ k = lo
                 /\ j = hi => k = top
                 /\ j < hi => k = j + 1
  <1>1. d.v_ack \in Seqs /\ K \in Nat /\ K \in Seqs /\ VRange \in Nat
    BY ParamAssumption DEF Formed, Seqs
  <1>6. /\ \A i \in 0..hi : Slot(AddMod(d.v_ack, i)) \in Part(d.v_ack, lo, hi) <=> lo <= i /\ i < hi
        /\ Part(d.v_ack, lo, hi) \cup {Slot(AddMod(d.v_ack, hi))} = Part(d.v_ack, lo, hi + 1)
        /\ DOMAIN d.tx_hist = Part(d.v_ack, lo, hi)
    <2>1. lo <= hi /\ DOMAIN d.tx_hist = Part(d.v_ack, lo, hi)
      BY DEF Holds
    <2> QED
      BY <1>1, <2>1, PartFacts
  <1>7. IncMod(d.v_send) = AddMod(d.v_ack, j + 1)
    <2>1. j \in Nat
      OBVIOUS
    <2>2. IncMod(AddMod(d.v_ack, j)) = AddMod(d.v_ack, j + 1)
      BY <1>1, <2>1, SeqFacts
    <2> QED
      BY <2>2
  <1>2. MaySend(d) <=> j # K
    <2>1. j \in Seqs /\ j \in Nat
      BY <1>1 DEF Seqs
    <2>2. SubMod(AddMod(d.v_ack, j), d.v_ack) = j /\ SubMod(AddMod(d.v_ack, K), d.v_ack) = K
      BY <1>1, <2>1, SeqFacts
    <2>3. d.v_send # AddMod(d.v_ack, K) <=> j # K
      BY <2>2
    <2> QED
      BY <2>3 DEF MaySend, Formed
  <1>3. CASE j = K
    <2>1. e = d /\ hi = j
      BY <1>2, <1>3, <1>1 DEF SendFrame
    <2> QED
      BY <2>1, <1>1
  <1>4. CASE j # K /\ j < hi
    <2>1. Slot(d.v_send) \in DOMAIN d.tx_hist
      BY <1>4, <1>6
    <2>2. e = TransmitHist(d)
      BY <1>2, <1>4, <2>1 DEF SendFrame
    <2>3. Formed(e) /\ e.state = "MF_EST" /\ e.v_ack = d.v_ack
          /\ e.tx_hist = d.tx_hist /\ e.v_send = IncMod(d.v_send) /\ e.t200 # "off"
      BY <2>2, Transmitted
    <2>4. e.v_send = AddMod(e.v_ack, j + 1) /\ j + 1 \in 0..K
      BY <1>1, <1>4, <1>7, <2>3
    <2>5. Holds(e, g, lo, hi)
      BY <2>3 DEF Holds
    <2> QED
      BY <1>4, <2>3, <2>4, <2>5
  <1>5. CASE j # K /\ j = hi
    <2> DEFINE b == LoadBuffer(d)
               t == StoreNextSegment(b)
    <2>1. Slot(d.v_send) \notin DOMAIN d.tx_hist
      BY <1>5, <1>6
    <2>2. Alike(d, b) /\ Formed(b)
      <3>1. Alike(d, b)
        BY AlikeBuffers DEF Formed
      <3> QED
        BY <3>1, AlikeKeeps
    <2>3. e = IF b.send_buffer = <<>> THEN b ELSE TransmitHist(t)
      BY <1>2, <1>5, <2>1 DEF SendFrame
    <2> HIDE DEF b
    <2>4. CASE b.send_buffer = <<>>
      <3>1. e = b
        BY <2>3, <2>4
      <3>2. Holds(e, g, lo, hi)
        BY <2>2, <3>1 DEF Alike, Holds
      <3> QED
        BY <1>5, <2>2, <3>1, <3>2 DEF Alike
    <2>5. CASE b.send_buffer # <<>>
      <3>1. /\ Formed(t) /\ t.state = b.state /\ t.v_ack = b.v_ack /\ t.v_send = b.v_send
            /\ DOMAIN t.tx_hist = DOMAIN b.tx_hist \cup {Slot(b.v_send)}
        BY <2>2, Stored
      <3> HIDE DEF t
      <3>2. Formed(e) /\ e.state = "MF_EST" /\ e.v_ack = d.v_ack
            /\ e.tx_hist = t.tx_hist /\ e.v_send = IncMod(d.v_send) /\ e.t200 # "off"
        BY <2>2, <2>3, <2>5, <3>1, Transmitted DEF Alike
      <3>3. e.v_send = AddMod(e.v_ack, hi + 1) /\ hi + 1 \in 0..K
        BY <1>1, <1>5, <1>7, <3>2
      <3>4. DOMAIN e.tx_hist = Part(e.v_ack, lo, hi + 1)
        BY <1>5, <1>6, <2>2, <3>1, <3>2 DEF Alike
      <3>5. Holds(e, g, lo, hi + 1)
        BY <3>4 DEF Holds
      <3> QED
        BY <1>5, <3>2, <3>3, <3>5
    <2> QED
      BY <2>4, <2>5
  <1> QED
    BY <1>3, <1>4, <1>5

(* After n rounds V(S) is at the end of the history, or n frames further.   *)
Rounded(d, g, lo, n) ==
    /\ Formed(d) /\ d.state = "MF_EST"
    /\ \E hi, j \in 0..K :
          /\ Holds(d, g, lo, hi) /\ lo <= j /\ j <= hi
          /\ d.v_send = AddMod(d.v_ack, j)
          /\ lo = hi \/ d.t200 # "off" \/ j = lo
          /\ j = hi \/ j >= n

LEMMA SendIEst ==
    ASSUME NEW d, NEW g, Sending(d, g)
    PROVE  Est(SendI(d), g)
  <1>0. VRange \in Nat /\ K \in Nat /\ K < VRange /\ ~Rts
    BY ParamAssumption DEF Sending, Formed
  <1>1. PICK lo \in 0..K : Rounded(d, g, lo, 0)
    <2>1. PICK lo \in 0..K, hi \in 0..K, j \in 0..K :
              /\ Holds(d, g, lo, hi) /\ lo <= j /\ j <= hi
              /\ d.v_send = AddMod(d.v_ack, j)
              /\ lo = hi \/ d.t200 # "off" \/ j = lo
      BY DEF Sending
    <2>2. j >= 0
      BY <1>0
    <2> QED
      BY <2>1, <2>2 DEF Sending, Rounded
  <1>2. ASSUME NEW c, NEW n \in Nat, Rounded(c, g, lo, n)
        PROVE  Rounded(SendFrame(c), g, lo, n + 1)
    <2> DEFINE e == SendFrame(c)
    <2>1. PICK hi \in 0..K, j \in 0..K :
              /\ Holds(c, g, lo, hi) /\ lo <= j /\ j <= hi
              /\ c.v_send = AddMod(c.v_ack, j)
              /\ lo = hi \/ c.t200 # "off" \/ j = lo
              /\ j = hi \/ j >= n
      BY <1>2 DEF Rounded
    <2>2. /\ Formed(e) /\ e.state = "MF_EST"
          /\ \E top, k \in 0..K :
                /\ Holds(e, g, lo, top) /\ lo <= k /\ k <= top
                /\ e.v_send = AddMod(e.v_ack, k)
                /\ lo = top \/ e.t200 # "off" \/ k = lo
                /\ j = hi => k = top
                /\ j < hi => k = j + 1
      BY <1>2, <2>1, RoundSends DEF Rounded
    <2> HIDE DEF e
    <2>3. PICK top \in 0..K, k \in 0..K :
                /\ Holds(e, g, lo, top) /\ lo <= k /\ k <= top
                /\ e.v_send = AddMod(e.v_ack, k)
                /\ lo = top \/ e.t200 # "off" \/ k = lo
                /\ j = hi => k = top
                /\ j < hi => k = j + 1
      BY <2>2
    <2>4. k = top \/ k >= n + 1
      BY <1>0, <2>1, <2>3
    <2>5. Rounded(e, g, lo, n + 1)
      BY <2>2, <2>3, <2>4 DEF Rounded
    <2> QED
      BY <2>5 DEF e
  <1> DEFINE r == Rounds(d)
             T == {n \in Nat : n <= VRange /\ ~Rounded(r[n], g, lo, n)}
  <1>3. \A n \in 0..VRange : r[n] = IF n = 0 THEN d ELSE SendFrame(r[n - 1])
    BY RoundsEquation, <1>0
  <1> HIDE DEF r
  <1>4. T = {}
    <2> SUFFICES ASSUME T # {} PROVE FALSE
      OBVIOUS
    <2>1. T \in SUBSET Nat
      OBVIOUS
    <2>2. PICK x \in T : \A y \in T : x <= y
      <3> HIDE DEF T
      <3> QED
        BY <2>1, LeastElement
    <2>3. x \in 0..VRange /\ ~Rounded(r[x], g, lo, x)
      BY <2>2, <1>0
    <2>4. CASE x = 0
      BY <2>3, <2>4, <1>1, <1>3
    <2>5. CASE x # 0
      <3>1. x - 1 \in Nat /\ x - 1 <= VRange /\ ~(x <= x - 1) /\ (x - 1) + 1 = x
        BY <2>3, <2>5, <1>0
      <3>2. Rounded(r[x - 1], g, lo, x - 1)
        BY <3>1, <2>2
      <3>3. r[x] = SendFrame(r[x - 1])
        BY <2>3, <2>5, <1>3
      <3>4. Rounded(SendFrame(r[x - 1]), g, lo, (x - 1) + 1)
        BY <3>1, <3>2, <1>2
      <3> QED
        BY <2>3, <3>1, <3>3, <3>4
    <2> QED
      BY <2>4, <2>5
  <1>5. Rounded(r[VRange], g, lo, VRange)
    BY <1>0, <1>4
  <1> DEFINE e == r[VRange]
  <1>6. e = SendI(d)
    BY <1>0 DEF SendI, r
  <1> HIDE DEF e
  <1>7. PICK hi \in 0..K, j \in 0..K :
            /\ Holds(e, g, lo, hi) /\ lo <= j /\ j <= hi
            /\ e.v_send = AddMod(e.v_ack, j)
            /\ lo = hi \/ e.t200 # "off" \/ j = lo
            /\ j = hi \/ j >= VRange
    BY <1>5 DEF Rounded, e
  <1>8. j = hi
    BY <1>0, <1>7
  <1>9. Est(e, g)
    BY <1>5, <1>7, <1>8 DEF Est, Rounded, e
  <1> QED
    BY <1>6, <1>9

(* In timer recovery it does nothing.                                       *)
LEMMA SendIFormed ==
    ASSUME NEW d, Formed(d)
    PROVE  /\ Formed(SendI(d)) /\ SendI(d).state = d.state
           /\ d.state = "TIMER_RECOV" => SendI(d) = d
  <1>0. VRange \in Nat /\ ~Rts
    BY ParamAssumption DEF Formed
  <1> DEFINE Ok(e) == Formed(e) /\ e.state = d.state /\ (d.state = "TIMER_RECOV" => e = d)
             r == Rounds(d)
             T == {n \in Nat : n <= VRange /\ ~Ok(r[n])}
  <1>2. ASSUME NEW c, Ok(c)
        PROVE  Ok(SendFrame(c))
    <2> DEFINE b == LoadBuffer(c)
               t == StoreNextSegment(b)
               u == TransmitHist(t)
               v == TransmitHist(c)
    <2>1. Alike(c, b) /\ Formed(b) /\ b.state = c.state
      <3>1. Alike(c, b)
        BY <1>2, AlikeBuffers DEF Formed
      <3> QED
        BY <1>2, <3>1, AlikeKeeps DEF Alike
    <2> HIDE DEF b
    <2>2. Formed(t) /\ t.state = c.state
      BY <2>1, Stored
    <2> HIDE DEF t
    <2>3. Formed(u) /\ u.state = c.state
      BY <2>2, Transmitted
    <2>4. Formed(v) /\ v.state = c.state
      BY <1>2, Transmitted
    <2> HIDE DEF u, v
    <2>5. d.state = "TIMER_RECOV" => SendFrame(c) = c
      BY <1>2 DEF SendFrame, MaySend
    <2>6. SendFrame(c) = c \/ SendFrame(c) = v \/ SendFrame(c) = b \/ SendFrame(c) = u
      BY DEF SendFrame, u, v, t, b
    <2> QED
      BY <1>2, <2>1, <2>3, <2>4, <2>5, <2>6
  <1>1. Ok(d)
    OBVIOUS
  <1> HIDE DEF Ok
  <1>3. \A n \in 0..VRange : r[n] = IF n = 0 THEN d ELSE SendFrame(r[n - 1])
    BY RoundsEquation, <1>0
  <1> HIDE DEF r
  <1>4. T = {}
    <2> SUFFICES ASSUME T # {} PROVE FALSE
      OBVIOUS
    <2>1. T \in SUBSET Nat
      OBVIOUS
    <2>2. PICK x \in T : \A y \in T : x <= y
      <3> HIDE DEF T
      <3> QED
        BY <2>1, LeastElement
    <2>3. x \in 0..VRange /\ ~Ok(r[x])
      BY <2>2, <1>0
    <2>4. CASE x = 0
      BY <2>3, <2>4, <1>1, <1>3
    <2>5. CASE x # 0
      <3>1. x - 1 \in Nat /\ x - 1 <= VRange /\ ~(x <= x - 1)
        BY <2>3, <2>5, <1>0
      <3>2. Ok(r[x - 1])
        BY <3>1, <2>2
      <3>3. r[x] = SendFrame(r[x - 1])
        BY <2>3, <2>5, <1>3
      <3> QED
        BY <1>2, <2>3, <3>2, <3>3
    <2> QED
      BY <2>4, <2>5
  <1>5. Ok(r[VRange])
    BY <1>0, <1>4
  <1>6. SendI(d) = r[VRange]
    BY <1>0 DEF SendI, r
  <1> QED
    BY <1>5, <1>6 DEF Ok

LEMMA EstSends ==
    ASSUME NEW d, NEW g, Est(d, g)
    PROVE  Sending(d, g)
  <1>1. PICK lo \in 0..K, hi \in 0..K :
            Holds(d, g, lo, hi) /\ d.v_send = AddMod(d.v_ack, hi) /\ (lo = hi \/ d.t200 # "off")
    BY DEF Est
  <1>2. lo <= hi /\ hi <= hi
    BY <1>1, ParamAssumption DEF Holds
  <1> QED
    BY <1>1, <1>2 DEF Est, Sending

LEMMA SendIWindowed ==
    ASSUME NEW d, NEW g, Windowed(d, g)
    PROVE  Windowed(SendI(d), g) /\ SendI(d).state = d.state
  <1>1. Formed(SendI(d)) /\ SendI(d).state = d.state
        /\ (d.state = "TIMER_RECOV" => SendI(d) = d)
    BY SendIFormed DEF Windowed
  <1>2. d.state = "MF_EST" => Est(SendI(d), g)
    BY EstSends, SendIEst DEF Windowed
  <1> QED
    BY <1>1, <1>2 DEF Windowed

-----------------------------------------------------------------------------
(* lapd_acknowledge() *)

AckOf(d, nr, a) ==
    /\ Formed(a) /\ a.state = d.state /\ a.v_send = d.v_send /\ a.v_recv = d.v_recv
    /\ a.retrans_ctr = d.retrans_ctr
    /\ DOMAIN a.tx_hist = Left(d, nr)
    /\ a.v_ack = IF NrSequenceError(d, nr) THEN d.v_ack ELSE nr
    /\ d.state = "TIMER_RECOV" => a.t200 = d.t200

LEMMA Acknowledged ==
    ASSUME NEW d, Formed(d), NEW nr \in Seqs, NEW rej
    PROVE  AckOf(d, nr, Acknowledge(d, nr, rej))
  <1>a. PICK a : a = Acknowledge(d, nr, rej)
    OBVIOUS
  <1> DEFINE hist == [h \in Left(d, nr) |-> d.tx_hist[h]]
             freed == [d EXCEPT !.tx_hist = hist]
             reset == d.state # "TIMER_RECOV" /\ (rej <=> nr = d.v_ack)
             stopped == IF reset THEN StopT200(freed) ELSE freed
             moved == IF reset /\ ~rej THEN RestartT200(stopped) ELSE stopped
             on == moved.t200 = "off" /\ T203On /\ d.state = "MF_EST"
             done == [moved EXCEPT !.v_ack = nr, !.t203 = on]
             Kept(e) == /\ Formed(e) /\ e.state = d.state /\ e.v_send = d.v_send
                        /\ e.v_recv = d.v_recv /\ e.retrans_ctr = d.retrans_ctr
                        /\ e.tx_hist = hist
  <1>0. a = IF NrSequenceError(d, nr) THEN stopped ELSE done
    BY <1>a DEF Acknowledge, Left
  <1>1. DOMAIN hist = Left(d, nr) /\ (Plain(d.tx_hist) => Plain(hist))
    BY DEF Plain, Left
  <1> HIDE DEF hist
  <1>2. Kept(freed) /\ freed.v_ack = d.v_ack /\ freed.t200 = d.t200
    BY <1>1 DEF Formed, IsDl, Fields
  <1> HIDE DEF freed
  <1>3. Kept(stopped) /\ stopped.v_ack = d.v_ack /\ (~reset => stopped.t200 = d.t200)
    BY <1>2, Timed
  <1> HIDE DEF stopped
  <1>4. Kept(moved) /\ moved.v_ack = d.v_ack /\ (~reset => moved.t200 = d.t200)
    BY <1>3, Timed DEF RestartT200
  <1> HIDE DEF moved
  <1>5. Kept(done) /\ done.v_ack = nr /\ done.t200 = moved.t200
    <2> HIDE DEF on
    <2> QED
      BY <1>4 DEF Formed, IsDl, Fields
  <1> HIDE DEF done
  <1>8. d.state = "TIMER_RECOV" => ~reset
    OBVIOUS
  <1> HIDE DEF reset
  <1>9. ASSUME NrSequenceError(d, nr) PROVE AckOf(d, nr, a)
    <2>1. a = stopped
      BY <1>0, <1>9
    <2> QED
      BY <1>1, <1>3, <1>8, <1>9, <2>1 DEF AckOf
  <1>10. ASSUME ~NrSequenceError(d, nr) PROVE AckOf(d, nr, a)
    <2>1. a = done
      BY <1>0, <1>10
    <2> QED
      BY <1>1, <1>4, <1>5, <1>8, <1>10, <2>1 DEF AckOf
  <1>11. AckOf(d, nr, a)
    BY <1>9, <1>10
  <1> QED
    BY <1>a, <1>11

LEMMA AckRestarts ==
    ASSUME NEW d, Formed(d), NEW nr \in Seqs, NEW a, a = Acknowledge(d, nr, FALSE)
    PROVE  /\ nr = d.v_ack => a.t200 = d.t200
           /\ nr # d.v_ack /\ d.state # "TIMER_RECOV" /\ ~NrSequenceError(d, nr)
                 /\ Slot(SubMod(d.v_send, 1)) \in Left(d, nr) => a.t200 # "off"
  <1> DEFINE hist == [h \in Left(d, nr) |-> d.tx_hist[h]]
             freed == [d EXCEPT !.tx_hist = hist]
             reset == d.state # "TIMER_RECOV" /\ nr # d.v_ack
             stopped == IF reset THEN StopT200(freed) ELSE freed
             moved == IF reset THEN RestartT200(stopped) ELSE stopped
             on == moved.t200 = "off" /\ T203On /\ d.state = "MF_EST"
             done == [moved EXCEPT !.v_ack = nr, !.t203 = on]
             Kept(e) == Formed(e) /\ e.v_send = d.v_send /\ e.tx_hist = hist
  <1>0. a = IF NrSequenceError(d, nr) THEN stopped ELSE done
    BY DEF Acknowledge, Left
  <1>1. DOMAIN hist = Left(d, nr) /\ (Plain(d.tx_hist) => Plain(hist))
    BY DEF Plain, Left
  <1> HIDE DEF hist
  <1>2. Kept(freed) /\ freed.t200 = d.t200
    BY <1>1 DEF Formed, IsDl, Fields
  <1> HIDE DEF freed
  <1>3. Kept(stopped) /\ (~reset => stopped.t200 = d.t200)
    BY <1>2, Timed
  <1> HIDE DEF stopped
  <1>4. /\ Kept(moved) /\ (~reset => moved.t200 = d.t200)
        /\ reset /\ Slot(SubMod(d.v_send, 1)) \in Left(d, nr) => moved.t200 # "off"
    BY <1>1, <1>3, Timed DEF RestartT200
  <1> HIDE DEF moved
  <1>5. done.t200 = moved.t200
    <2> HIDE DEF on
    <2> QED
      BY <1>4 DEF Formed, IsDl, Fields
  <1> HIDE DEF done
  <1> QED
    BY <1>0, <1>3, <1>4, <1>5

LEMMA LeftPart ==
    ASSUME NEW d, NEW g, Formed(d), NEW nr \in Seqs,
           NEW lo \in 0..K, NEW hi \in 0..K, Holds(d, g, lo, hi),
           NEW j, j = SubMod(nr, d.v_ack)
    PROVE  /\ j \in Seqs
           /\ j >= hi => Left(d, nr) = {}
           /\ j <= hi => \E l \in 0..K :
                 /\ Left(d, nr) = Part(nr, l, hi - j) /\ l <= hi - j /\ hi - j \in 0..K
                 /\ (g => l = 0) /\ (j = 0 => l = lo)
  <1>1. d.v_ack \in Seqs /\ lo <= hi /\ DOMAIN d.tx_hist = Part(d.v_ack, lo, hi) /\ (g => lo = 0)
    BY DEF Formed, Holds
  <1>2. Left(d, nr) = Part(d.v_ack, lo, hi) \ Part(d.v_ack, 0, j)
    BY <1>1 DEF Left, AckSlots, Part
  <1>3. /\ j <= hi => Left(d, nr) = Part(nr, IF lo <= j THEN 0 ELSE lo - j, hi - j)
        /\ j >= hi => Left(d, nr) = {}
        /\ j \in Seqs
    BY <1>1, <1>2, PartLeft
  <1>4. ASSUME j <= hi
        PROVE  \E l \in 0..K :
                 /\ Left(d, nr) = Part(nr, l, hi - j) /\ l <= hi - j /\ hi - j \in 0..K
                 /\ (g => l = 0) /\ (j = 0 => l = lo)
    <2> DEFINE l == IF lo <= j THEN 0 ELSE lo - j
    <2>1. l \in 0..K /\ l <= hi - j /\ hi - j \in 0..K /\ (g => l = 0) /\ (j = 0 => l = lo)
      BY <1>1, <1>3, <1>4, ParamAssumption DEF Seqs
    <2>2. Left(d, nr) = Part(nr, l, hi - j)
      BY <1>3, <1>4
    <2> HIDE DEF l
    <2> QED
      BY <2>1, <2>2
  <1> QED
    BY <1>3, <1>4

(* After any N(R) the history is a part from N(R) on.                       *)
LEMMA LeftHeld ==
    ASSUME NEW d, NEW g, Formed(d), Held(d, g), NEW nr \in Seqs
    PROVE  \E lo, hi \in 0..K : lo <= hi /\ (g => lo = 0) /\ Left(d, nr) = Part(nr, lo, hi)
  <1>1. PICK lo \in 0..K, hi \in 0..K : Holds(d, g, lo, hi)
    BY DEF Held
  <1>0. PICK j : j = SubMod(nr, d.v_ack)
    OBVIOUS
  <1>2. /\ j \in Seqs
        /\ j >= hi => Left(d, nr) = {}
        /\ j <= hi => \E l \in 0..K :
              /\ Left(d, nr) = Part(nr, l, hi - j) /\ l <= hi - j /\ hi - j \in 0..K
              /\ (g => l = 0)
    BY <1>0, <1>1, LeftPart
  <1>3. CASE j <= hi
    BY <1>2, <1>3
  <1>4. CASE ~(j <= hi)
    <2>1. Left(d, nr) = {} /\ 0 \in 0..K
      BY <1>2, <1>4, ParamAssumption DEF Seqs
    <2>2. Part(nr, 0, 0) = {}
      BY <2>1, PartFacts
    <2> QED
      BY <2>1, <2>2
  <1> QED
    BY <1>3, <1>4

(* An acknowledgement in multiple frame operation.  If it is valid the      *)
(* window moves on; if not nothing is left.                                 *)
LEMMA EstAcknowledge ==
    ASSUME NEW d, NEW g \in BOOLEAN, Est(d, g), NEW nr \in Seqs, g => ~NrSequenceError(d, nr)
    PROVE  Est(Acknowledge(d, nr, FALSE), g)
  <1>a. PICK a : a = Acknowledge(d, nr, FALSE)
    OBVIOUS
  <1>j. PICK j : j = SubMod(nr, d.v_ack)
    OBVIOUS
  <1>1. Formed(d) /\ d.state = "MF_EST" /\ d.v_ack \in Seqs
        /\ K \in Nat /\ VRange \in Nat /\ K < VRange
    BY ParamAssumption DEF Est, Formed
  <1>2. PICK lo \in 0..K, hi \in 0..K :
            Holds(d, g, lo, hi) /\ d.v_send = AddMod(d.v_ack, hi) /\ (lo = hi \/ d.t200 # "off")
    BY DEF Est
  <1>3. /\ Formed(a) /\ a.state = d.state /\ a.v_send = d.v_send
        /\ DOMAIN a.tx_hist = Left(d, nr)
        /\ a.v_ack = IF NrSequenceError(d, nr) THEN d.v_ack ELSE nr
        /\ nr = d.v_ack => a.t200 = d.t200
        /\ nr # d.v_ack /\ d.state # "TIMER_RECOV" /\ ~NrSequenceError(d, nr)
              /\ Slot(SubMod(d.v_send, 1)) \in Left(d, nr) => a.t200 # "off"
    <2>1. /\ Formed(a) /\ a.state = d.state /\ a.v_send = d.v_send
          /\ DOMAIN a.tx_hist = Left(d, nr)
          /\ a.v_ack = IF NrSequenceError(d, nr) THEN d.v_ack ELSE nr
      <3>1. AckOf(d, nr, Acknowledge(d, nr, FALSE))
        BY <1>1, Acknowledged
      <3> QED
        BY <1>a, <3>1 DEF AckOf
    <2>2. /\ nr = d.v_ack => a.t200 = d.t200
          /\ nr # d.v_ack /\ d.state # "TIMER_RECOV" /\ ~NrSequenceError(d, nr)
                /\ Slot(SubMod(d.v_send, 1)) \in Left(d, nr) => a.t200 # "off"
      BY <1>1, <1>a, AckRestarts
    <2> QED
      BY <2>1, <2>2
  <1>4. /\ j \in Seqs
        /\ j >= hi => Left(d, nr) = {}
        /\ j <= hi => \E l \in 0..K :
              /\ Left(d, nr) = Part(nr, l, hi - j) /\ l <= hi - j /\ hi - j \in 0..K
              /\ (g => l = 0) /\ (j = 0 => l = lo)
    BY <1>1, <1>2, <1>j, LeftPart
  <1>5. hi \in Seqs /\ hi \in Nat /\ j \in Nat
    BY <1>1, <1>4 DEF Seqs
  <1>6. SubMod(d.v_send, d.v_ack) = hi /\ nr = AddMod(d.v_ack, j)
    <2>1. SubMod(AddMod(d.v_ack, hi), d.v_ack) = hi
      BY <1>1, <1>5, SeqFacts
    <2>2. nr = AddMod(d.v_ack, j)
      BY <1>1, <1>5, <1>j, SeqFacts
    <2> QED
      BY <1>2, <2>1, <2>2
  <1>7. NrSequenceError(d, nr) <=> j > hi
    BY <1>1, <1>6, <1>j DEF NrSequenceError
  <1>0. SubMod(d.v_ack, d.v_ack) = 0
    <2>1. d.v_ack - d.v_ack = 0
      BY <1>1 DEF Seqs
    <2>2. 0 % VRange = 0
      BY <1>1
    <2> QED
      BY <2>1, <2>2 DEF SubMod
  <1>8. CASE j > hi
    <2>1. DOMAIN a.tx_hist = {} /\ a.v_ack = d.v_ack /\ ~g
      BY <1>3, <1>4, <1>5, <1>7, <1>8
    <2>2. Part(d.v_ack, hi, hi) = {} /\ hi <= hi
      BY <1>1, PartFacts
    <2>3. Holds(a, g, hi, hi)
      BY <2>1, <2>2 DEF Holds
    <2>4. Est(a, g)
      BY <1>1, <1>2, <1>3, <2>1, <2>3 DEF Est
    <2> QED
      BY <2>4, <1>a
  <1>9. CASE j <= hi
    <2>1. PICK l \in 0..K :
              /\ Left(d, nr) = Part(nr, l, hi - j) /\ l <= hi - j /\ hi - j \in 0..K
              /\ (g => l = 0) /\ (j = 0 => l = lo)
      BY <1>4, <1>9
    <2> DEFINE h == hi - j
    <2>2. a.v_ack = nr /\ h \in 0..K /\ h \in Nat
      BY <1>3, <1>5, <1>7, <1>9, <2>1
    <2>3. Holds(a, g, l, h)
      BY <1>3, <2>1, <2>2 DEF Holds
    <2>4. \A i \in Nat : AddMod(nr, i) = AddMod(d.v_ack, j + i)
      <3>1. \A i \in Nat : AddMod(AddMod(d.v_ack, j), i) = AddMod(d.v_ack, j + i)
        BY <1>1, <1>5, SeqFacts
      <3> QED
        BY <1>6, <3>1
    <2>5. a.v_send = AddMod(a.v_ack, h)
      <3>1. j + h = hi
        BY <1>5
      <3> QED
        BY <1>2, <1>3, <2>2, <2>4, <3>1
    <2>6. l = h \/ a.t200 # "off"
      <3>1. CASE nr = d.v_ack
        <4>1. j = 0
          BY <1>0, <3>1, <1>j
        <4> QED
          BY <1>2, <1>3, <1>5, <2>1, <3>1, <4>1
      <3>2. CASE nr # d.v_ack /\ l # h
        <4>1. h - 1 \in 0..h /\ l <= h - 1 /\ h - 1 < h /\ h - 1 \in Nat /\ hi > 0 /\ j + (h - 1) = hi - 1
          BY <1>5, <2>1, <2>2, <3>2
        <4>2. Slot(AddMod(nr, h - 1)) \in Part(nr, l, h)
          BY <2>1, <2>2, <4>1, PartFacts
        <4>3. SubMod(d.v_send, 1) = AddMod(nr, h - 1)
          <5>1. SubMod(AddMod(d.v_ack, hi), 1) = AddMod(d.v_ack, hi - 1)
            BY <1>1, <1>5, <4>1, SeqFacts
          <5> QED
            BY <1>2, <2>4, <4>1, <5>1
        <4> QED
          BY <1>1, <1>3, <1>7, <1>9, <1>5, <2>1, <3>2, <4>2, <4>3
      <3> QED
        BY <3>1, <3>2
    <2> HIDE DEF h
    <2>7. Est(a, g)
      BY <1>1, <1>3, <2>2, <2>3, <2>5, <2>6 DEF Est
    <2> QED
      BY <2>7, <1>a
  <1>10. j > hi \/ j <= hi
    BY <1>5
  <1> QED
    BY <1>8, <1>9, <1>10, Zenon

LEMMA NothingAdded ==
    ASSUME NEW a \in Seqs
    PROVE  AddMod(a, 0) = a
  <1>1. SubMod(a, a) = 0
    <2>1. a - a = 0 /\ 0 % VRange = 0
      BY ParamAssumption DEF Seqs
    <2> QED
      BY <2>1 DEF SubMod
  <1>2. AddMod(a, SubMod(a, a)) = a
    BY SeqFacts
  <1> QED
    BY <1>1, <1>2

(* In timer recovery the history follows V(A), whatever N(R) is.            *)
LEMMA RecAcknowledge ==
    ASSUME NEW d, NEW g \in BOOLEAN, Rec(d, g), NEW nr \in Seqs, NEW rej
    PROVE  Rec(Acknowledge(d, nr, rej), g) /\ Acknowledge(d, nr, rej).v_ack = nr
  <1>a. PICK a : a = Acknowledge(d, nr, rej)
    OBVIOUS
  <1>1. Formed(d) /\ d.state = "TIMER_RECOV" /\ Held(d, g)
    BY DEF Rec
  <1>2. AckOf(d, nr, a)
    BY <1>1, <1>a, Acknowledged
  <1>3. Formed(a) /\ a.state = "TIMER_RECOV" /\ a.v_ack = nr /\ DOMAIN a.tx_hist = Left(d, nr)
        /\ a.t200 = d.t200 /\ a.retrans_ctr = d.retrans_ctr
    BY <1>1, <1>2 DEF AckOf, NrSequenceError
  <1>4. \E lo, hi \in 0..K : lo <= hi /\ (g => lo = 0) /\ Left(d, nr) = Part(nr, lo, hi)
    BY <1>1, LeftHeld
  <1>5. Held(a, g)
    BY <1>3, <1>4 DEF Held, Holds
  <1>6. DOMAIN a.tx_hist \subseteq DOMAIN d.tx_hist
    BY <1>3 DEF Left
  <1>7. GivenUp(d) => GivenUp(a)
    BY <1>1, <1>3 DEF GivenUp
  <1>8. Rec(a, g)
    BY <1>3, <1>5, <1>6, <1>7 DEF Rec
  <1> QED
    BY <1>a, <1>3, <1>8

(* V(S) and V(A) are set to N(R), and what is left begins there.            *)
LEMMA SetBackSends ==
    ASSUME NEW d, NEW g \in BOOLEAN, Formed(d), Held(d, g), NEW nr \in Seqs, g \/ Finds(d, nr),
           NEW e, Formed(e), e.state = "MF_EST", e.v_ack = nr, e.v_send = nr,
           DOMAIN e.tx_hist = Left(d, nr)
    PROVE  Sending(e, g)
  <1>1. PICK lo \in 0..K, hi \in 0..K : lo <= hi /\ (g => lo = 0) /\ Left(d, nr) = Part(nr, lo, hi)
    BY LeftHeld
  <1>2. 0 \in 0..K /\ 0 <= 0 /\ AddMod(nr, 0) = nr /\ 0 <= hi
    BY <1>1, ParamAssumption, NothingAdded
  <1>3. CASE lo = 0
    <2>1. Holds(e, g, 0, hi)
      BY <1>1, <1>2, <1>3 DEF Holds
    <2> QED
      BY <1>2, <2>1 DEF Sending
  <1>4. CASE lo # 0
    <2>1. Left(d, nr) = {}
      <3>1. Slot(AddMod(nr, 0)) \notin Part(nr, lo, hi)
        <4>1. 0 \in 0..hi /\ ~(lo <= 0)
          BY <1>1, <1>4
        <4> QED
          BY <1>1, <4>1, PartFacts
      <3> QED
        BY <1>1, <1>2, <1>4, <3>1 DEF Finds
    <2>2. Part(nr, 0, 0) = {}
      BY <1>2, PartFacts
    <2>3. Holds(e, g, 0, 0)
      BY <1>2, <2>1, <2>2 DEF Holds
    <2> QED
      BY <1>2, <2>3 DEF Sending
  <1> QED
    BY <1>3, <1>4

LEMMA GoneBack ==
    ASSUME NEW d, Formed(d), NEW nr \in Seqs, NEW e, e = GoBack(d, nr)
    PROVE  /\ Formed(e) /\ e.state = d.state /\ e.v_send = nr /\ e.v_ack = nr
           /\ e.tx_hist = d.tx_hist /\ e.t200 = d.t200 /\ e.retrans_ctr = d.retrans_ctr
  BY DEF GoBack, FlushTxQueue, Formed, IsDl, Fields

-----------------------------------------------------------------------------
(* States and commands *)

LEMMA NewStateFields ==
    ASSUME NEW d, IsDl(d), NEW s, NEW e, e = NewState(d, s)
    PROVE  /\ IsDl(e) /\ e.state = s /\ e.v_send = d.v_send /\ e.v_ack = d.v_ack
           /\ e.tx_hist = d.tx_hist /\ e.t200 = d.t200 /\ e.retrans_ctr = d.retrans_ctr
           /\ e.v_recv = d.v_recv /\ e.peer_busy = d.peer_busy /\ e.ph = d.ph
  <1> DEFINE t203 == (d.t203 /\ ~(d.state = "MF_EST" /\ s # "MF_EST"))
                        \/ (T203On /\ d.state # "MF_EST" /\ s = "MF_EST")
             res == IF d.state = "MF_EST" /\ s # "MF_EST" THEN 0 ELSE d.cont_res
  <1>1. e = [d EXCEPT !.state = s, !.t203 = t203, !.cont_res = res]
    BY DEF NewState, IsDl, Fields
  <1> HIDE DEF t203, res
  <1> QED
    BY <1>1 DEF IsDl, Fields

LEMMA Entered ==
    ASSUME NEW d, Formed(d), NEW s \in States, s = "DISC_SENT" => Plain(d.tx_hist),
           NEW e, e = NewState(d, s)
    PROVE  /\ Formed(e) /\ e.state = s /\ e.v_send = d.v_send /\ e.v_ack = d.v_ack
           /\ e.tx_hist = d.tx_hist /\ e.t200 = d.t200 /\ e.retrans_ctr = d.retrans_ctr
  BY NewStateFields DEF Formed

LEMMA Emptied ==
    ASSUME NEW d, Formed(d)
    PROVE  /\ Formed(FlushTx(d)) /\ Formed(FlushHist(d))
           /\ \A e \in {FlushTx(d), FlushHist(d)} :
                 /\ DOMAIN e.tx_hist = {} /\ e.state = d.state /\ e.t200 = d.t200
                 /\ e.v_send = d.v_send /\ e.v_ack = d.v_ack
  <1>0. DOMAIN <<>> = {}
    OBVIOUS
  <1>1. ASSUME NEW c, Formed(c)
        PROVE  /\ Formed(FlushHist(c)) /\ FlushHist(c).tx_hist = <<>>
               /\ FlushHist(c).state = c.state /\ FlushHist(c).t200 = c.t200
               /\ FlushHist(c).v_send = c.v_send /\ FlushHist(c).v_ack = c.v_ack
    <2> DEFINE none == <<>>
               e == [c EXCEPT !.tx_hist = none]
    <2>1. FlushHist(c) = e /\ none = <<>>
      BY DEF FlushHist
    <2> HIDE DEF none
    <2>2. /\ IsDl(e) /\ e.tx_hist = none /\ e.state = c.state /\ e.t200 = c.t200
          /\ e.v_send = c.v_send /\ e.v_ack = c.v_ack /\ e.v_recv = c.v_recv
          /\ e.peer_busy = c.peer_busy /\ e.retrans_ctr = c.retrans_ctr /\ e.ph = c.ph
      BY <1>1 DEF Formed, IsDl, Fields
    <2> HIDE DEF e
    <2>3. Plain(none)
      BY <1>0, <2>1 DEF Plain
    <2> QED
      BY <1>1, <2>1, <2>2, <2>3 DEF Formed
  <1> DEFINE q == FlushTxQueue(d)
  <1>2. Alike(d, q)
    BY AlikeBuffers DEF Formed
  <1>3. Formed(q)
    BY <1>2, AlikeKeeps
  <1>4. FlushTx(d) = FlushHist(q)
    BY DEF FlushTx
  <1> HIDE DEF q
  <1> QED
    BY <1>0, <1>1, <1>2, <1>3, <1>4 DEF Alike

LEMMA OffLink ==
    ASSUME NEW d, NEW g, Formed(d), d.state \notin Connected
    PROVE  Windowed(d, g)
  BY DEF Windowed, Connected

LEMMA UpLink ==
    ASSUME NEW d, NEW g, Est(d, g) \/ Rec(d, g)
    PROVE  Windowed(d, g) /\ d.state \in Connected
  BY DEF Windowed, Connected, Est, Rec

LEMMA CommandFormed ==
    ASSUME NEW d, Formed(d), NEW u \in {"SABM", "DISC"}, NEW info,
           NEW s \in {"SABM_SENT", "DISC_SENT"},
           u = "DISC" \/ s = "DISC_SENT" => info = 0
    PROVE  Formed(SendCommand(d, u, s, info)) /\ SendCommand(d, u, s, info).state = s
  <1> DEFINE h == FlushHist(d)
             x == HistEntry(info, 0, 0)
             k == StoreHist(h, 0, x)
             stored == [k EXCEPT !.v_send = 0, !.peer_busy = FALSE, !.retrans_ctr = 0]
             n == NewState(stored, s)
             f == UFrame(u, "cmd", 1, info)
             p == SendPh(n, f)
             e == StartT200(p)
  <1>0. 0 \in Seqs /\ s \in States
    BY ParamAssumption DEF Seqs, States
  <1>1. Formed(h) /\ DOMAIN h.tx_hist = {}
    BY Emptied
  <1>10. info = 0 => x.info = 0
    BY DEF HistEntry
  <1> HIDE DEF h, x
  <1> DEFINE hist == [y \in DOMAIN h.tx_hist \cup {0} |-> IF y = 0 THEN x ELSE h.tx_hist[y]]
  <1>2. k = [h EXCEPT !.tx_hist = hist] /\ (info = 0 => Plain(hist))
    BY <1>1, <1>10 DEF StoreHist, Plain
  <1> HIDE DEF k, hist
  <1>3. /\ IsDl(stored) /\ stored.v_send = 0 /\ stored.v_ack = h.v_ack
        /\ stored.v_recv = h.v_recv /\ stored.peer_busy = FALSE /\ stored.retrans_ctr = 0
        /\ stored.tx_hist = hist /\ stored.ph = h.ph
    BY <1>1, <1>2 DEF Formed, IsDl, Fields
  <1> HIDE DEF stored
  <1>4. Formed(n) /\ n.state = s
    BY <1>0, <1>1, <1>2, <1>3, NewStateFields DEF Formed
  <1> HIDE DEF n
  <1>5. Proper(f)
    BY DEF Proper, UFrame
  <1> HIDE DEF f
  <1>6. Alike(n, p)
    BY <1>4, <1>5, AlikePh DEF Formed
  <1> HIDE DEF p
  <1>7. Formed(p) /\ p.state = s
    BY <1>4, <1>6, AlikeKeeps DEF Alike
  <1>8. Formed(e) /\ e.state = s
    BY <1>7, Timed
  <1> HIDE DEF e
  <1>9. SendCommand(d, u, s, info) = e
    BY DEF SendCommand, e, p, f, n, stored, k, x, h
  <1> QED
    BY <1>8, <1>9

LEMMA EstReqWindowed ==
    ASSUME NEW d, NEW g, Formed(d), NEW info
    PROVE  Windowed(EstReq(d, info), g)
  <1> DEFINE c == [FlushSend(d) EXCEPT !.rcv_buffer = <<>>]
             e == SendCommand(c, "SABM", "SABM_SENT", info)
  <1>1. Formed(c)
    BY DEF FlushSend, Formed, IsDl, Fields
  <1> HIDE DEF c
  <1>2. Formed(e) /\ e.state = "SABM_SENT"
    BY <1>1, CommandFormed
  <1>3. EstReq(d, info) = e
    BY DEF EstReq, e, c
  <1> HIDE DEF e
  <1> QED
    BY <1>2, <1>3, OffLink DEF Connected

LEMMA ResReqWindowed ==
    ASSUME NEW d, NEW g, Formed(d), NEW msg
    PROVE  Windowed(ResReq(d, msg), g)
  <1> DEFINE c == [d EXCEPT !.send_buffer = msg, !.send_out = 0, !.rcv_buffer = <<>>]
             e == SendCommand(c, "SABM", "SABM_SENT", 0)
  <1>1. Formed(c)
    BY DEF Formed, IsDl, Fields
  <1> HIDE DEF c
  <1>2. Formed(e) /\ e.state = "SABM_SENT"
    BY <1>1, CommandFormed
  <1>3. ResReq(d, msg) = e
    BY DEF ResReq, e, c
  <1> HIDE DEF e
  <1> QED
    BY <1>2, <1>3, OffLink DEF Connected

LEMMA ConnectedHeld ==
    ASSUME NEW d, NEW g, Windowed(d, g)
    PROVE  Formed(d) /\ (d.state \in Connected => Held(d, g))
  BY DEF Windowed, Est, Rec, Held, Connected

(* A link without history, in multiple frame operation or timer recovery.   *)
LEMMA NoneHeld ==
    ASSUME NEW d, Formed(d), DOMAIN d.tx_hist = {}
    PROVE  /\ \A hi \in 0..K : Holds(d, FALSE, hi, hi)
           /\ Holds(d, TRUE, 0, 0) /\ 0 \in 0..K
  <1>1. 0 \in 0..K /\ K \in Nat /\ d.v_ack \in Seqs
    BY ParamAssumption DEF Formed
  <1>2. \A hi \in 0..K : Part(d.v_ack, hi, hi) = {} /\ hi <= hi
    BY <1>1, PartFacts
  <1> QED
    BY <1>1, <1>2 DEF Holds

LEMMA SuspReqWindowed ==
    ASSUME NEW d, Windowed(d, FALSE)
    PROVE  Windowed(SuspReq(d), FALSE)
  <1> DEFINE back == [d EXCEPT !.send_queue = d.send_buffer \o @, !.send_buffer = <<>>]
             t == FlushTx(back)
             u == StopT200(t)
             v == StopT203(u)
             e == SendDlSimple(v, "SUSP_CNF")
  <1>0. Formed(d)
    BY DEF Windowed
  <1>1. Formed(back) /\ back.state = d.state /\ back.v_send = d.v_send /\ back.v_ack = d.v_ack
    <2> DEFINE q == d.send_buffer \o d.send_queue
               none == <<>>
    <2>1. back = [d EXCEPT !.send_queue = q, !.send_buffer = none]
      BY <1>0 DEF Formed, IsDl, Fields
    <2> HIDE DEF q, none, back
    <2> QED
      BY <1>0, <2>1 DEF Formed, IsDl, Fields
  <1> HIDE DEF back
  <1>2. Formed(t) /\ DOMAIN t.tx_hist = {} /\ t.state = d.state /\ t.v_send = d.v_send /\ t.v_ack = d.v_ack
    BY <1>1, Emptied
  <1> HIDE DEF t
  <1>3. Formed(u) /\ DOMAIN u.tx_hist = {} /\ u.state = d.state /\ u.v_send = d.v_send /\ u.v_ack = d.v_ack
    BY <1>2, Timed
  <1> HIDE DEF u
  <1>4. \A hi \in 0..K : Holds(u, FALSE, hi, hi)
    BY <1>3, NoneHeld
  <1>5. ASSUME d.state = "MF_EST" PROVE Est(u, FALSE)
    <2>1. PICK hi \in 0..K : d.v_send = AddMod(d.v_ack, hi)
      BY <1>5 DEF Windowed, Est
    <2> QED
      BY <1>3, <1>4, <1>5, <2>1 DEF Est
  <1>6. ASSUME d.state = "TIMER_RECOV" PROVE Rec(u, FALSE)
    <2>1. 0 \in 0..K
      BY ParamAssumption
    <2> QED
      BY <1>3, <1>4, <1>6, <2>1 DEF Rec, Held
  <1>7. Windowed(u, FALSE)
    BY <1>3, <1>5, <1>6 DEF Windowed
  <1>8. Windowed(v, FALSE)
    <2>1. Alike(u, v)
      BY <1>3, AlikeBuffers DEF Formed
    <2> QED
      BY <1>7, <2>1, AlikeKeeps
  <1> HIDE DEF v
  <1>9. Windowed(e, FALSE)
    <2>1. Alike(v, e)
      BY <1>8, AlikeUp DEF Windowed, Formed
    <2> QED
      BY <1>8, <2>1, AlikeKeeps
  <1>10. SuspReq(d) = e
    BY DEF SuspReq, e, v, u, t, back
  <1> HIDE DEF e
  <1> QED
    BY <1>9, <1>10

LEMMA DataReqWindowed ==
    ASSUME NEW d, NEW g, Windowed(d, g), NEW m
    PROVE  Windowed(DataReq(d, m), g)
  <1> DEFINE q == Append(d.send_queue, m)
             c == [d EXCEPT !.send_queue = q]
  <1>1. DataReq(d, m) = SendI(c)
    BY DEF DataReq
  <1> HIDE DEF q
  <1>2. Alike(d, c)
    BY DEF Windowed, Formed, IsDl, Fields, Alike
  <1> HIDE DEF c
  <1>3. Windowed(c, g)
    BY <1>2, AlikeKeeps
  <1> QED
    BY <1>1, <1>3, SendIWindowed

LEMMA RelReqWindowed ==
    ASSUME NEW d, NEW g, Windowed(d, g)
    PROVE  Windowed(RelReq(d), g) /\ Windowed(RelReqIdle(d), g)
  <1>0. Formed(d)
    BY DEF Windowed
  <1> DEFINE c == SendCommand(d, "DISC", "DISC_SENT", 0)
  <1>1. Formed(c) /\ c.state = "DISC_SENT"
    BY <1>0, CommandFormed
  <1> HIDE DEF c
  <1>2. Windowed(c, g)
    BY <1>1, OffLink DEF Connected
  <1>3. Alike(d, RelReqIdle(d))
    BY <1>0, AlikeUp DEF RelReqIdle, Formed
  <1> QED
    BY <1>2, <1>3, AlikeKeeps DEF RelReq, c

(* Whatever leaves a datalink idle, or destroyed.                           *)
LEMMA Released ==
    ASSUME NEW d, Formed(d), NEW s \in {"IDLE", "NULL"}, NEW g
    PROVE  /\ Windowed(NewState(d, s), g) /\ Formed(NewState(d, s))
           /\ NewState(d, s).state = s
  <1> DEFINE e == NewState(d, s)
  <1>1. Formed(e) /\ e.state = s
    BY Entered DEF States
  <1> HIDE DEF e
  <1>2. Windowed(e, g)
    BY <1>1, OffLink DEF Connected
  <1> QED
    BY <1>1, <1>2 DEF e

(* The buffers flushed.                                                     *)
LEMMA Flushed ==
    ASSUME NEW d, Formed(d)
    PROVE  /\ Formed(FlushSend(FlushTx(d))) /\ DOMAIN FlushSend(FlushTx(d)).tx_hist = {}
           /\ FlushSend(FlushTx(d)).state = d.state
  <1> DEFINE t == FlushTx(d)
             e == FlushSend(t)
  <1>1. Formed(t) /\ DOMAIN t.tx_hist = {} /\ t.state = d.state
    BY Emptied
  <1> HIDE DEF t
  <1>2. Alike(t, e)
    BY <1>1, AlikeBuffers DEF Formed
  <1>3. Formed(e)
    BY <1>1, <1>2, AlikeKeeps
  <1> QED
    BY <1>1, <1>2, <1>3 DEF Alike, t

LEMMA RelReqLocalWindowed ==
    ASSUME NEW d, NEW g, Formed(d)
    PROVE  Windowed(RelReqLocal(d), g)
  <1> DEFINE s == StopT200(d)
             n == NewState(s, "IDLE")
             c == FlushSend(FlushTx(n))
             e == SendDlSimple(c, "REL_CNF")
  <1>1. Formed(s)
    BY Timed
  <1> HIDE DEF s
  <1>2. Formed(n) /\ n.state = "IDLE"
    BY <1>1, Released
  <1> HIDE DEF n
  <1>3. Formed(c) /\ c.state = "IDLE"
    BY <1>2, Flushed
  <1> HIDE DEF c
  <1>4. Alike(c, e)
    BY <1>3, AlikeUp DEF Formed
  <1>5. Formed(e) /\ e.state = "IDLE"
    BY <1>3, <1>4, AlikeKeeps DEF Alike
  <1>6. RelReqLocal(d) = e
    BY DEF RelReqLocal, e, c, n, s
  <1> HIDE DEF e
  <1> QED
    BY <1>5, <1>6, OffLink DEF Connected

LEMMA DlExitWindowed ==
    ASSUME NEW d, NEW g, Formed(d)
    PROVE  Windowed(DlExit(d), g) /\ DlExit(d).state = "NULL"
  <1> DEFINE n == NewState(d, "IDLE")
             c == FlushSend(FlushTx(n))
             r == [c EXCEPT !.rcv_buffer = <<>>]
             s == StopT200(r)
             e == StopT203(s)
  <1>1. Formed(n)
    BY Released
  <1> HIDE DEF n
  <1>2. Formed(c)
    BY <1>1, Flushed
  <1> HIDE DEF c
  <1>3. Formed(r)
    BY <1>2 DEF Formed, IsDl, Fields
  <1> HIDE DEF r
  <1>4. Formed(s)
    BY <1>3, Timed
  <1> HIDE DEF s
  <1>5. Formed(e)
    <2>1. Alike(s, e)
      BY <1>4, AlikeBuffers DEF Formed
    <2> QED
      BY <1>4, <2>1, AlikeKeeps
  <1>6. DlExit(d) = NewState(e, "NULL")
    BY DEF DlExit, DlReset, e, s, r, c, n
  <1> HIDE DEF e
  <1> QED
    BY <1>5, <1>6, Released

LEMMA RecvDlsapWindowed ==
    ASSUME NEW d, NEW g \in BOOLEAN, Windowed(d, g), NEW p, g => p.prim # "SUSP_REQ"
    PROVE  Windowed(RecvDlsap(d, p), g)
  <1>0. Formed(d)
    BY DEF Windowed
  <1>1. \A x : /\ Windowed(UdataReq(d, x), g) /\ Windowed(EstReq(d, x), g)
               /\ Windowed(DataReq(d, x), g) /\ Windowed(ResReq(d, x), g)
    <2> TAKE x
    <2>1. Alike(d, UdataReq(d, x))
      BY <1>0, AlikeFrames
    <2>2. Windowed(UdataReq(d, x), g)
      BY <2>1, AlikeKeeps
    <2> QED
      BY <1>0, <2>2, EstReqWindowed, DataReqWindowed, ResReqWindowed
  <1>2. Windowed(RelReq(d), g) /\ Windowed(RelReqIdle(d), g) /\ Windowed(RelReqLocal(d), g)
    BY <1>0, RelReqWindowed, RelReqLocalWindowed
  <1>3. ~g => Windowed(SuspReq(d), g)
    <2> SUFFICES ASSUME ~g PROVE Windowed(SuspReq(d), g)
      OBVIOUS
    <2>1. g = FALSE
      OBVIOUS
    <2> QED
      BY <2>1, SuspReqWindowed
  <1>4. \/ \E x : \/ RecvDlsap(d, p) = UdataReq(d, x) \/ RecvDlsap(d, p) = EstReq(d, x)
                  \/ RecvDlsap(d, p) = DataReq(d, x) \/ RecvDlsap(d, p) = ResReq(d, x)
        \/ RecvDlsap(d, p) = RelReq(d) \/ RecvDlsap(d, p) = RelReqIdle(d)
        \/ RecvDlsap(d, p) = RelReqLocal(d) \/ RecvDlsap(d, p) = d
        \/ p.prim = "SUSP_REQ" /\ RecvDlsap(d, p) = SuspReq(d)
    BY DEF RecvDlsap
  <1> QED
    BY <1>1, <1>2, <1>3, <1>4

-----------------------------------------------------------------------------
(* Timers *)

LEMMA T200CommandWindowed ==
    ASSUME NEW d, NEW g, Formed(d), d.state \in {"SABM_SENT", "DISC_SENT"},
           ~ResendReadsEmptySlot(d)
    PROVE  Windowed(T200Command(d), g)
  <1> DEFINE c == [d EXCEPT !.retrans_ctr = @ + 1]
             r == SendResend(c)
             s == StartT200(r)
             f == FlushSend(FlushTx(c))
             idle == NewState(f, "IDLE")
             m == MdlError(idle, "T200_EXPIRED")
             prim == IF d.state = "SABM_SENT" THEN "REL_IND" ELSE "REL_CNF"
             e == SendDlSimple(m, prim)
  <1>0. MayRepeat(c) => Slot(d.v_send) \in DOMAIN d.tx_hist
    BY DEF ResendReadsEmptySlot
  <1>1. Formed(c) /\ c.state = d.state /\ c.v_send = d.v_send /\ c.tx_hist = d.tx_hist
    <2> DEFINE n == d.retrans_ctr + 1
    <2>1. c = [d EXCEPT !.retrans_ctr = n] /\ n \in Nat
      BY DEF Formed
    <2> HIDE DEF n, c
    <2> QED
      BY <2>1 DEF Formed, IsDl, Fields
  <1> HIDE DEF c
  <1>2. MayRepeat(c) => Formed(r) /\ r.state = d.state
    <2> SUFFICES ASSUME MayRepeat(c) PROVE Formed(r) /\ r.state = d.state
      OBVIOUS
    <2>1. Alike(c, r)
      BY <1>0, <1>1, AlikeResend
    <2> QED
      BY <1>1, <2>1, AlikeKeeps DEF Alike
  <1> HIDE DEF r
  <1>3. MayRepeat(c) => Formed(s) /\ s.state = d.state
    BY <1>2, Timed
  <1> HIDE DEF s
  <1>4. Formed(f)
    BY <1>1, Flushed
  <1> HIDE DEF f
  <1>5. Formed(idle) /\ idle.state = "IDLE"
    BY <1>4, Released
  <1> HIDE DEF idle
  <1>6. Formed(m) /\ m.state = "IDLE"
    <2>1. Alike(idle, m)
      BY <1>5, AlikeUp DEF Formed
    <2> QED
      BY <1>5, <2>1, AlikeKeeps DEF Alike
  <1> HIDE DEF m
  <1>7. Formed(e) /\ e.state = "IDLE"
    <2>1. Alike(m, e)
      BY <1>6, AlikeUp DEF Formed
    <2> QED
      BY <1>6, <2>1, AlikeKeeps DEF Alike
  <1>8. T200Command(d) = IF MayRepeat(c) THEN s ELSE e
    BY DEF T200Command, e, prim, m, idle, f, s, r, c
  <1> HIDE DEF e
  <1> QED
    BY <1>3, <1>7, <1>8, OffLink DEF Connected

(* Timer recovery, entered from d with a history and any timer.             *)
LEMMA Recovering ==
    ASSUME NEW d, NEW g \in BOOLEAN, Formed(d), Held(d, g), NEW n \in Nat,
           NEW b, b = NewState(d, "TIMER_RECOV")
    PROVE  LET c == [b EXCEPT !.retrans_ctr = n]
           IN  Formed(c) /\ c.state = "TIMER_RECOV" /\ Held(c, g) /\ c.retrans_ctr = n
  <1> DEFINE c == [b EXCEPT !.retrans_ctr = n]
  <1>1. Formed(b) /\ b.state = "TIMER_RECOV" /\ b.v_ack = d.v_ack /\ b.tx_hist = d.tx_hist
    BY Entered DEF States
  <1>3. Formed(c) /\ c.state = "TIMER_RECOV" /\ c.v_ack = d.v_ack /\ c.tx_hist = d.tx_hist
        /\ c.retrans_ctr = n
    BY <1>1 DEF Formed, IsDl, Fields
  <1> HIDE DEF c
  <1>4. Held(c, g)
    BY <1>3 DEF Held, Holds
  <1> QED
    BY <1>3, <1>4 DEF c

LEMMA Guarded ==
    ASSUME NEW d, NEW g, Formed(d), d.state = "TIMER_RECOV", Held(d, g)
    PROVE  Rec(StartT200(d), g)
  <1> DEFINE e == StartT200(d)
  <1>1. Formed(e) /\ e.t200 # "off" /\ e.state = d.state /\ e.v_ack = d.v_ack /\ e.tx_hist = d.tx_hist
    BY Timed
  <1> HIDE DEF e
  <1>2. Held(e, g)
    BY <1>1 DEF Held, Holds
  <1>3. Rec(e, g)
    BY <1>1, <1>2 DEF Rec
  <1> QED
    BY <1>3 DEF e

LEMMA T200RecoveryWindowed ==
    ASSUME NEW d, NEW g \in BOOLEAN, Formed(d), Held(d, g)
    PROVE  Windowed(T200Recovery(d), g)
  <1> DEFINE b == NewState(d, "TIMER_RECOV")
             n == IF d.state = "MF_EST" THEN 1 ELSE d.retrans_ctr + 1
  <1>c. PICK c : c = [b EXCEPT !.retrans_ctr = IF d.state = "MF_EST" THEN 1 ELSE @ + 1]
    OBVIOUS
  <1> DEFINE vs == SubMod(c.v_send, 1)
             x == c.tx_hist[Slot(vs)]
             f == IFrame(vs, c.v_recv, 1, x.seg, x.more)
             poll == IF Slot(vs) \in DOMAIN c.tx_hist THEN SendPh(c, f)
                     ELSE IF c.seq_err_cond = 0 THEN SendRR(c, 1, "cmd") ELSE c
             failed == MdlError(c, "T200_EXPIRED")
  <1>0. T200Recovery(d) = IF c.retrans_ctr <= N200 THEN StartT200(poll)
                          ELSE IF Reestablish THEN EstReq(failed, 0) ELSE failed
    BY <1>c DEF T200Recovery
  <1>1. n \in Nat /\ c = [b EXCEPT !.retrans_ctr = n]
    <2>1. b.retrans_ctr = d.retrans_ctr /\ Formed(b)
      BY Entered DEF States
    <2> HIDE DEF b
    <2> QED
      BY <1>c, <2>1 DEF Formed
  <1> HIDE DEF n
  <1>2. Formed(c) /\ c.state = "TIMER_RECOV" /\ Held(c, g) /\ c.retrans_ctr = n
    <2>1. b = NewState(d, "TIMER_RECOV")
      OBVIOUS
    <2> HIDE DEF b
    <2> QED
      BY <1>1, <2>1, Recovering
  <1>3. Alike(c, poll)
    <2>1. Proper(f)
      BY <1>2 DEF Proper, IFrame, Formed
    <2> HIDE DEF f
    <2>2. Alike(c, SendPh(c, f))
      BY <1>2, <2>1, AlikePh DEF Formed
    <2>3. Alike(c, SendRR(c, 1, "cmd"))
      BY <1>2, AlikeFrames
    <2>4. Alike(c, c)
      BY <1>2 DEF Alike, Formed
    <2> QED
      BY <2>2, <2>3, <2>4
  <1> HIDE DEF poll
  <1>4. Rec(StartT200(poll), g)
    <2>1. Formed(poll) /\ poll.state = "TIMER_RECOV" /\ Held(poll, g)
      BY <1>2, <1>3, AlikeKeeps DEF Alike
    <2> QED
      BY <2>1, Guarded
  <1>5. Alike(c, failed)
    BY <1>2, AlikeUp DEF Formed
  <1>6. Formed(failed) /\ failed.state = "TIMER_RECOV" /\ Held(failed, g) /\ failed.retrans_ctr = n
    BY <1>2, <1>5, AlikeKeeps DEF Alike
  <1> HIDE DEF failed
  <1>7. Windowed(EstReq(failed, 0), g)
    BY <1>6, EstReqWindowed
  <1>8. ASSUME ~(c.retrans_ctr <= N200), ~Reestablish PROVE Rec(failed, g)
    <2>1. failed.retrans_ctr > N200
      BY <1>1, <1>2, <1>6, <1>8, ParamAssumption
    <2>2. GivenUp(failed)
      BY <1>6, <1>8, <2>1 DEF GivenUp
    <2> QED
      BY <1>6, <2>2 DEF Rec
  <1> QED
    BY <1>0, <1>4, <1>7, <1>8, UpLink

LEMMA T200CbWindowed ==
    ASSUME NEW d, NEW g \in BOOLEAN, Windowed(d, g), ~ResendReadsEmptySlot(d)
    PROVE  Windowed(T200Cb(d), g)
  <1> DEFINE s == StopT200(d)
  <1>1. Formed(d) /\ (d.state \in Connected => Held(d, g))
    BY ConnectedHeld
  <1>2. /\ Formed(s) /\ s.state = d.state /\ s.v_ack = d.v_ack /\ s.tx_hist = d.tx_hist
        /\ s.v_send = d.v_send /\ s.retrans_ctr = d.retrans_ctr
    BY <1>1, Timed
  <1>3. d.state \in Connected => Held(s, g)
    BY <1>1, <1>2 DEF Held, Holds
  <1> HIDE DEF s
  <1>4. CASE d.state \in {"SABM_SENT", "DISC_SENT"}
    <2>1. T200Cb(d) = T200Command(s)
      BY <1>4 DEF T200Cb, Connected, s
    <2>2. ~ResendReadsEmptySlot(s)
      BY <1>1, <1>2 DEF ResendReadsEmptySlot, MayRepeat, Formed, IsDl, Fields
    <2> QED
      BY <1>2, <1>4, <2>1, <2>2, T200CommandWindowed
  <1>5. CASE d.state \in Connected
    <2>1. T200Cb(d) = T200Recovery(s)
      BY <1>5 DEF T200Cb, Connected, s
    <2> QED
      BY <1>2, <1>3, <1>5, <2>1, T200RecoveryWindowed
  <1>6. CASE d.state \notin {"SABM_SENT", "DISC_SENT"} \cup Connected
    <2>1. T200Cb(d) = s
      BY <1>6 DEF T200Cb, s
    <2> QED
      BY <1>2, <1>6, <2>1, OffLink
  <1> QED
    BY <1>4, <1>5, <1>6

LEMMA T203CbWindowed ==
    ASSUME NEW d, NEW g \in BOOLEAN, Windowed(d, g)
    PROVE  Windowed(T203Cb(d), g)
  <1> DEFINE s == StopT203(d)
  <1>b. PICK b : b = NewState(s, "TIMER_RECOV")
    OBVIOUS
  <1>c. PICK c : c = [b EXCEPT !.retrans_ctr = 0]
    OBVIOUS
  <1> DEFINE r == SendRR(c, 1, "cmd")
  <1>1. Formed(d) /\ (d.state \in Connected => Held(d, g))
    BY ConnectedHeld
  <1>2. Alike(d, s)
    BY <1>1, AlikeBuffers DEF Formed
  <1>3. CASE d.state # "MF_EST"
    BY <1>2, <1>3, AlikeKeeps DEF T203Cb
  <1>4. CASE d.state = "MF_EST"
    <2>1. Formed(s) /\ Held(s, g)
      BY <1>1, <1>2, <1>4, AlikeKeeps DEF Connected
    <2> HIDE DEF s
    <2>2. Formed(c) /\ c.state = "TIMER_RECOV" /\ Held(c, g)
      BY <1>b, <1>c, <2>1, Recovering
    <2>3. Alike(c, r)
      BY <2>2, AlikeFrames
    <2>4. Formed(r) /\ r.state = "TIMER_RECOV" /\ Held(r, g)
      BY <2>2, <2>3, AlikeKeeps DEF Alike
    <2>5. T203Cb(d) = StartT200(r)
      BY <1>b, <1>c, <1>4 DEF T203Cb, r, s
    <2> HIDE DEF r
    <2> QED
      BY <2>4, <2>5, Guarded, UpLink
  <1> QED
    BY <1>3, <1>4


-----------------------------------------------------------------------------
(* U frames *)

(* A shorthand for a step that is alike.                                    *)
LEMMA AlikeWindowed ==
    ASSUME NEW d, NEW g, Windowed(d, g), NEW e, Alike(d, e)
    PROVE  Windowed(e, g) /\ e.state = d.state
  BY AlikeKeeps DEF Alike

LEMMA ToldFormed ==
    ASSUME NEW d, NEW g, Formed(d), NEW p
    PROVE  /\ Formed(SendDlSimple(d, p)) /\ SendDlSimple(d, p).state = d.state
           /\ Windowed(d, g) => Windowed(SendDlSimple(d, p), g)
           /\ Formed(MdlError(d, p)) /\ MdlError(d, p).state = d.state
           /\ Windowed(d, g) => Windowed(MdlError(d, p), g)
  <1>1. Alike(d, SendDlSimple(d, p)) /\ Alike(d, MdlError(d, p))
    BY AlikeUp DEF Formed
  <1>2. \A e : Alike(d, e) => Formed(e) /\ e.state = d.state /\ (Windowed(d, g) => Windowed(e, g))
    BY AlikeKeeps DEF Alike
  <1> QED
    BY <1>1, <1>2

LEMMA SentFormed ==
    ASSUME NEW d, NEW g, Formed(d), NEW f, NEW x
    PROVE  /\ Formed(SendUA(d, f, x)) /\ SendUA(d, f, x).state = d.state
           /\ Windowed(d, g) => Windowed(SendUA(d, f, x), g)
           /\ Formed(SendDM(d, f)) /\ SendDM(d, f).state = d.state
           /\ Windowed(d, g) => Windowed(SendDM(d, f), g)
  BY AlikeFrames, AlikeKeeps DEF Alike

LEMMA Established ==
    ASSUME NEW d, Formed(d), NEW g \in BOOLEAN
    PROVE  Est(Establish(d), g)
  <1> DEFINE z == [d EXCEPT !.v_send = 0, !.v_recv = 0, !.v_ack = 0]
             h == FlushHist(z)
             e == NewState(h, "MF_EST")
  <1>0. 0 \in Seqs /\ 0 \in 0..K
    BY ParamAssumption DEF Seqs
  <1>1. Formed(z) /\ z.v_send = 0 /\ z.v_ack = 0
    BY <1>0 DEF Formed, IsDl, Fields
  <1> HIDE DEF z
  <1>2. Formed(h) /\ DOMAIN h.tx_hist = {} /\ h.v_send = 0 /\ h.v_ack = 0
    BY <1>1, Emptied
  <1> HIDE DEF h
  <1>3. Formed(e) /\ e.state = "MF_EST" /\ e.v_send = 0 /\ e.v_ack = 0 /\ DOMAIN e.tx_hist = {}
    BY <1>2, Entered DEF States
  <1>4. Establish(d) = e
    BY DEF Establish, e, h, z
  <1> HIDE DEF e
  <1>5. Holds(e, g, 0, 0)
    <2>1. Holds(e, FALSE, 0, 0) /\ Holds(e, TRUE, 0, 0)
      BY <1>0, <1>3, NoneHeld
    <2> QED
      BY <2>1
  <1>6. AddMod(0, 0) = 0
    BY <1>0, NothingAdded
  <1>7. Est(e, g)
    BY <1>0, <1>3, <1>5, <1>6 DEF Est
  <1> QED
    BY <1>4, <1>7

LEMMA RxSABMWindowed ==
    ASSUME NEW d, NEW g \in BOOLEAN, Windowed(d, g), NEW f
    PROVE  Windowed(RxSABM(d, f), g)
  <1>c. PICK c : c = [d EXCEPT !.seq_err_cond = 0]
    OBVIOUS
  <1>1. Windowed(c, g) /\ Formed(c)
    <2>1. Alike(d, c)
      BY <1>c DEF Alike, Windowed, Formed, IsDl, Fields
    <2> QED
      BY <2>1, AlikeWindowed DEF Windowed
  <1>2. \A p : Windowed(MdlError(c, p), g) /\ Formed(MdlError(c, p))
    BY <1>1, ToldFormed
  <1>3. \A x : Windowed(SendUA(c, f, x), g) /\ Windowed(SendDM(c, f), g)
    BY <1>1, SentFormed
  <1>4. Windowed(SendDM(MdlError(c, "SABM_INFO_NOTALL"), f), g)
    BY <1>2, SentFormed
  <1>5. \A x : Windowed(SendUA(MdlError(c, "SABM_INFO_NOTALL"), f, x), g)
    BY <1>2, SentFormed
  <1>6. ASSUME c.state = "DISC_SENT"
        PROVE  Windowed(SendDlSimple(StopT200(SendDM(c, f)), "EST_IND"), g)
    <2> DEFINE m == SendDM(c, f)
               s == StopT200(m)
    <2>1. Formed(m) /\ m.state = "DISC_SENT"
      BY <1>1, <1>6, SentFormed
    <2> HIDE DEF m
    <2>2. Formed(s) /\ s.state = "DISC_SENT"
      BY <2>1, Timed
    <2> HIDE DEF s
    <2>3. Windowed(s, g)
      BY <2>2, OffLink DEF Connected
    <2>4. Windowed(SendDlSimple(s, "EST_IND"), g)
      BY <2>2, <2>3, ToldFormed
    <2> QED
      BY <2>4 DEF s, m
  <1>7. \A x : LET s == IF c.state = "TIMER_RECOV" THEN StopT200(c) ELSE c
                   e == Establish(SendUA(s, f, f.info))
               IN  Windowed(SendDlSimple([e EXCEPT !.cont_res = x], "EST_IND"), g)
    <2> TAKE x
    <2> DEFINE s == IF c.state = "TIMER_RECOV" THEN StopT200(c) ELSE c
               u == SendUA(s, f, f.info)
               e == Establish(u)
               k == [e EXCEPT !.cont_res = x]
    <2>1. Formed(s)
      BY <1>1, Timed
    <2> HIDE DEF s
    <2>2. Formed(u)
      BY <2>1, SentFormed
    <2> HIDE DEF u
    <2>3. Est(e, g)
      BY <2>2, Established
    <2> HIDE DEF e
    <2>4. Windowed(e, g) /\ Formed(e)
      BY <2>3, UpLink DEF Windowed
    <2>5. Alike(e, k)
      BY <2>4 DEF Alike, Formed, IsDl, Fields
    <2> HIDE DEF k
    <2>6. Windowed(k, g) /\ Formed(k)
      BY <2>4, <2>5, AlikeWindowed DEF Windowed
    <2>7. Windowed(SendDlSimple(k, "EST_IND"), g)
      BY <2>6, ToldFormed
    <2> QED
      BY <2>7 DEF k, e, u, s
  <1>8. \/ RxSABM(d, f) = MdlError(c, "FRM_UNIMPL")
        \/ RxSABM(d, f) = MdlError(c, "UFRM_INC_PARAM")
        \/ RxSABM(d, f) = RxSABMCommand(c, f)
    BY <1>c DEF RxSABM
  <1>9. Windowed(RxSABMCommand(c, f), g)
    <2> DEFINE s == IF c.state = "TIMER_RECOV" THEN StopT200(c) ELSE c
               e == Establish(SendUA(s, f, f.info))
               r == RxSABMCommand(c, f)
    <2>1. \/ r = SendDM(MdlError(c, "SABM_INFO_NOTALL"), f)
          \/ r = MdlError(c, "SABM_MF")
          \/ r = c
          \/ r = SendUA(c, f, f.info)
          \/ c.state = "DISC_SENT" /\ r = SendDlSimple(StopT200(SendDM(c, f)), "EST_IND")
          \/ r = SendUA(MdlError(c, "SABM_INFO_NOTALL"), f, f.info)
          \/ r = SendDlSimple([e EXCEPT !.cont_res =
                                IF c.mode = "NETWORK" /\ f.info # 0 THEN f.info ELSE @], "EST_IND")
      BY DEF RxSABMCommand
    <2>2. Windowed(SendDlSimple([e EXCEPT !.cont_res =
                                IF c.mode = "NETWORK" /\ f.info # 0 THEN f.info ELSE @], "EST_IND"), g)
      BY <1>7
    <2> HIDE DEF r, e
    <2> QED
      BY <1>1, <1>2, <1>3, <1>4, <1>5, <1>6, <2>1, <2>2 DEF r
  <1> QED
    BY <1>2, <1>8, <1>9

LEMMA RxDMWindowed ==
    ASSUME NEW d, NEW g \in BOOLEAN, Windowed(d, g), NEW f
    PROVE  Windowed(RxDM(d, f), g)
  <1>0. Formed(d)
    BY DEF Windowed
  <1>1. \A p : Windowed(MdlError(d, p), g)
    BY <1>0, ToldFormed
  <1>2. ASSUME NEW c, Formed(c), NEW p
        PROVE  Windowed(SendDlSimple(NewState(c, "IDLE"), p), g)
    <2> DEFINE e == NewState(c, "IDLE")
    <2>1. Windowed(e, g) /\ Formed(e)
      BY <1>2, Released
    <2> HIDE DEF e
    <2>2. Windowed(SendDlSimple(e, p), g)
      BY <2>1, ToldFormed
    <2> QED
      BY <2>2 DEF e
  <1>3. Formed(StopT200(d)) /\ Formed(FlushSend(FlushTx(StopT200(d))))
    BY <1>0, Timed, Flushed
  <1>4. \/ RxDM(d, f) = MdlError(d, "FRM_UNIMPL") \/ RxDM(d, f) = d
        \/ RxDM(d, f) = MdlError(d, "UNSOL_DM_RESP")
        \/ RxDM(d, f) = SendDlSimple(NewState(StopT200(d), "IDLE"), "REL_IND")
        \/ RxDM(d, f) = SendDlSimple(NewState(FlushSend(FlushTx(StopT200(d))), "IDLE"), "REL_CNF")
    BY DEF RxDM
  <1> QED
    BY <1>1, <1>2, <1>3, <1>4

LEMMA RxUIWindowed ==
    ASSUME NEW d, NEW g \in BOOLEAN, Windowed(d, g), NEW f
    PROVE  Windowed(RxUI(d, f), g)
  <1>0. Formed(d)
    BY DEF Windowed
  <1>1. \A p : Windowed(MdlError(d, p), g)
    BY <1>0, ToldFormed
  <1> DEFINE e == [d EXCEPT !.up = Append(@, [prim |-> "UNIT_DATA_IND", info |-> f.info])]
  <1>2. Alike(d, e)
    BY <1>0 DEF Alike, Formed, IsDl, Fields
  <1> HIDE DEF e
  <1>3. Windowed(e, g)
    BY <1>2, AlikeWindowed
  <1>4. \/ RxUI(d, f) = MdlError(d, "FRM_UNIMPL") \/ RxUI(d, f) = d
        \/ RxUI(d, f) = MdlError(d, "UFRM_INC_PARAM") \/ RxUI(d, f) = e
    BY DEF RxUI, e
  <1> QED
    BY <1>1, <1>3, <1>4

LEMMA RxDISCWindowed ==
    ASSUME NEW d, NEW g \in BOOLEAN, Windowed(d, g), d.state # "NULL",
           NEW f, f.cr = "cmd", f.info = 0
    PROVE  Windowed(RxDISC(d, f), g)
  <1> DEFINE b == FlushSend(FlushTx(d))
  <1>c. PICK c : c = [b EXCEPT !.seq_err_cond = 0]
    OBVIOUS
  <1>0. Formed(d)
    BY DEF Windowed
  <1>1. Formed(b) /\ b.state = d.state
    BY <1>0, Flushed
  <1>8. \/ d.state = "IDLE" /\ RxDISC(d, f) = SendDM(c, f)
        \/ RxDISC(d, f) = SendDlSimple(NewState(StopT200(SendDM(c, f)), "IDLE"), "REL_IND")
        \/ RxDISC(d, f) = SendDlSimple(NewState(StopT200(SendUA(c, f, 0)), "IDLE"), "REL_IND")
        \/ RxDISC(d, f) = SendDlSimple(NewState(StopT200(SendUA(c, f, 0)), "IDLE"), "REL_CNF")
    <2>1. RxDISC(d, f) = RxDISCCommand(c, f)
      BY <1>c DEF RxDISC
    <2>2. c.state = d.state /\ d.state \in States
      BY <1>0, <1>1, <1>c DEF Formed, IsDl, Fields
    <2> QED
      BY <2>1, <2>2 DEF RxDISCCommand, States, Connected
  <1> HIDE DEF b
  <1>2. Formed(c) /\ c.state = d.state
    <2>1. Alike(b, c)
      BY <1>c, <1>1 DEF Alike, Formed, IsDl, Fields
    <2> QED
      BY <1>1, <2>1, AlikeKeeps DEF Alike
  <1>3. ASSUME NEW m, Formed(m), NEW p
        PROVE  Windowed(SendDlSimple(NewState(StopT200(m), "IDLE"), p), g)
    <2> DEFINE s == StopT200(m)
               e == NewState(s, "IDLE")
    <2>1. Formed(s)
      BY <1>3, Timed
    <2> HIDE DEF s
    <2>2. Windowed(e, g) /\ Formed(e)
      BY <2>1, Released
    <2> HIDE DEF e
    <2>3. Windowed(SendDlSimple(e, p), g)
      BY <2>2, ToldFormed
    <2> QED
      BY <2>3 DEF e, s
  <1>4. Formed(SendDM(c, f)) /\ Formed(SendUA(c, f, 0)) /\ SendDM(c, f).state = d.state
    BY <1>2, SentFormed
  <1>5. d.state = "IDLE" => Windowed(SendDM(c, f), g)
    BY <1>4, OffLink DEF Connected
  <1> QED
    BY <1>3, <1>4, <1>5, <1>8

LEMMA RxUAWindowed ==
    ASSUME NEW d, NEW g \in BOOLEAN, Windowed(d, g), NEW f
    PROVE  Windowed(RxUA(d, f), g)
  <1> DEFINE s == StopT200(d)
             flushed == FlushSend(FlushTx(s))
             idle == NewState(flushed, "IDLE")
             i == SendI(Establish(s))
  <1>0. Formed(d)
    BY DEF Windowed
  <1>1. \A p : Windowed(MdlError(d, p), g)
    BY <1>0, ToldFormed
  <1>2. Formed(s)
    BY <1>0, Timed
  <1>9. \/ RxUA(d, f) = MdlError(d, "FRM_UNIMPL") \/ RxUA(d, f) = d
        \/ RxUA(d, f) = MdlError(d, "UNSOL_UA_RESP")
        \/ RxUA(d, f) = MdlError(d, "UFRM_INC_PARAM")
        \/ RxUA(d, f) = SendDlSimple(idle, "REL_CNF")
        \/ RxUA(d, f) = SendDlSimple(idle, "REL_IND")
        \/ RxUA(d, f) = SendDlSimple(i, "EST_CNF")
    BY DEF RxUA, RxUAFinal
  <1> HIDE DEF s
  <1>3. Formed(flushed)
    BY <1>2, Flushed
  <1> HIDE DEF flushed
  <1>4. Windowed(idle, g) /\ Formed(idle)
    BY <1>3, Released
  <1> HIDE DEF idle
  <1>5. Windowed(i, g) /\ Formed(i)
    <2> DEFINE e == Establish(s)
    <2>1. Est(e, g)
      BY <1>2, Established
    <2> HIDE DEF e
    <2>2. Windowed(e, g)
      BY <2>1, UpLink
    <2>3. Windowed(SendI(e), g)
      BY <2>2, SendIWindowed
    <2> QED
      BY <2>3 DEF e, Windowed
  <1> HIDE DEF i
  <1>6. \A p : Windowed(SendDlSimple(idle, p), g) /\ Windowed(SendDlSimple(i, p), g)
    BY <1>4, <1>5, ToldFormed
  <1> QED
    BY <1>1, <1>6, <1>9

LEMMA RxUWindowed ==
    ASSUME NEW d, NEW g \in BOOLEAN, Windowed(d, g), d.state # "NULL",
           NEW f, Proper(f), f.format = "U"
    PROVE  Windowed(RxU(d, f), g)
  <1>1. f.s_u \in {"SABM", "DM", "UI", "UA"} \/ (f.s_u = "DISC" /\ f.cr = "cmd" /\ f.info = 0)
    BY DEF Proper
  <1>2. \/ RxU(d, f) = RxSABM(d, f) \/ RxU(d, f) = RxDM(d, f) \/ RxU(d, f) = RxUI(d, f)
        \/ f.cr = "cmd" /\ f.info = 0 /\ RxU(d, f) = RxDISC(d, f)
        \/ RxU(d, f) = RxUA(d, f)
    BY <1>1 DEF RxU
  <1> QED
    BY <1>2, RxSABMWindowed, RxDMWindowed, RxUIWindowed, RxDISCWindowed, RxUAWindowed


-----------------------------------------------------------------------------
(* S and I frames *)

LEMMA AckWindowed ==
    ASSUME NEW d, NEW g \in BOOLEAN, Windowed(d, g), d.state \in Connected,
           NEW nr \in Seqs, g => ~NrSequenceError(d, nr)
    PROVE  Windowed(Acknowledge(d, nr, FALSE), g) /\ Acknowledge(d, nr, FALSE).state = d.state
  <1>1. CASE d.state = "MF_EST"
    <2>1. Est(Acknowledge(d, nr, FALSE), g)
      BY <1>1, EstAcknowledge DEF Windowed
    <2>2. Acknowledge(d, nr, FALSE).state = "MF_EST"
      BY <2>1 DEF Est
    <2> QED
      BY <1>1, <2>1, <2>2, UpLink
  <1>2. CASE d.state = "TIMER_RECOV"
    <2>1. Rec(Acknowledge(d, nr, FALSE), g)
      BY <1>2, RecAcknowledge DEF Windowed
    <2>2. Acknowledge(d, nr, FALSE).state = "TIMER_RECOV"
      BY <2>1 DEF Rec
    <2> QED
      BY <1>2, <2>1, <2>2, UpLink
  <1> QED
    BY <1>1, <1>2 DEF Connected

(* The final answer, or a REJ: what is left is sent again from N(R).        *)
LEMMA SetBackWindowed ==
    ASSUME NEW d, NEW g \in BOOLEAN, Windowed(d, g), d.state \in Connected,
           NEW nr \in Seqs, g \/ Finds(d, nr),
           NEW e, Formed(e), e.state = "MF_EST", e.v_ack = nr, e.v_send = nr,
           DOMAIN e.tx_hist = Left(d, nr)
    PROVE  Windowed(SendI(e), g)
  <1>1. Formed(d) /\ Held(d, g)
    BY ConnectedHeld
  <1>2. Sending(e, g)
    BY <1>1, SetBackSends
  <1>3. Est(SendI(e), g)
    BY <1>2, SendIEst
  <1> QED
    BY <1>3, UpLink

LEMMA RxRRWindowed ==
    ASSUME NEW d, NEW g \in BOOLEAN, Windowed(d, g), d.state \in Connected,
           NEW f, f.nr \in Seqs, Final(d, f) => g \/ Finds(d, f.nr),
           g => ~NrSequenceError(d, f.nr)
    PROVE  Windowed(RxRR(d, f), g)
  <1>a. PICK a : a = Acknowledge(d, f.nr, FALSE)
    OBVIOUS
  <1>0. Formed(d)
    BY DEF Windowed
  <1>1. Windowed(a, g) /\ a.state = d.state /\ Formed(a)
    BY <1>a, AckWindowed DEF Windowed
  <1>2. CASE ~Final(d, f)
    <2> DEFINE e == AnswerPoll(a, f)
    <2>1. RxRR(d, f) = SendI(e)
      BY <1>2, <1>a DEF RxRR
    <2>2. Alike(a, e)
      BY <1>1, AlikeFrames
    <2> HIDE DEF e
    <2>3. Windowed(e, g)
      BY <1>1, <2>2, AlikeWindowed
    <2> QED
      BY <2>1, <2>3, SendIWindowed
  <1>3. CASE Final(d, f)
    <2> DEFINE v == [a EXCEPT !.v_send = f.nr]
               t == StopT200(v)
               e == NewState(t, "MF_EST")
    <2>1. RxRR(d, f) = SendI(e)
      BY <1>3, <1>a DEF RxRR
    <2>2. AckOf(d, f.nr, a) /\ d.state = "TIMER_RECOV"
      <3>1. d.state = "TIMER_RECOV"
        BY <1>3 DEF Final
      <3>2. AckOf(d, f.nr, Acknowledge(d, f.nr, FALSE))
        BY <1>0, Acknowledged
      <3> QED
        BY <1>a, <3>1, <3>2
    <2>3. a.v_ack = f.nr /\ DOMAIN a.tx_hist = Left(d, f.nr)
      BY <2>2 DEF AckOf, NrSequenceError
    <2>4. Formed(v) /\ v.v_send = f.nr /\ v.v_ack = f.nr /\ DOMAIN v.tx_hist = Left(d, f.nr)
      <3> DEFINE nr == f.nr
      <3>1. nr \in Seqs /\ a.v_ack = nr /\ nr = f.nr
        BY <2>3
      <3> HIDE DEF nr
      <3>2. v = [a EXCEPT !.v_send = nr]
        BY <3>1
      <3> HIDE DEF v
      <3>3. Formed(v) /\ v.v_send = nr /\ v.v_ack = nr /\ v.tx_hist = a.tx_hist
        BY <1>1, <3>1, <3>2 DEF Formed, IsDl, Fields
      <3> QED
        BY <2>3, <3>1, <3>3
    <2> HIDE DEF v
    <2>5. Formed(t) /\ t.v_send = f.nr /\ t.v_ack = f.nr /\ DOMAIN t.tx_hist = Left(d, f.nr)
      BY <2>4, Timed
    <2> HIDE DEF t
    <2>6. Formed(e) /\ e.state = "MF_EST" /\ e.v_send = f.nr /\ e.v_ack = f.nr
          /\ DOMAIN e.tx_hist = Left(d, f.nr)
      BY <2>5, Entered DEF States
    <2> HIDE DEF e
    <2> QED
      BY <1>3, <2>1, <2>6, SetBackWindowed
  <1> QED
    BY <1>2, <1>3

LEMMA RxREJWindowed ==
    ASSUME NEW d, NEW g \in BOOLEAN, Windowed(d, g), d.state \in Connected,
           NEW f, f.nr \in Seqs, f.s_u = "REJ", SetsBack(d, f) => g \/ Finds(d, f.nr)
    PROVE  Windowed(RxREJ(d, f), g)
  <1>k. PICK k : k = Acknowledge(d, f.nr, TRUE)
    OBVIOUS
  <1>a. PICK a : a = GoBack(k, f.nr)
    OBVIOUS
  <1> DEFINE t == IF d.state # "TIMER_RECOV" THEN StopT200(a) ELSE a
             answered == AnswerPoll(t, f)
             fin == NewState(StopT200(a), "MF_EST")
             m == MdlError(answered, "UNSOL_SPRV_RESP")
  <1>0. Formed(d)
    BY DEF Windowed
  <1>1. AckOf(d, f.nr, k)
    BY <1>0, <1>k, Acknowledged
  <1>2. /\ Formed(a) /\ a.state = d.state /\ a.v_send = f.nr /\ a.v_ack = f.nr
        /\ DOMAIN a.tx_hist = Left(d, f.nr) /\ a.tx_hist = k.tx_hist /\ a.t200 = k.t200
        /\ a.retrans_ctr = k.retrans_ctr
    <2>1. Formed(k) /\ k.state = d.state /\ DOMAIN k.tx_hist = Left(d, f.nr)
      BY <1>1 DEF AckOf
    <2> QED
      BY <1>a, <2>1, GoneBack
  <1>3. /\ Final(d, f) => RxREJ(d, f) = SendI(fin)
        /\ ~Final(d, f) => RxREJ(d, f) = SendI(m) \/ RxREJ(d, f) = SendI(answered)
    BY <1>a, <1>k DEF RxREJ
  <1>4. Formed(t) /\ t.state = d.state /\ t.v_send = f.nr /\ t.v_ack = f.nr
        /\ DOMAIN t.tx_hist = Left(d, f.nr) /\ (d.state = "TIMER_RECOV" => t = a)
    BY <1>2, Timed
  <1>5. Formed(fin) /\ fin.state = "MF_EST" /\ fin.v_send = f.nr /\ fin.v_ack = f.nr
        /\ DOMAIN fin.tx_hist = Left(d, f.nr)
    <2> DEFINE s == StopT200(a)
    <2>1. Formed(s) /\ s.v_send = f.nr /\ s.v_ack = f.nr /\ DOMAIN s.tx_hist = Left(d, f.nr)
      BY <1>2, Timed
    <2> HIDE DEF s
    <2>2. LET e == NewState(s, "MF_EST") IN
             Formed(e) /\ e.state = "MF_EST" /\ e.v_send = f.nr /\ e.v_ack = f.nr
             /\ DOMAIN e.tx_hist = Left(d, f.nr)
      BY <2>1, Entered DEF States
    <2> QED
      BY <2>2 DEF s
  <1> HIDE DEF fin, t
  <1>6. CASE Final(d, f)
    BY <1>3, <1>5, <1>6, SetBackWindowed DEF SetsBack
  <1>7. Alike(t, answered)
    BY <1>4, AlikeFrames
  <1>8. Formed(answered)
    BY <1>4, <1>7, AlikeKeeps
  <1> HIDE DEF answered
  <1>9. Alike(answered, m)
    BY <1>8, AlikeUp DEF Formed
  <1>10. Formed(m)
    BY <1>8, <1>9, AlikeKeeps
  <1> HIDE DEF m
  <1>11. CASE ~Final(d, f) /\ d.state = "MF_EST"
    <2>1. \A e \in {answered, m} :
             Formed(e) /\ e.state = "MF_EST" /\ e.v_send = f.nr /\ e.v_ack = f.nr
             /\ DOMAIN e.tx_hist = Left(d, f.nr)
      BY <1>4, <1>7, <1>8, <1>9, <1>10, <1>11 DEF Alike
    <2>2. \A e \in {answered, m} : Windowed(SendI(e), g)
      BY <1>11, <2>1, SetBackWindowed DEF SetsBack
    <2> QED
      BY <1>3, <1>11, <2>2
  <1>12. CASE ~Final(d, f) /\ d.state = "TIMER_RECOV"
    <2>1. Rec(k, g) /\ k.v_ack = f.nr
      <3>1. Rec(d, g)
        BY <1>12 DEF Windowed
      <3>2. \A nr \in Seqs : /\ Rec(Acknowledge(d, nr, TRUE), g)
                             /\ Acknowledge(d, nr, TRUE).v_ack = nr
        BY <3>1, RecAcknowledge, Zenon
      <3> QED
        BY <1>k, <3>2, Zenon
    <2>2. Held(a, g) /\ a.state = "TIMER_RECOV" /\ k.state = "TIMER_RECOV"
      BY <1>2, <1>12, <2>1 DEF Rec, Held, Holds
    <2>3. GivenUp(k) => GivenUp(a)
      BY <1>2, <2>2 DEF GivenUp
    <2>4. Rec(a, g)
      BY <1>2, <2>1, <2>2, <2>3 DEF Rec
    <2>5. Windowed(t, g)
      BY <1>4, <1>12, <2>4, UpLink
    <2>6. Windowed(answered, g)
      BY <1>7, <2>5, AlikeWindowed
    <2>7. Windowed(m, g)
      BY <1>9, <2>6, AlikeWindowed
    <2> QED
      BY <1>3, <1>12, <2>6, <2>7, SendIWindowed
  <1> QED
    BY <1>6, <1>11, <1>12 DEF Connected

LEMMA RxSWindowed ==
    ASSUME NEW d, NEW g \in BOOLEAN, Windowed(d, g), d.state # "NULL",
           NEW f, Proper(f), f.format = "S",
           d.state \in Connected /\ SetsBack(d, f) => g \/ Finds(d, f.nr),
           g /\ f.s_u = "RR" => ~NrSequenceError(d, f.nr) \/ d.state \notin Connected
    PROVE  Windowed(RxS(d, f), g)
  <1>c. PICK c : c = IF f.cr = "resp" /\ f.pf = 1 /\ d.state # "TIMER_RECOV"
                     THEN MdlError(d, "UNSOL_SPRV_RESP") ELSE d
    OBVIOUS
  <1>0. Formed(d) /\ f.nr \in Seqs /\ f.s_u \in {"RR", "REJ"}
    BY DEF Windowed, Proper
  <1>1. Alike(d, c)
    <2>1. Alike(d, d)
      BY <1>0 DEF Alike, Formed
    <2> QED
      BY <1>0, <1>c, <2>1, AlikeUp DEF Formed
  <1>2. Windowed(c, g) /\ c.state = d.state /\ Formed(c)
    BY <1>1, AlikeWindowed DEF Windowed
  <1>3. /\ NrSequenceError(c, f.nr) <=> NrSequenceError(d, f.nr)
        /\ Finds(c, f.nr) <=> Finds(d, f.nr)
        /\ SetsBack(c, f) <=> SetsBack(d, f)
    <2>1. c.v_ack = d.v_ack /\ c.v_send = d.v_send /\ c.tx_hist = d.tx_hist
      BY <1>1 DEF Alike
    <2>2. Left(c, f.nr) = Left(d, f.nr)
      BY <2>1 DEF Left, AckSlots
    <2> QED
      BY <1>2, <2>1, <2>2 DEF NrSequenceError, Finds, SetsBack, Final
  <1>4. \/ d.state = "IDLE" /\ RxS(d, f) = SendDM(c, f)
        \/ RxS(d, f) = c
        \/ d.state \in Connected /\ f.s_u = "RR" /\ RxS(d, f) = RxRR(c, f)
        \/ d.state \in Connected /\ f.s_u = "REJ" /\ RxS(d, f) = RxREJ(c, f)
    BY <1>0, <1>c DEF RxS, Formed, States, Connected
  <1>5. Windowed(SendDM(c, f), g)
    BY <1>2, SentFormed
  <1>6. ASSUME d.state \in Connected, f.s_u = "RR" PROVE Windowed(RxRR(c, f), g)
    <2>1. Final(c, f) => SetsBack(c, f)
      BY DEF SetsBack
    <2> QED
      BY <1>0, <1>2, <1>3, <1>6, <2>1, RxRRWindowed
  <1>7. ASSUME d.state \in Connected, f.s_u = "REJ" PROVE Windowed(RxREJ(c, f), g)
    BY <1>0, <1>2, <1>3, <1>7, RxREJWindowed
  <1> QED
    BY <1>2, <1>4, <1>5, <1>6, <1>7


LEMMA RxIOutOfSequenceWindowed ==
    ASSUME NEW d, NEW g \in BOOLEAN, Windowed(d, g), d.state \in Connected,
           NEW f, f.nr \in Seqs, g => ~NrSequenceError(d, f.nr)
    PROVE  Windowed(RxIOutOfSequence(d, f), g)
  <1> DEFINE one == [d EXCEPT !.seq_err_cond = 1]
             two == [d EXCEPT !.seq_err_cond = 2]
             sent == SendREJ(one, f.pf)
  <1>0. Formed(d)
    BY DEF Windowed
  <1>r. PICK r : r = IF d.seq_err_cond # 1 \/ ~Drop2ndRej THEN sent ELSE two
    OBVIOUS
  <1>a. PICK a : a = Acknowledge(r, f.nr, FALSE)
    OBVIOUS
  <1>1. Alike(d, one) /\ Alike(d, two)
    BY <1>0 DEF Alike, Formed, IsDl, Fields
  <1>9. RxIOutOfSequence(d, f) = SendI(MdlError(a, "SEQ_ERR")) \/ RxIOutOfSequence(d, f) = SendI(a)
    BY <1>r, <1>a DEF RxIOutOfSequence
  <1> HIDE DEF one, two
  <1>2. Windowed(two, g) /\ two.state = d.state /\ Windowed(one, g) /\ one.state = d.state
    BY <1>1, AlikeWindowed
  <1>3. Alike(one, sent)
    BY <1>2, AlikeFrames DEF Windowed
  <1> HIDE DEF sent
  <1>4. Windowed(sent, g) /\ sent.state = d.state
    BY <1>2, <1>3, AlikeWindowed
  <1>5. Windowed(r, g) /\ r.state = d.state /\ r.v_ack = d.v_ack /\ r.v_send = d.v_send
    BY <1>r, <1>1, <1>2, <1>3, <1>4 DEF Alike
  <1>6. g => ~NrSequenceError(r, f.nr)
    BY <1>5 DEF NrSequenceError
  <1>7. Windowed(a, g) /\ Formed(a)
    BY <1>a, <1>5, <1>6, AckWindowed DEF Windowed
  <1>8. Windowed(MdlError(a, "SEQ_ERR"), g)
    BY <1>7, ToldFormed
  <1> QED
    BY <1>7, <1>8, <1>9, SendIWindowed

LEMMA RxIAnswerWindowed ==
    ASSUME NEW d, NEW g \in BOOLEAN, Windowed(d, g), NEW f, NEW inQueue
    PROVE  Windowed(RxIAnswer(d, f, inQueue), g)
  <1> DEFINE s == SendI(d)
             r == SendRR(d, 1, "resp")
             t == SendRR(s, 0, "resp")
  <1>1. Windowed(s, g)
    BY SendIWindowed
  <1>2. Alike(d, r)
    BY AlikeFrames DEF Windowed
  <1>9. RxIAnswer(d, f, inQueue) \in {SendI(r), s, t}
    BY DEF RxIAnswer
  <1> HIDE DEF s, r
  <1>3. Windowed(r, g)
    BY <1>2, AlikeWindowed
  <1>4. Windowed(SendI(r), g)
    BY <1>3, SendIWindowed
  <1>5. Alike(s, t)
    BY <1>1, AlikeFrames DEF Windowed
  <1>6. Windowed(t, g)
    BY <1>1, <1>5, AlikeWindowed
  <1> QED
    BY <1>1, <1>4, <1>6, <1>9

LEMMA RxIInSequenceWindowed ==
    ASSUME NEW d, NEW g \in BOOLEAN, Windowed(d, g), d.state \in Connected,
           NEW f, f.nr \in Seqs, g => ~NrSequenceError(d, f.nr),
           NEW react, g => react.prim # "SUSP_REQ"
    PROVE  Windowed(RxIInSequence(d, f, react), g)
  <1>0. Formed(d)
    BY DEF Windowed
  <1>p. PICK p : p = [d EXCEPT !.seq_err_cond = 0, !.v_recv = IncMod(@)]
    OBVIOUS
  <1>r. PICK r : r = UpdatePendingFrames(p)
    OBVIOUS
  <1>a. PICK a : a = Acknowledge(r, f.nr, FALSE)
    OBVIOUS
  <1>e. PICK e : e = Reassemble(a, f)
    OBVIOUS
  <1>t. PICK t : t = CASE f.more \/ react.prim = "none" -> e
                       [] ~f.more /\ react.prim = "exit" -> DlExit(e)
                       [] OTHER -> RecvDlsap(e, react)
    OBVIOUS
  <1>b. PICK b : b = ForgetBuffer(t, f)
    OBVIOUS
  <1>1. Alike(d, p)
    <2> DEFINE n == IncMod(d.v_recv)
    <2>1. n \in Seqs
      BY <1>0, SeqFacts DEF Formed
    <2>2. p = [d EXCEPT !.seq_err_cond = 0, !.v_recv = n]
      BY <1>p
    <2> HIDE DEF n
    <2> QED
      BY <1>0, <2>1, <2>2 DEF Alike, Formed, IsDl, Fields
  <1>2. Windowed(p, g) /\ p.state = d.state
    BY <1>1, AlikeWindowed
  <1>3. Alike(p, r)
    BY <1>r, <1>2, AlikeBuffers DEF Windowed, Formed
  <1>4. Windowed(r, g) /\ r.state = d.state /\ r.v_ack = d.v_ack /\ r.v_send = d.v_send
    BY <1>1, <1>2, <1>3, AlikeWindowed DEF Alike
  <1>5. g => ~NrSequenceError(r, f.nr)
    BY <1>4 DEF NrSequenceError
  <1>6. Windowed(a, g)
    BY <1>a, <1>4, <1>5, AckWindowed
  <1>7. Windowed(e, g)
    <2>1. Alike(a, e)
      BY <1>e, <1>6, AlikeBuffers DEF Windowed, Formed
    <2> QED
      BY <1>6, <2>1, AlikeWindowed
  <1>8. Windowed(b, g)
    <2>1. Windowed(DlExit(e), g)
      BY <1>7, DlExitWindowed DEF Windowed
    <2>2. Windowed(RecvDlsap(e, react), g)
      BY <1>7, RecvDlsapWindowed
    <2>3. t = e \/ t = DlExit(e) \/ t = RecvDlsap(e, react)
      BY <1>t
    <2>4. Windowed(t, g)
      BY <1>7, <2>1, <2>2, <2>3
    <2>5. Alike(t, b)
      BY <1>b, <2>4, AlikeBuffers DEF Windowed, Formed
    <2> QED
      BY <2>4, <2>5, AlikeWindowed
  <1> DEFINE m == IF NrSequenceError(r, f.nr) THEN MdlError(b, "SEQ_ERR") ELSE b
  <1>9. RxIInSequence(d, f, react) =
           IF b.state = "NULL" THEN b ELSE RxIAnswer(m, f, IFrameInQueue(r))
    BY <1>p, <1>r, <1>a, <1>e, <1>t, <1>b DEF RxIInSequence
  <1>10. Windowed(m, g)
    BY <1>8, ToldFormed DEF Windowed
  <1> HIDE DEF m
  <1> QED
    BY <1>8, <1>9, <1>10, RxIAnswerWindowed

LEMMA RxIWindowed ==
    ASSUME NEW d, NEW g \in BOOLEAN, Windowed(d, g), d.state # "NULL",
           NEW f, Proper(f), f.format = "I",
           g => ~NrSequenceError(d, f.nr) \/ d.state \notin Connected,
           NEW react, g => react.prim # "SUSP_REQ"
    PROVE  Windowed(RxI(d, f, react), g)
  <1>0. Formed(d) /\ f.nr \in Seqs /\ f.cr = "cmd"
    BY DEF Windowed, Proper
  <1>1. \/ RxI(d, f, react) = SendDM(d, f) \/ RxI(d, f, react) = d
        \/ RxI(d, f, react) = MdlError(d, "IFRM_INC_LEN")
        \/ d.state \in Connected /\ RxI(d, f, react) = RxIInSequence(d, f, react)
        \/ d.state \in Connected /\ RxI(d, f, react) = RxIOutOfSequence(d, f)
    BY <1>0 DEF RxI, Formed, States, Connected
  <1>2. Windowed(SendDM(d, f), g) /\ Windowed(MdlError(d, "IFRM_INC_LEN"), g)
    BY <1>0, SentFormed, ToldFormed
  <1> QED
    BY <1>0, <1>1, <1>2, RxIInSequenceWindowed, RxIOutOfSequenceWindowed

(* What is assumed of a frame f that arrives at d: a REJ, or the answer to  *)
(* a poll, asks for a frame that the history holds, if it holds any; where  *)
(* g, the N(R) of other frames is valid in multiple frame operation.        *)
Fits(d, g, f) ==
    /\ f.format = "S" /\ d.state \in Connected /\ SetsBack(d, f) => g \/ Finds(d, f.nr)
    /\ g /\ d.state \in Connected /\ (f.format = "I" \/ (f.format = "S" /\ f.s_u = "RR"))
          => ~NrSequenceError(d, f.nr)

LEMMA PhDataIndWindowed ==
    ASSUME NEW d, NEW g \in BOOLEAN, Windowed(d, g), d.state # "NULL",
           NEW f, Proper(f), Fits(d, g, f), NEW react, g => react.prim # "SUSP_REQ"
    PROVE  Windowed(PhDataInd(d, f, react), g)
  <1>1. f.format \in {"U", "S", "I"}
    BY DEF Proper
  <1>2. CASE f.format = "U"
    <2>1. PhDataInd(d, f, react) = RxU(d, f)
      BY <1>2 DEF PhDataInd
    <2> QED
      BY <1>2, <2>1, RxUWindowed
  <1>3. CASE f.format = "S"
    <2>1. PhDataInd(d, f, react) = RxS(d, f)
      BY <1>3 DEF PhDataInd
    <2>2. d.state \in Connected /\ SetsBack(d, f) => g \/ Finds(d, f.nr)
      BY <1>3 DEF Fits
    <2>3. g /\ f.s_u = "RR" => ~NrSequenceError(d, f.nr) \/ d.state \notin Connected
      BY <1>3 DEF Fits
    <2> QED
      BY <1>3, <2>1, <2>2, <2>3, RxSWindowed
  <1>4. CASE f.format = "I"
    <2>1. PhDataInd(d, f, react) = RxI(d, f, react)
      BY <1>4 DEF PhDataInd
    <2>2. g => ~NrSequenceError(d, f.nr) \/ d.state \notin Connected
      BY <1>4 DEF Fits
    <2> QED
      BY <1>4, <2>1, <2>2, RxIWindowed
  <1> QED
    BY <1>1, <1>2, <1>3, <1>4


-----------------------------------------------------------------------------
(* The link *)

(* Both datalinks, and the frames under way.                                *)
LinkInv(g) ==
    /\ dl = [e \in Sides |-> dl[e]] /\ chan = [e \in Sides |-> chan[e]]
    /\ \A e \in Sides : Windowed(dl[e], g) /\ AllProper(chan[e])

FitsAll(g) == \A e \in Sides : chan[e] # <<>> => Fits(dl[e], g, Head(chan[e]))

LEMMA LinkInit ==
    ASSUME NEW g, ~Rts, Init
    PROVE  LinkInv(g)
  <1>1. ASSUME NEW m PROVE Windowed(DlInit(m), g)
    <2> DEFINE d == DlInit(m)
    <2>1. IsDl(d) /\ d.state = "IDLE" /\ d.v_send = 0 /\ d.v_ack = 0 /\ d.v_recv = 0
          /\ d.peer_busy = FALSE /\ d.retrans_ctr = 0 /\ d.ph = <<>>
      BY DEF DlInit, IsDl, Fields
    <2>2. 0 \in Seqs
      BY ParamAssumption DEF Seqs
    <2> HIDE DEF d
    <2>3. Formed(d)
      BY <2>1, <2>2, ProperNone DEF Formed, States
    <2>4. Windowed(d, g)
      BY <2>1, <2>3, OffLink DEF Connected
    <2> QED
      BY <2>4 DEF d
  <1>2. \A e \in Sides : Windowed(dl[e], g)
    BY <1>1 DEF Init
  <1>3. \A e \in Sides : AllProper(chan[e])
    BY ProperNone DEF Init
  <1> QED
    BY <1>2, <1>3 DEF LinkInv, Init

LEMMA Committed ==
    ASSUME NEW g, LinkInv(g), NEW e \in Sides, NEW d, Windowed(d, g),
           NEW rest, AllProper(rest), NEW n, Commit(e, d, rest, n)
    PROVE  LinkInv(g)'
  <1> DEFINE o == [d EXCEPT !.ph = <<>>, !.up = <<>>]
  <1>1. Windowed(o, g)
    <2> DEFINE none == <<>>
    <2>1. AllProper(none) /\ none = <<>>
      BY ProperNone
    <2> HIDE DEF none
    <2>2. o = [d EXCEPT !.ph = none, !.up = none]
      BY <2>1
    <2> HIDE DEF o
    <2>3. Alike(d, o)
      BY <2>1, <2>2 DEF Alike, Windowed, Formed, IsDl, Fields
    <2> QED
      BY <2>3, AlikeWindowed
  <1>2. dl' = [dl EXCEPT ![e] = o]
    BY DEF Commit
  <1> HIDE DEF o
  <1>3. dl' = [x \in Sides |-> dl'[x]] /\ \A x \in Sides : Windowed(dl'[x], g)
    BY <1>1, <1>2 DEF LinkInv
  <1> DEFINE p == Peer(e)
             s == chan[p] \o d.ph
  <1>4. chan' = [chan EXCEPT ![e] = rest, ![p] = s] /\ p \in Sides /\ p # e
    BY SidesAssumption DEF Commit, Peer, Sides
  <1>5. AllProper(s)
    <2>1. AllProper(d.ph)
      BY DEF Windowed, Formed
    <2> QED
      BY <1>4, <2>1, ProperConcat DEF LinkInv
  <1> HIDE DEF p, s
  <1>9. chan' = [x \in Sides |-> chan'[x]] /\ \A x \in Sides : AllProper(chan'[x])
    BY <1>4, <1>5 DEF LinkInv
  <1> QED
    BY <1>3, <1>9 DEF LinkInv

LEMMA LinkNext ==
    ASSUME NEW g \in BOOLEAN, LinkInv(g), [Next]_vars, FitsAll(g), g => ~MaySuspend
    PROVE  LinkInv(g)'
  <1>0. \A e \in Sides : Windowed(dl[e], g) /\ AllProper(chan[e])
    BY DEF LinkInv
  <1>1. ASSUME NEW e \in Sides, DataRequest(e) PROVE LinkInv(g)'
    <2> DEFINE p == [prim |-> "DATA_REQ", msg |-> sub[e] + 1]
               d == RecvDlsap(dl[e], p)
    <2>1. Commit(e, d, chan[e], sub[e] + 1)
      BY <1>1 DEF DataRequest
    <2>2. p.prim # "SUSP_REQ"
      OBVIOUS
    <2> HIDE DEF p
    <2>3. Windowed(d, g)
      BY <1>0, <2>2, RecvDlsapWindowed
    <2> HIDE DEF d
    <2> QED
      BY <1>0, <2>1, <2>3, Committed
  <1>2. ASSUME NEW e \in Sides, NEW p \in Requests, Request(e, p) PROVE LinkInv(g)'
    <2> DEFINE d == RecvDlsap(dl[e], p)
    <2>1. Commit(e, d, chan[e], sub[e])
      BY <1>2 DEF Request
    <2>2. g => p.prim # "SUSP_REQ"
      BY <1>2 DEF Requests, MaySuspend
    <2>3. Windowed(d, g)
      BY <1>0, <2>2, RecvDlsapWindowed
    <2> HIDE DEF d
    <2> QED
      BY <1>0, <2>1, <2>3, Committed
  <1>3. ASSUME NEW e \in Sides, NEW r \in env.reactions, Receive(e, r) PROVE LinkInv(g)'
    <2> DEFINE d == PhDataInd(dl[e], Head(chan[e]), r)
    <2>1. Commit(e, d, Tail(chan[e]), sub[e]) /\ chan[e] # <<>> /\ dl[e].state # "NULL"
      BY <1>3 DEF Receive
    <2>2. Proper(Head(chan[e])) /\ AllProper(Tail(chan[e]))
      BY <1>0, <2>1, ProperRest
    <2>3. Fits(dl[e], g, Head(chan[e]))
      BY <2>1 DEF FitsAll
    <2>4. g => r.prim # "SUSP_REQ"
      BY <1>3 DEF MaySuspend
    <2>5. Windowed(d, g)
      BY <1>0, <2>1, <2>2, <2>3, <2>4, PhDataIndWindowed
    <2> HIDE DEF d
    <2> QED
      BY <2>1, <2>2, <2>5, Committed
  <1>4. ASSUME NEW e \in Sides, Lose(e) PROVE LinkInv(g)'
    <2>1. chan[e] # <<>> /\ chan' = [chan EXCEPT ![e] = Tail(chan[e])] /\ dl' = dl
      BY <1>4 DEF Lose
    <2>2. AllProper(Tail(chan[e]))
      BY <1>0, <2>1, ProperRest
    <2> QED
      BY <1>0, <2>1, <2>2 DEF LinkInv
  <1>5. ASSUME NEW e \in Sides, T200Expiry(e) PROVE LinkInv(g)'
    <2> DEFINE d == IF ResendReadsEmptySlot(dl[e]) THEN DlExit(dl[e]) ELSE T200Cb(dl[e])
    <2>1. Commit(e, d, chan[e], sub[e])
      BY <1>5 DEF T200Expiry
    <2>2. Windowed(d, g)
      <3>1. Windowed(DlExit(dl[e]), g)
        BY <1>0, DlExitWindowed DEF Windowed
      <3>2. ~ResendReadsEmptySlot(dl[e]) => Windowed(T200Cb(dl[e]), g)
        BY <1>0, T200CbWindowed
      <3> QED
        BY <3>1, <3>2
    <2> HIDE DEF d
    <2> QED
      BY <1>0, <2>1, <2>2, Committed
  <1>6. ASSUME NEW e \in Sides, T203Expiry(e) PROVE LinkInv(g)'
    <2> DEFINE d == T203Cb(dl[e])
    <2>1. Commit(e, d, chan[e], sub[e])
      BY <1>6 DEF T203Expiry
    <2>2. Windowed(d, g)
      BY <1>0, T203CbWindowed
    <2> HIDE DEF d
    <2> QED
      BY <1>0, <2>1, <2>2, Committed
  <1>7. ASSUME NEW e \in Sides, ReadyToSend(e) PROVE FALSE
    BY <1>0, <1>7 DEF ReadyToSend, Windowed, Formed
  <1>8. CASE UNCHANGED vars
    BY <1>8 DEF LinkInv, vars
  <1> QED
    BY <1>1, <1>2, <1>3, <1>4, <1>5, <1>6, <1>7, <1>8 DEF Next

-----------------------------------------------------------------------------

(* The window and the history of a datalink whose history begins at V(A).   *)
LEMMA WindowOf ==
    ASSUME NEW d, Windowed(d, TRUE)
    PROVE  /\ d.state = "MF_EST" =>
                 /\ SubMod(d.v_send, d.v_ack) <= K
                 /\ DOMAIN d.tx_hist = {Slot(x) : x \in Outstanding(d)}
           /\ d.state = "TIMER_RECOV" => Cardinality(DOMAIN d.tx_hist) <= K
  <1>0. K \in Nat /\ K \in Seqs /\ VRange \in Nat /\ d.v_ack \in Seqs
    BY ParamAssumption DEF Windowed, Formed, Seqs
  <1>1. ASSUME d.state = "MF_EST"
        PROVE  /\ SubMod(d.v_send, d.v_ack) <= K
               /\ DOMAIN d.tx_hist = {Slot(x) : x \in Outstanding(d)}
    <2>1. PICK lo \in 0..K, hi \in 0..K : Holds(d, TRUE, lo, hi) /\ d.v_send = AddMod(d.v_ack, hi)
      BY <1>1 DEF Windowed, Est
    <2>2. DOMAIN d.tx_hist = Part(d.v_ack, 0, hi)
      BY <2>1 DEF Holds
    <2>3. SubMod(d.v_send, d.v_ack) = hi
      <3>1. hi \in Nat /\ hi \in Seqs
        BY <1>0 DEF Seqs
      <3>2. SubMod(AddMod(d.v_ack, hi), d.v_ack) = hi
        BY <1>0, <3>1, SeqFacts
      <3> QED
        BY <2>1, <3>2
    <2>4. Outstanding(d) = {AddMod(d.v_ack, j) : j \in 0..(hi - 1)}
      BY <2>3 DEF Outstanding
    <2>5. {Slot(x) : x \in Outstanding(d)} = Part(d.v_ack, 0, hi)
      BY <2>4 DEF Part
    <2> QED
      BY <1>0, <2>2, <2>3, <2>5
  <1>2. ASSUME d.state = "TIMER_RECOV" PROVE Cardinality(DOMAIN d.tx_hist) <= K
    <2>1. PICK lo \in 0..K, hi \in 0..K : Holds(d, TRUE, lo, hi)
      BY <1>2 DEF Windowed, Rec, Held
    <2> DEFINE T == Part(d.v_ack, lo, hi)
               S == lo..(hi - 1)
               f == [i \in S |-> Slot(AddMod(d.v_ack, i))]
    <2>2. DOMAIN d.tx_hist = T /\ lo <= hi
      BY <2>1 DEF Holds
    <2>3. f \in Surjection(S, T)
      BY DEF Part, Surjection
    <2>4. IsFiniteSet(S) /\ Cardinality(S) = IF lo > hi - 1 THEN 0 ELSE (hi - 1) - lo + 1
      BY FS_Interval
    <2>5. Cardinality(S) \in Nat /\ Cardinality(S) <= K
      BY <1>0, <2>2, <2>4
    <2> HIDE DEF T, S, f
    <2>6. IsFiniteSet(T) /\ Cardinality(T) <= Cardinality(S)
      BY <2>3, <2>4, FS_Surjection
    <2>7. Cardinality(T) \in Nat
      BY <2>6, FS_CardinalityType
    <2> QED
      BY <1>0, <2>2, <2>5, <2>6, <2>7
  <1> QED
    BY <1>1, <1>2

(* T200 guards whatever is in the history, or the link was given up.        *)
LEMMA GuardOf ==
    ASSUME NEW d, NEW g, Windowed(d, g), d.state \in Connected, DOMAIN d.tx_hist # {}
    PROVE  d.t200 # "off" \/ GivenUp(d)
  <1>1. CASE d.state = "MF_EST"
    <2>1. PICK lo \in 0..K, hi \in 0..K : Holds(d, g, lo, hi) /\ (lo = hi \/ d.t200 # "off")
      BY <1>1 DEF Windowed, Est
    <2>2. d.v_ack \in Seqs /\ lo <= hi /\ DOMAIN d.tx_hist = Part(d.v_ack, lo, hi)
      BY <2>1 DEF Windowed, Formed, Holds
    <2>3. Part(d.v_ack, lo, hi) = {} <=> lo = hi
      BY <2>2, PartFacts
    <2> QED
      BY <2>1, <2>2, <2>3
  <1>2. CASE d.state = "TIMER_RECOV"
    BY <1>2 DEF Windowed, Rec
  <1> QED
    BY <1>1, <1>2 DEF Connected

(* A sender is never stranded: with frames in the history T200 is running,  *)
(* or N200 polls went unanswered.  lapd_acknowledge() and the receipt of a  *)
(* REJ stop T200, and lapd_send_i(), called last, starts it again only if   *)
(* V(S), set to N(R), finds a frame to send.  The peer must therefore not   *)
(* ask for a frame that is gone while later ones are in the history.        *)
THEOREM SenderNeverStrandedHolds ==
    ASSUME ~Rts
    PROVE  Spec /\ []AsksForHeld => []SenderNeverStranded
  <1>1. Init => LinkInv(FALSE)
    BY LinkInit
  <1>2. LinkInv(FALSE) /\ AsksForHeld /\ [Next]_vars => LinkInv(FALSE)'
    <2> SUFFICES ASSUME LinkInv(FALSE), AsksForHeld, [Next]_vars PROVE LinkInv(FALSE)'
      OBVIOUS
    <2>1. FitsAll(FALSE)
      BY DEF FitsAll, AsksForHeld, Fits
    <2>2. \A g \in BOOLEAN : g = FALSE => LinkInv(g)'
      BY <2>1, LinkNext
    <2> QED
      BY <2>2
  <1>3. LinkInv(FALSE) => SenderNeverStranded
    BY GuardOf DEF LinkInv, SenderNeverStranded
  <1> QED
    BY <1>1, <1>2, <1>3, PTL DEF Spec

(* Go-back-N: in MF_EST the history is what is between V(A) and V(S), at    *)
(* most k frames, and in timer recovery it is at most k frames.  The peer   *)
(* must not acknowledge what was not sent: lapd_acknowledge() frees slots   *)
(* before it looks at the validity of N(R).                                 *)
THEOREM WindowKeptHolds ==
    ASSUME ~Rts
    PROVE  Spec /\ []AcksValid => []WindowKept
  <1> DEFINE Inv == env.timely /\ ~MaySuspend => LinkInv(TRUE)
  <1>1. Init => Inv
    BY LinkInit
  <1>2. Inv /\ AcksValid /\ [Next]_vars => Inv'
    <2> SUFFICES ASSUME Inv, AcksValid, [Next]_vars, (env.timely /\ ~MaySuspend)'
                 PROVE  LinkInv(TRUE)'
      OBVIOUS
    <2>1. env' = env
      BY DEF Next, vars, DataRequest, Request, Receive, Lose, T200Expiry, T203Expiry, ReadyToSend
    <2>2. env.timely /\ ~MaySuspend
      BY <2>1 DEF MaySuspend
    <2>3. LinkInv(TRUE)
      BY <2>2
    <2>4. FitsAll(TRUE)
      BY <2>2 DEF FitsAll, AcksValid, Fits, Connected, NrSequenceError
    <2>5. \A g \in BOOLEAN : g = TRUE => LinkInv(g)'
      BY <2>2, <2>3, <2>4, LinkNext
    <2> QED
      BY <2>5
  <1>3. Inv => WindowKept
    BY WindowOf DEF LinkInv, WindowKept
  <1> QED
    BY <1>1, <1>2, <1>3, PTL DEF Spec


=============================================================================

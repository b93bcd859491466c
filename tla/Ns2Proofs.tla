------------------------------ MODULE Ns2Proofs ------------------------------
(***************************************************************************)
(* Proofs about the NS entities (Ns2Link), for every list of NS-VCs, all   *)
(* weights, every number of retries and every environment, whatever the    *)
(* peer sends, is lost, expires or is restarted:                           *)
(* an NS-VC that an operator has blocked is not used, while the            *)
(* RESET/BLOCK procedures are in use; an available entity finds an NS-VC   *)
(* for every request; and each entity implements NseService.               *)
(***************************************************************************)
EXTENDS Ns2Link, TLAPS, WellFoundedInduction

-----------------------------------------------------------------------------
(* Sums over the list of NS-VCs *)

N == Len(VcList)

LEMMA ListIs == N \in Nat /\ Vcs = {VcList[n] : n \in 1..N} /\ \A n \in 1..N : VcList[n] \in Vcs
  <1>1. VcList \in Seq(Vcs)
    BY Ns2Assumption
  <1>2. N \in Nat /\ DOMAIN VcList = 1..N
    BY <1>1 DEF N
  <1> QED
    BY <1>2 DEF Vcs

LEMMA LeastElement ==
    ASSUME NEW T \in SUBSET Nat, T # {}
    PROVE  \E x \in T : \A y \in T : x <= y
  <1> DEFINE R == OpToRel(<, Nat)
  <1>1. IsWellFoundedOn(R, Nat)
    BY NatLessThanWellFounded
  <1>2. PICK x \in T : \A y \in T : ~ (<<y, x>> \in R)
    <2> HIDE DEF R
    <2> QED
      BY <1>1, WFMin
  <1>3. \A y \in T : ~(y < x)
    BY <1>2 DEF OpToRel
  <1> QED
    BY <1>3

(* What the n-th member of the list adds.                                   *)
Share(up, share, n) == IF VcList[n] \in up THEN share[VcList[n]] ELSE 0

(* A function that satisfies the recursion of Sums up to k exists: else     *)
(* take the least k for which there is none and extend the one for k - 1.   *)
LEMMA SumsExist ==
    ASSUME NEW up, NEW share, NEW k \in Nat
    PROVE  \E r : r = [n \in 0..k |-> IF n = 0 THEN 0 ELSE r[n - 1] + Share(up, share, n)]
  <1> DEFINE Def(j) ==
                \E r : r = [n \in 0..j |-> IF n = 0 THEN 0 ELSE r[n - 1] + Share(up, share, n)]
             T == {j \in Nat : ~Def(j)}
  <1> SUFFICES ASSUME T # {} PROVE FALSE
    OBVIOUS
  <1>1. PICK x \in T : \A y \in T : x <= y
    <2> HIDE DEF Def
    <2>1. T \in SUBSET Nat
      OBVIOUS
    <2> HIDE DEF T
    <2> QED
      BY <2>1, LeastElement
  <1>2. CASE x = 0
    <2> DEFINE r == [n \in 0..0 |-> 0]
    <2>1. \A n \in 0..0 : n = 0
      OBVIOUS
    <2>2. r = [n \in 0..0 |-> IF n = 0 THEN 0 ELSE r[n - 1] + Share(up, share, n)]
      BY <2>1
    <2>3. Def(0)
      BY <2>2
    <2> QED
      BY <2>3, <1>1, <1>2
  <1>3. CASE x # 0
    <2>1. x - 1 \in Nat /\ x \in Nat /\ x - 1 \notin T
      <3>1. x \in Nat
        <4> HIDE DEF Def
        <4> QED
          BY <1>1
      <3> HIDE DEF T
      <3> QED
        BY <1>1, <1>3, <3>1
    <2>2. PICK r : r = [n \in 0..(x - 1) |-> IF n = 0 THEN 0 ELSE r[n - 1] + Share(up, share, n)]
      BY <2>1
    <2> DEFINE s == [n \in 0..x |-> IF n = x THEN r[x - 1] + Share(up, share, x) ELSE r[n]]
    <2>3. \A n \in 0..(x-1) : s[n] = r[n]
      BY <2>1
    <2>4. ASSUME NEW n \in 0..x
          PROVE  s[n] = IF n = 0 THEN 0 ELSE s[n - 1] + Share(up, share, n)
      <3>1. CASE n = x
        BY <3>1, <2>1, <2>3, <1>3
      <3>2. CASE n # x
        <4>1. n \in 0..(x-1)
          BY <3>2, <2>1
        <4>2. s[n] = IF n = 0 THEN 0 ELSE r[n - 1] + Share(up, share, n)
          BY <4>1, <2>3, <2>2
        <4>3. n # 0 => n - 1 \in 0..(x-1)
          BY <4>1, <2>1
        <4> QED
          BY <4>2, <4>3, <2>3
      <3> QED
        BY <3>1, <3>2
    <2>5. s = [n \in 0..x |-> IF n = 0 THEN 0 ELSE s[n - 1] + Share(up, share, n)]
      <3>1. s = [n \in 0..x |-> s[n]]
        OBVIOUS
      <3> HIDE DEF s
      <3> QED
        BY <3>1, <2>4
    <2>6. Def(x)
      BY <2>5
    <2> QED
      BY <2>6, <1>1
  <1> QED
    BY <1>2, <1>3

LEMMA SumsEquation ==
    ASSUME NEW up, NEW share
    PROVE  Sums(up, share) =
             [n \in 0..N |-> IF n = 0 THEN 0 ELSE Sums(up, share)[n - 1] + Share(up, share, n)]
  <1> DEFINE Body(r) == [n \in 0..N |-> IF n = 0 THEN 0 ELSE r[n - 1] + Share(up, share, n)]
  <1>1. Sums(up, share) = CHOOSE r : r = Body(r)
    BY DEF Sums, Share, N
  <1>2. \E r : r = Body(r)
    BY SumsExist, ListIs
  <1> HIDE DEF Body
  <1>3. Sums(up, share) = Body(Sums(up, share))
    BY <1>1, <1>2
  <1> QED
    BY <1>3 DEF Body

(* A sum is not zero exactly when a member so far has a share.              *)
LEMMA SumsZero ==
    ASSUME NEW up, NEW share, \A v \in up : share[v] \in Nat, NEW n \in 0..N
    PROVE  /\ Sums(up, share)[n] \in Nat
           /\ Sums(up, share)[n] # 0 <=> \E i \in 1..n : VcList[i] \in up /\ share[VcList[i]] # 0
  <1> DEFINE s == Sums(up, share)
             Some(k) == \E i \in 1..k : VcList[i] \in up /\ share[VcList[i]] # 0
             Right(k) == s[k] \in Nat /\ (s[k] # 0 <=> Some(k))
             T == {k \in 0..N : ~Right(k)}
  <1>0. s = [k \in 0..N |-> IF k = 0 THEN 0 ELSE s[k - 1] + Share(up, share, k)]
    BY SumsEquation
  <1> HIDE DEF s
  <1>1. s[0] = 0 /\ \A k \in 1..N : s[k] = s[k - 1] + Share(up, share, k)
    <2>1. 0 \in 0..N /\ \A k \in 1..N : k \in 0..N /\ k # 0
      BY ListIs
    <2> QED
      BY <1>0, <2>1
  <1>2. Right(0)
    BY <1>1
  <1>3. ASSUME NEW k \in 1..N, Right(k - 1) PROVE Right(k)
    <2>0. k \in Nat /\ k - 1 \in Nat /\ k \in 1..k /\ 1..k = 1..(k-1) \cup {k}
      BY <1>3, ListIs
    <2>1. Share(up, share, k) \in Nat
          /\ (Share(up, share, k) # 0 <=> VcList[k] \in up /\ share[VcList[k]] # 0)
      BY DEF Share
    <2>2. Some(k) <=> Some(k - 1) \/ (VcList[k] \in up /\ share[VcList[k]] # 0)
      BY <2>0
    <2>3. s[k] = s[k - 1] + Share(up, share, k) /\ s[k - 1] \in Nat /\ (s[k - 1] # 0 <=> Some(k - 1))
      BY <1>1, <1>3
    <2>4. \A p, q \in Nat : p + q \in Nat /\ (p + q # 0 <=> p # 0 \/ q # 0)
      OBVIOUS
    <2> HIDE DEF Some
    <2> QED
      BY <2>1, <2>2, <2>3, <2>4
  <1> HIDE DEF Right
  <1>4. T = {}
    <2> SUFFICES ASSUME T # {} PROVE FALSE
      OBVIOUS
    <2>1. T \in SUBSET Nat
      BY ListIs
    <2>2. PICK x \in T : \A y \in T : x <= y
      BY <2>1, LeastElement
    <2>3. x \in 1..N /\ x - 1 \in 0..N
      BY <1>2, ListIs
    <2>4. x - 1 \notin T
      <3>1. x \in Nat /\ ~(x <= x - 1)
        BY <2>3, ListIs
      <3> QED
        BY <2>2, <3>1
    <2>5. Right(x - 1)
      BY <2>3, <2>4
    <2> QED
      BY <1>3, <2>2, <2>3, <2>5
  <1> QED
    BY <1>4 DEF Right, s

LEMMA SumZero ==
    ASSUME NEW up, up \subseteq Vcs, NEW share, \A v \in up : share[v] \in Nat
    PROVE  Sum(up, share) \in Nat /\ (Sum(up, share) # 0 <=> \E v \in up : share[v] # 0)
  <1>1. N \in 0..N
    BY ListIs
  <1>2. /\ Sums(up, share)[N] \in Nat
        /\ Sums(up, share)[N] # 0 <=> \E i \in 1..N : VcList[i] \in up /\ share[VcList[i]] # 0
    BY <1>1, SumsZero
  <1>3. \A v \in up : \E i \in 1..N : v = VcList[i]
    BY ListIs
  <1> QED
    BY <1>2, <1>3 DEF Sum, N

(* The NS-VC that a number less than the sum selects: it has a share.       *)
LEMMA SelectedIs ==
    ASSUME NEW up, NEW share, \A v \in up : share[v] \in Nat,
           NEW m \in Nat, m < Sum(up, share)
    PROVE  \E v \in up : share[v] # 0 /\ Selected(up, share, m) = <<v>>
  <1> DEFINE s == Sums(up, share)
             beyond == {n \in 1..N : m < s[n]}
             x == Min(beyond)
  <1>0. s = [k \in 0..N |-> IF k = 0 THEN 0 ELSE s[k - 1] + Share(up, share, k)]
    BY SumsEquation
  <1>1. \A n \in 0..N : s[n] \in Nat
    BY SumsZero
  <1>2. Selected(up, share, m) = IF beyond = {} THEN <<>> ELSE <<VcList[x]>>
    BY DEF Selected, N
  <1>3. m < s[N]
    BY DEF Sum, N
  <1> HIDE DEF s
  <1>4. s[0] = 0 /\ \A k \in 1..N : s[k] = s[k - 1] + Share(up, share, k)
    <2>1. 0 \in 0..N /\ \A k \in 1..N : k \in 0..N /\ k # 0
      BY ListIs
    <2> QED
      BY <1>0, <2>1
  <1>5. N \in beyond
    <2>1. N # 0
      BY <1>3, <1>4
    <2> QED
      BY <1>3, <2>1, ListIs
  <1>6. x \in beyond /\ \A y \in beyond : x <= y
    <2>1. beyond \in SUBSET Nat /\ beyond # {}
      BY <1>5
    <2> HIDE DEF beyond
    <2>2. \E y \in beyond : \A z \in beyond : y <= z
      BY <2>1, LeastElement
    <2> QED
      BY <2>2 DEF Min
  <1> HIDE DEF x
  <1>7. x \in 1..N /\ m < s[x] /\ x - 1 \in 0..N /\ x - 1 \notin beyond
    <2>1. x \in 1..N /\ m < s[x]
      BY <1>6
    <2>2. x - 1 \in 0..N /\ ~(x <= x - 1)
      BY <2>1, ListIs
    <2> HIDE DEF beyond
    <2> QED
      BY <1>6, <2>1, <2>2
  <1>8. ~(m < s[x - 1])
    <2>1. CASE x = 1
      BY <2>1, <1>4
    <2>2. CASE x # 1
      <3>1. x - 1 \in 1..N
        BY <1>7, <2>2, ListIs
      <3> QED
        BY <1>7, <3>1
    <2> QED
      BY <2>1, <2>2
  <1>9. Share(up, share, x) # 0
    <2>1. s[x] = s[x - 1] + Share(up, share, x) /\ s[x - 1] \in Nat
      BY <1>1, <1>4, <1>7
    <2> QED
      BY <1>7, <1>8, <2>1
  <1>10. VcList[x] \in up /\ share[VcList[x]] # 0
    BY <1>9 DEF Share
  <1> QED
    BY <1>2, <1>5, <1>10

-----------------------------------------------------------------------------
(* Entities *)

VcFields == {"state", "timer", "overdue", "N", "initiator", "initiate_block", "initiate_reset",
             "accept_unitdata", "om_blocked", "test", "mode", "tries"}
NseFields == {"alive", "first", "count", "data", "sig"}
EntFields == {"mode", "weights", "vc", "nse", "tx", "ind", "news"}

(* With the RESET/BLOCK procedures an NS-VC never recovers by the test      *)
(* procedure, which would take it to UNBLOCKED on an ALIVE_ACK without      *)
(* asking for a block.                                                      *)
StatesOf(mode) == IF mode = "BLOCKRESET" THEN States \ {"RECOVERING"} ELSE States

IsVc(mode, c) == c = [x \in VcFields |-> c[x]] /\ c.state \in StatesOf(mode)
IsEnt(s, D) ==
    /\ s = [x \in EntFields |-> s[x]]
    /\ s.vc = [v \in D |-> s.vc[v]]
    /\ s.nse = [x \in NseFields |-> s.nse[x]]
    /\ \A v \in D : IsVc(s.mode, s.vc[v])

(* An operator's block is obeyed.                                           *)
VcOk(mode, c) == mode = "BLOCKRESET" /\ c.om_blocked => c.state # "UNBLOCKED"

(* An entity of which every NS-VC, those of W apart, obeys the operator.    *)
Obeys(s, D, W) == IsEnt(s, D) /\ \A v \in D \ W : VcOk(s.mode, s.vc[v])

(* What the entity knows of its NS-VCs is true.                             *)
Able(s) ==
    /\ \E v \in Unblocked(s) : s.weights[v].data # 0
    /\ \E v \in Unblocked(s) : s.weights[v].sig # 0
Summed(s, x) ==
    /\ x.count = Sum(Unblocked(s), Alike)
    /\ x.data = Sum(Unblocked(s), Weights(s, "data"))
    /\ x.sig = Sum(Unblocked(s), Weights(s, "sig"))
Cached(s, D) ==
    /\ D \subseteq Vcs /\ s.weights \in [D -> [data : Nat, sig : Nat]]
    /\ Summed(s, s.nse)
    /\ s.nse.alive \in BOOLEAN /\ s.nse.first \in BOOLEAN
    /\ s.nse.alive <=> Able(s)
    /\ s.nse.alive => ~s.nse.first

All(s, D) == Obeys(s, D, {}) /\ Cached(s, D)

(* From s to t, no NS-VC changes its state or is blocked or unblocked.      *)
Agrees(s, t, D) ==
    \A v \in D : t.vc[v].state = s.vc[v].state /\ t.vc[v].om_blocked = s.vc[v].om_blocked
Fixed(s, t) == t.mode = s.mode /\ t.weights = s.weights
Quiet(s, t) == Fixed(s, t) /\ t.nse = s.nse /\ t.news = s.news
Minor(s, t, D) == IsEnt(t, D) /\ Agrees(s, t, D) /\ Quiet(s, t)

(* From s to t the user is told what has changed, and no more than one      *)
(* NS-VC has come or gone.                                                  *)
Told(s, t) ==
    /\ t.nse.first <=> s.nse.first /\ ~t.nse.alive
    /\ (t.nse.alive <=> s.nse.alive) => t.news = s.news
    /\ t.nse.alive /\ ~s.nse.alive =>
           t.news = Append(s.news, [cause |-> "RECOVERY", first |-> s.nse.first])
    /\ ~t.nse.alive /\ s.nse.alive =>
           t.news = Append(s.news, [cause |-> "FAILURE", first |-> s.nse.first])
Near(s, t, D) ==
    \/ Unblocked(t) = Unblocked(s)
    \/ \E v \in D : Unblocked(t) \in {Unblocked(s) \cup {v}, Unblocked(s) \ {v}}
Moves(s, t, D) == All(t, D) /\ Fixed(s, t) /\ Told(s, t) /\ Near(s, t, D)

-----------------------------------------------------------------------------
(* How these compose *)

LEMMA TheOne == \A c : The({c}) = c
  BY DEF The

LEMMA DomainIs == ASSUME NEW D, NEW s, IsEnt(s, D) PROVE DOMAIN s.vc = D
  <1>1. s.vc = [v \in D |-> s.vc[v]]
    BY DEF IsEnt
  <1> QED
    BY <1>1

LEMMA UnblockedSame ==
    ASSUME NEW D, NEW s, NEW t, IsEnt(s, D), IsEnt(t, D), Agrees(s, t, D)
    PROVE  Unblocked(t) = Unblocked(s)
  BY DomainIs DEF Unblocked, Agrees

LEMMA MinorThen ==
    ASSUME NEW D, NEW s, NEW t, NEW u, Minor(s, t, D), Minor(t, u, D)
    PROVE  Minor(s, u, D)
  BY DEF Minor, Agrees, Quiet, Fixed

LEMMA MinorSame == ASSUME NEW D, NEW s, IsEnt(s, D) PROVE Minor(s, s, D)
  BY DEF Minor, Agrees, Quiet, Fixed

LEMMA AllIs ==
    ASSUME NEW D, NEW s, All(s, D)
    PROVE  IsEnt(s, D) /\ Minor(s, s, D) /\ Cached(s, D)
           /\ \A v \in D : VcOk(s.mode, s.vc[v]) /\ Obeys(s, D, {v})
  BY MinorSame DEF All, Obeys

(* The same NS-VCs are unblocked and the entity is the same.                *)
LEMMA CachedStill ==
    ASSUME NEW D, NEW s, NEW t, Cached(s, D), Quiet(s, t), Unblocked(t) = Unblocked(s)
    PROVE  Cached(t, D) /\ Told(s, t) /\ Near(s, t, D) /\ Fixed(s, t)
  <1>1. Fixed(s, t) /\ t.nse = s.nse /\ t.news = s.news /\ t.weights = s.weights
    BY DEF Quiet, Fixed
  <1>2. Weights(t, "data") = Weights(s, "data") /\ Weights(t, "sig") = Weights(s, "sig")
    BY <1>1 DEF Weights
  <1>3. Summed(t, t.nse)
    BY <1>1, <1>2 DEF Summed, Cached
  <1>4. Able(t) <=> Able(s)
    BY <1>1 DEF Able
  <1>5. Cached(t, D)
    BY <1>1, <1>3, <1>4 DEF Cached
  <1>6. Told(s, t)
    BY <1>1 DEF Told, Cached
  <1> QED
    BY <1>1, <1>5, <1>6 DEF Near

LEMMA MovesMinor ==
    ASSUME NEW D, NEW s, NEW t, All(s, D), Minor(s, t, D)
    PROVE  All(t, D) /\ Moves(s, t, D)
  <1>1. IsEnt(s, D) /\ IsEnt(t, D) /\ Agrees(s, t, D) /\ Quiet(s, t) /\ Cached(s, D)
    BY AllIs DEF Minor
  <1>2. Obeys(t, D, {})
    BY <1>1 DEF Obeys, All, Agrees, VcOk, Quiet, Fixed
  <1> QED
    BY <1>1, <1>2, UnblockedSame, CachedStill DEF All, Moves

LEMMA MovesThen ==
    ASSUME NEW D, NEW s, NEW t, NEW u, All(s, D), Moves(s, t, D), Moves(t, u, D),
           Unblocked(u) = Unblocked(t)
    PROVE  Moves(s, u, D)
  <1>1. All(u, D) /\ Fixed(s, t) /\ Fixed(t, u) /\ Told(s, t) /\ Told(t, u) /\ Near(s, t, D)
    BY DEF Moves
  <1>2. Cached(t, D) /\ Cached(u, D) /\ u.weights = t.weights
    BY <1>1 DEF Moves, All, Fixed
  <1>3. u.nse.alive <=> t.nse.alive
    BY <1>2 DEF Cached, Able
  <1>4. u.news = t.news /\ (u.nse.first <=> t.nse.first /\ ~u.nse.alive)
    BY <1>1, <1>3 DEF Told
  <1>5. Told(s, u)
    BY <1>1, <1>3, <1>4 DEF Told
  <1>6. Near(s, u, D) /\ Fixed(s, u)
    BY <1>1 DEF Near, Fixed
  <1> QED
    BY <1>1, <1>5, <1>6 DEF Moves

(* First steps that the user need not know of.                              *)
LEMMA StillMoves ==
    ASSUME NEW D, NEW s, NEW t, NEW u, Quiet(s, t), Unblocked(t) = Unblocked(s), Moves(t, u, D)
    PROVE  Moves(s, u, D)
  BY DEF Moves, Quiet, Fixed, Told, Near

LEMMA MovesMinorLast ==
    ASSUME NEW D, NEW s, NEW t, NEW u, All(s, D), Moves(s, t, D), Minor(t, u, D)
    PROVE  Moves(s, u, D)
  <1>1. All(t, D) /\ IsEnt(t, D) /\ IsEnt(u, D) /\ Agrees(t, u, D)
    BY AllIs DEF Moves, Minor
  <1> QED
    BY <1>1, MovesMinor, MovesThen, UnblockedSame

-----------------------------------------------------------------------------
(* What the handlers are made of *)

(* One NS-VC is written, or what belongs to no NS-VC.                       *)
LEMMA MinorVc ==
    ASSUME NEW D, NEW s, IsEnt(s, D), NEW v \in D, NEW c, IsVc(s.mode, c),
           c.state = s.vc[v].state, c.om_blocked = s.vc[v].om_blocked
    PROVE  Minor(s, [s EXCEPT !.vc = [@ EXCEPT ![v] = c]], D)
  <1> DEFINE t == [s EXCEPT !.vc = [@ EXCEPT ![v] = c]]
  <1>1. t = [x \in EntFields |-> t[x]] /\ Quiet(s, t) /\ t.vc = [s.vc EXCEPT ![v] = c]
    BY DEF IsEnt, EntFields, Quiet, Fixed
  <1> HIDE DEF t
  <1>2. /\ t.vc = [w \in D |-> t.vc[w]] /\ t.vc[v] = c
        /\ \A w \in D \ {v} : t.vc[w] = s.vc[w]
    BY <1>1 DEF IsEnt
  <1>3. IsEnt(t, D)
    BY <1>1, <1>2 DEF IsEnt, Quiet, Fixed
  <1>4. Agrees(s, t, D)
    BY <1>2 DEF Agrees
  <1> QED
    BY <1>1, <1>3, <1>4 DEF Minor, t

LEMMA MinorRest ==
    ASSUME NEW D, NEW s, IsEnt(s, D), NEW x \in {"tx", "ind"}, NEW y
    PROVE  Minor(s, [s EXCEPT ![x] = y], D)
  <1> DEFINE t == [s EXCEPT ![x] = y]
  <1>1. t = [z \in EntFields |-> t[z]] /\ Quiet(s, t) /\ t.vc = s.vc
    BY DEF IsEnt, EntFields, Quiet, Fixed
  <1> HIDE DEF t
  <1>2. IsEnt(t, D) /\ Agrees(s, t, D)
    BY <1>1 DEF IsEnt, Agrees, Quiet, Fixed
  <1> QED
    BY <1>1, <1>2 DEF Minor, t

(* A field of an NS-VC other than the two.                                  *)
LEMMA MinorField ==
    ASSUME NEW D, NEW s, IsEnt(s, D), NEW v \in D,
           NEW x \in VcFields \ {"state", "om_blocked"}, NEW y
    PROVE  Minor(s, [s EXCEPT !.vc[v][x] = y], D)
  <1> DEFINE c == [s.vc[v] EXCEPT ![x] = y]
  <1>1. IsVc(s.mode, c) /\ c.state = s.vc[v].state /\ c.om_blocked = s.vc[v].om_blocked
    BY DEF IsEnt, IsVc, VcFields
  <1>2. [s EXCEPT !.vc[v][x] = y] = [s EXCEPT !.vc = [@ EXCEPT ![v] = c]]
    OBVIOUS
  <1> HIDE DEF c
  <1> QED
    BY <1>1, <1>2, MinorVc

LEMMA MinorTx ==
    ASSUME NEW D, NEW s, IsEnt(s, D), NEW v, NEW p
    PROVE  Minor(s, Tx(s, v, p), D)
  BY MinorRest DEF Tx

LEMMA MinorStatusInd ==
    ASSUME NEW D, NEW s, IsEnt(s, D), NEW cause
    PROVE  Minor(s, StatusInd(s, "ind", cause), D)
  BY MinorRest DEF StatusInd

LEMMA MinorTested ==
    ASSUME NEW D, NEW s, IsEnt(s, D), NEW v \in D
    PROVE  Minor(s, Tested(s, v), D)
  <1> DEFINE t == [s EXCEPT !.vc[v].tries = 0]
             u == [t EXCEPT !.vc[v].mode = "ALIVE"]
             w == [u EXCEPT !.vc[v].test = TRUE]
             x == Tx(w, v, "ALIVE")
  <1>1. Minor(s, t, D)
    BY MinorField DEF VcFields
  <1>2. [s EXCEPT !.vc[v].tries = 0, !.vc[v].mode = "ALIVE", !.vc[v].test = TRUE] = w
    OBVIOUS
  <1> HIDE DEF t
  <1>3. Minor(t, u, D)
    BY <1>1, MinorField DEF VcFields, Minor
  <1> HIDE DEF u
  <1>4. Minor(u, w, D)
    BY <1>3, MinorField DEF VcFields, Minor
  <1> HIDE DEF w
  <1>5. Minor(w, x, D)
    BY <1>4, MinorTx DEF Minor
  <1> HIDE DEF x
  <1>6. Minor(s, x, D) /\ Minor(s, s, D)
    BY <1>1, <1>3, <1>4, <1>5, MinorThen, MinorSame
  <1>7. Tested(s, v) \in {s, x}
    BY <1>2 DEF Tested, x
  <1> QED
    BY <1>6, <1>7

LEMMA MinorStartTest ==
    ASSUME NEW D, NEW s, IsEnt(s, D), NEW v \in D
    PROVE  Minor(s, StartTestProcedure(s, v), D)
  <1>1. {Tested(t, v) : t \in {s}} = {Tested(s, v)}
    OBVIOUS
  <1>2. StartTestProcedure(s, v) = Tested(s, v)
    BY <1>1, TheOne DEF StartTestProcedure
  <1> QED
    BY <1>2, MinorTested

LEMMA MinorStopTest ==
    ASSUME NEW D, NEW s, IsEnt(s, D), NEW v \in D
    PROVE  Minor(s, StopTestProcedure(s, v), D)
  BY MinorField DEF StopTestProcedure, VcFields

LEMMA MinorTwoFields ==
    ASSUME NEW D, NEW s, IsEnt(s, D), NEW v \in D,
           NEW x \in VcFields \ {"state", "om_blocked"}, NEW y,
           NEW z \in VcFields \ {"state", "om_blocked"}, NEW w
    PROVE  Minor(s, [s EXCEPT !.vc[v][x] = y, !.vc[v][z] = w], D)
  <1> DEFINE t == [s EXCEPT !.vc[v][x] = y]
             u == [t EXCEPT !.vc[v][z] = w]
  <1>1. [s EXCEPT !.vc[v][x] = y, !.vc[v][z] = w] = u
    OBVIOUS
  <1>2. Minor(s, t, D)
    BY MinorField
  <1> HIDE DEF t
  <1>3. Minor(t, u, D)
    BY <1>2, MinorField DEF Minor
  <1> HIDE DEF u
  <1> QED
    BY <1>1, <1>2, <1>3, MinorThen

-----------------------------------------------------------------------------
(* ns2_nse_notify_unblocked() *)

(* What it does to the entity, from the NS-VCs that are unblocked.          *)
Carries(s) == Sum(Unblocked(s), Weights(s, "data")) # 0 /\ Sum(Unblocked(s), Weights(s, "sig")) # 0
Announced(s, t, b) ==
    \/ /\ t.nse.alive = s.nse.alive /\ t.nse.first = s.nse.first /\ t.news = s.news
       /\ (b <=> s.nse.alive) \/ (b /\ ~Carries(s)) \/ (~b /\ Carries(s))
    \/ /\ b /\ ~s.nse.alive /\ Carries(s)
       /\ t.nse.alive = TRUE /\ t.nse.first = FALSE
       /\ t.news = Append(s.news, [cause |-> "RECOVERY", first |-> s.nse.first])
    \/ /\ ~b /\ s.nse.alive /\ ~Carries(s)
       /\ t.nse.alive = FALSE /\ t.nse.first = s.nse.first
       /\ t.news = Append(s.news, [cause |-> "FAILURE", first |-> s.nse.first])
Noted(s, t, D, b) ==
    /\ IsEnt(t, D) /\ Agrees(s, t, D) /\ Fixed(s, t)
    /\ Summed(s, t.nse) /\ Announced(s, t, b)
NotedDown(s, t, D) == Noted(s, t, D, FALSE)

LEMMA NotedFromMinor ==
    ASSUME NEW D, NEW s, NEW t, NEW u, NEW b \in BOOLEAN,
           IsEnt(s, D), Minor(s, t, D), Noted(t, u, D, b)
    PROVE  Noted(s, u, D, b)
  <1>1. IsEnt(t, D) /\ Agrees(s, t, D) /\ Quiet(s, t) /\ t.weights = s.weights
    BY DEF Minor, Quiet, Fixed
  <1>2. Unblocked(t) = Unblocked(s)
    BY <1>1, UnblockedSame
  <1>3. Weights(t, "data") = Weights(s, "data") /\ Weights(t, "sig") = Weights(s, "sig")
    BY <1>1 DEF Weights
  <1>4. Summed(s, u.nse) /\ (Carries(t) <=> Carries(s))
    BY <1>2, <1>3 DEF Noted, Summed, Carries
  <1>5. Announced(s, u, b)
    BY <1>1, <1>4 DEF Noted, Announced, Quiet
  <1>6. IsEnt(u, D) /\ Agrees(s, u, D) /\ Fixed(s, u)
    BY <1>1 DEF Noted, Agrees, Fixed, Quiet
  <1> QED
    BY <1>4, <1>5, <1>6 DEF Noted

LEMMA NotedThenMinor ==
    ASSUME NEW D, NEW s, NEW t, NEW u, NEW b, Noted(s, t, D, b), Minor(t, u, D)
    PROVE  Noted(s, u, D, b)
  <1>1. IsEnt(u, D) /\ Agrees(t, u, D) /\ Fixed(t, u) /\ u.nse = t.nse /\ u.news = t.news
    BY DEF Minor, Quiet
  <1>2. Summed(s, u.nse) /\ Announced(s, u, b)
    BY <1>1 DEF Noted, Announced
  <1> QED
    BY <1>1, <1>2 DEF Noted, Agrees, Fixed

LEMMA NotifyNotes ==
    ASSUME NEW D, NEW s, IsEnt(s, D), NEW b \in BOOLEAN, s.nse.alive \in BOOLEAN
    PROVE  Noted(s, NotifyUnblocked(s, b), D, b)
  <1> DEFINE c == Sum(Unblocked(s), Alike)
             d == Sum(Unblocked(s), Weights(s, "data"))
             g == Sum(Unblocked(s), Weights(s, "sig"))
             t == DataSum(s)
  <1>1. /\ t = [z \in EntFields |-> t[z]] /\ Fixed(s, t) /\ t.vc = s.vc /\ t.news = s.news
        /\ t.nse = [z \in NseFields |-> t.nse[z]]
        /\ t.nse.alive = s.nse.alive /\ t.nse.first = s.nse.first
        /\ t.nse.count = c /\ t.nse.data = d /\ t.nse.sig = g
    <2> HIDE DEF c, d, g
    <2>1. t = [s EXCEPT !.nse.count = c, !.nse.data = d, !.nse.sig = g]
      BY DEF DataSum, c, d, g
    <2> HIDE DEF t
    <2> QED
      BY <2>1 DEF IsEnt, EntFields, NseFields, Fixed
  <1> HIDE DEF t
  <1>2. NotifyUnblocked(s, b) = Notified(t, b)
    <2>1. {Notified(x, b) : x \in {t}} = {Notified(t, b)}
      OBVIOUS
    <2> QED
      BY <2>1, TheOne DEF NotifyUnblocked, t
  <1>3. (t.nse.data # 0 /\ t.nse.sig # 0) <=> Carries(s)
    BY <1>1 DEF Carries
  <1> DEFINE yes == [cause |-> "RECOVERY", first |-> t.nse.first]
             no == [cause |-> "FAILURE", first |-> t.nse.first]
             up == [t EXCEPT !.nse = [t.nse EXCEPT !.alive = TRUE, !.first = FALSE],
                             !.news = Append(t.news, yes)]
             down == [t EXCEPT !.nse = [t.nse EXCEPT !.alive = FALSE],
                               !.news = Append(t.news, no)]
  <1>4. [StatusInd([t EXCEPT !.nse.alive = TRUE], "news", "RECOVERY") EXCEPT !.nse.first = FALSE] = up
    BY <1>1 DEF StatusInd, EntFields, NseFields
  <1>5. StatusInd([t EXCEPT !.nse.alive = FALSE], "news", "FAILURE") = down
    BY <1>1 DEF StatusInd, EntFields, NseFields
  <1> HIDE DEF c, d, g
  <1>6. Notified(t, b) = IF b = t.nse.alive THEN t
                         ELSE IF b /\ Carries(s) THEN up
                         ELSE IF t.nse.alive /\ ~Carries(s) THEN down ELSE t
    BY <1>3, <1>4, <1>5 DEF Notified
  <1>7. \A y, z : LET x == [t EXCEPT !.nse = y, !.news = z]
                  IN  /\ x = [w \in EntFields |-> x[w]] /\ Fixed(s, x) /\ x.vc = s.vc
                      /\ x.nse = y /\ x.news = z
    BY <1>1 DEF EntFields, Fixed
  <1>8. \A x : /\ x = [w \in EntFields |-> x[w]] /\ Fixed(s, x) /\ x.vc = s.vc
               /\ x.nse = [w \in NseFields |-> x.nse[w]]
               => IsEnt(x, D) /\ Agrees(s, x, D)
    BY DEF IsEnt, Agrees, Fixed
  <1>9. /\ IsEnt(t, D) /\ Agrees(s, t, D) /\ Summed(s, t.nse)
    BY <1>1, <1>8 DEF Summed, c, d, g
  <1>10. /\ IsEnt(up, D) /\ Agrees(s, up, D) /\ Summed(s, up.nse) /\ Fixed(s, up)
         /\ up.nse.alive = TRUE /\ up.nse.first = FALSE /\ up.news = Append(s.news, [cause |-> "RECOVERY", first |-> s.nse.first])
    <2> DEFINE y == [t.nse EXCEPT !.alive = TRUE, !.first = FALSE]
    <2>1. /\ y = [w \in NseFields |-> y[w]] /\ y.alive = TRUE /\ y.first = FALSE
          /\ y.count = c /\ y.data = d /\ y.sig = g
      BY <1>1 DEF NseFields
    <2> HIDE DEF y
    <2>2. /\ up = [w \in EntFields |-> up[w]] /\ Fixed(s, up) /\ up.vc = s.vc
          /\ up.nse = y /\ up.news = Append(t.news, yes)
      BY <1>7 DEF y
    <2> HIDE DEF up
    <2>3. Summed(s, y)
      BY <2>1 DEF Summed, c, d, g
    <2> QED
      BY <1>1, <1>8, <2>1, <2>2, <2>3
  <1>11. /\ IsEnt(down, D) /\ Agrees(s, down, D) /\ Summed(s, down.nse) /\ Fixed(s, down)
         /\ down.nse.alive = FALSE /\ down.nse.first = s.nse.first
         /\ down.news = Append(s.news, [cause |-> "FAILURE", first |-> s.nse.first])
    <2> DEFINE y == [t.nse EXCEPT !.alive = FALSE]
    <2>1. /\ y = [w \in NseFields |-> y[w]] /\ y.alive = FALSE /\ y.first = t.nse.first
          /\ y.count = c /\ y.data = d /\ y.sig = g
      BY <1>1 DEF NseFields
    <2> HIDE DEF y
    <2>2. /\ down = [w \in EntFields |-> down[w]] /\ Fixed(s, down) /\ down.vc = s.vc
          /\ down.nse = y /\ down.news = Append(t.news, no)
      BY <1>7 DEF y
    <2> HIDE DEF down
    <2>3. Summed(s, y)
      BY <2>1 DEF Summed, c, d, g
    <2> QED
      BY <1>1, <1>8, <2>1, <2>2, <2>3
  <1> HIDE DEF up, down
  <1>12. \/ Notified(t, b) = t /\ ((b <=> s.nse.alive) \/ (b /\ ~Carries(s)) \/ (~b /\ Carries(s)))
         \/ Notified(t, b) = up /\ b /\ ~s.nse.alive /\ Carries(s)
         \/ Notified(t, b) = down /\ ~b /\ s.nse.alive /\ ~Carries(s)
    BY <1>1, <1>6
  <1> HIDE DEF Carries
  <1> QED
    BY <1>1, <1>2, <1>9, <1>10, <1>11, <1>12 DEF Noted, Announced

-----------------------------------------------------------------------------
(* Entering a state *)

LEMMA NotedReset ==
    ASSUME NEW D, NEW s, IsEnt(s, D), NEW v \in D, NEW old, s.nse.alive \in BOOLEAN
    PROVE  NotedDown(s, ResetOnEnter(s, v, old), D)
  <1> DEFINE n == IF old # "RESET" THEN 0 ELSE s.vc[v].N
             q == [s EXCEPT !.vc[v].N = n]
             t == [q EXCEPT !.vc[v].accept_unitdata = FALSE]
             u == IF t.vc[v].initiate_reset THEN Tx(t, v, "RESET") ELSE t
             x == StopTestProcedure(u, v)
  <1>1. ResetOnEnter(s, v, old) = NotifyUnblocked(x, FALSE)
    BY DEF ResetOnEnter
  <1> HIDE DEF n
  <1>2. Minor(s, q, D)
    BY MinorField DEF VcFields
  <1> HIDE DEF q
  <1>3. Minor(q, t, D)
    BY <1>2, MinorField DEF VcFields, Minor
  <1> HIDE DEF t
  <1>4. Minor(t, u, D)
    BY <1>3, MinorTx, MinorSame DEF Minor
  <1> HIDE DEF u
  <1>5. Minor(u, x, D)
    BY <1>4, MinorStopTest DEF Minor
  <1> HIDE DEF x
  <1>6. Minor(s, x, D)
    BY <1>2, <1>3, <1>4, <1>5, MinorThen
  <1>7. Noted(x, NotifyUnblocked(x, FALSE), D, FALSE)
    BY <1>6, NotifyNotes DEF Minor, Quiet
  <1> QED
    BY <1>1, <1>6, <1>7, NotedFromMinor DEF NotedDown

LEMMA NotedBlocked ==
    ASSUME NEW D, NEW s, IsEnt(s, D), NEW v \in D, NEW old, s.nse.alive \in BOOLEAN
    PROVE  NotedDown(s, BlockedOnEnter(s, v, old), D)
  <1> DEFINE n == IF old # "BLOCKED" THEN 0 ELSE s.vc[v].N
             q == [s EXCEPT !.vc[v].N = n]
             t == NotifyUnblocked(q, FALSE)
             u == BlockOrUnblock(t, v, old)
             x == StartTestProcedure(u, v)
  <1>1. BlockedOnEnter(s, v, old) = x
    <2>1. BlockedOnEnter(s, v, old) = StartTestProcedure(The({BlockOrUnblock(y, v, old) : y \in {t}}), v)
      BY DEF BlockedOnEnter
    <2> HIDE DEF t
    <2>2. {BlockOrUnblock(y, v, old) : y \in {t}} = {BlockOrUnblock(t, v, old)}
      OBVIOUS
    <2> QED
      BY <2>1, <2>2, TheOne
  <1> HIDE DEF n
  <1>2. Minor(s, q, D)
    BY MinorField DEF VcFields
  <1> HIDE DEF q
  <1>3. Noted(q, t, D, FALSE)
    BY <1>2, NotifyNotes DEF Minor, Quiet
  <1> HIDE DEF t
  <1>4. Minor(t, u, D)
    <2>1. u \in {t, [t EXCEPT !.vc[v].timer = FALSE], Tx(t, v, "BLOCK"), Tx(t, v, "UNBLOCK")}
      BY DEF BlockOrUnblock
    <2>2. Minor(t, [t EXCEPT !.vc[v].timer = FALSE], D)
      BY <1>3, MinorField DEF VcFields, Noted
    <2>3. Minor(t, t, D) /\ Minor(t, Tx(t, v, "BLOCK"), D) /\ Minor(t, Tx(t, v, "UNBLOCK"), D)
      BY <1>3, MinorTx, MinorSame DEF Noted
    <2> HIDE DEF u
    <2> QED
      BY <2>1, <2>2, <2>3
  <1> HIDE DEF u
  <1>5. Minor(u, x, D)
    BY <1>4, MinorStartTest DEF Minor
  <1> HIDE DEF x
  <1>6. Noted(s, t, D, FALSE) /\ Minor(t, x, D)
    BY <1>2, <1>3, <1>4, <1>5, NotedFromMinor, MinorThen
  <1> QED
    BY <1>1, <1>6, NotedThenMinor DEF NotedDown

LEMMA NotedUnblocked ==
    ASSUME NEW D, NEW s, IsEnt(s, D), NEW v \in D, s.nse.alive \in BOOLEAN
    PROVE  Noted(s, UnblockedOnEnter(s, v), D, TRUE)
  <1> DEFINE q == [s EXCEPT !.vc[v].accept_unitdata = TRUE]
             t == NotifyUnblocked(q, TRUE)
             u == StatusInd(t, "ind", "VC_RECOVERY")
             x == StartTestProcedure(u, v)
  <1>1. UnblockedOnEnter(s, v) = x
    <2>1. UnblockedOnEnter(s, v) = StartTestProcedure(The({StatusInd(y, "ind", "VC_RECOVERY") : y \in {t}}), v)
      BY DEF UnblockedOnEnter
    <2> HIDE DEF t
    <2>2. {StatusInd(y, "ind", "VC_RECOVERY") : y \in {t}} = {StatusInd(t, "ind", "VC_RECOVERY")}
      OBVIOUS
    <2> QED
      BY <2>1, <2>2, TheOne
  <1>2. Minor(s, q, D)
    BY MinorField DEF VcFields
  <1> HIDE DEF q
  <1>3. Noted(q, t, D, TRUE)
    BY <1>2, NotifyNotes DEF Minor, Quiet
  <1> HIDE DEF t
  <1>4. Minor(t, u, D)
    BY <1>3, MinorStatusInd DEF Noted
  <1> HIDE DEF u
  <1>5. Minor(u, x, D)
    BY <1>4, MinorStartTest DEF Minor
  <1> HIDE DEF x
  <1>6. Noted(s, t, D, TRUE) /\ Minor(t, x, D)
    BY <1>2, <1>3, <1>4, <1>5, NotedFromMinor, MinorThen
  <1> QED
    BY <1>1, <1>6, NotedThenMinor

LEMMA NotedRecovering ==
    ASSUME NEW D, NEW s, IsEnt(s, D), NEW v \in D, NEW old, s.nse.alive \in BOOLEAN
    PROVE  NotedDown(s, RecoveringOnEnter(s, v, old), D)
  <1> DEFINE n == IF old # "RECOVERING" THEN 0 ELSE s.vc[v].N
             q == [s EXCEPT !.vc[v].mode = "TEST", !.vc[v].test = TRUE]
             t == [q EXCEPT !.vc[v].N = n]
             x == StartTestProcedure(t, v)
  <1>1. RecoveringOnEnter(s, v, old) = NotifyUnblocked(x, FALSE)
    <2>1. [s EXCEPT !.vc[v].mode = "TEST", !.vc[v].test = TRUE,
                    !.vc[v].N = IF old # "RECOVERING" THEN 0 ELSE @] = t
      BY DEF IsEnt, IsVc, EntFields, VcFields
    <2> HIDE DEF t
    <2> QED
      BY <2>1 DEF RecoveringOnEnter
  <1> HIDE DEF n
  <1>2. Minor(s, q, D)
    BY MinorTwoFields DEF VcFields
  <1> HIDE DEF q
  <1>3. Minor(q, t, D)
    BY <1>2, MinorField DEF VcFields, Minor
  <1> HIDE DEF t
  <1>4. Minor(t, x, D)
    BY <1>3, MinorStartTest DEF Minor
  <1> HIDE DEF x
  <1>5. Minor(s, x, D)
    BY <1>2, <1>3, <1>4, MinorThen
  <1>6. Noted(x, NotifyUnblocked(x, FALSE), D, FALSE)
    BY <1>5, NotifyNotes DEF Minor, Quiet
  <1> QED
    BY <1>1, <1>5, <1>6, NotedFromMinor DEF NotedDown

LEMMA NotedUnconfigured ==
    ASSUME NEW D, NEW s, IsEnt(s, D), NEW v \in D, s.nse.alive \in BOOLEAN
    PROVE  NotedDown(s, NotifyUnblocked(StopTestProcedure(s, v), FALSE), D)
  <1> DEFINE t == StopTestProcedure(s, v)
  <1>1. Minor(s, t, D)
    BY MinorStopTest
  <1> HIDE DEF t
  <1>2. Noted(t, NotifyUnblocked(t, FALSE), D, FALSE)
    BY <1>1, NotifyNotes DEF Minor, Quiet
  <1> QED
    BY <1>1, <1>2, NotedFromMinor DEF t, NotedDown

Targets == States \ {"FREED"}

LEMMA NotedOnEnter ==
    ASSUME NEW D, NEW s, IsEnt(s, D), NEW v \in D, NEW old, s.vc[v].state \in Targets,
           s.nse.alive \in BOOLEAN
    PROVE  Noted(s, OnEnter(s, v, old), D, s.vc[v].state = "UNBLOCKED")
  <1> DEFINE t == OnEnter(s, v, old)
  <1>1. \/ s.vc[v].state = "UNCONFIGURED" /\ t = NotifyUnblocked(StopTestProcedure(s, v), FALSE)
        \/ s.vc[v].state = "RESET" /\ t = ResetOnEnter(s, v, old)
        \/ s.vc[v].state = "BLOCKED" /\ t = BlockedOnEnter(s, v, old)
        \/ s.vc[v].state = "UNBLOCKED" /\ t = UnblockedOnEnter(s, v)
        \/ s.vc[v].state = "RECOVERING" /\ t = RecoveringOnEnter(s, v, old)
    BY DEF OnEnter, Targets, States
  <1> HIDE DEF t
  <1>2. s.vc[v].state # "UNBLOCKED" => Noted(s, t, D, FALSE)
    <2>1. NotedDown(s, NotifyUnblocked(StopTestProcedure(s, v), FALSE), D)
      BY NotedUnconfigured
    <2>2. NotedDown(s, ResetOnEnter(s, v, old), D)
      BY NotedReset
    <2>3. NotedDown(s, BlockedOnEnter(s, v, old), D)
      BY NotedBlocked
    <2>4. NotedDown(s, RecoveringOnEnter(s, v, old), D)
      BY NotedRecovering
    <2> QED
      BY <1>1, <2>1, <2>2, <2>3, <2>4 DEF NotedDown
  <1>3. s.vc[v].state = "UNBLOCKED" => Noted(s, t, D, TRUE)
    BY <1>1, NotedUnblocked
  <1>4. CASE s.vc[v].state = "UNBLOCKED"
    <2>1. (s.vc[v].state = "UNBLOCKED") = TRUE
      BY <1>4
    <2> QED
      BY <1>3, <1>4, <2>1 DEF t
  <1>5. CASE s.vc[v].state # "UNBLOCKED"
    <2>1. (s.vc[v].state = "UNBLOCKED") = FALSE
      BY <1>5
    <2> QED
      BY <1>2, <1>5, <2>1 DEF t
  <1> QED
    BY <1>4, <1>5

-----------------------------------------------------------------------------
(* A change of state, and what the user is told of it *)

(* The state of v is written, to a state that is UNBLOCKED exactly if the   *)
(* entity is notified so.                                                   *)
Written(s, t, v, new, D) ==
    /\ IsEnt(t, D) /\ Quiet(s, t)
    /\ t.vc[v].state = new
    /\ \A w \in D \ {v} : t.vc[w].state = s.vc[w].state

LEMMA NotedTells ==
    ASSUME NEW D, NEW s, IsEnt(s, D), Cached(s, D), NEW v \in D, NEW new, NEW t, NEW u,
           Written(s, t, v, new, D), NEW b \in BOOLEAN, b <=> new = "UNBLOCKED",
           Noted(t, u, D, b)
    PROVE  Cached(u, D) /\ Fixed(s, u) /\ Told(s, u) /\ Near(s, u, D)
  <1>1. IsEnt(t, D) /\ IsEnt(u, D) /\ Agrees(t, u, D) /\ Fixed(t, u) /\ Quiet(s, t)
    BY DEF Written, Noted
  <1>2. Fixed(s, u) /\ t.weights = s.weights /\ u.weights = s.weights
    BY <1>1 DEF Fixed, Quiet
  <1>3. Unblocked(u) = Unblocked(t)
    BY <1>1, UnblockedSame
  <1>4. Unblocked(t) = IF b THEN Unblocked(s) \cup {v} ELSE Unblocked(s) \ {v}
    <2>1. DOMAIN t.vc = D /\ DOMAIN s.vc = D
      BY <1>1, DomainIs
    <2> QED
      BY <2>1 DEF Unblocked, Written
  <1>5. Near(s, u, D)
    BY <1>3, <1>4 DEF Near
  <1>6. Weights(u, "data") = Weights(t, "data") /\ Weights(u, "sig") = Weights(t, "sig")
    BY <1>2 DEF Weights
  <1>7. Summed(u, u.nse)
    BY <1>3, <1>6 DEF Summed, Noted
  <1>8. Carries(t) <=> Able(u)
    <2> DEFINE up == Unblocked(t)
               wd == Weights(t, "data")
               ws == Weights(t, "sig")
    <2>1. up \subseteq D /\ D \subseteq Vcs /\ t.weights \in [D -> [data : Nat, sig : Nat]]
      BY <1>1, <1>2, DomainIs DEF Unblocked, Cached
    <2>2. /\ \A w \in D : wd[w] = t.weights[w].data /\ ws[w] = t.weights[w].sig
          /\ \A w \in D : t.weights[w].data \in Nat /\ t.weights[w].sig \in Nat
      <3>1. DOMAIN t.weights = D /\ \A w \in D : t.weights[w] \in [data : Nat, sig : Nat]
        BY <2>1
      <3> QED
        BY <3>1 DEF Weights
    <2> HIDE DEF up, wd, ws
    <2>3. /\ Sum(up, wd) # 0 <=> \E w \in up : wd[w] # 0
          /\ Sum(up, ws) # 0 <=> \E w \in up : ws[w] # 0
      BY <2>1, <2>2, SumZero
    <2>4. Carries(t) <=> (\E w \in up : wd[w] # 0) /\ (\E w \in up : ws[w] # 0)
      BY <2>3 DEF Carries, up, wd, ws
    <2>5. Able(u) <=> (\E w \in up : t.weights[w].data # 0) /\ (\E w \in up : t.weights[w].sig # 0)
      BY <1>2, <1>3 DEF Able, up
    <2> QED
      BY <2>1, <2>2, <2>4, <2>5
  <1>9. /\ b => (Able(s) => Able(u))
        /\ ~b => (Able(u) => Able(s))
    BY <1>2, <1>3, <1>4 DEF Able
  <1>10. Announced(t, u, b) /\ t.nse = s.nse /\ t.news = s.news
    BY <1>1 DEF Noted, Quiet
  <1>11. /\ s.nse.alive \in BOOLEAN /\ s.nse.first \in BOOLEAN /\ (s.nse.alive <=> Able(s))
         /\ s.nse.alive => ~s.nse.first
    BY DEF Cached
  <1>12. /\ u.nse.alive \in BOOLEAN /\ u.nse.first \in BOOLEAN
         /\ u.nse.alive <=> Able(u)
         /\ u.nse.alive => ~u.nse.first
    BY <1>8, <1>9, <1>10, <1>11 DEF Announced
  <1>13. Told(s, u)
    BY <1>8, <1>9, <1>10, <1>11, <1>12 DEF Announced, Told
  <1>14. Cached(u, D)
    BY <1>2, <1>7, <1>12 DEF Cached
  <1> QED
    BY <1>2, <1>5, <1>13, <1>14

(* With the RESET/BLOCK procedures, to UNBLOCKED only if the operator has   *)
(* not blocked the NS-VC.                                                   *)
May(s, v, new) ==
    s.mode = "BLOCKRESET" => new # "RECOVERING" /\ (new = "UNBLOCKED" => ~s.vc[v].om_blocked)
Reaches(s, t, v, new, D) ==
    /\ t.vc[v].state = IF new \in OutStates[s.vc[v].state] THEN new ELSE s.vc[v].state
    /\ \A w \in D \ {v} : t.vc[w].state = s.vc[w].state

(* From UNBLOCKED, if an operator has just blocked the NS-VC, the change is *)
(* permitted.                                                               *)
LEMMA ChangeMoves ==
    ASSUME NEW D, NEW s, NEW v \in D, Obeys(s, D, {v}), Cached(s, D), NEW new \in Targets,
           NEW timeout, May(s, v, new),
           VcOk(s.mode, s.vc[v]) \/ new \in OutStates[s.vc[v].state]
    PROVE  /\ Moves(s, StateChg(s, v, new, timeout), D)
           /\ Reaches(s, StateChg(s, v, new, timeout), v, new, D)
  <1> DEFINE old == s.vc[v].state
             there == [s EXCEPT !.vc[v].state = new, !.vc[v].timer = timeout,
                                !.vc[v].overdue = FALSE]
             c == [s.vc[v] EXCEPT !.state = new, !.timer = timeout, !.overdue = FALSE]
  <1>0. IsEnt(s, D)
    BY DEF Obeys
  <1>1. StateChg(s, v, new, timeout) = Changed(s, v, new, timeout)
    <2>1. {Changed(t, v, new, timeout) : t \in {s}} = {Changed(s, v, new, timeout)}
      OBVIOUS
    <2> QED
      BY <2>1, TheOne DEF StateChg
  <1>2. CASE new \notin OutStates[old]
    <2>1. Changed(s, v, new, timeout) = s
      BY <1>2 DEF Changed
    <2>2. All(s, D)
      BY <1>2 DEF Obeys, All
    <2>3. Moves(s, s, D)
      BY <2>2, AllIs, MovesMinor
    <2> QED
      BY <1>1, <1>2, <2>1, <2>3 DEF Reaches
  <1>3. CASE new \in OutStates[old]
    <2>1. Changed(s, v, new, timeout) = The({OnEnter(u, v, old) : u \in {there}})
      BY <1>3 DEF Changed
    <2>2. c = [x \in VcFields |-> c[x]] /\ c.state = new /\ c.om_blocked = s.vc[v].om_blocked
      BY <1>0 DEF IsVc, IsEnt, VcFields
    <2>3. there = [s EXCEPT !.vc = [s.vc EXCEPT ![v] = c]]
      BY <1>0 DEF IsEnt, EntFields
    <2> HIDE DEF c, there, old
    <2>4. /\ there = [x \in EntFields |-> there[x]] /\ Quiet(s, there)
          /\ there.vc = [s.vc EXCEPT ![v] = c]
      BY <1>0, <2>3 DEF IsEnt, EntFields, Quiet, Fixed
    <2>5. there.vc = [w \in D |-> there.vc[w]] /\ there.vc[v] = c /\ \A w \in D \ {v} : there.vc[w] = s.vc[w]
      BY <1>0, <2>4 DEF IsEnt
    <2>6. new \in StatesOf(s.mode)
      BY DEF StatesOf, May, Targets
    <2>7. there.mode = s.mode /\ there.nse = s.nse
      BY <2>4 DEF Quiet, Fixed
    <2>8. IsVc(s.mode, c) /\ VcOk(s.mode, c)
      BY <2>2, <2>6 DEF IsVc, VcOk, May
    <2>9. IsEnt(there, D)
      BY <1>0, <2>4, <2>5, <2>7, <2>8 DEF IsEnt
    <2>10. Obeys(there, D, {})
      BY <2>5, <2>7, <2>8, <2>9 DEF Obeys
    <2>11. Written(s, there, v, new, D)
      BY <2>2, <2>4, <2>5, <2>9 DEF Written
    <2>12. PICK t : t = OnEnter(there, v, old)
      OBVIOUS
    <2>13. StateChg(s, v, new, timeout) = t
      <3>1. {OnEnter(u, v, old) : u \in {there}} = {OnEnter(there, v, old)}
        OBVIOUS
      <3> QED
        BY <1>1, <2>1, <2>12, <3>1, TheOne
    <2>14. PICK b \in BOOLEAN : b = (there.vc[v].state = "UNBLOCKED")
      OBVIOUS
    <2>15. Noted(there, t, D, b)
      <3>1. there.vc[v].state \in Targets /\ there.nse.alive \in BOOLEAN
        BY <2>2, <2>5, <2>7 DEF Cached
      <3>2. Noted(there, OnEnter(there, v, old), D, there.vc[v].state = "UNBLOCKED")
        BY <2>9, <3>1, NotedOnEnter
      <3> QED
        BY <2>12, <2>14, <3>2
    <2>16. b <=> new = "UNBLOCKED"
      BY <2>2, <2>5, <2>14
    <2>17. Cached(t, D) /\ Fixed(s, t) /\ Told(s, t) /\ Near(s, t, D)
      BY <1>0, <2>11, <2>15, <2>16, NotedTells
    <2>18. Obeys(t, D, {})
      BY <2>10, <2>15 DEF Noted, Obeys, Agrees, VcOk, Fixed
    <2>19. Reaches(s, t, v, new, D)
      BY <1>3, <2>2, <2>5, <2>15 DEF Noted, Agrees, Reaches, old
    <2> QED
      BY <2>13, <2>17, <2>18, <2>19 DEF Moves, All
  <1> QED
    BY <1>2, <1>3

-----------------------------------------------------------------------------
(* The handlers *)

(* Minor changes, then a change of state.                                   *)
LEMMA AllChange ==
    ASSUME NEW D, NEW s, NEW v \in D, All(s, D), NEW t, Minor(s, t, D), NEW new \in Targets,
           NEW timeout, May(s, v, new)
    PROVE  /\ Moves(s, StateChg(t, v, new, timeout), D)
           /\ Reaches(s, StateChg(t, v, new, timeout), v, new, D)
  <1>1. All(t, D) /\ Cached(t, D) /\ IsEnt(t, D) /\ IsEnt(s, D)
    BY MovesMinor, AllIs DEF Minor
  <1>2. Obeys(t, D, {v}) /\ VcOk(t.mode, t.vc[v])
    BY <1>1, AllIs
  <1>3. Agrees(s, t, D) /\ Quiet(s, t)
    BY DEF Minor
  <1>4. May(t, v, new)
    BY <1>3 DEF Agrees, Quiet, Fixed, May
  <1>5. PICK u : u = StateChg(t, v, new, timeout)
    OBVIOUS
  <1>6. Moves(t, u, D) /\ Reaches(t, u, v, new, D)
    BY <1>1, <1>2, <1>4, <1>5, ChangeMoves
  <1>7. Unblocked(t) = Unblocked(s)
    BY <1>1, <1>3, UnblockedSame
  <1>8. Moves(s, u, D)
    BY <1>3, <1>6, <1>7, StillMoves
  <1>9. Reaches(s, u, v, new, D)
    BY <1>3, <1>6 DEF Reaches, Agrees
  <1> QED
    BY <1>5, <1>8, <1>9

(* An operator's order, or its end.                                         *)
LEMMA OmSet ==
    ASSUME NEW D, NEW s, NEW v \in D, All(s, D), NEW b \in BOOLEAN
    PROVE  LET t == [s EXCEPT !.vc[v].om_blocked = b]
           IN  /\ Obeys(t, D, {v}) /\ (~b => All(t, D)) /\ Cached(t, D)
               /\ Quiet(s, t) /\ Unblocked(t) = Unblocked(s)
  <1> DEFINE t == [s EXCEPT !.vc[v].om_blocked = b]
             c == [s.vc[v] EXCEPT !.om_blocked = b]
  <1>0. IsEnt(s, D) /\ Cached(s, D) /\ \A w \in D : VcOk(s.mode, s.vc[w])
    BY AllIs
  <1>1. IsVc(s.mode, c) /\ c.state = s.vc[v].state /\ c.om_blocked = b
    BY <1>0 DEF IsEnt, IsVc, VcFields
  <1>2. t = [s EXCEPT !.vc = [s.vc EXCEPT ![v] = c]]
    BY <1>0 DEF IsEnt, EntFields
  <1> HIDE DEF c, t
  <1>3. /\ t = [x \in EntFields |-> t[x]] /\ Quiet(s, t)
        /\ t.vc = [s.vc EXCEPT ![v] = c]
    BY <1>0, <1>2 DEF IsEnt, EntFields, Quiet, Fixed
  <1>4. t.vc = [w \in D |-> t.vc[w]] /\ t.vc[v] = c /\ \A w \in D \ {v} : t.vc[w] = s.vc[w]
    BY <1>0, <1>3 DEF IsEnt
  <1>5. t.mode = s.mode /\ t.nse = s.nse
    BY <1>3 DEF Quiet, Fixed
  <1>6. IsEnt(t, D)
    BY <1>0, <1>1, <1>3, <1>4, <1>5 DEF IsEnt
  <1>7. Obeys(t, D, {v})
    BY <1>0, <1>4, <1>5, <1>6 DEF Obeys
  <1>8. Unblocked(t) = Unblocked(s)
    <2>1. DOMAIN t.vc = D /\ DOMAIN s.vc = D /\ \A w \in D : t.vc[w].state = s.vc[w].state
      BY <1>0, <1>1, <1>4, <1>6, DomainIs
    <2> QED
      BY <2>1 DEF Unblocked
  <1>9. Cached(t, D)
    BY <1>0, <1>3, <1>8, CachedStill
  <1>10. ~b => VcOk(t.mode, t.vc[v])
    BY <1>1, <1>4 DEF VcOk
  <1>11. ~b => All(t, D)
    BY <1>0, <1>4, <1>5, <1>6, <1>9, <1>10 DEF All, Obeys
  <1> QED
    BY <1>3, <1>7, <1>8, <1>9, <1>11 DEF t

LEMMA StartMoves ==
    ASSUME NEW D, NEW s, NEW v \in D, All(s, D)
    PROVE  Moves(s, StUnconfigured(s, v), D)
  <1> DEFINE t == [s EXCEPT !.vc[v].initiate_reset = s.vc[v].initiator,
                            !.vc[v].initiate_block = s.vc[v].initiator]
             u == [t EXCEPT !.vc[v].om_blocked = FALSE]
             new == IF s.mode = "BLOCKRESET" THEN "RESET" ELSE "RECOVERING"
  <1>1. StUnconfigured(s, v) = StateChg(u, v, new, TRUE)
    BY DEF StUnconfigured
  <1>2. Minor(s, t, D)
    BY AllIs, MinorTwoFields DEF VcFields
  <1> HIDE DEF t
  <1>3. All(t, D) /\ IsEnt(t, D) /\ IsEnt(s, D) /\ Quiet(s, t) /\ Agrees(s, t, D)
    BY <1>2, MovesMinor, AllIs DEF Minor
  <1>4. All(u, D) /\ Quiet(t, u) /\ Unblocked(u) = Unblocked(t)
    BY <1>3, OmSet
  <1> HIDE DEF u
  <1>5. Quiet(s, u) /\ Unblocked(u) = Unblocked(s)
    BY <1>3, <1>4, UnblockedSame DEF Quiet, Fixed
  <1>6. new \in Targets /\ May(u, v, new)
    BY <1>5 DEF Targets, States, May, Quiet, Fixed
  <1> HIDE DEF new
  <1>7. Moves(u, StateChg(u, v, new, TRUE), D)
    BY <1>4, <1>6, AllIs, AllChange
  <1> QED
    BY <1>1, <1>5, <1>7, StillMoves

LEMMA MayDown ==
    ASSUME NEW s, NEW v, NEW new \in {"UNCONFIGURED", "RESET", "BLOCKED"}
    PROVE  new \in Targets /\ May(s, v, new)
  BY DEF Targets, States, May

LEMMA OmResetMoves ==
    ASSUME NEW D, NEW s, NEW v \in D, All(s, D)
    PROVE  Moves(s, OmReset(s, v), D)
  <1> DEFINE t == [s EXCEPT !.vc[v].initiate_reset = TRUE]
  <1>1. OmReset(s, v) \in {s, StateChg(t, v, "RESET", TRUE)}
    BY DEF OmReset
  <1>2. Minor(s, t, D)
    BY AllIs, MinorField DEF VcFields
  <1> HIDE DEF t
  <1>3. Moves(s, StateChg(t, v, "RESET", TRUE), D)
    BY <1>2, AllChange, MayDown
  <1> QED
    BY <1>1, <1>3, AllIs, MovesMinor

(* The order takes effect at once: BLOCKED is permitted from UNBLOCKED.     *)
LEMMA OmBlockMoves ==
    ASSUME NEW D, NEW s, NEW v \in D, All(s, D)
    PROVE  Moves(s, OmBlock(s, v), D)
  <1> DEFINE t == [s EXCEPT !.vc[v].initiate_block = TRUE]
             u == [t EXCEPT !.vc[v].om_blocked = TRUE]
  <1>1. OmBlock(s, v) \in {s, StateChg(u, v, "BLOCKED", TRUE)}
    BY DEF OmBlock
  <1>2. Minor(s, t, D)
    BY AllIs, MinorField DEF VcFields
  <1> HIDE DEF t
  <1>3. All(t, D) /\ IsEnt(t, D) /\ IsEnt(s, D) /\ Quiet(s, t) /\ Agrees(s, t, D)
    BY <1>2, MovesMinor, AllIs DEF Minor
  <1>4. Obeys(u, D, {v}) /\ Cached(u, D) /\ Quiet(t, u) /\ Unblocked(u) = Unblocked(t)
    <2>1. PICK b \in BOOLEAN : b = TRUE
      OBVIOUS
    <2>2. PICK y : y = [t EXCEPT !.vc[v].om_blocked = b]
      OBVIOUS
    <2>3. Obeys(y, D, {v}) /\ Cached(y, D) /\ Quiet(t, y) /\ Unblocked(y) = Unblocked(t)
      BY <1>3, <2>2, OmSet
    <2> QED
      BY <2>1, <2>2, <2>3
  <1> HIDE DEF u
  <1>5. u.vc[v].state = "UNBLOCKED" => "BLOCKED" \in OutStates[u.vc[v].state]
    BY DEF OutStates
  <1>6. VcOk(u.mode, u.vc[v]) \/ "BLOCKED" \in OutStates[u.vc[v].state]
    BY <1>5 DEF VcOk
  <1>7. Moves(u, StateChg(u, v, "BLOCKED", TRUE), D)
    BY <1>4, <1>6, ChangeMoves, MayDown
  <1>8. Quiet(s, u) /\ Unblocked(u) = Unblocked(s)
    BY <1>3, <1>4, UnblockedSame DEF Quiet, Fixed
  <1>9. Moves(s, StateChg(u, v, "BLOCKED", TRUE), D)
    BY <1>7, <1>8, StillMoves
  <1> QED
    BY <1>1, <1>9, AllIs, MovesMinor

LEMMA OmUnblockMoves ==
    ASSUME NEW D, NEW s, NEW v \in D, All(s, D)
    PROVE  Moves(s, OmUnblock(s, v), D)
  <1> DEFINE t == [s EXCEPT !.vc[v].om_blocked = FALSE]
  <1>1. OmUnblock(s, v) \in {t, StateChg(t, v, "BLOCKED", TRUE)}
    BY DEF OmUnblock
  <1>2. All(t, D) /\ Quiet(s, t) /\ Unblocked(t) = Unblocked(s)
    BY OmSet
  <1> HIDE DEF t
  <1>3. Moves(t, t, D) /\ Moves(t, StateChg(t, v, "BLOCKED", TRUE), D)
    BY <1>2, AllIs, AllChange, MayDown, MovesMinor
  <1> QED
    BY <1>1, <1>2, <1>3, StillMoves

LEMMA ForceUnconfiguredMoves ==
    ASSUME NEW D, NEW s, NEW v \in D, All(s, D)
    PROVE  Moves(s, ForceUnconfigured(s, v), D)
  BY AllIs, AllChange, MayDown DEF ForceUnconfigured

LEMMA FreeMoves ==
    ASSUME NEW D, NEW s, NEW v \in D, All(s, D)
    PROVE  Moves(s, FreeNsvc(s, v), D)
  <1> DEFINE t == StatusInd(s, "ind", "VC_FAILURE")
             c == [NewVc(t.vc[v].initiator) EXCEPT !.state = "FREED"]
             u == [t EXCEPT !.vc = [t.vc EXCEPT ![v] = c]]
             x == NotifyUnblocked(u, FALSE)
  <1>1. FreeNsvc(s, v) \in {s, x}
    BY DEF FreeNsvc
  <1>2. Minor(s, t, D)
    BY AllIs, MinorStatusInd
  <1> HIDE DEF t
  <1>3. All(t, D) /\ IsEnt(t, D) /\ Cached(t, D) /\ Quiet(s, t)
        /\ IsEnt(s, D) /\ Agrees(s, t, D) /\ \A w \in D : VcOk(t.mode, t.vc[w])
    BY <1>2, MovesMinor, AllIs DEF Minor
  <1>4. IsVc(t.mode, c) /\ VcOk(t.mode, c) /\ c.state = "FREED"
    BY DEF NewVc, IsVc, VcOk, VcFields, StatesOf, States
  <1> HIDE DEF c
  <1>5. /\ u = [y \in EntFields |-> u[y]] /\ Quiet(t, u)
        /\ u.vc = [t.vc EXCEPT ![v] = c]
    BY <1>3 DEF IsEnt, EntFields, Quiet, Fixed
  <1> HIDE DEF u
  <1>6. u.vc = [w \in D |-> u.vc[w]] /\ u.vc[v] = c /\ \A w \in D \ {v} : u.vc[w] = t.vc[w]
    BY <1>3, <1>5 DEF IsEnt
  <1>7. u.mode = t.mode /\ u.nse = t.nse
    BY <1>5 DEF Quiet, Fixed
  <1>8. IsEnt(u, D) /\ Obeys(u, D, {})
    BY <1>3, <1>4, <1>5, <1>6, <1>7 DEF Obeys, IsEnt
  <1>9. Written(t, u, v, "FREED", D)
    BY <1>4, <1>5, <1>6, <1>8 DEF Written
  <1>10. NotedDown(u, x, D)
    <2>1. u.nse.alive \in BOOLEAN
      BY <1>3, <1>7 DEF Cached
    <2> QED
      BY <1>8, <2>1, NotifyNotes DEF NotedDown
  <1> HIDE DEF x
  <1>11. PICK b \in BOOLEAN : b = FALSE
    OBVIOUS
  <1>12. Noted(u, x, D, b) /\ (b <=> "FREED" = "UNBLOCKED")
    BY <1>10, <1>11 DEF NotedDown
  <1>13. Cached(x, D) /\ Fixed(t, x) /\ Told(t, x) /\ Near(t, x, D)
    BY <1>3, <1>9, <1>12, NotedTells
  <1>14. Obeys(x, D, {})
    BY <1>8, <1>12 DEF Noted, Obeys, Agrees, VcOk, Fixed
  <1>15. Moves(t, x, D)
    BY <1>13, <1>14 DEF Moves, All
  <1>16. Moves(s, x, D)
    BY <1>3, <1>15, UnblockedSame, StillMoves
  <1> QED
    BY <1>1, <1>16, AllIs, MovesMinor

-----------------------------------------------------------------------------
(* PDUs of the peer *)

LEMMA StResetMoves ==
    ASSUME NEW D, NEW s, NEW v \in D, All(s, D), NEW event
    PROVE  /\ Moves(s, StReset(s, v, event), D)
           /\ s.vc[v].state # "UNBLOCKED" => Unblocked(StReset(s, v, event)) = Unblocked(s)
  <1> DEFINE t == IF event = "RESET" THEN Tx(s, v, "RESET_ACK") ELSE s
             u == StReset(s, v, event)
  <1>1. \/ u = t \/ u = StateChg(t, v, "BLOCKED", TRUE) \/ u = StateChg(t, v, "BLOCKED", FALSE)
    BY DEF StReset
  <1>2. Minor(s, t, D)
    BY AllIs, MinorTx
  <1> HIDE DEF t, u
  <1>3. CASE u = t
    BY <1>2, <1>3, MovesMinor, AllIs, UnblockedSame DEF u, Minor
  <1>4. CASE u # t
    <2>1. \E b : u = StateChg(t, v, "BLOCKED", b)
      BY <1>1, <1>4
    <2>2. Moves(s, u, D) /\ Reaches(s, u, v, "BLOCKED", D)
      BY <1>2, <2>1, AllChange, MayDown
    <2>3. s.vc[v].state # "UNBLOCKED" => Unblocked(u) = Unblocked(s)
      <3>1. IsEnt(s, D) /\ IsEnt(u, D)
        BY <2>2, AllIs DEF Moves
      <3>2. DOMAIN s.vc = D /\ DOMAIN u.vc = D
        BY <3>1, DomainIs
      <3> QED
        BY <2>2, <3>2 DEF Unblocked, Reaches
    <2> QED
      BY <2>2, <2>3 DEF u
  <1> QED
    BY <1>3, <1>4

LEMMA StOmBlockedMoves ==
    ASSUME NEW D, NEW s, NEW v \in D, All(s, D), NEW event
    PROVE  Moves(s, StOmBlocked(s, v, event), D)
  <1> DEFINE t == [s EXCEPT !.vc[v].accept_unitdata = FALSE]
             off == [t EXCEPT !.vc[v].timer = FALSE, !.vc[v].overdue = FALSE]
             on == [t EXCEPT !.vc[v].timer = TRUE, !.vc[v].overdue = TRUE]
  <1>1. StOmBlocked(s, v, event) \in {s, off, Tx(off, v, "BLOCK_ACK"), Tx(on, v, "BLOCK")}
    BY DEF StOmBlocked
  <1>2. Minor(s, t, D)
    BY AllIs, MinorField DEF VcFields
  <1> HIDE DEF t
  <1>3. Minor(t, off, D) /\ Minor(t, on, D)
    BY <1>2, MinorTwoFields DEF VcFields, Minor
  <1> HIDE DEF off, on
  <1>4. Minor(off, Tx(off, v, "BLOCK_ACK"), D) /\ Minor(on, Tx(on, v, "BLOCK"), D)
    BY <1>3, MinorTx DEF Minor
  <1>5. Minor(s, off, D) /\ Minor(s, on, D) /\ Minor(s, s, D)
    BY <1>2, <1>3, MinorThen, AllIs
  <1>6. Minor(s, Tx(off, v, "BLOCK_ACK"), D) /\ Minor(s, Tx(on, v, "BLOCK"), D)
    BY <1>4, <1>5, MinorThen
  <1> QED
    BY <1>1, <1>5, <1>6, MovesMinor

LEMMA StJustBlockedMoves ==
    ASSUME NEW D, NEW s, NEW v \in D, All(s, D), NEW event, ~s.vc[v].om_blocked
    PROVE  Moves(s, StJustBlocked(s, v, event), D)
  <1> DEFINE t == Tx(s, v, "UNBLOCK_ACK")
  <1>1. StJustBlocked(s, v, event) \in
            {s, Tx(s, v, "BLOCK_ACK"), StateChg(t, v, "UNBLOCKED", FALSE), StateChg(s, v, "UNBLOCKED", FALSE)}
    BY DEF StJustBlocked
  <1>2. Minor(s, t, D) /\ Minor(s, Tx(s, v, "BLOCK_ACK"), D) /\ Minor(s, s, D)
    BY AllIs, MinorTx
  <1> HIDE DEF t
  <1>3. "UNBLOCKED" \in Targets /\ May(s, v, "UNBLOCKED")
    BY DEF Targets, States, May
  <1>4. Moves(s, StateChg(t, v, "UNBLOCKED", FALSE), D) /\ Moves(s, StateChg(s, v, "UNBLOCKED", FALSE), D)
    BY <1>2, <1>3, AllChange
  <1> QED
    BY <1>1, <1>2, <1>4, MovesMinor

LEMMA StUnblockedMoves ==
    ASSUME NEW D, NEW s, NEW v \in D, All(s, D), NEW event
    PROVE  Moves(s, StUnblocked(s, v, event), D)
  <1> DEFINE t == IF event = "BLOCK" THEN Tx(s, v, "BLOCK_ACK") ELSE s
             u == [t EXCEPT !.vc[v].initiate_block = FALSE, !.vc[v].accept_unitdata = FALSE]
  <1>1. StUnblocked(s, v, event) \in {s, Tx(s, v, "UNBLOCK_ACK"), StateChg(u, v, "BLOCKED", FALSE)}
    BY DEF StUnblocked
  <1>2. Minor(s, t, D) /\ Minor(s, Tx(s, v, "UNBLOCK_ACK"), D) /\ Minor(s, s, D)
    BY AllIs, MinorTx
  <1> HIDE DEF t
  <1>3. Minor(t, u, D)
    BY <1>2, MinorTwoFields DEF VcFields, Minor
  <1> HIDE DEF u
  <1>4. Minor(s, u, D)
    BY <1>2, <1>3, MinorThen
  <1>5. Moves(s, StateChg(u, v, "BLOCKED", FALSE), D)
    BY <1>4, AllChange, MayDown
  <1> QED
    BY <1>1, <1>2, <1>5, MovesMinor

(* Two changes of state in one event; the second changes nothing for the    *)
(* user.                                                                    *)
LEMMA RxResetMoves ==
    ASSUME NEW D, NEW s, NEW v \in D, All(s, D)
    PROVE  Moves(s, RxReset(s, v), D)
  <1> DEFINE t == [s EXCEPT !.vc[v].initiate_reset = FALSE]
             r == StateChg(t, v, "RESET", TRUE)
             u == IF s.vc[v].state = "RESET" THEN s ELSE r
  <1>1. Minor(s, t, D)
    BY AllIs, MinorField DEF VcFields
  <1>2. RxReset(s, v) = IF s.mode # "BLOCKRESET" THEN s
                        ELSE The({StReset(x, v, "RESET") : x \in {u}})
    BY DEF RxReset
  <1> HIDE DEF t
  <1>3. Moves(s, r, D) /\ Reaches(s, r, v, "RESET", D) /\ Moves(s, s, D)
    BY <1>1, AllChange, MayDown, AllIs, MovesMinor
  <1>4. r.vc[v].state # "UNBLOCKED"
    <2>1. s.vc[v].state = "UNBLOCKED" => "RESET" \in OutStates[s.vc[v].state]
      BY DEF OutStates
    <2> HIDE DEF r
    <2> QED
      BY <1>3, <2>1 DEF Reaches
  <1> HIDE DEF r
  <1>5. Moves(s, u, D) /\ u.vc[v].state # "UNBLOCKED" /\ All(u, D)
    BY <1>3, <1>4 DEF Moves
  <1> HIDE DEF u
  <1>6. {StReset(x, v, "RESET") : x \in {u}} = {StReset(u, v, "RESET")}
    OBVIOUS
  <1>7. RxReset(s, v) \in {s, StReset(u, v, "RESET")}
    BY <1>2, <1>6, TheOne
  <1>8. Moves(u, StReset(u, v, "RESET"), D) /\ Unblocked(StReset(u, v, "RESET")) = Unblocked(u)
    BY <1>5, StResetMoves
  <1>9. Moves(s, StReset(u, v, "RESET"), D)
    BY <1>5, <1>8, MovesThen
  <1> QED
    BY <1>3, <1>7, <1>9

(* With the RESET/BLOCK procedures there is no state RECOVERING, and an     *)
(* ALIVE_ACK unblocks nothing.                                              *)
LEMMA RxAliveAckMoves ==
    ASSUME NEW D, NEW s, NEW v \in D, All(s, D)
    PROVE  Moves(s, RxAliveAck(s, v), D)
  <1> DEFINE t == [s EXCEPT !.vc[v].mode = "TEST", !.vc[v].test = TRUE]
  <1>1. \/ s.vc[v].state = "RECOVERING" /\ RxAliveAck(s, v) = StateChg(s, v, "UNBLOCKED", FALSE)
        \/ RxAliveAck(s, v) \in {s, t}
    BY DEF RxAliveAck, RecvTestProcedure
  <1>2. Minor(s, t, D) /\ Minor(s, s, D)
    BY AllIs, MinorTwoFields DEF VcFields
  <1> HIDE DEF t
  <1>3. ASSUME s.vc[v].state = "RECOVERING" PROVE Moves(s, StateChg(s, v, "UNBLOCKED", FALSE), D)
    <2>1. IsVc(s.mode, s.vc[v])
      BY AllIs DEF IsEnt
    <2>2. s.mode # "BLOCKRESET"
      BY <1>3, <2>1 DEF IsVc, StatesOf
    <2>3. "UNBLOCKED" \in Targets /\ May(s, v, "UNBLOCKED")
      BY <2>2 DEF Targets, States, May
    <2> QED
      BY <1>2, <2>3, AllChange
  <1> QED
    BY <1>1, <1>2, <1>3, MovesMinor

LEMMA RxOthersMove ==
    ASSUME NEW D, NEW s, NEW v \in D, All(s, D)
    PROVE  Moves(s, RxAlive(s, v), D) /\ Moves(s, RxUnitdata(s, v), D)
  <1>1. RxAlive(s, v) \in {s, Tx(s, v, "ALIVE_ACK")}
    BY DEF RxAlive
  <1> DEFINE y == Append(s.ind, [cause |-> "UNITDATA", first |-> FALSE])
             t == [s EXCEPT !["ind"] = y]
  <1>2. RxUnitdata(s, v) \in {s, t, Tx(s, v, "STATUS_BLOCKED")}
    BY DEF RxUnitdata
  <1> HIDE DEF y
  <1>3. Minor(s, t, D) /\ Minor(s, s, D)
    BY AllIs, MinorRest
  <1> HIDE DEF t
  <1>4. Minor(s, Tx(s, v, "ALIVE_ACK"), D) /\ Minor(s, Tx(s, v, "STATUS_BLOCKED"), D)
    BY AllIs, MinorTx
  <1> QED
    BY <1>1, <1>2, <1>3, <1>4, MovesMinor

LEMMA RxStatusMoves ==
    ASSUME NEW D, NEW s, NEW v \in D, All(s, D), NEW type
    PROVE  Moves(s, RxStatus(s, v, type), D)
  <1> DEFINE t == [s EXCEPT !.vc[v].initiate_block = FALSE, !.vc[v].accept_unitdata = FALSE]
  <1>1. RxStatus(s, v, type) \in {s, StateChg(t, v, "BLOCKED", TRUE), StateChg(s, v, "RESET", TRUE)}
    BY DEF RxStatus
  <1>2. Minor(s, t, D) /\ Minor(s, s, D)
    BY AllIs, MinorTwoFields DEF VcFields
  <1> HIDE DEF t
  <1>3. Moves(s, StateChg(t, v, "BLOCKED", TRUE), D) /\ Moves(s, StateChg(s, v, "RESET", TRUE), D)
    BY <1>2, AllChange, MayDown
  <1> QED
    BY <1>1, <1>2, <1>3, MovesMinor

LEMMA DispatchMoves ==
    ASSUME NEW D, NEW s, NEW v \in D, All(s, D), NEW event
    PROVE  Moves(s, Dispatch(s, v, event), D)
  <1>1. Dispatch(s, v, event) \in
            {s, RxReset(s, v), RxAlive(s, v), RxAliveAck(s, v), RxUnitdata(s, v),
             RxStatus(s, v, event), StReset(s, v, event), StBlocked(s, v, event),
             StUnblocked(s, v, event)}
    BY DEF Dispatch
  <1>2. Moves(s, RxReset(s, v), D) /\ Moves(s, RxAlive(s, v), D) /\ Moves(s, RxAliveAck(s, v), D)
        /\ Moves(s, RxUnitdata(s, v), D)
    BY RxResetMoves, RxOthersMove, RxAliveAckMoves
  <1>3. Moves(s, RxStatus(s, v, event), D) /\ Moves(s, StReset(s, v, event), D) /\ Moves(s, StUnblocked(s, v, event), D)
    BY RxStatusMoves, StResetMoves, StUnblockedMoves
  <1>4. Moves(s, StBlocked(s, v, event), D)
    BY StOmBlockedMoves, StJustBlockedMoves DEF StBlocked
  <1>5. Moves(s, s, D)
    BY AllIs, MovesMinor
  <1> QED
    BY <1>1, <1>2, <1>3, <1>4, <1>5

LEMMA VcRxMoves ==
    ASSUME NEW D, NEW s, NEW v \in D, All(s, D), NEW p
    PROVE  Moves(s, VcRx(s, v, p), D)
  <1> DEFINE w == p.vc
             d == Dispatch(s, w, "BLOCK_FOREIGN")
             ack == [d EXCEPT !["tx"] = Append(d.tx, <<v, Pdu("BLOCK_ACK", w)>>)]
             unknown == [s EXCEPT !["tx"] = Append(s.tx, <<v, Pdu("STATUS_UNKNOWN", w)>>)]
  <1>0. DOMAIN s.vc = D
    BY AllIs, DomainIs
  <1>1. \/ VcRx(s, v, p) \in {s, Dispatch(s, v, p.type), Tx(s, v, "RESET_ACK"), unknown}
        \/ w \in D /\ VcRx(s, v, p) \in {ack, Dispatch(s, w, p.type)}
    BY <1>0 DEF VcRx
  <1>2. Moves(s, Dispatch(s, v, p.type), D) /\ Moves(s, Tx(s, v, "RESET_ACK"), D) /\ Moves(s, s, D)
    BY DispatchMoves, AllIs, MovesMinor, MinorTx
  <1>3. Moves(s, unknown, D)
    <2>1. PICK y : y = Append(s.tx, <<v, Pdu("STATUS_UNKNOWN", w)>>)
      OBVIOUS
    <2>2. Minor(s, [s EXCEPT !["tx"] = y], D)
      BY AllIs, MinorRest
    <2> QED
      BY <2>1, <2>2, MovesMinor
  <1>4. ASSUME w \in D PROVE Moves(s, ack, D) /\ Moves(s, Dispatch(s, w, p.type), D)
    <2>1. Moves(s, d, D) /\ Moves(s, Dispatch(s, w, p.type), D)
      BY <1>4, DispatchMoves
    <2> HIDE DEF d
    <2>2. PICK y : y = Append(d.tx, <<v, Pdu("BLOCK_ACK", w)>>)
      OBVIOUS
    <2>3. IsEnt(d, D)
      BY <2>1, AllIs DEF Moves
    <2>4. Minor(d, [d EXCEPT !["tx"] = y], D)
      BY <2>3, MinorRest
    <2>5. Moves(s, [d EXCEPT !["tx"] = y], D)
      BY <2>1, <2>4, MovesMinorLast
    <2> QED
      BY <2>1, <2>2, <2>5
  <1> HIDE DEF ack, unknown, d
  <1> QED
    BY <1>1, <1>2, <1>3, <1>4

-----------------------------------------------------------------------------
(* Timers, and requests of the user *)

(* With the RESET/BLOCK procedures an NS-VC that does not answer is reset.  *)
LEMMA AliveTimeoutMoves ==
    ASSUME NEW D, NEW s, NEW v \in D, All(s, D)
    PROVE  Moves(s, AliveTimeout(s, v), D)
  <1> DEFINE again == [s EXCEPT !.vc[v].mode = "ALIVE", !.vc[v].tries = 0]
             n == s.vc[v].tries + 1
             t == [s EXCEPT !.vc[v].tries = n]
             u == [t EXCEPT !.vc[v].test = FALSE]
             new == IF s.mode = "BLOCKRESET" THEN "RESET" ELSE "RECOVERING"
  <1>1. AliveTimeout(s, v) \in {Tx(again, v, "ALIVE"), Tx(t, v, "ALIVE"), StateChg(u, v, new, TRUE)}
    BY DEF AliveTimeout
  <1>2. new \in Targets /\ May(s, v, new)
    BY DEF Targets, States, May
  <1> HIDE DEF n, new
  <1>3. Minor(s, again, D) /\ Minor(s, t, D)
    BY AllIs, MinorTwoFields, MinorField DEF VcFields
  <1> HIDE DEF again, t
  <1>4. Minor(t, u, D)
    BY <1>3, MinorField DEF VcFields, Minor
  <1> HIDE DEF u
  <1>5. Minor(s, u, D)
    BY <1>3, <1>4, MinorThen
  <1>6. Moves(s, StateChg(u, v, new, TRUE), D)
    BY <1>2, <1>5, AllChange
  <1>7. Minor(s, Tx(again, v, "ALIVE"), D) /\ Minor(s, Tx(t, v, "ALIVE"), D)
    <2>1. Minor(again, Tx(again, v, "ALIVE"), D) /\ Minor(t, Tx(t, v, "ALIVE"), D)
      BY <1>3, MinorTx DEF Minor
    <2> QED
      BY <1>3, <2>1, MinorThen
  <1> QED
    BY <1>1, <1>6, <1>7, MovesMinor

LEMMA FsmTimerMoves ==
    ASSUME NEW D, NEW s, NEW v \in D, All(s, D)
    PROVE  Moves(s, FsmTimer(s, v), D)
  <1> DEFINE t == [s EXCEPT !.vc[v].timer = FALSE, !.vc[v].overdue = FALSE]
  <1>1. Minor(s, t, D)
    BY AllIs, MinorTwoFields DEF VcFields
  <1>2. \/ FsmTimer(s, v) = t
        \/ FsmTimer(s, v) = TimerReset(t, v)
        \/ FsmTimer(s, v) = TimerBlocked(t, v)
        \/ t.vc[v].state = "RECOVERING" /\ FsmTimer(s, v) = TimerRecovering(t, v)
    BY DEF FsmTimer
  <1> HIDE DEF t
  <1>3. All(t, D) /\ IsEnt(t, D) /\ Moves(t, t, D)
    BY <1>1, MovesMinor, AllIs
  <1>4. Moves(t, TimerReset(t, v), D)
    <2>1. PICK n : n = IF t.vc[v].N + 1 <= ResetRetries THEN t.vc[v].N + 1 ELSE 0
      OBVIOUS
    <2>2. TimerReset(t, v) \in {t, StateChg([t EXCEPT !.vc[v].N = n], v, "RESET", TRUE)}
      BY <2>1 DEF TimerReset
    <2>3. Minor(t, [t EXCEPT !.vc[v].N = n], D)
      BY <1>3, MinorField DEF VcFields
    <2>4. Moves(t, StateChg([t EXCEPT !.vc[v].N = n], v, "RESET", TRUE), D)
      BY <1>3, <2>3, AllChange, MayDown
    <2> QED
      BY <1>3, <2>2, <2>4
  <1>5. Moves(t, TimerBlocked(t, v), D)
    <2>1. PICK n : n = t.vc[v].N + 1
      OBVIOUS
    <2> DEFINE u == [t EXCEPT !.vc[v].N = n]
               w == [u EXCEPT !.vc[v].accept_unitdata = FALSE]
    <2>2. TimerBlocked(t, v) \in
              {t, StateChg(u, v, "BLOCKED", TRUE), w, StateChg(u, v, "RESET", TRUE)}
      BY <2>1 DEF TimerBlocked
    <2>3. Minor(t, u, D)
      BY <1>3, MinorField DEF VcFields
    <2> HIDE DEF u
    <2>4. Minor(u, w, D)
      BY <2>3, MinorField DEF VcFields, Minor
    <2> HIDE DEF w
    <2>5. Moves(t, w, D)
      BY <1>3, <2>3, <2>4, MinorThen, MovesMinor
    <2>6. Moves(t, StateChg(u, v, "BLOCKED", TRUE), D) /\ Moves(t, StateChg(u, v, "RESET", TRUE), D)
      BY <1>3, <2>3, AllChange, MayDown
    <2> QED
      BY <1>3, <2>2, <2>5, <2>6
  <1>6. ASSUME t.vc[v].state = "RECOVERING" PROVE Moves(t, TimerRecovering(t, v), D)
    <2>1. PICK n : n = IF t.vc[v].N + 1 <= AliveRetries THEN t.vc[v].N + 1 ELSE 0
      OBVIOUS
    <2>2. TimerRecovering(t, v) \in {t, StateChg([t EXCEPT !.vc[v].N = n], v, "RECOVERING", FALSE)}
      BY <2>1 DEF TimerRecovering
    <2>3. Minor(t, [t EXCEPT !.vc[v].N = n], D)
      BY <1>3, MinorField DEF VcFields
    <2>4. IsVc(t.mode, t.vc[v])
      BY <1>3 DEF IsEnt
    <2>5. t.mode # "BLOCKRESET"
      BY <1>6, <2>4 DEF IsVc, StatesOf
    <2>6. "RECOVERING" \in Targets /\ May(t, v, "RECOVERING")
      BY <2>5 DEF Targets, States, May
    <2>7. Moves(t, StateChg([t EXCEPT !.vc[v].N = n], v, "RECOVERING", FALSE), D)
      BY <1>3, <2>3, <2>6, AllChange
    <2> QED
      BY <1>3, <2>2, <2>7
  <1>7. Moves(t, FsmTimer(s, v), D)
    BY <1>2, <1>3, <1>4, <1>5, <1>6
  <1>8. Quiet(s, t) /\ Unblocked(t) = Unblocked(s)
    BY <1>1, <1>3, AllIs, UnblockedSame DEF Minor
  <1> QED
    BY <1>7, <1>8, StillMoves

LEMMA RecvPrimMoves ==
    ASSUME NEW D, NEW s, All(s, D), NEW n, NEW ll
    PROVE  Moves(s, RecvPrim(s, n, ll), D)
  <1>1. PICK v : v = LoadSharing(s, n, ll)[1]
    OBVIOUS
  <1>2. RecvPrim(s, n, ll) \in {s, Tx(s, v, "UNITDATA")}
    BY <1>1 DEF RecvPrim
  <1> QED
    BY <1>2, AllIs, MovesMinor, MinorTx

-----------------------------------------------------------------------------
(* The inductive invariant *)

Shapes ==
    /\ env \in Environments
    /\ ent = [e \in Sides |-> ent[e]]
    /\ news = [e \in Sides |-> news[e]]
Inv ==
    /\ Shapes
    /\ \A e \in Sides :
           /\ All(ent[e], DOMAIN env.weights)
           /\ ent[e].mode = env.mode /\ ent[e].weights = env.weights
           /\ ent[e].news = <<>>

LEMMA WeightsAre ==
    ASSUME env \in Environments
    PROVE  DOMAIN env.weights \subseteq Vcs
           /\ env.weights \in [DOMAIN env.weights -> [data : Nat, sig : Nat]]
  <1>1. PICK vs \in SUBSET Vcs : env.weights \in [vs -> [data : Nat, sig : Nat]]
    BY Ns2EnvAssumption
  <1>2. DOMAIN env.weights = vs
    BY <1>1
  <1> QED
    BY <1>1, <1>2

LEMMA NewEntityIs ==
    ASSUME env \in Environments, NEW e
    PROVE  /\ All(Entity(e), DOMAIN env.weights)
           /\ Entity(e).mode = env.mode /\ Entity(e).weights = env.weights
           /\ Entity(e).news = <<>> /\ Unblocked(Entity(e)) = {}
           /\ Entity(e).nse.alive = FALSE /\ Entity(e).nse.first = TRUE
  <1> DEFINE D == DOMAIN env.weights
             i == e = BSS
             s == Entity(e)
             x == [alive |-> FALSE, first |-> TRUE, count |-> 0, data |-> 0, sig |-> 0]
  <1>1. /\ s = [y \in EntFields |-> s[y]] /\ s.mode = env.mode /\ s.weights = env.weights
        /\ s.vc = [v \in D |-> NewVc(i)] /\ s.news = <<>> /\ s.nse = x
    BY DEF Entity, NewEntity, EntFields
  <1>2. IsVc(s.mode, NewVc(i)) /\ VcOk(s.mode, NewVc(i)) /\ NewVc(i).state = "UNCONFIGURED"
    BY DEF NewVc, IsVc, VcOk, VcFields, StatesOf, States
  <1>3. /\ x = [y \in NseFields |-> x[y]] /\ x.alive = FALSE /\ x.first = TRUE
        /\ x.count = 0 /\ x.data = 0 /\ x.sig = 0
    BY DEF NseFields
  <1>4. D \subseteq Vcs /\ env.weights \in [D -> [data : Nat, sig : Nat]]
    BY WeightsAre
  <1> HIDE DEF s, D, x
  <1>5. IsEnt(s, D)
    BY <1>1, <1>2, <1>3 DEF IsEnt
  <1>6. Unblocked(s) = {}
    BY <1>1, <1>2 DEF Unblocked
  <1>7. \A share : Sum({}, share) = 0
    BY SumZero
  <1>8. Summed(s, s.nse)
    BY <1>1, <1>3, <1>6, <1>7 DEF Summed
  <1>9. Cached(s, D)
    BY <1>1, <1>3, <1>4, <1>6, <1>8 DEF Cached, Able
  <1>10. All(s, D)
    BY <1>1, <1>2, <1>5, <1>9 DEF All, Obeys
  <1> QED
    BY <1>1, <1>3, <1>6, <1>10 DEF s, D

LEMMA InitInv == Init => Inv
  <1> SUFFICES ASSUME Init PROVE Inv
    OBVIOUS
  <1>1. Shapes
    BY DEF Init, Shapes
  <1>2. \A e \in Sides : ent[e] = Entity(e)
    BY DEF Init
  <1> QED
    BY <1>1, <1>2, NewEntityIs DEF Inv, Shapes

(* Every step is a handler of one side, a restart of one, or leaves the     *)
(* entities alone.                                                          *)
Acts(e, s) ==
    /\ Moves(ent[e], s, DOMAIN env.weights)
    /\ ent' = [ent EXCEPT ![e] = [s EXCEPT !.tx = <<>>, !.ind = <<>>, !.news = <<>>]]
    /\ news' = [news EXCEPT ![e] = s.news]
    /\ env' = env

LEMMA CommitActs ==
    ASSUME NEW e \in Sides, NEW s, NEW rest, Commit(e, s, rest),
           Moves(ent[e], s, DOMAIN env.weights)
    PROVE  Acts(e, s)
  BY DEF Commit, Acts

LEMMA OperateActs ==
    ASSUME Inv, NEW e \in Sides, NEW v \in DOMAIN env.weights, NEW op \in env.ops, Operate(e, v, op)
    PROVE  \E s : Acts(e, s)
  <1> DEFINE D == DOMAIN env.weights
  <1>1. op \in {"reset", "block", "unblock", "unconfigure", "free"}
    BY Ns2EnvAssumption DEF Inv, Shapes
  <1>2. \E s \in {OmReset(ent[e], v), OmBlock(ent[e], v), OmUnblock(ent[e], v),
                  ForceUnconfigured(ent[e], v), FreeNsvc(ent[e], v)} : Commit(e, s, chan[e])
    BY <1>1 DEF Operate
  <1>3. /\ Moves(ent[e], OmReset(ent[e], v), D) /\ Moves(ent[e], OmBlock(ent[e], v), D)
        /\ Moves(ent[e], OmUnblock(ent[e], v), D) /\ Moves(ent[e], ForceUnconfigured(ent[e], v), D)
        /\ Moves(ent[e], FreeNsvc(ent[e], v), D)
    BY OmResetMoves, OmBlockMoves, OmUnblockMoves, ForceUnconfiguredMoves, FreeMoves DEF Inv
  <1> QED
    BY <1>2, <1>3, CommitActs

LEMMA DeliverActs ==
    ASSUME Inv, NEW e \in Sides, NEW v \in DOMAIN env.weights, Deliver(e, v)
    PROVE  \E s : Acts(e, s)
  <1> DEFINE D == DOMAIN env.weights
  <1>1. PICK p : p = Head(chan[e][v])
    OBVIOUS
  <1>2. \E s \in {ent[e], VcRx(ent[e], v, p)} : \E rest : Commit(e, s, rest)
    BY <1>1 DEF Deliver
  <1>3. Moves(ent[e], ent[e], D) /\ Moves(ent[e], VcRx(ent[e], v, p), D)
    BY VcRxMoves, AllIs, MovesMinor DEF Inv
  <1> QED
    BY <1>2, <1>3, CommitActs

LEMMA TimersAct ==
    ASSUME Inv, NEW e \in Sides, NEW v \in DOMAIN env.weights,
           Start(e, v) \/ FsmTimeout(e, v) \/ TestTimeout(e, v)
    PROVE  \E s : Acts(e, s)
  <1> DEFINE D == DOMAIN env.weights
  <1>1. \E s \in {StUnconfigured(ent[e], v), FsmTimer(ent[e], v), AliveTimeout(ent[e], v)} :
            Commit(e, s, chan[e])
    BY DEF Start, FsmTimeout, TestTimeout
  <1>2. /\ Moves(ent[e], StUnconfigured(ent[e], v), D) /\ Moves(ent[e], FsmTimer(ent[e], v), D)
        /\ Moves(ent[e], AliveTimeout(ent[e], v), D)
    BY StartMoves, FsmTimerMoves, AliveTimeoutMoves DEF Inv
  <1> QED
    BY <1>1, <1>2, CommitActs

LEMMA RequestActs ==
    ASSUME Inv, NEW e \in Sides, NEW n, Request(e, n)
    PROVE  \E s : Acts(e, s)
  <1>1. Commit(e, RecvPrim(ent[e], n, env.ll), chan[e])
    BY DEF Request
  <1>2. Moves(ent[e], RecvPrim(ent[e], n, env.ll), DOMAIN env.weights)
    BY RecvPrimMoves DEF Inv
  <1> QED
    BY <1>1, <1>2, CommitActs

(* What a step is: a handler of one side, the restart of one, or a step that *)
(* touches neither entity.                                                  *)
StepKind ==
    \/ \E e \in Sides : \E s : Acts(e, s)
    \/ \E e \in Sides : RestartSide(e)
    \/ UNCHANGED <<env, ent, news>>

LEMMA StepIs ==
    ASSUME Inv, [Next]_vars
    PROVE  StepKind
  <1>1. ASSUME NEW e \in Sides, RestartSide(e) PROVE StepKind
    BY <1>1 DEF StepKind
  <1>2. ASSUME NEW e \in Sides, NEW n, Request(e, n) PROVE StepKind
    BY <1>2, RequestActs DEF StepKind
  <1>3. ASSUME NEW e \in Sides, NEW v \in DOMAIN env.weights,
               Start(e, v) \/ FsmTimeout(e, v) \/ TestTimeout(e, v)
        PROVE  StepKind
    BY <1>3, TimersAct DEF StepKind
  <1>4. ASSUME NEW e \in Sides, NEW v \in DOMAIN env.weights, Deliver(e, v) PROVE StepKind
    BY <1>4, DeliverActs DEF StepKind
  <1>5. ASSUME NEW e \in Sides, NEW v \in DOMAIN env.weights, NEW op \in env.ops, Operate(e, v, op)
        PROVE  StepKind
    BY <1>5, OperateActs DEF StepKind
  <1>6. ASSUME NEW e \in Sides, NEW v, NEW p, Lose(e, v) \/ Stray(e, v, p) PROVE StepKind
    BY <1>6 DEF Lose, Stray, StepKind
  <1>7. CASE UNCHANGED vars
    BY <1>7 DEF vars, StepKind
  <1>8. CASE Next
    <2>1. PICK e \in Sides :
              \/ RestartSide(e)
              \/ \E n \in Selectors(e) : Request(e, n)
              \/ \E v \in DOMAIN env.weights :
                     \/ Start(e, v) \/ Deliver(e, v) \/ Lose(e, v)
                     \/ FsmTimeout(e, v) \/ TestTimeout(e, v)
                     \/ \E op \in env.ops : Operate(e, v, op)
                     \/ \E p \in env.pdus : Stray(e, v, p)
      BY <1>8 DEF Next
    <2>2. ASSUME NEW v \in DOMAIN env.weights,
                 \/ Start(e, v) \/ Deliver(e, v) \/ Lose(e, v)
                 \/ FsmTimeout(e, v) \/ TestTimeout(e, v)
                 \/ \E op \in env.ops : Operate(e, v, op)
                 \/ \E p \in env.pdus : Stray(e, v, p)
          PROVE  StepKind
      BY <2>2, <1>3, <1>4, <1>5, <1>6
    <2>3. CASE RestartSide(e)
      BY <2>3, <1>1
    <2>4. CASE \E n \in Selectors(e) : Request(e, n)
      <3>1. PICK n \in Selectors(e) : Request(e, n)
        BY <2>4
      <3> QED
        BY <3>1, <1>2
    <2>5. CASE \E v \in DOMAIN env.weights :
                   \/ Start(e, v) \/ Deliver(e, v) \/ Lose(e, v)
                   \/ FsmTimeout(e, v) \/ TestTimeout(e, v)
                   \/ \E op \in env.ops : Operate(e, v, op)
                   \/ \E p \in env.pdus : Stray(e, v, p)
      <3>1. PICK v \in DOMAIN env.weights :
                   \/ Start(e, v) \/ Deliver(e, v) \/ Lose(e, v)
                   \/ FsmTimeout(e, v) \/ TestTimeout(e, v)
                   \/ \E op \in env.ops : Operate(e, v, op)
                   \/ \E p \in env.pdus : Stray(e, v, p)
        BY <2>5
      <3> QED
        BY <3>1, <2>2
    <2> QED
      BY <2>1, <2>3, <2>4, <2>5
  <1> QED
    BY <1>7, <1>8

(* The entity that a handler leaves: its outputs are gone.                  *)
LEMMA ActsIs ==
    ASSUME Inv, NEW e \in Sides, NEW s, Acts(e, s)
    PROVE  /\ ent' = [x \in Sides |-> ent'[x]] /\ news' = [x \in Sides |-> news'[x]]
           /\ \A x \in Sides \ {e} : ent'[x] = ent[x] /\ news'[x] = news[x]
           /\ ent'[e].mode = s.mode /\ ent'[e].weights = s.weights /\ ent'[e].nse = s.nse
           /\ ent'[e].news = <<>> /\ news'[e] = s.news
           /\ Unblocked(ent'[e]) = Unblocked(s)
           /\ All(ent'[e], DOMAIN env.weights)
  <1> DEFINE D == DOMAIN env.weights
             a == [s EXCEPT !["tx"] = <<>>]
             b == [a EXCEPT !["ind"] = <<>>]
             c == [b EXCEPT !.news = <<>>]
  <1>1. ent = [x \in Sides |-> ent[x]] /\ news = [x \in Sides |-> news[x]]
    BY DEF Inv, Shapes
  <1>2. [s EXCEPT !.tx = <<>>, !.ind = <<>>, !.news = <<>>] = c
    OBVIOUS
  <1>3. All(s, D) /\ IsEnt(s, D)
    BY AllIs DEF Acts, Moves
  <1>4. Minor(s, a, D)
    BY <1>3, MinorRest
  <1> HIDE DEF a
  <1>5. All(a, D) /\ IsEnt(a, D)
    BY <1>3, <1>4, MovesMinor, AllIs
  <1>6. Minor(a, b, D)
    BY <1>5, MinorRest
  <1> HIDE DEF b
  <1>7. All(b, D) /\ IsEnt(b, D) /\ Minor(s, b, D)
    BY <1>4, <1>5, <1>6, MovesMinor, AllIs, MinorThen
  <1>8. /\ c = [x \in EntFields |-> c[x]] /\ c.vc = b.vc /\ c.mode = b.mode
        /\ c.weights = b.weights /\ c.nse = b.nse /\ c.news = <<>>
    BY <1>7 DEF IsEnt, EntFields
  <1> HIDE DEF c
  <1>9. Unblocked(c) = Unblocked(b) /\ Unblocked(b) = Unblocked(s)
    BY <1>3, <1>7, <1>8, UnblockedSame DEF Unblocked, Minor
  <1>10. Obeys(c, D, {})
    BY <1>7, <1>8 DEF All, Obeys, IsEnt
  <1>11. Weights(c, "data") = Weights(b, "data") /\ Weights(c, "sig") = Weights(b, "sig")
    BY <1>8 DEF Weights
  <1>12. Cached(c, D)
    BY <1>7, <1>8, <1>9, <1>11 DEF All, Cached, Summed, Able
  <1>13. All(c, D)
    BY <1>10, <1>12 DEF All
  <1>14. ent' = [ent EXCEPT ![e] = c] /\ news' = [news EXCEPT ![e] = s.news]
    BY <1>2 DEF Acts
  <1>15. /\ ent' = [x \in Sides |-> ent'[x]] /\ news' = [x \in Sides |-> news'[x]]
         /\ \A x \in Sides \ {e} : ent'[x] = ent[x] /\ news'[x] = news[x]
         /\ ent'[e] = c /\ news'[e] = s.news
    BY <1>1, <1>14
  <1>16. b.mode = s.mode /\ b.weights = s.weights /\ b.nse = s.nse
    BY <1>7 DEF Minor, Quiet, Fixed
  <1> QED
    BY <1>8, <1>9, <1>13, <1>15, <1>16

LEMMA RestartIs ==
    ASSUME Inv, NEW e \in Sides, RestartSide(e)
    PROVE  /\ ent' = [x \in Sides |-> ent'[x]] /\ news' = [x \in Sides |-> news'[x]]
           /\ \A x \in Sides \ {e} : ent'[x] = ent[x] /\ news'[x] = news[x]
           /\ ent'[e] = Entity(e) /\ news'[e] = <<>>
           /\ env' = env
  BY DEF RestartSide, Inv, Shapes

LEMMA NextInv == Inv /\ [Next]_vars => Inv'
  <1> SUFFICES ASSUME Inv, [Next]_vars PROVE Inv'
    OBVIOUS
  <1>1. ASSUME NEW e \in Sides, NEW s, Acts(e, s) PROVE Inv'
    <2>1. env' = env /\ Fixed(ent[e], s)
      BY <1>1 DEF Acts, Moves
    <2>2. ent'[e].mode = env.mode /\ ent'[e].weights = env.weights
      BY <1>1, <2>1, ActsIs DEF Fixed, Inv
    <2>3. /\ ent' = [x \in Sides |-> ent'[x]] /\ news' = [x \in Sides |-> news'[x]]
          /\ \A x \in Sides \ {e} : ent'[x] = ent[x]
          /\ ent'[e].news = <<>> /\ All(ent'[e], DOMAIN env.weights)
      BY <1>1, ActsIs
    <2>4. \A x \in Sides : /\ All(ent'[x], DOMAIN env.weights)
                           /\ ent'[x].mode = env.mode /\ ent'[x].weights = env.weights
                           /\ ent'[x].news = <<>>
      BY <2>2, <2>3 DEF Inv
    <2> QED
      BY <2>1, <2>3, <2>4 DEF Inv, Shapes
  <1>2. ASSUME NEW e \in Sides, RestartSide(e) PROVE Inv'
    <2>1. env \in Environments
      BY DEF Inv, Shapes
    <2>2. /\ All(Entity(e), DOMAIN env.weights)
          /\ Entity(e).mode = env.mode /\ Entity(e).weights = env.weights /\ Entity(e).news = <<>>
      BY <2>1, NewEntityIs
    <2>3. /\ ent' = [x \in Sides |-> ent'[x]] /\ news' = [x \in Sides |-> news'[x]]
          /\ \A x \in Sides \ {e} : ent'[x] = ent[x]
          /\ ent'[e] = Entity(e) /\ env' = env
      BY <1>2, RestartIs
    <2>4. \A x \in Sides : /\ All(ent'[x], DOMAIN env.weights)
                           /\ ent'[x].mode = env.mode /\ ent'[x].weights = env.weights
                           /\ ent'[x].news = <<>>
      BY <2>2, <2>3 DEF Inv
    <2> QED
      BY <2>1, <2>3, <2>4 DEF Inv, Shapes
  <1>3. CASE UNCHANGED <<env, ent, news>>
    BY <1>3 DEF Inv, Shapes
  <1>4. StepKind
    BY StepIs
  <1>5. CASE \E e \in Sides : \E s : Acts(e, s)
    BY <1>1, <1>5
  <1>6. CASE \E e \in Sides : RestartSide(e)
    BY <1>2, <1>6
  <1> QED
    BY <1>3, <1>4, <1>5, <1>6 DEF StepKind

-----------------------------------------------------------------------------
(* The theorems *)

(* While an operator's block stands (om_blocked), no PDU of the peer, no    *)
(* timer, no loss, no reset and no restart of the other side takes the      *)
(* NS-VC to UNBLOCKED, with the RESET/BLOCK procedures.                     *)
THEOREM OmBlockHoldsAlways == Spec => []OmBlockHolds
  <1>1. Inv => OmBlockHolds
    <2> SUFFICES ASSUME Inv, env.mode = "BLOCKRESET", NEW p \in Pairs,
                        ent[p[1]].vc[p[2]].om_blocked
                 PROVE  ent[p[1]].vc[p[2]].state # "UNBLOCKED"
      BY DEF OmBlockHolds, Vc
    <2>1. p[1] \in Sides /\ p[2] \in DOMAIN env.weights
      BY DEF Pairs
    <2>2. All(ent[p[1]], DOMAIN env.weights) /\ ent[p[1]].mode = env.mode
      BY <2>1 DEF Inv
    <2>3. VcOk(ent[p[1]].mode, ent[p[1]].vc[p[2]])
      BY <2>1, <2>2, AllIs
    <2> QED
      BY <2>2, <2>3 DEF VcOk
  <1> QED
    BY InitInv, NextInv, <1>1, PTL DEF Spec

LEMMA RequestRouted ==
    ASSUME NEW D, NEW s, All(s, D), s.nse.alive, NEW n \in Nat, NEW ll \in LinkLayers
    PROVE  \E v \in Unblocked(s) :
               LoadSharing(s, n, ll) = <<v>> /\ (ll = "UDP" => s.weights[v].data # 0)
  <1> DEFINE up == Unblocked(s)
             wd == Weights(s, "data")
  <1>1. Cached(s, D) /\ DOMAIN s.vc = D
    BY AllIs, DomainIs
  <1>2. up \subseteq D /\ D \subseteq Vcs /\ s.weights \in [D -> [data : Nat, sig : Nat]]
    BY <1>1 DEF Cached, Unblocked
  <1>3. \A v \in D : wd[v] = s.weights[v].data /\ wd[v] \in Nat
    BY <1>2 DEF Weights
  <1>4. \A v \in up : Alike[v] = 1 /\ Alike[v] \in Nat
    BY <1>2 DEF Alike
  <1>5. s.nse.count = Sum(up, Alike) /\ s.nse.data = Sum(up, wd)
    BY <1>1 DEF Cached, Summed
  <1>6. PICK w \in up : s.weights[w].data # 0
    BY <1>1 DEF Cached, Able
  <1> HIDE DEF up, wd
  <1>7. Sum(up, Alike) \in Nat /\ Sum(up, Alike) # 0
    BY <1>2, <1>4, <1>6, SumZero
  <1>8. Sum(up, wd) \in Nat /\ Sum(up, wd) # 0
    BY <1>2, <1>3, <1>6, SumZero
  <1>9. \A k \in Nat : k # 0 => n % k \in Nat /\ n % k < k
    OBVIOUS
  <1>10. n % s.nse.count \in Nat /\ n % s.nse.count < Sum(up, Alike)
         /\ n % s.nse.data \in Nat /\ n % s.nse.data < Sum(up, wd)
    BY <1>5, <1>7, <1>8, <1>9
  <1>11. \E v \in up : Alike[v] # 0 /\ Selected(up, Alike, n % s.nse.count) = <<v>>
    BY <1>4, <1>10, SelectedIs
  <1>12. \E v \in up : wd[v] # 0 /\ Selected(up, wd, n % s.nse.data) = <<v>>
    BY <1>2, <1>3, <1>10, SelectedIs
  <1>13. CASE ll = "FR"
    <2>1. LoadSharing(s, n, ll) = Selected(up, Alike, n % s.nse.count)
      BY <1>5, <1>7, <1>13 DEF LoadSharing, LoadSharingModulo, up
    <2> QED
      BY <1>11, <1>13, <2>1 DEF up
  <1>14. CASE ll = "UDP"
    <2>1. LoadSharing(s, n, ll) = Selected(up, wd, n % s.nse.data)
      BY <1>5, <1>7, <1>14 DEF LoadSharing, LoadSharingWeightModulo, up, wd
    <2> QED
      BY <1>2, <1>3, <1>12, <2>1 DEF up
  <1> QED
    BY <1>13, <1>14 DEF LinkLayers

(* nsvc_count and sum_data_weight, kept by ns2_nse_data_sum(), are those of *)
(* the NS-VCs that load sharing walks: a request to an available entity     *)
(* finds an unblocked NS-VC, on UDP one that carries data, and never        *)
(* divides by zero, for every link selector parameter and all weights.      *)
THEOREM EveryRequestRoutedAlways ==
    Spec => [](/\ EveryRequestRouted
               /\ \A e \in Sides, n \in Nat : ent[e].nse.alive => Routed(e, n))
  <1>1. Inv => \A e \in Sides, n \in Nat : ent[e].nse.alive => Routed(e, n)
    <2> SUFFICES ASSUME Inv, NEW e \in Sides, ent[e].nse.alive, NEW n \in Nat, NEW ll \in LinkLayers
                 PROVE  \E v \in Unblocked(ent[e]) :
                            LoadSharing(ent[e], n, ll) = <<v>> /\ (ll = "UDP" => v \in DataVcs)
      BY DEF Routed
    <2> DEFINE D == DOMAIN env.weights
    <2>1. All(ent[e], D) /\ ent[e].weights = env.weights /\ env \in Environments
      BY DEF Inv, Shapes
    <2>2. PICK v \in Unblocked(ent[e]) :
              LoadSharing(ent[e], n, ll) = <<v>> /\ (ll = "UDP" => ent[e].weights[v].data # 0)
      BY <2>1, RequestRouted
    <2>3. v \in D
      BY <2>1, AllIs, DomainIs DEF Unblocked
    <2>4. env.weights[v].data \in Nat
      BY <2>1, <2>3, WeightsAre
    <2>5. ll = "UDP" => v \in DataVcs
      BY <2>1, <2>2, <2>3, <2>4 DEF DataVcs
    <2> QED
      BY <2>2, <2>5
  <1>2. \A e : Selectors(e) \subseteq Nat
    BY DEF Selectors
  <1>3. Inv => EveryRequestRouted
    BY <1>1, <1>2 DEF EveryRequestRouted
  <1> QED
    BY InitInv, NextInv, <1>1, <1>3, PTL DEF Spec

-----------------------------------------------------------------------------
(* The refinement *)

(* A step of NseService for side x, in the variables of Ns2Link.            *)
Serves(x) ==
    /\ \/ Usable(x)' = Usable(x)
       \/ \E v \in DataVcs \cup SigVcs : Usable(x)' \in {Usable(x) \cup {v}, Usable(x) \ {v}}
    /\ ent'[x].nse.alive = (Usable(x)' \cap DataVcs # {} /\ Usable(x)' \cap SigVcs # {})
    /\ ent'[x].nse.first = (ent[x].nse.first /\ ~ent'[x].nse.alive)
    /\ news'[x] = IF ent'[x].nse.alive = ent[x].nse.alive THEN <<>>
                  ELSE <<[cause |-> IF ent'[x].nse.alive THEN "RECOVERY" ELSE "FAILURE",
                          first |-> ent[x].nse.first]>>
Restarts(x) ==
    /\ Usable(x)' = {} /\ ent'[x].nse.alive = FALSE /\ ent'[x].nse.first = TRUE
    /\ news'[x] = <<>>
Rests(x) ==
    /\ Usable(x)' = Usable(x) /\ ent'[x].nse.alive = ent[x].nse.alive
    /\ ent'[x].nse.first = ent[x].nse.first /\ news'[x] = news[x]

LEMMA ActsServes ==
    ASSUME Inv, NEW e \in Sides, NEW s, Acts(e, s)
    PROVE  Serves(e)
  <1> DEFINE D == DOMAIN env.weights
             o == ent[e]
             n == ent'[e]
             W == DataVcs \cup SigVcs
  <1>1. env' = env /\ Moves(o, s, D) /\ All(o, D) /\ o.weights = env.weights /\ o.news = <<>>
        /\ env \in Environments
    BY DEF Acts, Inv, Shapes
  <1>2. /\ n.nse = s.nse /\ news'[e] = s.news /\ Unblocked(n) = Unblocked(s) /\ All(n, D)
        /\ n.weights = s.weights
    BY ActsIs
  <1>3. Told(o, s) /\ Near(o, s, D) /\ s.weights = o.weights
    BY <1>1 DEF Moves, Fixed
  <1>4. Cached(o, D) /\ Cached(n, D) /\ Unblocked(n) \subseteq D
    BY <1>1, <1>2, AllIs, DomainIs DEF Unblocked
  <1>5. Usable(e)' = Unblocked(n) \cap W /\ Usable(e) = Unblocked(o) \cap W /\ W \subseteq D
    BY <1>1 DEF Usable, DataVcs, SigVcs
  <1>6. \/ Usable(e)' = Usable(e)
        \/ \E v \in W : Usable(e)' \in {Usable(e) \cup {v}, Usable(e) \ {v}}
    <2>1. CASE Unblocked(n) = Unblocked(o)
      BY <1>5, <2>1
    <2>2. ASSUME NEW v \in D, Unblocked(n) \in {Unblocked(o) \cup {v}, Unblocked(o) \ {v}}
          PROVE  \/ Usable(e)' = Usable(e)
                 \/ \E w \in W : Usable(e)' \in {Usable(e) \cup {w}, Usable(e) \ {w}}
      <3> HIDE DEF n, o, W
      <3>1. CASE v \in W
        BY <1>5, <2>2, <3>1
      <3>2. CASE v \notin W
        BY <1>5, <2>2, <3>2
      <3> QED
        BY <3>1, <3>2
    <2> QED
      BY <1>2, <1>3, <2>1, <2>2 DEF Near
  <1>7. n.nse.alive <=> Able(n)
    BY <1>4 DEF Cached
  <1>8. Able(n) <=> Usable(e)' \cap DataVcs # {} /\ Usable(e)' \cap SigVcs # {}
    <2>1. \A v \in D : env.weights[v].data \in Nat /\ env.weights[v].sig \in Nat
      BY <1>1, WeightsAre
    <2>2. \A v \in D : /\ v \in DataVcs <=> env.weights[v].data # 0
                       /\ v \in SigVcs <=> env.weights[v].sig # 0
      BY <2>1 DEF DataVcs, SigVcs
    <2>3. n.weights = env.weights
      BY <1>1, <1>2, <1>3
    <2> HIDE DEF n
    <2>4. Able(n) <=> /\ \E v \in Unblocked(n) : v \in DataVcs
                      /\ \E v \in Unblocked(n) : v \in SigVcs
      BY <1>4, <2>2, <2>3 DEF Able
    <2> QED
      BY <1>5, <2>4
  <1>9. n.nse.alive \in BOOLEAN /\ n.nse.first \in BOOLEAN /\ o.nse.alive \in BOOLEAN /\ o.nse.first \in BOOLEAN
    BY <1>4 DEF Cached
  <1>10. n.nse.alive = (Usable(e)' \cap DataVcs # {} /\ Usable(e)' \cap SigVcs # {})
    BY <1>7, <1>8, <1>9
  <1>11. n.nse.first = (o.nse.first /\ ~n.nse.alive)
    BY <1>2, <1>3, <1>9 DEF Told
  <1>12. \A i : Append(<<>>, i) = <<i>>
    OBVIOUS
  <1>13. news'[e] = IF n.nse.alive = o.nse.alive THEN <<>>
                    ELSE <<[cause |-> IF n.nse.alive THEN "RECOVERY" ELSE "FAILURE",
                            first |-> o.nse.first]>>
    BY <1>1, <1>2, <1>3, <1>9, <1>12 DEF Told
  <1> QED
    BY <1>6, <1>10, <1>11, <1>13 DEF Serves

LEMMA SideServes ==
    ASSUME Inv, [Next]_vars, NEW x \in Sides
    PROVE  /\ DataVcs' = DataVcs /\ SigVcs' = SigVcs
           /\ Serves(x) \/ Restarts(x) \/ Rests(x)
  <1>1. ASSUME ent'[x] = ent[x], news'[x] = news[x], env' = env PROVE Rests(x)
    BY <1>1 DEF Rests, Usable, DataVcs, SigVcs
  <1>2. env' = env => DataVcs' = DataVcs /\ SigVcs' = SigVcs
    BY DEF DataVcs, SigVcs
  <1>3. ASSUME NEW e \in Sides, NEW s, Acts(e, s) PROVE env' = env /\ (Serves(x) \/ Rests(x))
    <2>1. env' = env
      BY <1>3 DEF Acts
    <2>2. x # e => ent'[x] = ent[x] /\ news'[x] = news[x]
      BY <1>3, ActsIs
    <2> QED
      BY <1>1, <1>3, <2>1, <2>2, ActsServes
  <1>4. ASSUME NEW e \in Sides, RestartSide(e) PROVE env' = env /\ (Restarts(x) \/ Rests(x))
    <2>1. env' = env /\ ent'[e] = Entity(e) /\ news'[e] = <<>>
      BY <1>4, RestartIs
    <2>2. x # e => ent'[x] = ent[x] /\ news'[x] = news[x]
      BY <1>4, RestartIs
    <2>3. Restarts(e)
      <3>1. Unblocked(Entity(e)) = {} /\ Entity(e).nse.alive = FALSE /\ Entity(e).nse.first = TRUE
        BY NewEntityIs DEF Inv, Shapes
      <3> QED
        BY <2>1, <3>1 DEF Restarts, Usable
    <2> QED
      BY <1>1, <2>1, <2>2, <2>3
  <1>5. StepKind
    BY StepIs
  <1>6. CASE \E e \in Sides : \E s : Acts(e, s)
    <2>1. PICK e \in Sides : \E s : Acts(e, s)
      BY <1>6
    <2> QED
      BY <2>1, <1>2, <1>3
  <1>7. CASE \E e \in Sides : RestartSide(e)
    <2>1. PICK e \in Sides : RestartSide(e)
      BY <1>7
    <2> QED
      BY <2>1, <1>2, <1>4
  <1>8. CASE UNCHANGED <<env, ent, news>>
    BY <1>8, <1>1, <1>2
  <1> QED
    BY <1>5, <1>6, <1>7, <1>8 DEF StepKind

(* Each side implements NseService: alive and first, cached in struct       *)
(* gprs_ns2_nse and updated by the state changes of the NS-VCs, are true    *)
(* after every event, and the user of either side is told of each change    *)
(* once.                                                                    *)
THEOREM NseIsImplemented == Spec => NseImplemented
  <1>1. Init => BssNse!Init /\ SgsnNse!Init
    <2> SUFFICES ASSUME Init PROVE BssNse!Init /\ SgsnNse!Init
      OBVIOUS
    <2>1. \A e \in Sides : ent[e] = Entity(e) /\ news[e] = <<>>
      BY DEF Init
    <2>2. \A e \in Sides : /\ Unblocked(ent[e]) = {} /\ ent[e].nse.alive = FALSE
                           /\ ent[e].nse.first = TRUE
      BY <2>1, NewEntityIs DEF Init
    <2>3. \A e \in Sides : Usable(e) = {}
      BY <2>2 DEF Usable
    <2>4. BSS \in Sides /\ SGSN \in Sides
      BY DEF Sides
    <2> QED
      BY <2>1, <2>2, <2>3, <2>4 DEF BssNse!Init, SgsnNse!Init
  <1>2. Inv /\ [Next]_vars => [BssNse!Change \/ BssNse!Restart]_(BssNse!vars)
    <2> SUFFICES ASSUME Inv, [Next]_vars PROVE [BssNse!Change \/ BssNse!Restart]_(BssNse!vars)
      OBVIOUS
    <2>1. BSS \in Sides
      BY DEF Sides
    <2>2. /\ DataVcs' = DataVcs /\ SigVcs' = SigVcs
          /\ Serves(BSS) \/ Restarts(BSS) \/ Rests(BSS)
      BY <2>1, SideServes
    <2>3. CASE Serves(BSS)
      BY <2>2, <2>3 DEF Serves, BssNse!Change, BssNse!Available
    <2>4. CASE Restarts(BSS)
      BY <2>2, <2>4 DEF Restarts, BssNse!Restart
    <2>5. CASE Rests(BSS)
      BY <2>2, <2>5 DEF Rests, BssNse!vars
    <2> QED
      BY <2>2, <2>3, <2>4, <2>5
  <1>3. Inv /\ [Next]_vars => [SgsnNse!Change \/ SgsnNse!Restart]_(SgsnNse!vars)
    <2> SUFFICES ASSUME Inv, [Next]_vars PROVE [SgsnNse!Change \/ SgsnNse!Restart]_(SgsnNse!vars)
      OBVIOUS
    <2>1. SGSN \in Sides
      BY DEF Sides
    <2>2. /\ DataVcs' = DataVcs /\ SigVcs' = SigVcs
          /\ Serves(SGSN) \/ Restarts(SGSN) \/ Rests(SGSN)
      BY <2>1, SideServes
    <2>3. CASE Serves(SGSN)
      BY <2>2, <2>3 DEF Serves, SgsnNse!Change, SgsnNse!Available
    <2>4. CASE Restarts(SGSN)
      BY <2>2, <2>4 DEF Restarts, SgsnNse!Restart
    <2>5. CASE Rests(SGSN)
      BY <2>2, <2>5 DEF Rests, SgsnNse!vars
    <2> QED
      BY <2>2, <2>3, <2>4, <2>5
  <1> QED
    BY InitInv, NextInv, <1>1, <1>2, <1>3, PTL DEF Spec, NseImplemented, BssNse!Spec, SgsnNse!Spec

=============================================================================

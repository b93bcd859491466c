--------------------------- MODULE EventLoopProofs ---------------------------
(* Proofs about the event loop: for any number of osmo_fds, descriptors and *)
(* timers, any queue length and timeout, and whatever the user calls, from  *)
(* the main program or from a callback.                                     *)
EXTENDS EventLoop, SequenceTheorems, FiniteSetTheorems, TLAPS

Events == {"READ", "WRITE"}
ReadCallbacks == [kind : {"read"}, o : Ofds, flags : SUBSET Events]
WriteCallbacks == [kind : {"write"}, o : Ofds, msg : Nat]
Callbacks == {NoCallback, [kind |-> "timer"]} \cup ReadCallbacks \cup WriteCallbacks
LoopFields == {"pc", "poll", "wait", "evict", "i", "pending", "cb"}
PollEntries == [fd : Numbers, events : SUBSET Events]
Queue == [fd : Numbers \cup {0}, when : SUBSET Events, msg_queue : Seq(Nat), max_length : Nat]

(* What the variables hold. *)
LoopType ==
    /\ loop = [x \in LoopFields |-> loop[x]]
    /\ loop.poll \in Seq(PollEntries)
    /\ loop.i \in Nat \ {0}
    /\ loop.cb \in Callbacks
OfdType ==
    /\ ofd \in [Ofds -> Queue]
    /\ table \in [Numbers -> Ofds \cup {None}]
    /\ osmo_fds \in Seq(Ofds)
    /\ last \in [Ofds -> [accepted : Nat, written : Nat]]
TimerType ==
    /\ timer \in [Timers -> [active : BOOLEAN, left : Nat]]
    /\ loop.evict \in Seq(Timers)

Injective(s) == \A i, j \in DOMAIN s : s[i] = s[j] => i = j

(* The list, the table and the numbers of the osmo_fds agree. *)
Registered ==
    /\ Injective(osmo_fds)
    /\ \A i \in DOMAIN osmo_fds : ofd[osmo_fds[i]].fd # 0
    /\ \A o \in Ofds : \A n \in Numbers : table[n] = o <=> ofd[o].fd = n
    /\ \A o \in Ofds : ofd[o].fd = 0 => ofd[o] = Freed

(* The timers to be fired are due, each of them once. *)
Evictions ==
    /\ \A i \in DOMAIN loop.evict : timer[loop.evict[i]].active /\ timer[loop.evict[i]].left = 0
    /\ Injective(loop.evict)

(* Messages are numbered in the order they were accepted: a queue holds     *)
(* them in this order, all of them after the last one written, and the one  *)
(* that is with write_cb() is between.                                      *)
Sorted(q) == \A i, j \in DOMAIN q : i < j => q[i] < q[j]
Between(low, q, high) == \A i \in DOMAIN q : low < q[i] /\ q[i] <= high
Ordered(o) ==
    /\ last[o].written <= last[o].accepted
    /\ Sorted(ofd[o].msg_queue)
    /\ Between(last[o].written, ofd[o].msg_queue, last[o].accepted)
    /\ (loop.cb.kind = "write" /\ loop.cb.o = o) =>
           /\ last[o].written < loop.cb.msg /\ loop.cb.msg <= last[o].accepted
           /\ Between(loop.cb.msg, ofd[o].msg_queue, last[o].accepted)
InOrder == \A o \in Ofds : ofd[o].fd # 0 => Ordered(o)

Inv ==
    /\ LoopType /\ OfdType /\ TimerType
    /\ Registered /\ Evictions /\ InOrder

-----------------------------------------------------------------------------
(* Sequences *)

LEMMA FunctionIsSeq ==
    ASSUME NEW S, NEW n \in Nat, NEW f \in [1 .. n -> S]
    PROVE  f \in Seq(S)
  BY SeqDef

(* llist_del(): an element that occurs once does not occur any more, and    *)
(* the others are still different from each other.                          *)
LEMMA RemoveAtProperties ==
    ASSUME NEW S, NEW s \in Seq(S), NEW k \in DOMAIN s
    PROVE  /\ RemoveAt(s, k) \in Seq(S)
           /\ DOMAIN RemoveAt(s, k) = 1 .. Len(s) - 1
           /\ \A i \in 1 .. Len(s) - 1 : RemoveAt(s, k)[i] = IF i < k THEN s[i] ELSE s[i + 1]
  <1> DEFINE a == SubSeq(s, 1, k - 1)
             b == SubSeq(s, k + 1, Len(s))
  <1>1. Len(s) \in Nat /\ k \in 1 .. Len(s)
    BY LenProperties
  <1>2. a \in Seq(S) /\ Len(a) = k - 1 /\ \A i \in 1 .. k - 1 : a[i] = s[i]
    BY <1>1, SubSeqProperties
  <1>3. b \in Seq(S) /\ Len(b) = Len(s) - k /\ \A i \in 1 .. Len(s) - k : b[i] = s[k + i]
    BY <1>1, SubSeqProperties
  <1> HIDE DEF a, b
  <1>4. a \o b \in Seq(S) /\ Len(a \o b) = Len(s) - 1
    BY <1>1, <1>2, <1>3
  <1>5. \A i \in 1 .. Len(s) - 1 : (a \o b)[i] = IF i < k THEN s[i] ELSE s[i + 1]
    <2> TAKE i \in 1 .. Len(s) - 1
    <2>1. CASE i < k
      BY <1>1, <1>2, <1>3, <2>1, ConcatProperties
    <2>2. CASE ~ i < k
      <3>1. (a \o b)[i] = b[i - (k - 1)] /\ i - (k - 1) \in 1 .. Len(s) - k
        BY <1>1, <1>2, <1>3, <2>2, ConcatProperties
      <3> QED
        BY <1>1, <1>3, <2>2, <3>1
    <2> QED
      BY <2>1, <2>2
  <1> QED
    BY <1>4, <1>5, LenProperties DEF RemoveAt, a, b

LEMMA RemoveFirstProperties ==
    ASSUME NEW S, NEW s \in Seq(S), NEW x, Injective(s)
    PROVE  /\ RemoveFirst(s, x) \in Seq(S) /\ Injective(RemoveFirst(s, x))
           /\ \A i \in DOMAIN RemoveFirst(s, x) :
                  /\ RemoveFirst(s, x)[i] # x
                  /\ \E j \in DOMAIN s : RemoveFirst(s, x)[i] = s[j]
  <1>1. Len(s) \in Nat /\ DOMAIN s = 1 .. Len(s)
    BY LenProperties
  <1>2. CASE \E i \in 1 .. Len(s) : s[i] = x
    <2>1. PICK k \in 1 .. Len(s) : s[k] = x
      BY <1>2
    <2>2. {i \in 1 .. Len(s) : s[i] = x} = {k}
      BY <1>1, <2>1 DEF Injective
    <2>3. SelectInSeq(s, LAMBDA v : v = x) = k
      BY <1>1, <2>1, <2>2 DEF SelectInSeq, Min
    <2>4. RemoveFirst(s, x) = RemoveAt(s, k)
      BY <1>2, <2>3 DEF RemoveFirst
    <2> QED
      <3> DEFINE r == RemoveAt(s, k)
      <3>1. /\ r \in Seq(S) /\ DOMAIN r = 1 .. Len(s) - 1
            /\ \A i \in 1 .. Len(s) - 1 : r[i] = IF i < k THEN s[i] ELSE s[i + 1]
        BY <1>1, RemoveAtProperties
      <3> HIDE DEF r
      <3> DEFINE old(i) == IF i < k THEN i ELSE i + 1
      <3>2. \A i \in DOMAIN r : old(i) \in DOMAIN s /\ old(i) # k /\ r[i] = s[old(i)]
        BY <1>1, <3>1
      <3>3. \A i, j \in DOMAIN r : old(i) = old(j) => i = j
        BY <1>1, <3>1
      <3> HIDE DEF old
      <3>4. Injective(r)
        BY <3>2, <3>3 DEF Injective
      <3>5. \A i \in DOMAIN r : r[i] # x /\ \E j \in DOMAIN s : r[i] = s[j]
        BY <1>1, <2>1, <3>2 DEF Injective
      <3> QED
        BY <2>4, <3>1, <3>4, <3>5 DEF r
  <1>3. CASE ~ \E i \in 1 .. Len(s) : s[i] = x
    BY <1>1, <1>3 DEF RemoveFirst
  <1> QED
    BY <1>2, <1>3

LEMMA TailProperties ==
    ASSUME NEW S, NEW s \in Seq(S), s # <<>>
    PROVE  /\ s[1] \in S /\ Tail(s) \in Seq(S) /\ Len(Tail(s)) = Len(s) - 1
           /\ DOMAIN Tail(s) = 1 .. Len(s) - 1 /\ 1 \in DOMAIN s /\ DOMAIN s = 1 .. Len(s)
           /\ \A i \in 1 .. Len(s) - 1 : Tail(s)[i] = s[i + 1]
  BY HeadTailProperties, LenProperties, EmptySeq

(* Queues of message numbers: what is appended, cut off at the front, taken *)
(* from the head and put back there.                                        *)
LEMMA QueueProperties ==
    ASSUME NEW q \in Seq(Nat)
    PROVE  Len(q) \in Nat /\ DOMAIN q = 1 .. Len(q) /\ \A i \in 1 .. Len(q) : q[i] \in Nat
  BY LenProperties, ElementOfSeq

LEMMA AppendOrdered ==
    ASSUME NEW q \in Seq(Nat), NEW h \in Nat, NEW w \in Nat, Sorted(q), Between(w, q, h)
    PROVE  /\ Append(q, h + 1) \in Seq(Nat) /\ Sorted(Append(q, h + 1))
           /\ \A low \in Nat : low <= h /\ Between(low, q, h) => Between(low, Append(q, h + 1), h + 1)
  <1> DEFINE r == Append(q, h + 1)
  <1>1. Len(q) \in Nat /\ DOMAIN q = 1 .. Len(q) /\ \A i \in 1 .. Len(q) : q[i] \in Nat
    BY QueueProperties
  <1>2. /\ r \in Seq(Nat) /\ Len(r) = Len(q) + 1 /\ r[Len(q) + 1] = h + 1
        /\ \A i \in 1 .. Len(q) : r[i] = q[i]
    BY AppendProperties
  <1> HIDE DEF r
  <1>3. DOMAIN r = 1 .. Len(q) + 1
    BY <1>2, LenProperties
  <1>4. Sorted(r)
    <2> SUFFICES ASSUME NEW i \in DOMAIN r, NEW j \in DOMAIN r, i < j PROVE r[i] < r[j]
      BY DEF Sorted
    <2>1. i \in 1 .. Len(q) /\ r[i] = q[i] /\ ((j \in 1 .. Len(q) /\ r[j] = q[j]) \/ r[j] = h + 1)
      BY <1>1, <1>2, <1>3
    <2>2. q[i] <= h
      BY <1>1, <2>1 DEF Between
    <2> QED
      BY <1>1, <2>1, <2>2 DEF Sorted
  <1>5. \A low \in Nat : low <= h /\ Between(low, q, h) => Between(low, r, h + 1)
    BY <1>1, <1>2, <1>3 DEF Between
  <1> QED
    BY <1>2, <1>4, <1>5 DEF r

LEMMA SuffixOrdered ==
    ASSUME NEW q \in Seq(Nat), NEW k \in Nat, k <= Len(q)
    PROVE  /\ SubSeq(q, k + 1, Len(q)) \in Seq(Nat)
           /\ Sorted(q) => Sorted(SubSeq(q, k + 1, Len(q)))
           /\ \A low, high : Between(low, q, high) => Between(low, SubSeq(q, k + 1, Len(q)), high)
  <1> DEFINE r == SubSeq(q, k + 1, Len(q))
  <1>1. Len(q) \in Nat /\ DOMAIN q = 1 .. Len(q) /\ \A i \in 1 .. Len(q) : q[i] \in Nat
    BY QueueProperties
  <1>2. /\ r \in Seq(Nat) /\ Len(r) = Len(q) - k
        /\ \A i \in 1 .. Len(q) - k : r[i] = q[k + i]
    <2>1. k + 1 \in 1 .. Len(q) + 1 /\ Len(q) \in k .. Len(q)
      BY <1>1
    <2>2. r \in Seq(Nat) /\ Len(r) = IF k + 1 <= Len(q) THEN Len(q) - (k + 1) + 1 ELSE 0
      BY <1>1, <2>1, SubSeqProperties
    <2>3. \A i \in 1 .. Len(q) - (k + 1) + 1 : r[i] = q[k + 1 + i - 1]
      BY <1>1, <2>1, SubSeqProperties
    <2>4. \A i \in 1 .. Len(q) - k : k + 1 + i - 1 = k + i
      BY <1>1
    <2> HIDE DEF r
    <2>5. PICK n \in Nat : n = Len(q)
      BY <1>1
    <2>6. n - (k + 1) + 1 = n - k /\ (k + 1 <= n \/ n = k)
      BY <2>5
    <2>7. Len(r) = n - k
      BY <2>2, <2>5, <2>6
    <2> QED
      BY <2>2, <2>3, <2>4, <2>5, <2>6, <2>7
  <1> HIDE DEF r
  <1>3. DOMAIN r = 1 .. Len(q) - k /\ \A i \in DOMAIN r : r[i] = q[k + i] /\ k + i \in DOMAIN q
    BY <1>1, <1>2, LenProperties
  <1>4. Sorted(q) => Sorted(r)
    <2> SUFFICES ASSUME Sorted(q), NEW i \in DOMAIN r, NEW j \in DOMAIN r, i < j
                 PROVE  r[i] < r[j]
      BY DEF Sorted
    <2>1. k + i < k + j
      BY <1>1, <1>3
    <2> QED
      BY <1>3, <2>1 DEF Sorted
  <1>5. \A low, high : Between(low, q, high) => Between(low, r, high)
    BY <1>3 DEF Between
  <1> QED
    BY <1>2, <1>4, <1>5 DEF r

LEMMA HeadOrdered ==
    ASSUME NEW q \in Seq(Nat), q # <<>>, Sorted(q)
    PROVE  /\ q[1] \in Nat /\ 1 \in DOMAIN q /\ Tail(q) \in Seq(Nat) /\ Sorted(Tail(q))
           /\ \A low, high : Between(low, q, high) =>
                  Between(low, Tail(q), high) /\ Between(q[1], Tail(q), high)
  <1> DEFINE r == Tail(q)
  <1>1. /\ r \in Seq(Nat) /\ DOMAIN r = 1 .. Len(q) - 1 /\ DOMAIN q = 1 .. Len(q)
        /\ 1 \in DOMAIN q /\ Len(q) \in Nat
        /\ \A i \in DOMAIN r : r[i] = q[i + 1]
        /\ \A i \in DOMAIN q : q[i] \in Nat
    BY TailProperties, QueueProperties
  <1> HIDE DEF r
  <1>2. \A i \in DOMAIN r : i + 1 \in DOMAIN q /\ 1 < i + 1
    BY <1>1
  <1>3. Sorted(r)
    <2> SUFFICES ASSUME NEW i \in DOMAIN r, NEW j \in DOMAIN r, i < j PROVE r[i] < r[j]
      BY DEF Sorted
    <2>1. i + 1 < j + 1
      BY <1>1
    <2> QED
      BY <1>1, <1>2, <2>1 DEF Sorted
  <1>4. \A low, high : Between(low, q, high) => Between(low, r, high) /\ Between(q[1], r, high)
    BY <1>1, <1>2 DEF Between, Sorted
  <1> QED
    BY <1>1, <1>3, <1>4 DEF r

LEMMA PutBefore ==
    ASSUME NEW q \in Seq(Nat), NEW m \in Nat, NEW h, Sorted(q), Between(m, q, h)
    PROVE  /\ <<m>> \o q \in Seq(Nat) /\ Sorted(<<m>> \o q)
           /\ \A i \in DOMAIN (<<m>> \o q) :
                  (<<m>> \o q)[i] = m \/ \E j \in DOMAIN q : (<<m>> \o q)[i] = q[j]
  <1> DEFINE r == <<m>> \o q
  <1>1. Len(q) \in Nat /\ DOMAIN q = 1 .. Len(q) /\ \A i \in 1 .. Len(q) : q[i] \in Nat
    BY QueueProperties
  <1>2. r \in Seq(Nat) /\ Len(r) = Len(q) + 1
        /\ \A i \in 1 .. Len(q) + 1 : r[i] = IF i <= 1 THEN m ELSE q[i - 1]
    <2>1. <<m>> \in Seq(Nat) /\ Len(<<m>>) = 1 /\ <<m>>[1] = m
      OBVIOUS
    <2> QED
      BY <1>1, <2>1, ConcatProperties
  <1> HIDE DEF r
  <1>3. DOMAIN r = 1 .. Len(q) + 1
    BY <1>2, LenProperties
  <1>4. \A i \in DOMAIN r : IF i = 1 THEN r[i] = m ELSE i - 1 \in DOMAIN q /\ r[i] = q[i - 1]
    BY <1>1, <1>2, <1>3
  <1>5. Sorted(r)
    <2> SUFFICES ASSUME NEW i \in DOMAIN r, NEW j \in DOMAIN r, i < j PROVE r[i] < r[j]
      BY DEF Sorted
    <2>1. j - 1 \in DOMAIN q /\ r[j] = q[j - 1] /\ i \in Nat /\ j \in Nat
      BY <1>3, <1>4, <1>1
    <2>2. CASE i = 1
      BY <1>4, <2>1, <2>2 DEF Between
    <2>3. CASE i # 1
      BY <1>1, <1>4, <2>1, <2>3 DEF Sorted
    <2> QED
      BY <2>2, <2>3
  <1>6. \A i \in DOMAIN r : r[i] = m \/ \E j \in DOMAIN q : r[i] = q[j]
    BY <1>4
  <1> QED
    BY <1>2, <1>5, <1>6 DEF r

LEMMA PutBackOrdered ==
    ASSUME NEW q \in Seq(Nat), NEW m \in Nat, NEW h \in Nat, NEW w \in Nat,
           Sorted(q), Between(m, q, h), w < m, m <= h
    PROVE  <<m>> \o q \in Seq(Nat) /\ Sorted(<<m>> \o q) /\ Between(w, <<m>> \o q, h)
  <1>1. \A i \in DOMAIN q : q[i] \in Nat /\ m < q[i] /\ q[i] <= h
    BY QueueProperties DEF Between
  <1>2. \A i \in DOMAIN (<<m>> \o q) : w < (<<m>> \o q)[i] /\ (<<m>> \o q)[i] <= h
    <2> TAKE i \in DOMAIN (<<m>> \o q)
    <2>1. (<<m>> \o q)[i] = m \/ \E j \in DOMAIN q : (<<m>> \o q)[i] = q[j]
      BY PutBefore
    <2> QED
      BY <1>1, <2>1
  <1> QED
    BY <1>2, PutBefore DEF Between

(* A set of natural numbers that is not empty has a least element. *)
LEMMA LeastElement ==
    ASSUME NEW S \in SUBSET Nat, S # {}
    PROVE  \E m \in S : \A k \in S : m <= k
  <1>1. PICK m \in S : \A k \in S : ~(<<k, m>> \in OpToRel(<, Nat))
    BY NatLessThanWellFounded, WFMin
  <1>2. \A k \in S : k \in Nat /\ ~(k < m)
    BY <1>1 DEF OpToRel
  <1> QED
    BY <1>2

-----------------------------------------------------------------------------
(* What a step that leaves some of the variables alone preserves *)

LEMMA RegisteredKept ==
    ASSUME Registered, OfdType, UNCHANGED <<osmo_fds, table>>,
           \A o \in Ofds : IF ofd[o].fd = 0 THEN ofd'[o] = ofd[o] ELSE ofd'[o].fd = ofd[o].fd
    PROVE  Registered'
  <1>1. \A o \in Ofds : ofd'[o].fd = ofd[o].fd
    OBVIOUS
  <1>2. \A o \in Ofds : ofd'[o].fd = 0 => ofd'[o] = Freed
    BY <1>1 DEF Registered
  <1>3. Injective(osmo_fds)' /\ \A i \in DOMAIN osmo_fds' : ofd'[osmo_fds'[i]].fd # 0
    <2>1. osmo_fds' = osmo_fds /\ \A i \in DOMAIN osmo_fds : osmo_fds[i] \in Ofds
      BY ElementOfSeq, LenProperties DEF OfdType
    <2> QED
      BY <1>1, <2>1 DEF Registered, Injective
  <1>4. \A o \in Ofds : \A n \in Numbers : table'[n] = o <=> ofd'[o].fd = n
    BY <1>1 DEF Registered
  <1> QED
    BY <1>2, <1>3, <1>4 DEF Registered

LEMMA EvictionsKept ==
    ASSUME Evictions, TimerType, UNCHANGED timer, loop'.evict = loop.evict
    PROVE  Evictions' /\ TimerType'
  BY DEF Evictions, TimerType, Injective

LEMMA InOrderKept ==
    ASSUME InOrder, UNCHANGED <<ofd, last>>,
           loop'.cb = loop.cb \/ loop'.cb.kind # "write"
    PROVE  InOrder'
  BY DEF InOrder, Ordered, Sorted, Between

LEMMA InitInv == Init => Inv
  <1> SUFFICES ASSUME Init PROVE Inv
    OBVIOUS
  <1>1. LoopType
    BY DEF Init, LoopType, LoopFields, Callbacks
  <1>2. OfdType
    BY DEF Init, OfdType, Queue, Freed
  <1>3. TimerType
    BY DEF Init, TimerType, NewTimer
  <1>4. Registered
    BY LoopAssumption DEF Init, Registered, Injective, Freed
  <1>5. Evictions
    BY DEF Init, Evictions, Injective
  <1>6. InOrder
    BY DEF Init, InOrder, Freed
  <1> QED
    BY <1>1, <1>2, <1>3, <1>4, <1>5, <1>6 DEF Inv

-----------------------------------------------------------------------------
(* The calls of the user *)

LEMMA RegisterInv == ASSUME Inv, NEW o \in Ofds, Register(o) PROVE Inv'
  <1> DEFINE n == Min(Free)
  <1> USE LoopAssumption
  <1>1. n \in Free
    <2>1. Free \subseteq Nat /\ Free # {}
      BY DEF Register, Free
    <2>2. PICK m \in Free : \A k \in Free : m <= k
      BY <2>1, LeastElement
    <2> QED
      BY <2>1, <2>2 DEF Min
  <1>2. n \in Numbers /\ n # 0 /\ \A p \in Ofds : ofd[p].fd # n
    BY <1>1 DEF Free
  <1>3. /\ ofd' = [ofd EXCEPT ![o] = [fd |-> n, when |-> {"READ"}, msg_queue |-> <<>>,
                                      max_length |-> MaxLength]]
        /\ osmo_fds' = Append(osmo_fds, o)
        /\ table' = [table EXCEPT ![n] = o]
        /\ last' = [last EXCEPT ![o] = [accepted |-> 0, written |-> 0]]
        /\ UNCHANGED <<timer, loop>> /\ ofd[o].fd = 0 /\ ~InCallbackOf(o)
    BY DEF Register
  <1> HIDE DEF n
  <1>4. LoopType' /\ TimerType' /\ Evictions'
    BY <1>3, EvictionsKept DEF Inv, LoopType
  <1>5. OfdType'
    BY <1>2, <1>3 DEF Inv, OfdType, Queue, Events
  <1>6. Registered'
    <2>1. /\ Len(osmo_fds) \in Nat /\ DOMAIN osmo_fds = 1 .. Len(osmo_fds)
          /\ DOMAIN osmo_fds' = 1 .. Len(osmo_fds) + 1
          /\ osmo_fds'[Len(osmo_fds) + 1] = o
          /\ \A i \in 1 .. Len(osmo_fds) : osmo_fds'[i] = osmo_fds[i] /\ osmo_fds[i] \in Ofds
      BY <1>3, AppendProperties, ElementOfSeq, LenProperties DEF Inv, OfdType
    <2>2. \A i \in 1 .. Len(osmo_fds) : osmo_fds[i] # o
      BY <1>3, <2>1 DEF Inv, Registered
    <2>3. Injective(osmo_fds)'
      BY <2>1, <2>2 DEF Inv, Registered, Injective
    <2>4. \A p \in Ofds : ofd'[p] = IF p = o THEN ofd'[o] ELSE ofd[p]
      BY <1>3 DEF Inv, OfdType
    <2>5. ofd'[o].fd = n
      BY <1>3 DEF Inv, OfdType
    <2>6. \A i \in DOMAIN osmo_fds' : ofd'[osmo_fds'[i]].fd # 0
      BY <1>2, <2>1, <2>4, <2>5 DEF Inv, Registered
    <2>7. \A p \in Ofds : \A k \in Numbers : table'[k] = p <=> ofd'[p].fd = k
      BY <1>2, <1>3, <2>4, <2>5 DEF Inv, Registered, OfdType
    <2>8. \A p \in Ofds : ofd'[p].fd = 0 => ofd'[p] = Freed
      BY <1>2, <2>4, <2>5 DEF Inv, Registered
    <2> QED
      BY <2>3, <2>6, <2>7, <2>8 DEF Registered
  <1>7. InOrder'
    <2> SUFFICES ASSUME NEW p \in Ofds, ofd'[p].fd # 0 PROVE Ordered(p)'
      BY DEF InOrder
    <2>1. CASE p = o
      <3>1. ofd'[o].msg_queue = <<>> /\ last'[o].written = 0 /\ last'[o].accepted = 0
        BY <1>3 DEF Inv, OfdType
      <3>2. ~(loop.cb.kind = "write" /\ loop.cb.o = o)
        BY <1>3 DEF InCallbackOf
      <3> QED
        BY <1>3, <2>1, <3>1, <3>2 DEF Ordered, Sorted, Between
    <2>2. CASE p # o
      <3>1. ofd'[p] = ofd[p] /\ last'[p] = last[p] /\ loop' = loop
        BY <1>3, <2>2 DEF Inv, OfdType
      <3> QED
        BY <3>1 DEF Inv, InOrder, Ordered, Sorted, Between
    <2> QED
      BY <2>1, <2>2
  <1> QED
    BY <1>4, <1>5, <1>6, <1>7 DEF Inv

LEMMA CloseAndFreeInv == ASSUME Inv, NEW o \in Ofds, CloseAndFree(o) PROVE Inv'
  <1>1. /\ osmo_fds' = RemoveFirst(osmo_fds, o)
        /\ ofd' = [ofd EXCEPT ![o] = Freed]
        /\ table' = [table EXCEPT ![ofd[o].fd] = None]
        /\ UNCHANGED <<timer, loop, last>> /\ ofd[o].fd \in Numbers
    BY DEF CloseAndFree, Close, Inv, OfdType, Queue
  <1>2. LoopType' /\ TimerType' /\ Evictions'
    BY <1>1, EvictionsKept DEF Inv, LoopType
  <1>3. /\ osmo_fds' \in Seq(Ofds) /\ Injective(osmo_fds)'
        /\ \A i \in DOMAIN osmo_fds' :
               osmo_fds'[i] # o /\ \E j \in DOMAIN osmo_fds : osmo_fds'[i] = osmo_fds[j]
    BY <1>1, RemoveFirstProperties DEF Inv, OfdType, Registered, Injective
  <1>4. OfdType'
    BY <1>1, <1>3 DEF Inv, OfdType, Queue, Freed
  <1>5. \A p \in Ofds : ofd'[p] = IF p = o THEN Freed ELSE ofd[p]
    BY <1>1 DEF Inv, OfdType
  <1>6. Registered'
    <2>1. \A i \in DOMAIN osmo_fds' : ofd'[osmo_fds'[i]].fd # 0
      BY <1>3, <1>5, ElementOfSeq, LenProperties DEF Inv, Registered, OfdType
    <2>2. \A p \in Ofds : \A k \in Numbers : table'[k] = p <=> ofd'[p].fd = k
      BY <1>1, <1>5, LoopAssumption DEF Inv, Registered, OfdType, Freed
    <2> QED
      BY <1>3, <1>5, <2>1, <2>2 DEF Inv, Registered
  <1>7. InOrder'
    BY <1>1, <1>5 DEF Inv, InOrder, Ordered, Sorted, Between, Freed
  <1> QED
    BY <1>2, <1>4, <1>6, <1>7 DEF Inv

LEMMA EnqueueInv == ASSUME Inv, NEW o \in Ofds, Enqueue(o) PROVE Inv'
  <1>0. PICK q \in Seq(Nat), h \in Nat, w \in Nat :
            q = ofd[o].msg_queue /\ h = last[o].accepted /\ w = last[o].written
    BY DEF Inv, OfdType, Queue
  <1>1. /\ ofd' = [ofd EXCEPT ![o].msg_queue = Append(q, h + 1), ![o].when = @ \cup {"WRITE"}]
        /\ last' = [last EXCEPT ![o].accepted = h + 1]
        /\ UNCHANGED <<osmo_fds, table, timer, loop>> /\ ofd[o].fd # 0
    BY <1>0 DEF Enqueue
  <1>2. LoopType' /\ TimerType' /\ Evictions'
    BY <1>1, EvictionsKept DEF Inv, LoopType
  <1>3. /\ \A p \in Ofds : p # o => ofd'[p] = ofd[p] /\ last'[p] = last[p]
        /\ ofd'[o].fd = ofd[o].fd
        /\ ofd'[o].msg_queue = Append(q, h + 1)
        /\ last'[o].accepted = h + 1 /\ last'[o].written = w
    BY <1>0, <1>1 DEF Inv, OfdType, Queue
  <1>4. Ordered(o)
    BY <1>1 DEF Inv, InOrder
  <1>5. /\ Append(q, h + 1) \in Seq(Nat) /\ Sorted(Append(q, h + 1))
        /\ \A low \in Nat : low <= h /\ Between(low, q, h) => Between(low, Append(q, h + 1), h + 1)
    BY <1>0, <1>4, AppendOrdered DEF Ordered
  <1>6. OfdType'
    <2>1. ofd' \in [Ofds -> Queue]
      BY <1>1, <1>5 DEF Inv, OfdType, Queue, Events
    <2>2. last' \in [Ofds -> [accepted : Nat, written : Nat]]
      <3>1. h + 1 \in Nat
        OBVIOUS
      <3> QED
        BY <1>1, <3>1 DEF Inv, OfdType
    <2> QED
      BY <1>1, <2>1, <2>2 DEF Inv, OfdType
  <1>7. Registered'
    BY <1>1, <1>3, RegisteredKept DEF Inv
  <1>8. Ordered(o)'
    <2>1. (loop.cb.kind = "write" /\ loop.cb.o = o) => loop.cb.msg \in Nat
      BY DEF Inv, LoopType, Callbacks, WriteCallbacks, ReadCallbacks, NoCallback
    <2>2. (loop.cb.kind = "write" /\ loop.cb.o = o) =>
              /\ w < loop.cb.msg /\ loop.cb.msg <= h + 1
              /\ Between(loop.cb.msg, Append(q, h + 1), h + 1)
      BY <1>0, <1>4, <1>5, <2>1 DEF Ordered
    <2>3. w <= h + 1 /\ Between(w, Append(q, h + 1), h + 1)
      BY <1>0, <1>4, <1>5 DEF Ordered
    <2> QED
      BY <1>1, <1>3, <1>5, <2>2, <2>3 DEF Ordered
  <1>9. InOrder'
    BY <1>1, <1>3, <1>8 DEF Inv, InOrder, Ordered, Sorted, Between
  <1> QED
    BY <1>2, <1>6, <1>7, <1>9 DEF Inv

(* Clear() and SetMaxlen() leave the end of a queue. *)
LEMMA EndOfQueueInv ==
    ASSUME Inv, NEW o \in Ofds, NEW q \in Seq(Nat), NEW k \in Nat, NEW after \in Queue,
           q = ofd[o].msg_queue, k <= Len(q), ofd[o].fd # 0,
           ofd' = [ofd EXCEPT ![o] = after], after.fd = ofd[o].fd,
           after.msg_queue = SubSeq(q, k + 1, Len(q)),
           UNCHANGED <<osmo_fds, table, timer, loop, last>>
    PROVE  Inv'
  <1>1. LoopType' /\ TimerType' /\ Evictions'
    BY EvictionsKept DEF Inv, LoopType
  <1>2. ofd'[o] = after /\ \A p \in Ofds : p # o => ofd'[p] = ofd[p]
    BY DEF Inv, OfdType
  <1>3. OfdType'
    BY DEF Inv, OfdType
  <1>4. Registered'
    BY <1>2, RegisteredKept DEF Inv
  <1>5. Ordered(o)'
    BY <1>2, SuffixOrdered DEF Inv, InOrder, Ordered
  <1>6. InOrder'
    BY <1>2, <1>5 DEF Inv, InOrder, Ordered, Sorted, Between
  <1> QED
    BY <1>1, <1>3, <1>4, <1>6 DEF Inv

LEMMA ClearInv == ASSUME Inv, NEW o \in Ofds, Clear(o) PROVE Inv'
  <1>1. PICK q \in Seq(Nat) : q = ofd[o].msg_queue
    BY DEF Inv, OfdType, Queue
  <1>2. PICK k \in Nat : k = Len(q) /\ k <= Len(q) /\ SubSeq(q, k + 1, Len(q)) = <<>>
    BY <1>1, SubSeqEmpty, LenProperties
  <1> DEFINE after == [ofd[o] EXCEPT !.msg_queue = <<>>, !.when = @ \ {"WRITE"}]
  <1>3. after \in Queue /\ after.fd = ofd[o].fd /\ after.msg_queue = <<>>
    BY <1>2, EmptySeq DEF Inv, OfdType, Queue
  <1>4. ofd' = [ofd EXCEPT ![o] = after]
    BY DEF Clear, Inv, OfdType, Queue
  <1> HIDE DEF after
  <1> QED
    BY <1>1, <1>2, <1>3, <1>4, EndOfQueueInv DEF Clear

LEMMA SetMaxlenInv == ASSUME Inv, NEW o \in Ofds, NEW len \in Nat, SetMaxlen(o, len) PROVE Inv'
  <1>1. PICK q \in Seq(Nat) : q = ofd[o].msg_queue
    BY DEF Inv, OfdType, Queue
  <1>2. Len(q) \in Nat
    BY LenProperties
  <1>3. PICK k \in Nat : /\ k <= Len(q)
                         /\ SubSeq(q, k + 1, Len(q)) =
                               IF Len(q) > len THEN SubSeq(q, Len(q) - len + 1, Len(q)) ELSE q
    <2>1. CASE Len(q) > len
      <3>1. Len(q) - len \in Nat /\ Len(q) - len <= Len(q)
        BY <1>2, <2>1
      <3> QED
        BY <2>1, <3>1
    <2>2. CASE ~ Len(q) > len
      <3>1. SubSeq(q, 0 + 1, Len(q)) = q
        BY SubSeqFull
      <3> QED
        BY <1>2, <2>2, <3>1
    <2> QED
      BY <2>1, <2>2
  <1> DEFINE after == [ofd[o] EXCEPT !.max_length = len, !.msg_queue = SubSeq(q, k + 1, Len(q))]
  <1>4. SubSeq(q, k + 1, Len(q)) \in Seq(Nat)
    BY SuffixOrdered, <1>3
  <1>5. /\ after \in Queue /\ after.fd = ofd[o].fd
        /\ after.msg_queue = SubSeq(q, k + 1, Len(q))
    BY <1>4 DEF Inv, OfdType, Queue
  <1>6. ofd' = [ofd EXCEPT ![o] = after]
    BY <1>1, <1>3 DEF SetMaxlen, Inv, OfdType, Queue
  <1> HIDE DEF after
  <1> QED
    BY <1>1, <1>3, <1>5, <1>6, EndOfQueueInv DEF SetMaxlen

LEMMA WriteCallback ==
    ASSUME NEW cb \in Callbacks, cb.kind = "write"
    PROVE  cb.o \in Ofds /\ cb.msg \in Nat /\ cb = [kind |-> "write", o |-> cb.o, msg |-> cb.msg]
  <1>1. cb \notin ReadCallbacks /\ cb # NoCallback /\ cb # [kind |-> "timer"]
    BY DEF ReadCallbacks, NoCallback
  <1>2. cb \in WriteCallbacks
    BY <1>1 DEF Callbacks
  <1> QED
    BY <1>2 DEF WriteCallbacks

(* A step that leaves the osmo_fds alone. *)
LEMMA FdsKept ==
    ASSUME Inv, UNCHANGED <<osmo_fds, table, ofd, last>>,
           loop'.cb = loop.cb \/ loop'.cb.kind # "write",
           LoopType', TimerType', Evictions'
    PROVE  Inv'
  <1>1. OfdType'
    BY DEF Inv, OfdType
  <1>2. Registered'
    BY RegisteredKept DEF Inv
  <1> QED
    BY <1>1, <1>2, InOrderKept DEF Inv

(* A step of the loop that goes on to the next stage. *)
LEMMA StageEnds ==
    ASSUME Inv, NEW l \in Seq(PollEntries), NEW i \in Nat \ {0},
           loop'.poll = l, loop'.i = i, loop'.cb = loop.cb, loop'.evict = loop.evict,
           loop' = [x \in LoopFields |-> loop'[x]],
           UNCHANGED <<osmo_fds, table, ofd, timer, last>>
    PROVE  Inv'
  <1>1. LoopType'
    BY DEF Inv, LoopType
  <1> QED
    BY <1>1, EvictionsKept, FdsKept DEF Inv

(* A timer that leaves the eviction list may be set to anything. *)
LEMMA TimerLeaves ==
    ASSUME Inv, NEW t \in Timers, NEW new \in [active : BOOLEAN, left : Nat],
           timer' = [timer EXCEPT ![t] = new],
           loop' = [loop EXCEPT !.evict = IF timer[t].active THEN RemoveFirst(@, t) ELSE @],
           UNCHANGED <<osmo_fds, table, ofd, last>>
    PROVE  Inv'
  <1> DEFINE e == loop.evict
  <1>1. /\ e \in Seq(Timers) /\ Injective(e) /\ \A i \in DOMAIN e : e[i] \in Timers
        /\ \A i \in DOMAIN e : timer[e[i]].active /\ timer[e[i]].left = 0
    BY ElementOfSeq, LenProperties DEF Inv, TimerType, Evictions
  <1>2. /\ loop'.cb = loop.cb /\ LoopType'
        /\ loop'.evict = IF timer[t].active THEN RemoveFirst(e, t) ELSE e
    BY DEF Inv, LoopType, LoopFields
  <1>3. /\ loop'.evict \in Seq(Timers) /\ Injective(loop'.evict)
        /\ \A i \in DOMAIN loop'.evict :
               loop'.evict[i] # t /\ \E j \in DOMAIN e : loop'.evict[i] = e[j]
    <2>1. CASE timer[t].active
      BY <1>1, <1>2, <2>1, RemoveFirstProperties
    <2>2. CASE ~timer[t].active
      BY <1>1, <1>2, <2>2
    <2> QED
      BY <2>1, <2>2
  <1>4. \A u \in Timers : u # t => timer'[u] = timer[u]
    BY DEF Inv, TimerType
  <1>5. TimerType'
    BY <1>3 DEF Inv, TimerType
  <1>6. Evictions'
    BY <1>1, <1>3, <1>4 DEF Evictions, Injective
  <1> QED
    BY <1>2, <1>5, <1>6, FdsKept

LEMMA TimerCallInv == ASSUME Inv, NEW t \in Timers, NEW op, TimerCall(t, op) PROVE Inv'
  <1>1. timer[t] \in [active : BOOLEAN, left : Nat]
    BY DEF Inv, TimerType
  <1>2. ASSUME NEW ticks \in Nat, TimerAdd(t, ticks) PROVE Inv'
    <2>1. [active |-> TRUE, left |-> ticks] \in [active : BOOLEAN, left : Nat]
      OBVIOUS
    <2> QED
      BY <1>2, <2>1, TimerLeaves DEF TimerCall, TimerAdd
  <1>3. ASSUME TimerDel(t) PROVE Inv'
    <2> DEFINE new == [timer[t] EXCEPT !.active = FALSE]
    <2>1. new \in [active : BOOLEAN, left : Nat]
      BY <1>1
    <2>2. timer' = [timer EXCEPT ![t] = new]
      BY <1>1, <1>3 DEF TimerDel, Inv, TimerType
    <2> HIDE DEF new
    <2> QED
      BY <1>3, <2>1, <2>2, TimerLeaves DEF TimerCall, TimerDel
  <1>4. timer[t].left \in Nat /\ 0 .. MaxTimeout \subseteq Nat
    BY <1>1, LoopAssumption
  <1> QED
    BY <1>2, <1>3, <1>4 DEF TimerCall

LEMMA CallInv == ASSUME Inv, NEW op, Call(op) PROVE Inv'
  <1>1. ASSUME ShutdownRequest PROVE Inv'
    <2>1. UNCHANGED <<osmo_fds, table, ofd, timer, loop, last>>
      BY <1>1 DEF ShutdownRequest
    <2> QED
      BY <2>1, FdsKept, EvictionsKept DEF Inv, LoopType
  <1>2. 0 .. MaxLength \subseteq Nat
    BY LoopAssumption
  <1> QED
    BY <1>1, <1>2, RegisterInv, CloseAndFreeInv, EnqueueInv, ClearInv, SetMaxlenInv,
       TimerCallInv DEF Call

-----------------------------------------------------------------------------
(* The system and the loop *)

LEMMA TickInv == ASSUME Inv, Tick PROVE Inv'
  <1>1. UNCHANGED <<osmo_fds, table, ofd, last>>
    BY DEF Tick
  <1>2. LoopType' /\ loop'.cb = loop.cb /\ loop'.evict = loop.evict
    BY DEF Tick, Inv, LoopType, LoopFields
  <1>3. \A t \in Timers : /\ timer'[t] \in [active : BOOLEAN, left : Nat]
                          /\ timer'[t].active = timer[t].active
                          /\ timer[t].left = 0 => timer'[t].left = 0
    BY DEF Tick, Less, Inv, TimerType
  <1>4. TimerType'
    BY <1>2, <1>3 DEF Tick, Inv, TimerType
  <1>5. Evictions'
    BY <1>2, <1>3, ElementOfSeq, LenProperties DEF Inv, Evictions, TimerType, Injective
  <1> QED
    BY <1>1, <1>2, <1>4, <1>5, FdsKept

LEMMA PrepareInv == ASSUME Inv, Prepare PROVE Inv'
  <1> DEFINE entry(n) == [fd |-> ofd[osmo_fds[n]].fd, events |-> ofd[osmo_fds[n]].when]
             filled == [n \in DOMAIN osmo_fds |-> entry(n)]
  <1>1. \A n \in DOMAIN osmo_fds : entry(n) \in PollEntries
    <2>1. \A n \in DOMAIN osmo_fds : osmo_fds[n] \in Ofds /\ ofd[osmo_fds[n]].fd # 0
      BY ElementOfSeq, LenProperties DEF Inv, OfdType, Registered
    <2> QED
      BY <2>1 DEF Inv, OfdType, Queue, PollEntries
  <1>2. filled \in Seq(PollEntries)
    <2>1. Len(osmo_fds) \in Nat /\ DOMAIN osmo_fds = 1 .. Len(osmo_fds)
      BY LenProperties DEF Inv, OfdType
    <2> HIDE DEF entry
    <2>2. filled \in [1 .. Len(osmo_fds) -> PollEntries]
      BY <1>1, <2>1
    <2> QED
      BY <2>1, <2>2, FunctionIsSeq
  <1>3. /\ loop' = [loop EXCEPT !.pc = "poll", !.poll = filled,
                       !.wait = IF shutdown.requested /\ Nearest = <<>> THEN <<0>> ELSE Nearest]
        /\ UNCHANGED <<osmo_fds, table, ofd, last, timer>>
    BY DEF Prepare, users
  <1> HIDE DEF filled
  <1>4. LoopType' /\ loop'.cb = loop.cb /\ loop'.evict = loop.evict
    BY <1>2, <1>3 DEF Inv, LoopType, LoopFields
  <1> QED
    BY <1>3, <1>4, EvictionsKept, FdsKept DEF Inv

LEMMA PollInv == ASSUME Inv, Poll PROVE Inv'
  <1> DEFINE result == [n \in DOMAIN loop.poll |->
                           [fd |-> loop.poll[n].fd,
                            events |-> loop.poll[n].events \cap ready[loop.poll[n].fd]]]
             due == IF shutdown.requested THEN {} ELSE Due
  <1>1. PICK order \in SetToSeqs(due) :
            /\ loop' = [loop EXCEPT !.pc = "timers", !.poll = result, !.evict = order]
            /\ UNCHANGED <<osmo_fds, table, ofd, last, timer>>
    BY DEF Poll, users
  <1>2. due \subseteq Timers /\ Cardinality(due) \in Nat
    BY LoopAssumption, FS_Subset, FS_CardinalityType, FS_EmptySet DEF Due
  <1>3. order \in Seq(due) /\ Injective(order) /\ \A i \in DOMAIN order : order[i] \in due
    BY <1>1, <1>2, IsASeq DEF SetToSeqs, Injective
  <1>4. \A n \in DOMAIN loop.poll : loop.poll[n] \in PollEntries
    BY ElementOfSeq, LenProperties DEF Inv, LoopType
  <1>5. result \in Seq(PollEntries)
    <2>1. \A n \in DOMAIN loop.poll : result[n] \in PollEntries
      BY <1>4 DEF PollEntries
    <2>2. DOMAIN result = DOMAIN loop.poll /\ result = [n \in DOMAIN loop.poll |-> result[n]]
      OBVIOUS
    <2> HIDE DEF result
    <2> QED
      <3>1. Len(loop.poll) \in Nat /\ DOMAIN loop.poll = 1 .. Len(loop.poll)
        BY LenProperties DEF Inv, LoopType
      <3>2. result \in [1 .. Len(loop.poll) -> PollEntries]
        BY <2>1, <2>2, <3>1
      <3> QED
        BY <3>1, <3>2, FunctionIsSeq
  <1> HIDE DEF result
  <1>6. LoopType' /\ loop'.cb = loop.cb /\ loop'.evict = order
    BY <1>1, <1>5 DEF Inv, LoopType, LoopFields
  <1>7. TimerType'
    BY <1>1, <1>2, <1>3, <1>6, SeqMonotonic DEF Inv, TimerType
  <1>8. Evictions'
    BY <1>1, <1>3, <1>6 DEF Evictions, Due, Injective
  <1> QED
    BY <1>1, <1>6, <1>7, <1>8, FdsKept

LEMMA FireTimerInv == ASSUME Inv, FireTimer PROVE Inv'
  <1> DEFINE e == loop.evict
             t == e[1]
  <1>1. e \in Seq(Timers) /\ e # <<>>
    BY DEF FireTimer, Inv, TimerType
  <1>2. /\ t \in Timers /\ Tail(e) \in Seq(Timers) /\ DOMAIN e = 1 .. Len(e)
        /\ DOMAIN Tail(e) = 1 .. Len(e) - 1 /\ 1 \in DOMAIN e /\ Len(e) \in Nat
        /\ \A i \in 1 .. Len(e) - 1 : Tail(e)[i] = e[i + 1]
        /\ \A i \in DOMAIN e : e[i] \in Timers
    BY <1>1, TailProperties, LenProperties, ElementOfSeq
  <1>3. /\ timer' = [timer EXCEPT ![t].active = FALSE]
        /\ loop' = [loop EXCEPT !.evict = Tail(@), !.cb = [kind |-> "timer"]]
        /\ UNCHANGED <<osmo_fds, table, ofd, last>>
    BY DEF FireTimer
  <1>4. LoopType' /\ loop'.cb.kind # "write" /\ loop'.evict = Tail(e)
    BY <1>3 DEF Inv, LoopType, LoopFields, Callbacks
  <1>5. TimerType'
    BY <1>2, <1>3, <1>4 DEF Inv, TimerType
  <1>6. \A i \in DOMAIN Tail(e) : /\ Tail(e)[i] = e[i + 1] /\ i + 1 \in DOMAIN e /\ i + 1 # 1
                                  /\ timer'[Tail(e)[i]] = timer[Tail(e)[i]]
    <2>1. \A i \in DOMAIN Tail(e) : Tail(e)[i] = e[i + 1] /\ i + 1 \in DOMAIN e /\ i + 1 # 1
      BY <1>2
    <2>2. \A i \in DOMAIN Tail(e) : Tail(e)[i] # t /\ Tail(e)[i] \in Timers
      BY <1>2, <2>1 DEF Inv, Evictions, Injective
    <2> QED
      BY <1>3, <2>1, <2>2 DEF Inv, TimerType
  <1>7. \A i, j \in DOMAIN Tail(e) : i + 1 = j + 1 => i = j
    BY <1>2
  <1>8. Injective(loop'.evict)
    BY <1>4, <1>6, <1>7 DEF Inv, Evictions, Injective
  <1>9. Evictions'
    BY <1>4, <1>6, <1>8 DEF Inv, Evictions, Injective
  <1> QED
    BY <1>3, <1>4, <1>5, <1>9, FdsKept

(* osmo_wqueue_bfd_cb() for an osmo_fd that is open. *)
LEMMA BeginWriteInv ==
    ASSUME Inv, NEW o \in Ofds, NEW l, BeginWrite(o, l), ofd[o].fd # 0,
           l = [x \in LoopFields |-> l[x]], l.poll = loop.poll, l.i \in Nat \ {0},
           l.evict = loop.evict,
           UNCHANGED <<osmo_fds, table, timer, last>>
    PROVE  Inv'
  <1>0. PICK q \in Seq(Nat), h \in Nat, w \in Nat :
            q = ofd[o].msg_queue /\ h = last[o].accepted /\ w = last[o].written
    BY DEF Inv, OfdType, Queue
  <1> DEFINE cb == IF q = <<>> THEN NoCallback ELSE [kind |-> "write", o |-> o, msg |-> q[1]]
             rest == IF q = <<>> THEN q ELSE Tail(q)
  <1>1. /\ ofd' = [ofd EXCEPT ![o].when = @ \ {"WRITE"}, ![o].msg_queue = rest]
        /\ loop' = [l EXCEPT !.cb = cb]
    BY <1>0 DEF BeginWrite
  <1>2. Ordered(o)
    BY DEF Inv, InOrder
  <1>3. rest \in Seq(Nat) /\ cb \in Callbacks
    <2>1. CASE q = <<>>
      BY <2>1 DEF Callbacks
    <2>2. CASE q # <<>>
      <3>1. q[1] \in Nat /\ Tail(q) \in Seq(Nat)
        BY <2>2, TailProperties
      <3> QED
        BY <2>2, <3>1 DEF Callbacks, WriteCallbacks
    <2> QED
      BY <2>1, <2>2
  <1>4. /\ Sorted(rest) /\ Between(w, rest, h)
        /\ cb.kind = "write" => /\ cb.o = o /\ w < cb.msg /\ cb.msg <= h
                                /\ Between(cb.msg, rest, h)
    <2>1. CASE q = <<>>
      BY <1>0, <1>2, <2>1 DEF Ordered, NoCallback
    <2>2. CASE q # <<>>
      <3>1. Sorted(q) /\ Between(w, q, h)
        BY <1>0, <1>2 DEF Ordered
      <3>2. /\ 1 \in DOMAIN q /\ Sorted(Tail(q))
            /\ Between(w, Tail(q), h) /\ Between(q[1], Tail(q), h)
        BY <2>2, <3>1, HeadOrdered
      <3>3. w < q[1] /\ q[1] <= h
        BY <3>1, <3>2 DEF Between
      <3> QED
        BY <2>2, <3>2, <3>3
    <2> QED
      BY <2>1, <2>2
  <1> HIDE DEF cb, rest
  <1>5. /\ loop'.cb = cb /\ loop'.poll = loop.poll /\ loop'.i \in Nat \ {0}
        /\ loop'.evict = loop.evict /\ loop' = [x \in LoopFields |-> loop'[x]]
    BY <1>1 DEF LoopFields
  <1>6. LoopType' /\ TimerType' /\ Evictions'
    BY <1>3, <1>5, EvictionsKept DEF Inv, LoopType
  <1>7. /\ \A p \in Ofds : p # o => ofd'[p] = ofd[p]
        /\ ofd'[o].fd = ofd[o].fd /\ ofd'[o].msg_queue = rest
    BY <1>1 DEF Inv, OfdType, Queue
  <1>8. OfdType'
    BY <1>1, <1>3 DEF Inv, OfdType, Queue
  <1>9. Registered'
    BY <1>7, RegisteredKept DEF Inv
  <1>10. InOrder'
    <2> SUFFICES ASSUME NEW p \in Ofds, ofd'[p].fd # 0 PROVE Ordered(p)'
      BY DEF InOrder
    <2>1. CASE p = o
      BY <1>0, <1>2, <1>4, <1>5, <1>7, <2>1 DEF Ordered
    <2>2. CASE p # o
      <3>1. ~(cb.kind = "write" /\ cb.o = p)
        BY <1>4, <2>2
      <3> QED
        BY <1>5, <1>7, <2>2, <3>1 DEF Inv, InOrder, Ordered, Sorted, Between
    <2> QED
      BY <2>1, <2>2
  <1> QED
    BY <1>6, <1>8, <1>9, <1>10 DEF Inv

LEMMA DispatchFdInv == ASSUME Inv, DispatchFd PROVE Inv'
  <1> DEFINE p == loop.poll[loop.i]
             o == table[p.fd]
             flags == p.events \cap ofd[o].when
             l == [loop EXCEPT !.i = @ + 1,
                      !.pending = @ \/ (shutdown.requested /\ "WRITE" \in ofd[o].when)]
  <1>1. /\ UNCHANGED <<osmo_fds, table, timer, last>> /\ loop.cb = NoCallback
        /\ \/ loop' = [loop EXCEPT !.i = @ + 1] /\ UNCHANGED ofd
           \/ /\ o # None
              /\ \/ loop' = [l EXCEPT !.cb = [kind |-> "read", o |-> o, flags |-> flags]] /\ UNCHANGED ofd
                 \/ BeginWrite(o, l)
                 \/ loop' = l /\ UNCHANGED ofd
    BY DEF DispatchFd
  <1>2. p \in PollEntries
    <2>1. loop.i \in 1 .. Len(loop.poll) /\ loop.poll \in Seq(PollEntries)
      <3>1. loop.i <= Len(loop.poll)
        BY DEF DispatchFd
      <3>2. loop.i \in Nat \ {0} /\ loop.poll \in Seq(PollEntries) /\ Len(loop.poll) \in Nat
        BY LenProperties DEF Inv, LoopType
      <3> QED
        BY <3>1, <3>2
    <2> QED
      BY <2>1, ElementOfSeq
  <1>3. o # None => o \in Ofds /\ ofd[o].fd # 0
    <2> HIDE DEF p
    <2>1. p.fd \in Numbers /\ p.fd # 0
      BY <1>2, LoopAssumption DEF PollEntries
    <2>2. o # None => o \in Ofds
      BY <2>1 DEF Inv, OfdType
    <2> QED
      BY <2>1, <2>2 DEF Inv, Registered
  <1> DEFINE i == loop.i + 1
  <1>9. i \in Nat \ {0}
    BY DEF Inv, LoopType
  <1>4. /\ l = [x \in LoopFields |-> l[x]] /\ l.poll = loop.poll /\ l.i \in Nat \ {0}
        /\ l.evict = loop.evict /\ l.cb = loop.cb
    <2>1. l = [loop EXCEPT !.i = i, !.pending = l.pending]
      BY DEF Inv, LoopType, LoopFields
    <2> HIDE DEF i, l
    <2> QED
      BY <1>9, <2>1 DEF Inv, LoopType, LoopFields
  <1>5. CASE loop' = [loop EXCEPT !.i = @ + 1] /\ UNCHANGED ofd
    <2>1. LoopType' /\ loop'.cb = loop.cb /\ loop'.evict = loop.evict
      <3>1. loop' = [loop EXCEPT !.i = i]
        BY <1>5
      <3> HIDE DEF i
      <3> QED
        BY <1>9, <3>1 DEF Inv, LoopType, LoopFields
    <2> QED
      BY <1>1, <1>5, <2>1, EvictionsKept, FdsKept DEF Inv
  <1>6. CASE /\ o # None
             /\ loop' = [l EXCEPT !.cb = [kind |-> "read", o |-> o, flags |-> flags]]
             /\ UNCHANGED ofd
    <2> HIDE DEF l
    <2>1. flags \subseteq Events
      BY <1>2 DEF PollEntries
    <2> HIDE DEF flags
    <2>2. /\ loop'.poll = loop.poll /\ loop'.i \in Nat \ {0} /\ loop'.evict = loop.evict
          /\ loop' = [x \in LoopFields |-> loop'[x]]
          /\ loop'.cb = [kind |-> "read", o |-> o, flags |-> flags]
      BY <1>4, <1>6 DEF LoopFields
    <2>3. [kind |-> "read", o |-> o, flags |-> flags] \in Callbacks
      <3>1. o \in Ofds
        BY <1>3, <1>6
      <3> HIDE DEF o
      <3> QED
        BY <2>1, <3>1 DEF Callbacks, ReadCallbacks
    <2>4. LoopType' /\ loop'.cb.kind # "write"
      <3>1. loop'.cb.kind = "read"
        BY <2>2
      <3>2. LoopType'
        BY <2>2, <2>3 DEF Inv, LoopType
      <3> QED
        BY <3>1, <3>2
    <2> QED
      BY <1>1, <1>6, <2>2, <2>4, EvictionsKept, FdsKept DEF Inv
  <1>7. CASE o # None /\ BeginWrite(o, l)
    <2> HIDE DEF l
    <2> QED
      BY <1>1, <1>3, <1>4, <1>7, BeginWriteInv
  <1>8. CASE loop' = l /\ UNCHANGED ofd
    <2> HIDE DEF l
    <2>1. LoopType' /\ loop'.cb = loop.cb /\ loop'.evict = loop.evict
      BY <1>4, <1>8 DEF Inv, LoopType
    <2> QED
      BY <1>1, <1>8, <2>1, EvictionsKept, FdsKept DEF Inv
  <1> QED
    BY <1>1, <1>5, <1>6, <1>7, <1>8

-----------------------------------------------------------------------------
(* The callbacks return *)

(* The callback ends and nothing else happens. *)
LEMMA CallbackEnds ==
    ASSUME Inv, loop' = [loop EXCEPT !.cb = NoCallback],
           UNCHANGED <<osmo_fds, table, ofd, timer, last>>
    PROVE  Inv'
  <1>1. LoopType' /\ loop'.cb.kind # "write" /\ loop'.evict = loop.evict
    BY DEF Inv, LoopType, LoopFields, Callbacks, NoCallback
  <1> QED
    BY <1>1, EvictionsKept, FdsKept DEF Inv

LEMMA ReadReturnsInv == ASSUME Inv, ReadReturns PROVE Inv'
  <1> DEFINE o == loop.cb.o
  <1>1. o \in Ofds
    BY DEF ReadReturns, Inv, LoopType, Callbacks, ReadCallbacks, WriteCallbacks, NoCallback
  <1>2. AfterRead(o) /\ UNCHANGED <<osmo_fds, table, timer, last>>
    BY DEF ReadReturns
  <1> HIDE DEF o
  <1>3. CASE ofd[o].fd # 0 /\ BeginWrite(o, loop)
    <2>1. /\ loop = [x \in LoopFields |-> loop[x]] /\ loop.i \in Nat \ {0}
      BY DEF Inv, LoopType
    <2> QED
      BY <1>1, <1>2, <1>3, <2>1, BeginWriteInv
  <1>4. CASE loop' = [loop EXCEPT !.cb = NoCallback] /\ UNCHANGED ofd
    BY <1>2, <1>4, CallbackEnds
  <1> QED
    BY <1>2, <1>3, <1>4 DEF AfterRead

(* write_cb() returns for an osmo_fd that is still open. *)
LEMMA AfterWriteInv ==
    ASSUME Inv, NEW o \in Ofds, NEW m \in Nat, NEW written \in BOOLEAN,
           loop.cb = [kind |-> "write", o |-> o, msg |-> m], ofd[o].fd # 0,
           AfterWrite(o, ofd[o].msg_queue, written),
           loop' = [loop EXCEPT !.cb = NoCallback],
           last' = IF written THEN [last EXCEPT ![o].written = m] ELSE last,
           UNCHANGED <<osmo_fds, table, timer>>
    PROVE  Inv'
  <1>0. PICK q \in Seq(Nat), h \in Nat, w \in Nat :
            q = ofd[o].msg_queue /\ h = last[o].accepted /\ w = last[o].written
    BY DEF Inv, OfdType, Queue
  <1>1. loop.cb.kind = "write" /\ loop.cb.o = o /\ loop.cb.msg = m
    OBVIOUS
  <1>2. Sorted(q) /\ w < m /\ m <= h /\ Between(m, q, h)
    BY <1>0, <1>1 DEF Inv, InOrder, Ordered
  <1> DEFINE rest == IF written THEN q ELSE <<m>> \o q
             w2 == IF written THEN m ELSE w
  <1>3. rest \in Seq(Nat) /\ Sorted(rest) /\ Between(w2, rest, h) /\ w2 \in Nat /\ w2 <= h
    <2>1. CASE written
      BY <1>2, <2>1
    <2>2. CASE ~written
      BY <1>2, <2>2, PutBackOrdered
    <2> QED
      BY <2>1, <2>2
  <1>4. ofd' = [ofd EXCEPT ![o].msg_queue = rest,
                           ![o].when = IF rest # <<>> THEN @ \cup {"WRITE"} ELSE @]
    BY <1>0, <1>1 DEF AfterWrite
  <1>5. last' = [last EXCEPT ![o].written = w2]
    BY <1>0 DEF Inv, OfdType
  <1> HIDE DEF rest, w2
  <1>6. LoopType' /\ loop'.cb = NoCallback /\ loop'.evict = loop.evict
    BY DEF Inv, LoopType, LoopFields, Callbacks
  <1>7. TimerType' /\ Evictions'
    BY <1>6, EvictionsKept DEF Inv
  <1>8. /\ \A p \in Ofds : p # o => ofd'[p] = ofd[p] /\ last'[p] = last[p]
        /\ ofd'[o].fd = ofd[o].fd /\ ofd'[o].msg_queue = rest
        /\ last'[o].written = w2 /\ last'[o].accepted = h
    BY <1>0, <1>4, <1>5 DEF Inv, OfdType, Queue
  <1>9. OfdType'
    <2>1. ofd' \in [Ofds -> Queue]
      <3>1. PICK when \in SUBSET Events :
                ofd' = [ofd EXCEPT ![o].msg_queue = rest, ![o].when = when]
        <4>1. ofd[o].when \subseteq Events /\ ofd[o].when \cup {"WRITE"} \subseteq Events
          BY DEF Inv, OfdType, Queue, Events
        <4> QED
          BY <1>4, <4>1
      <3> QED
        BY <1>3, <3>1 DEF Inv, OfdType, Queue
    <2>2. last' \in [Ofds -> [accepted : Nat, written : Nat]]
      BY <1>3, <1>5 DEF Inv, OfdType
    <2> QED
      BY <2>1, <2>2 DEF Inv, OfdType
  <1>10. Registered'
    BY <1>8, RegisteredKept DEF Inv
  <1>11. InOrder'
    <2> SUFFICES ASSUME NEW p \in Ofds, ofd'[p].fd # 0 PROVE Ordered(p)'
      BY DEF InOrder
    <2>1. loop'.cb.kind # "write"
      BY <1>6 DEF NoCallback
    <2>2. CASE p = o
      BY <1>3, <1>8, <2>1, <2>2 DEF Ordered
    <2>3. CASE p # o
      BY <1>8, <2>1, <2>3 DEF Inv, InOrder, Ordered, Sorted, Between
    <2> QED
      BY <2>2, <2>3
  <1> QED
    BY <1>6, <1>7, <1>9, <1>10, <1>11 DEF Inv

LEMMA WriteReturnsInv == ASSUME Inv, WriteReturns PROVE Inv'
  <1>1. PICK o \in Ofds, m \in Nat : loop.cb = [kind |-> "write", o |-> o, msg |-> m]
    BY WriteCallback DEF WriteReturns, Inv, LoopType
  <1>2. loop.cb.o = o /\ loop.cb.msg = m
    BY <1>1
  <1>3. /\ loop' = [loop EXCEPT !.cb = NoCallback] /\ UNCHANGED <<osmo_fds, table, timer>>
        /\ \/ UNCHANGED <<ofd, last>>
           \/ /\ ofd[o].fd # 0 /\ AfterWrite(o, ofd[o].msg_queue, TRUE)
              /\ last' = [last EXCEPT ![o].written = m]
           \/ /\ ofd[o].fd # 0 /\ AfterWrite(o, ofd[o].msg_queue, FALSE)
              /\ UNCHANGED last
    BY <1>2 DEF WriteReturns
  <1>4. CASE UNCHANGED <<ofd, last>>
    BY <1>3, <1>4, CallbackEnds
  <1>5. CASE /\ ofd[o].fd # 0 /\ AfterWrite(o, ofd[o].msg_queue, TRUE)
             /\ last' = [last EXCEPT ![o].written = m]
    BY <1>1, <1>3, <1>5, AfterWriteInv
  <1>6. CASE ofd[o].fd # 0 /\ AfterWrite(o, ofd[o].msg_queue, FALSE) /\ UNCHANGED last
    BY <1>1, <1>3, <1>6, AfterWriteInv
  <1> QED
    BY <1>3, <1>4, <1>5, <1>6

-----------------------------------------------------------------------------

LEMMA NextInv == Inv /\ [Next]_vars => Inv'
  <1> SUFFICES ASSUME Inv, [Next]_vars PROVE Inv'
    OBVIOUS
  <1>1. ASSUME NEW n \in Numbers, Readable(n) \/ Writable(n) PROVE Inv'
    <2>1. UNCHANGED <<osmo_fds, table, ofd, timer, loop, last>>
      BY <1>1 DEF Readable, Writable, users
    <2> QED
      BY <2>1, EvictionsKept, FdsKept DEF Inv, LoopType
  <1>2. CASE Interrupted
    <2>1. UNCHANGED <<osmo_fds, table, ofd, timer, last>> /\ loop.poll \in Seq(PollEntries)
          /\ <<>> \in Seq(PollEntries) /\ loop.i \in Nat \ {0}
      BY <1>2, EmptySeq DEF Interrupted, users, Inv, LoopType
    <2>2. /\ loop'.poll = <<>> /\ loop'.i = loop.i
          /\ loop'.cb = loop.cb /\ loop'.evict = loop.evict
          /\ loop' = [x \in LoopFields |-> loop'[x]]
      BY <1>2 DEF Interrupted, Inv, LoopType, LoopFields
    <2> QED
      BY <2>1, <2>2, StageEnds
  <1>3. CASE TimersFired
    <2>1. UNCHANGED <<osmo_fds, table, ofd, timer, last>> /\ loop.poll \in Seq(PollEntries)
          /\ <<>> \in Seq(PollEntries) /\ loop.i \in Nat \ {0}
      BY <1>3, EmptySeq DEF TimersFired, users, Inv, LoopType
    <2>2. /\ loop'.poll = loop.poll /\ loop'.i = 1
          /\ loop'.cb = loop.cb /\ loop'.evict = loop.evict
          /\ loop' = [x \in LoopFields |-> loop'[x]]
      BY <1>3 DEF TimersFired, Inv, LoopType, LoopFields
    <2> QED
      BY <2>1, <2>2, 1 \in Nat \ {0}, StageEnds
  <1>4. CASE FdsDispatched
    <2>1. UNCHANGED <<osmo_fds, table, ofd, timer, last>> /\ loop.poll \in Seq(PollEntries)
          /\ <<>> \in Seq(PollEntries) /\ loop.i \in Nat \ {0}
      BY <1>4, EmptySeq DEF FdsDispatched, users, Inv, LoopType
    <2>2. /\ loop'.poll = <<>> /\ loop'.i = 1
          /\ loop'.cb = loop.cb /\ loop'.evict = loop.evict
          /\ loop' = [x \in LoopFields |-> loop'[x]]
      BY <1>4 DEF FdsDispatched, Inv, LoopType, LoopFields
    <2> QED
      BY <2>1, <2>2, 1 \in Nat \ {0}, StageEnds
  <1>5. CASE TimerReturns
    BY <1>5, CallbackEnds DEF TimerReturns, users
  <1>6. CASE UNCHANGED vars
    <2>1. UNCHANGED <<osmo_fds, table, ofd, timer, loop, last>>
      BY <1>6 DEF vars
    <2> QED
      BY <2>1, EvictionsKept, FdsKept DEF Inv, LoopType
  <1> QED
    BY <1>1, <1>2, <1>3, <1>4, <1>5, <1>6, CallInv, TickInv, PrepareInv, PollInv, FireTimerInv,
       DispatchFdInv, ReadReturnsInv, WriteReturnsInv DEF Next

(* osmo_timers_update() only ever fires timers that are pending and due,    *)
(* each once, whatever the callbacks of the timers before it have deleted   *)
(* or scheduled anew.                                                       *)
THEOREM EvictedAreDueHolds == Spec => []EvictedAreDue
  <1>1. Inv => EvictedAreDue
    BY ElementOfSeq, LenProperties
       DEF Inv, TimerType, Evictions, EvictedAreDue, Due, ToSet, Injective, IsInjective
  <1> QED
    BY InitInv, NextInv, <1>1, PTL DEF Spec

(* An osmo_fd that a callback freed is out of the list and the table that   *)
(* poll_disp_fds() goes by, even if its number was given out again.         *)
THEOREM NoUseAfterFreeHolds == Spec => []NoUseAfterFree
  <1>1. Inv => NoUseAfterFree
    BY LoopAssumption DEF Inv, OfdType, Registered, NoUseAfterFree, ToSet
  <1> QED
    BY InitInv, NextInv, <1>1, PTL DEF Spec

(* A write queue is written in the order in which it was filled, whatever   *)
(* is put back after a write that failed, enqueued, cleared or dropped.     *)
THEOREM WrittenInOrderHolds == Spec => []WrittenInOrder
  <1>1. Inv => WrittenInOrder
    <2> SUFFICES ASSUME Inv, NEW o \in Ofds, ofd[o].fd # 0
                 PROVE  LET current == IF loop.cb.kind = "write" /\ loop.cb.o = o
                                       THEN <<loop.cb.msg>> ELSE <<>>
                        IN  Sorted(<<last[o].written>> \o current \o ofd[o].msg_queue)
      BY DEF WrittenInOrder, Sorted
    <2>1. PICK q \in Seq(Nat), h \in Nat, w \in Nat :
              q = ofd[o].msg_queue /\ h = last[o].accepted /\ w = last[o].written
      BY DEF Inv, OfdType, Queue
    <2>2. Ordered(o)
      BY DEF Inv, InOrder
    <2>3. CASE loop.cb.kind = "write" /\ loop.cb.o = o
      <3>1. PICK m \in Nat : m = loop.cb.msg
        BY <2>3, WriteCallback DEF Inv, LoopType
      <3>2. Sorted(q) /\ Between(m, q, h) /\ w < m /\ m <= h
        BY <2>1, <2>2, <2>3, <3>1 DEF Ordered
      <3>3. <<m>> \o q \in Seq(Nat) /\ Sorted(<<m>> \o q) /\ Between(w, <<m>> \o q, h)
        BY <3>2, PutBackOrdered
      <3>4. Sorted(<<w>> \o (<<m>> \o q))
        BY <3>3, PutBefore
      <3>5. <<w>> \o (<<m>> \o q) = <<w>> \o <<m>> \o q
        BY ConcatAssociative
      <3> QED
        BY <2>1, <2>3, <3>1, <3>4, <3>5
    <2>4. CASE ~(loop.cb.kind = "write" /\ loop.cb.o = o)
      <3>1. Sorted(q) /\ Between(w, q, h)
        BY <2>1, <2>2 DEF Ordered
      <3>2. Sorted(<<w>> \o q)
        BY <3>1, PutBefore
      <3>3. <<w>> \o <<>> \o q = <<w>> \o q
        BY ConcatEmptySeq
      <3> QED
        BY <2>1, <2>4, <3>2, <3>3
    <2> QED
      BY <2>3, <2>4
  <1> QED
    BY InitInv, NextInv, <1>1, PTL DEF Spec

=============================================================================

----------------------------- MODULE FsmProofs -----------------------------
(***************************************************************************)
(* Proofs about the FSM instances (Fsm), for any finite set of instances,  *)
(* any tree of them and any number of calls by user code, of programs that *)
(* are Protected: that have fsm.c defer the deallocation of instances, to  *)
(* the main loop (osmo_fsm_set_dealloc_ctx()) or to the end of the cascade *)
(* (osmo_fsm_term_safely()), the latter if they are Careful.               *)
(***************************************************************************)
EXTENDS Fsm, TLAPS, FiniteSetTheorems

(* What a program without a dealloc_ctx must not do: terminate from         *)
(* onleave(), or an instance's children outside of a cascade.               *)
Careful(p) ==
    /\ p.safely
    /\ p.calls["onleave"] = {}
    /\ \A cb \in Callbacks \ {"pre_term", "cleanup"} : "term_children" \notin p.calls[cb]

(* No program gives an instance another parent: one that had none keeps its *)
(* memory where it was, and outlives a parent that is freed unfinished.     *)
Protected ==
    \A p \in Programs :
        /\ p.dealloc \/ Careful(p)
        /\ \A cb \in Callbacks : "change_parent" \notin p.calls[cb]

-----------------------------------------------------------------------------
(* The inductive invariant *)

Contexts == Insts \cup {"program", "collect", "dealloc"}
Instances == [mem : {"none", "live", "freed"}, ctx : Contexts, parent : Insts \cup {None},
              event : prog.events, children : Seq(Insts), listed : BOOLEAN,
              terminating : BOOLEAN, cleaned : BOOLEAN, timer : BOOLEAN]
FnNames == {"user", "term", "children", "broadcast", "state_chg"}
Places == Callbacks \cup {"children", "cleanup", "notify", "free", "loop", "timed", "untimed"}
Frames == [fn : FnNames, fi : Insts, at : Places, child : Insts \cup {None},
           event : prog.events, cause : {"PARENT", "REGULAR", "TIMEOUT"}]

Types ==
    /\ prog \in Programs
    /\ inst \in [Insts -> Instances]
    /\ stack \in Seq(Frames)
    /\ depth \in Nat /\ collect \in BOOLEAN

(* The children of a live instance are live, unfinished, and hang on it     *)
(* with their memory.                                                       *)
Kids(p) == {inst[p].children[n] : n \in DOMAIN inst[p].children}
Once(list) == \A m, n \in DOMAIN list : list[m] = list[n] => m = n
Down ==
    \A p \in Insts : Live(p) =>
        /\ Once(inst[p].children)
        /\ \A c \in Kids(p) : /\ Live(c) /\ ~inst[c].cleaned
                              /\ inst[c].parent = p /\ inst[c].ctx = p
Up ==
    \A i \in Known : inst[i].parent # None => Live(inst[i].parent) /\ i \in Kids(inst[i].parent)

(* The instance that a function on the stack works on exists; so do the     *)
(* parent of one that terminates, and the child that a broadcast comes to.  *)
FrameOk(f) ==
    /\ IF f.fn = "user" THEN f.at \in Callbacks ELSE Live(f.fi)
    /\ f.fn = "broadcast" /\ f.child # None => Live(f.child)
    /\ f.fn = "term" => /\ inst[f.fi].terminating
                        /\ inst[f.fi].parent # None => Live(inst[f.fi].parent)
                        /\ f.at \in {"notify", "free"} => inst[f.fi].cleaned
                        /\ f.at = "free" => prog.safely
Good(s) == \A n \in DOMAIN s : FrameOk(s[n])

(* The depth is the number of terminations on the stack.                    *)
Terms(s) == {n \in DOMAIN s : s[n].fn = "term"}
Depth == depth = IF prog.safely THEN Cardinality(Terms(stack)) ELSE 0

(* Without a dealloc_ctx: on a state change or a broadcast there is at most *)
(* a callback that calls nothing; under a loop over children, and under     *)
(* pre_term() and cleanup(), is a termination.                              *)
Quiet(f) == f.fn = "user" /\ f.at \in {"onleave", "action"} /\ prog.calls[f.at] = {}
Plain(s) == \A n \in DOMAIN s : s[n].fn \notin {"state_chg", "broadcast"}
Inner(f) == f.fn = "children" \/ (f.fn = "user" /\ f.at \in {"pre_term", "cleanup"})
Nested(s) ==
    /\ \A m, n \in DOMAIN s : m < n /\ s[m].fn \in {"state_chg", "broadcast"} => Quiet(s[n])
    /\ \A n \in DOMAIN s : Inner(s[n]) => \E m \in DOMAIN s : m < n /\ s[m].fn = "term"
    /\ \A n \in DOMAIN s : s[n].fn = "broadcast" => prog.calls["action"] = {}

(* An instance that has begun to terminate is on the stack or deferred.     *)
Has(s, i) == \E n \in DOMAIN s : s[n].fn = "term" /\ s[n].fi = i
Deferred ==
    /\ \A i \in Insts : inst[i].ctx \in {"collect", "dealloc"} => inst[i].cleaned
    /\ \A i \in Insts : Live(i) /\ inst[i].terminating =>
           Has(stack, i) \/ (inst[i].cleaned /\ inst[i].ctx \in {"collect", "dealloc"})
    /\ \A i \in Insts : Live(i) /\ inst[i].ctx = "collect" => depth > 0
    /\ collect => depth > 0

Inv ==
    /\ Types /\ Down /\ Up /\ Depth /\ Deferred
    /\ Good(stack)
    /\ prog.dealloc \/ Nested(stack)

-----------------------------------------------------------------------------
(* The stack *)

(* A stack is what is below its top, with the top on it.                    *)
LEMMA Tops ==
    ASSUME NEW S, NEW s \in Seq(S), s # <<>>
    PROVE  /\ Front(s) \in Seq(S) /\ Last(s) \in S
           /\ s = Append(Front(s), Last(s))
  BY DEF Front, Last

LEMMA PushTwo ==
    ASSUME NEW S, NEW s \in Seq(S), NEW f \in S, NEW g \in S
    PROVE  s \o <<f, g>> = Append(Append(s, f), g)
  OBVIOUS

LEMMA PushIs ==
    ASSUME NEW S, NEW s \in Seq(S), NEW f \in S
    PROVE  /\ Append(s, f) \in Seq(S) /\ Append(s, f) # <<>>
           /\ Last(Append(s, f)) = f /\ Front(Append(s, f)) = s
           /\ DOMAIN Append(s, f) = DOMAIN s \cup {Len(s) + 1}
           /\ Len(s) \in Nat /\ DOMAIN s = 1..Len(s) /\ Len(s) + 1 \notin DOMAIN s
           /\ Append(s, f)[Len(s) + 1] = f
           /\ \A n \in DOMAIN s : Append(s, f)[n] = s[n] /\ n < Len(s) + 1
  BY DEF Front, Last

LEMMA GoodPush ==
    ASSUME NEW s \in Seq(Frames), NEW f \in Frames
    PROVE  /\ Good(Append(s, f)) <=> Good(s) /\ FrameOk(f)
           /\ Good(Append(s, f))' <=> Good(s)' /\ FrameOk(f)'
  BY PushIs DEF Good

LEMMA HasPush ==
    ASSUME NEW s \in Seq(Frames), NEW f \in Frames, NEW i
    PROVE  Has(Append(s, f), i) <=> Has(s, i) \/ (f.fn = "term" /\ f.fi = i)
  BY PushIs DEF Has

LEMMA PlainPush ==
    ASSUME NEW s \in Seq(Frames), NEW f \in Frames
    PROVE  Plain(Append(s, f)) <=> Plain(s) /\ f.fn \notin {"state_chg", "broadcast"}
  BY PushIs DEF Plain

LEMMA TermsPush ==
    ASSUME NEW s \in Seq(Frames), NEW f \in Frames
    PROVE  /\ IsFiniteSet(Terms(s)) /\ Cardinality(Terms(s)) \in Nat
           /\ f.fn # "term" => Terms(Append(s, f)) = Terms(s)
           /\ f.fn = "term" => /\ Terms(Append(s, f)) = Terms(s) \cup {Len(s) + 1}
                               /\ Cardinality(Terms(Append(s, f))) = Cardinality(Terms(s)) + 1
                               /\ Terms(Append(s, f)) # {}
           /\ Cardinality(Terms(s)) = 0 <=> Terms(s) = {}
  <1>1. IsFiniteSet(DOMAIN s)
    BY PushIs, FS_Interval
  <1>2. IsFiniteSet(Terms(s))
    BY <1>1, FS_Subset DEF Terms
  <1>3. /\ f.fn # "term" => Terms(Append(s, f)) = Terms(s)
        /\ f.fn = "term" => Terms(Append(s, f)) = Terms(s) \cup {Len(s) + 1}
        /\ Len(s) + 1 \notin Terms(s)
    BY PushIs DEF Terms
  <1> QED
    BY <1>2, <1>3, FS_CardinalityType, FS_AddElement, FS_EmptySet

LEMMA NestedPush ==
    ASSUME NEW s \in Seq(Frames), NEW f \in Frames
    PROVE  Nested(Append(s, f)) <=>
               /\ Nested(s)
               /\ Plain(s) \/ Quiet(f)
               /\ Inner(f) => Terms(s) # {}
               /\ f.fn = "broadcast" => prog.calls["action"] = {}
  <1> DEFINE t == Append(s, f)
             Above(r) == \A m, n \in DOMAIN r : m < n /\ r[m].fn \in {"state_chg", "broadcast"} => Quiet(r[n])
             Under(r) == \A n \in DOMAIN r : Inner(r[n]) => \E m \in DOMAIN r : m < n /\ r[m].fn = "term"
  <1>1. /\ DOMAIN t = DOMAIN s \cup {Len(s) + 1} /\ Len(s) \in Nat
        /\ DOMAIN s = 1..Len(s)
        /\ t[Len(s) + 1] = f /\ Len(s) + 1 \notin DOMAIN s
        /\ \A n \in DOMAIN s : t[n] = s[n] /\ n < Len(s) + 1
    BY PushIs
  <1> HIDE DEF t
  <1>2. \A n \in DOMAIN s : ~(Len(s) + 1 < n)
    BY <1>1
  <1>3. ~(Len(s) + 1 < Len(s) + 1)
    BY <1>1
  <1>4. Above(t) <=> Above(s) /\ (Plain(s) \/ Quiet(f))
    BY <1>1, <1>2, <1>3 DEF Plain
  <1>5. Under(t) <=> Under(s) /\ (Inner(f) => Terms(s) # {})
    BY <1>1, <1>2, <1>3 DEF Terms
  <1>6. (\A n \in DOMAIN t : t[n].fn = "broadcast" => prog.calls["action"] = {}) <=>
            /\ \A n \in DOMAIN s : s[n].fn = "broadcast" => prog.calls["action"] = {}
            /\ f.fn = "broadcast" => prog.calls["action"] = {}
    BY <1>1
  <1> QED
    BY <1>4, <1>5, <1>6 DEF Nested, t

-----------------------------------------------------------------------------
(* The tree *)

LEMMA WithoutIs ==
    ASSUME NEW s \in Seq(Insts), Once(s), NEW i \in Insts
    PROVE  /\ Without(s, i) \in Seq(Insts) /\ Once(Without(s, i))
           /\ {Without(s, i)[n] : n \in DOMAIN Without(s, i)} = {s[n] : n \in DOMAIN s} \ {i}
  <1>1. CASE ~\E n \in DOMAIN s : s[n] = i
    BY <1>1 DEF Without
  <1>2. CASE \E n \in DOMAIN s : s[n] = i
    <2>1. PICK k \in DOMAIN s : s[k] = i /\ k = CHOOSE n \in DOMAIN s : s[n] = i
      BY <1>2
    <2>2. Without(s, i) = SubSeq(s, 1, k - 1) \o SubSeq(s, k + 1, Len(s))
      BY <1>2, <2>1 DEF Without, RemoveAt
    <2>3. k \in 1..Len(s) /\ Len(s) \in Nat
      BY <2>1
    <2> DEFINE r == Without(s, i)
    <2>4. /\ r \in Seq(Insts) /\ DOMAIN r = 1..(Len(s) - 1)
          /\ \A n \in 1..(Len(s) - 1) : r[n] = IF n < k THEN s[n] ELSE s[n + 1]
      BY <2>2, <2>3, SMTT(30)
    <2> HIDE DEF r
    <2>5. Once(r)
      BY <2>3, <2>4, SMTT(30) DEF Once
    <2>6. ASSUME NEW n \in DOMAIN r PROVE r[n] \in {s[m] : m \in DOMAIN s} \ {i}
      <3>1. PICK m \in DOMAIN s : m # k /\ r[n] = s[m]
        BY <2>3, <2>4
      <3> QED
        BY <2>1, <3>1 DEF Once
    <2>7. ASSUME NEW n \in DOMAIN s, s[n] # i PROVE s[n] \in {r[m] : m \in DOMAIN r}
      <3>1. CASE n < k
        <4>1. n \in DOMAIN r /\ r[n] = s[n]
          BY <2>3, <2>4, <3>1
        <4> QED
          BY <4>1
      <3>2. CASE n > k
        <4>1. n - 1 \in DOMAIN r /\ r[n - 1] = s[n]
          BY <2>3, <2>4, <3>2
        <4> QED
          BY <4>1
      <3> QED
        BY <2>1, <2>3, <2>7, <3>1, <3>2
    <2>8. {r[n] : n \in DOMAIN r} = {s[n] : n \in DOMAIN s} \ {i}
      BY <2>6, <2>7
    <2> QED
      BY <2>4, <2>5, <2>8 DEF r
  <1> QED
    BY <1>1, <1>2

LEMMA PutFirst ==
    ASSUME NEW s \in Seq(Insts), Once(s), NEW i \in Insts, \A n \in DOMAIN s : s[n] # i
    PROVE  /\ <<i>> \o s \in Seq(Insts) /\ Once(<<i>> \o s)
           /\ {(<<i>> \o s)[n] : n \in DOMAIN (<<i>> \o s)} = {s[n] : n \in DOMAIN s} \cup {i}
  <1> DEFINE r == <<i>> \o s
  <1>1. /\ r \in Seq(Insts) /\ DOMAIN r = 1..(Len(s) + 1) /\ Len(s) \in Nat
        /\ \A n \in 1..(Len(s) + 1) : r[n] = IF n = 1 THEN i ELSE s[n - 1]
    OBVIOUS
  <1> HIDE DEF r
  <1>2. Once(r)
    <2> SUFFICES ASSUME NEW m \in DOMAIN r, NEW n \in DOMAIN r, r[m] = r[n] PROVE m = n
      BY DEF Once
    <2>1. m # 1 => m - 1 \in DOMAIN s /\ r[m] = s[m - 1]
      BY <1>1
    <2>2. n # 1 => n - 1 \in DOMAIN s /\ r[n] = s[n - 1]
      BY <1>1
    <2>3. m # 1 /\ n # 1 => m - 1 = n - 1
      BY <2>1, <2>2 DEF Once
    <2>4. r[1] = i
      BY <1>1
    <2> QED
      BY <1>1, <2>1, <2>2, <2>3, <2>4
  <1>3. \A n \in DOMAIN r : r[n] \in {s[m] : m \in DOMAIN s} \cup {i}
    BY <1>1
  <1>4. i \in {r[n] : n \in DOMAIN r}
    <2>1. 1 \in DOMAIN r /\ r[1] = i
      BY <1>1
    <2> QED
      BY <2>1
  <1>5. ASSUME NEW n \in DOMAIN s PROVE s[n] \in {r[m] : m \in DOMAIN r}
    <2>1. n + 1 \in DOMAIN r /\ r[n + 1] = s[n]
      BY <1>1
    <2> QED
      BY <2>1
  <1> QED
    BY <1>1, <1>2, <1>3, <1>4, <1>5, SMTT(30) DEF r

(* What is owned: the roots, and of the rest exactly what hangs on          *)
(* something owned.                                                         *)
LEMMA OwnedIs ==
    ASSUME NEW roots \in SUBSET Insts
    PROVE  /\ roots \subseteq Owned(roots) /\ Owned(roots) \subseteq Insts
           /\ \A j \in Insts : Live(j) /\ inst[j].ctx \in Owned(roots) => j \in Owned(roots)
           /\ \A j \in Owned(roots) \ roots : Live(j) /\ inst[j].ctx \in Owned(roots)
  <1> DEFINE O == Owned(roots)
             Closed(S) == \A j \in Insts : Live(j) /\ inst[j]["ctx"] \in S => j \in S
  <1>1. O = {i \in Insts : \A S \in SUBSET Insts : roots \subseteq S /\ Closed(S) => i \in S}
    BY DEF Owned, Beneath
  <1> HIDE DEF O
  <1>2. roots \subseteq O /\ O \in SUBSET Insts
    BY <1>1
  <1>3. Closed(O)
    BY <1>1
  <1>4. ASSUME NEW c \in O \ roots, ~(Live(c) /\ inst[c]["ctx"] \in O) PROVE FALSE
    <2>1. roots \subseteq O \ {c} /\ Closed(O \ {c}) /\ O \ {c} \in SUBSET Insts
      BY <1>2, <1>3, <1>4
    <2> QED
      BY <1>1, <2>1, <1>4
  <1> QED
    BY <1>2, <1>3, <1>4 DEF O

-----------------------------------------------------------------------------
(* What the actions do to the stack and to the instances *)

LEMMA FrameIs ==
    ASSUME Inv, NEW fn \in FnNames, NEW i \in Insts, NEW at \in Places
    PROVE  /\ Frame(fn, i, at) \in Frames
           /\ Frame(fn, i, at).fn = fn /\ Frame(fn, i, at).fi = i /\ Frame(fn, i, at).at = at
  <1>1. 0 \in prog.events
    BY FsmAssumption DEF Inv, Types
  <1> QED
    BY <1>1 DEF Frame, Frames

LEMMA CallbackIs ==
    ASSUME Inv, NEW i \in Insts, NEW cb \in Callbacks
    PROVE  /\ Callback(cb, i) \in Frames
           /\ Callback(cb, i).fn = "user" /\ Callback(cb, i).at = cb
           /\ FrameOk(Callback(cb, i)) /\ FrameOk(Callback(cb, i))'
  <1>1. /\ Frame("user", i, cb) \in Frames
        /\ Frame("user", i, cb).fn = "user" /\ Frame("user", i, cb).at = cb
    BY FrameIs DEF FnNames, Places
  <1> QED
    BY <1>1 DEF Callback, FrameOk

LEMMA Split ==
    ASSUME Inv, stack # <<>>
    PROVE  \E b \in Seq(Frames), f \in Frames :
               /\ stack = Append(b, f) /\ b = Below /\ f = Top
               /\ Good(b) /\ FrameOk(f)
               /\ prog.dealloc \/ (/\ Nested(b)
                                   /\ Plain(b) \/ Quiet(f)
                                   /\ Inner(f) => Terms(b) # {}
                                   /\ f.fn = "broadcast" => prog.calls["action"] = {})
  <1>1. stack \in Seq(Frames)
    BY DEF Inv, Types
  <1>2. PICK b, f : b = Front(stack) /\ f = Last(stack)
    OBVIOUS
  <1>3. b \in Seq(Frames) /\ f \in Frames /\ stack = Append(b, f)
    BY <1>1, <1>2, Tops
  <1>4. Good(stack) /\ (prog.dealloc \/ Nested(stack))
    BY DEF Inv
  <1>5. Good(b) /\ FrameOk(f)
    BY <1>3, <1>4, GoodPush
  <1>6. prog.dealloc \/ (/\ Nested(b)
                         /\ Plain(b) \/ Quiet(f)
                         /\ Inner(f) => Terms(b) # {}
                         /\ f.fn = "broadcast" => prog.calls["action"] = {})
    BY <1>3, <1>4, NestedPush
  <1> QED
    BY <1>2, <1>3, <1>5, <1>6 DEF Below, Top

(* Changes that leave the tree as it is: timers, lists, the beginning of a  *)
(* termination, and the memory of instances that are finished.              *)
Light ==
    /\ prog' = prog /\ inst' \in [Insts -> Instances]
    /\ \A i \in Insts :
          /\ inst'[i].mem = inst[i].mem /\ inst'[i].parent = inst[i].parent
          /\ inst'[i].event = inst[i].event /\ inst'[i].children = inst[i].children
          /\ inst'[i].cleaned = inst[i].cleaned
          /\ ~inst[i].cleaned => inst'[i].ctx = inst[i].ctx
          /\ inst[i].terminating => inst'[i].terminating

LEMMA LightKeeps ==
    ASSUME Inv, Light
    PROVE  /\ Down' /\ Up' /\ \A f \in Frames : FrameOk(f) => FrameOk(f)'
           /\ \A s \in Seq(Frames) : Good(s) => Good(s)'
  <1>1. \A p \in Insts : Kids(p)' = Kids(p)
    BY DEF Light, Kids
  <1>2. \A i \in Insts : Live(i)' = Live(i)
    BY DEF Light, Live
  <1>3. \A p \in Insts : \A c \in Kids(p) : c \in Insts
    BY DEF Kids, Inv, Types, Instances
  <1>4. Down'
    BY <1>1, <1>2, <1>3 DEF Down, Inv, Light
  <1>5. \A i \in Insts : inst[i].parent \in Insts \cup {None}
    BY DEF Inv, Types, Instances
  <1>6. Up'
    BY <1>1, <1>2, <1>5 DEF Up, Inv, Light, Known
  <1>7. \A f \in Frames : FrameOk(f) => FrameOk(f)'
    BY <1>2, <1>5 DEF FrameOk, Light, Frames
  <1>8. \A s \in Seq(Frames) : Good(s) => Good(s)'
    BY <1>7 DEF Good
  <1> QED
    BY <1>4, <1>6, <1>7, <1>8

LEMMA SameFrames ==
    ASSUME prog' = prog
    PROVE  Frames' = Frames /\ Instances' = Instances /\ \A s : Nested(s)' <=> Nested(s)
  BY DEF Frames, Instances, Nested, Quiet

(* A step with such changes, and s as the new stack.                        *)
LEMMA LightStep ==
    ASSUME Inv, Light, NEW s \in Seq(Frames), stack' = s, collect' = collect,
           \A i \in Insts : inst'[i].ctx = inst[i].ctx,
           \A i \in Insts : inst'[i].terminating => inst[i].terminating \/ Has(s, i),
           \A i \in Insts : Has(stack, i) => Has(s, i),
           depth' \in Nat, depth' >= depth,
           depth' = IF prog.safely THEN Cardinality(Terms(s)) ELSE 0,
           Good(s)', prog.dealloc \/ Nested(s)
    PROVE  Inv'
  <1>1. prog' = prog /\ inst' \in [Insts -> Instances]
    BY DEF Light
  <1>2. Types'
    BY <1>1, SameFrames DEF Types, Inv
  <1>3. Down' /\ Up'
    BY LightKeeps
  <1>4. Depth'
    BY <1>1 DEF Depth
  <1>5. depth \in Nat /\ depth' \in Nat
    BY DEF Inv, Types
  <1>6. depth > 0 => depth' > 0
    BY <1>5
  <1>7. Deferred'
    BY <1>6 DEF Deferred, Inv, Light, Live
  <1>8. Good(stack)'
    BY DEF Good
  <1>9. (prog.dealloc \/ Nested(stack))'
    BY <1>1, SameFrames DEF Nested
  <1> QED
    BY <1>2, <1>3, <1>4, <1>7, <1>8, <1>9 DEF Inv

(* s may be the stack after a step that ends no termination.                *)
Fits(s) ==
    /\ s \in Seq(Frames) /\ Good(s)
    /\ \A i \in Insts : Has(stack, i) => Has(s, i)
    /\ Cardinality(Terms(s)) = Cardinality(Terms(stack))
    /\ prog.dealloc \/ Nested(s)

(* Functions of fsm.c may be called by what runs on it.                     *)
Open(s) == prog.dealloc \/ Plain(s)

LEMMA FitsLight ==
    ASSUME Inv, Light, NEW s, Fits(s), stack' = s, UNCHANGED <<depth, collect>>,
           \A i \in Insts : inst'[i].ctx = inst[i].ctx /\ inst'[i].terminating = inst[i].terminating
    PROVE  Inv'
  <1>1. depth \in Nat /\ depth = IF prog.safely THEN Cardinality(Terms(stack)) ELSE 0
    BY DEF Inv, Types, Depth
  <1>2. depth' \in Nat /\ depth' >= depth /\ depth' = IF prog.safely THEN Cardinality(Terms(s)) ELSE 0
    BY <1>1 DEF Fits
  <1>3. s \in Seq(Frames) /\ Good(s)'
    BY LightKeeps DEF Fits
  <1> QED
    BY <1>2, <1>3, LightStep DEF Fits

(* A step that changes only the stack.                                      *)
LEMMA FitsStep ==
    ASSUME Inv, NEW s, Fits(s), stack' = s, UNCHANGED <<prog, inst, depth, collect>>
    PROVE  Inv'
  <1>1. Light
    BY DEF Light, Inv, Types
  <1> QED
    BY <1>1, FitsLight

LEMMA FitsStack == ASSUME Inv PROVE Fits(stack)
  BY DEF Fits, Inv, Types

LEMMA FitsReturn ==
    ASSUME Inv, NEW b \in Seq(Frames), NEW f \in Frames, stack = Append(b, f), f.fn # "term"
    PROVE  Fits(b) /\ (~Quiet(f) => Open(b))
  <1>1. Good(b) /\ (prog.dealloc \/ (Nested(b) /\ (Plain(b) \/ Quiet(f))))
    BY GoodPush, NestedPush DEF Inv
  <1> QED
    BY <1>1, HasPush, TermsPush DEF Fits, Open

(* A function goes on: f becomes g, of the same kind.                       *)
LEMMA FitsGoesOn ==
    ASSUME Inv, NEW b \in Seq(Frames), NEW f \in Frames, NEW g \in Frames, stack = Append(b, f),
           g.fn = f.fn, g.fi = f.fi, f.fn # "user", FrameOk(g)
    PROVE  /\ Fits(Append(b, g))
           /\ f.fn \notin {"state_chg", "broadcast"} => Open(Append(b, g))
           /\ f.fn = "term" => Terms(Append(b, g)) # {}
           /\ f.fn = "broadcast" => prog.dealloc \/ prog.calls["action"] = {}
  <1>1. Append(b, g) \in Seq(Frames)
    BY PushIs
  <1>2. Good(stack) /\ (prog.dealloc \/ Nested(stack))
    BY DEF Inv
  <1>3. Good(Append(b, g))
    BY <1>2, GoodPush
  <1>4. \A i \in Insts : Has(stack, i) => Has(Append(b, g), i)
    BY HasPush
  <1>5. /\ Cardinality(Terms(Append(b, g))) = Cardinality(Terms(stack))
        /\ f.fn = "term" => Terms(Append(b, g)) # {}
    BY TermsPush
  <1>6. prog.dealloc \/ (Plain(b) /\ (f.fn = "broadcast" => prog.calls["action"] = {}))
    BY <1>2, NestedPush DEF Quiet
  <1>7. prog.dealloc \/ Nested(Append(b, g))
    BY <1>2, <1>6, NestedPush DEF Inner
  <1>8. f.fn \notin {"state_chg", "broadcast"} => prog.dealloc \/ Plain(Append(b, g))
    BY <1>6, PlainPush
  <1> QED
    BY <1>1, <1>3, <1>4, <1>5, <1>6, <1>7, <1>8 DEF Fits, Open

(* A call: h is put on the stack s.                                         *)
LEMMA FitsCall ==
    ASSUME Inv, NEW s, Fits(s), NEW h \in Frames, FrameOk(h), h.fn # "term",
           Open(s) \/ Quiet(h),
           prog.dealloc \/ (/\ Inner(h) => Terms(s) # {}
                            /\ h.fn = "broadcast" => prog.calls["action"] = {})
    PROVE  Fits(Append(s, h))
  <1>1. s \in Seq(Frames)
    BY DEF Fits
  <1> QED
    BY <1>1, PushIs, GoodPush, HasPush, TermsPush, NestedPush DEF Fits, Open

LEMMA FitsCallback ==
    ASSUME Inv, NEW s, Fits(s), NEW i \in Insts, NEW cb \in Callbacks,
           Open(s) \/ (cb = "action" /\ prog.calls["action"] = {}),
           prog.dealloc \/ (cb \in {"pre_term", "cleanup"} => Terms(s) # {})
    PROVE  Fits(Append(s, Callback(cb, i)))
  <1>1. PICK h : h = Callback(cb, i)
    OBVIOUS
  <1>2. h \in Frames /\ h.fn = "user" /\ h.at = cb /\ FrameOk(h)
    BY <1>1, CallbackIs
  <1>3. (Open(s) \/ Quiet(h)) /\ (Inner(h) <=> cb \in {"pre_term", "cleanup"})
    BY <1>2 DEF Quiet, Inner
  <1>4. Fits(Append(s, h))
    BY <1>2, <1>3, FitsCall
  <1> QED
    BY <1>1, <1>4

LEMMA FitsDispatched ==
    ASSUME Inv, NEW s, Fits(s), NEW i \in Insts, NEW r \in Dispatched(i, s),
           Open(s) \/ prog.calls["action"] = {}
    PROVE  Fits(r)
  <1>1. r = s \/ r = Append(s, Callback("action", i))
    BY DEF Dispatched
  <1>2. Fits(Append(s, Callback("action", i)))
    BY FitsCallback DEF Callbacks
  <1> QED
    BY <1>1, <1>2

(* User code that makes a call runs on nothing but what allows it.          *)
LEMMA MayCallIs ==
    ASSUME Inv, NEW kind, MayCall(kind)
    PROVE  /\ Open(stack) /\ Where \in Callbacks /\ kind \in prog.calls[Where]
           /\ Where \in {"pre_term", "cleanup"} => prog.dealloc \/ Terms(stack) # {}
  <1>1. CASE stack = <<>>
    BY <1>1 DEF MayCall, Where, Open, Plain, Callbacks
  <1>2. CASE stack # <<>>
    <2>1. PICK b \in Seq(Frames), f \in Frames :
              /\ stack = Append(b, f) /\ f = Top /\ FrameOk(f)
              /\ prog.dealloc \/ (/\ Plain(b) \/ Quiet(f)
                                  /\ Inner(f) => Terms(b) # {})
      BY <1>2, Split
    <2>2. f.fn = "user" /\ Where = f.at /\ kind \in prog.calls[f.at]
      BY <1>2, <2>1 DEF MayCall, InUser, Where
    <2>3. f.at \in Callbacks
      BY <2>1, <2>2 DEF FrameOk
    <2>4. Open(stack)
      BY <2>1, <2>2, PlainPush DEF Quiet, Open
    <2>5. f.at \in {"pre_term", "cleanup"} => prog.dealloc \/ Terms(stack) # {}
      BY <2>1, <2>2, TermsPush DEF Inner
    <2> QED
      BY <2>2, <2>3, <2>4, <2>5
  <1> QED
    BY <1>1, <1>2

-----------------------------------------------------------------------------
(* The actions that change the stack only *)

LEMMA TermChildrenKeeps == ASSUME Inv, TermChildren, prog' = prog PROVE Inv'
  <1>1. stack # <<>>
    BY DEF TermChildren, Running
  <1>2. PICK b \in Seq(Frames), f \in Frames :
            stack = Append(b, f) /\ b = Below /\ f = Top /\ FrameOk(f)
    BY <1>1, Split
  <1>3. f.fn = "term" /\ f.at = "children"
    BY <1>2 DEF TermChildren, Running
  <1>4. PICK g, h : g = [f EXCEPT !.at = "cleanup"] /\ h = Frame("children", f.fi, "loop")
    OBVIOUS
  <1>5. /\ g \in Frames /\ g.fn = "term" /\ g.fi = f.fi /\ g.at = "cleanup" /\ g.event = f.event
        /\ f.fi \in Insts
    BY <1>3, <1>4 DEF Frames, Places
  <1>6. h \in Frames /\ h.fn = "children" /\ h.fi = f.fi
    BY <1>4, <1>5, FrameIs DEF FnNames, Places
  <1>7. FrameOk(g) /\ FrameOk(h)
    BY <1>2, <1>3, <1>5, <1>6 DEF FrameOk
  <1>8. PICK s : s = Append(b, g)
    OBVIOUS
  <1>9. Fits(s) /\ Open(s) /\ Terms(s) # {}
    BY <1>2, <1>3, <1>5, <1>7, <1>8, FitsGoesOn
  <1>10. PICK r : r = Append(s, h)
    OBVIOUS
  <1>11. Fits(r)
    BY <1>6, <1>7, <1>9, <1>10, FitsCall
  <1>12. stack' = r /\ UNCHANGED <<prog, inst, depth, collect>>
    BY <1>2, <1>4, <1>8, <1>10 DEF TermChildren, Continue
  <1> QED
    BY <1>11, <1>12, FitsStep

LEMMA UserReturnKeeps == ASSUME Inv, UserReturn, prog' = prog PROVE Inv'
  <1>1. stack # <<>>
    BY DEF UserReturn
  <1>2. PICK b \in Seq(Frames), f \in Frames : stack = Append(b, f) /\ b = Below /\ f = Top
    BY <1>1, Split
  <1>3. f.fn # "term" /\ stack' = b /\ UNCHANGED <<prog, inst, depth, collect>>
    BY <1>2 DEF UserReturn, InUser
  <1> QED
    BY <1>2, <1>3, FitsReturn, FitsStep

LEMMA UserDispatchKeeps ==
    ASSUME Inv, NEW i \in Known, UserDispatch(i), prog' = prog
    PROVE  Inv'
  <1>1. i \in Insts
    BY DEF Known
  <1>2. PICK t : t = stack
    OBVIOUS
  <1>3. PICK r : r = stack'
    OBVIOUS
  <1>4. r \in Dispatched(i, t) /\ UNCHANGED <<prog, inst, depth, collect>>
    BY <1>2, <1>3 DEF UserDispatch
  <1>5. Fits(t) /\ Open(t)
    BY <1>2, FitsStack, MayCallIs DEF UserDispatch
  <1>6. Fits(r)
    BY <1>1, <1>4, <1>5, FitsDispatched
  <1> QED
    BY <1>3, <1>4, <1>6, FitsStep

(* Without a dealloc_ctx a program that is Protected is Careful.            *)
LEMMA Carefully ==
    ASSUME Inv, Protected, ~prog.dealloc
    PROVE  Careful(prog)
  BY DEF Inv, Types, Protected

LEMMA UserTermChildrenKeeps ==
    ASSUME Inv, Protected, NEW i \in Known, UserTermChildren(i), prog' = prog
    PROVE  Inv'
  <1>1. i \in Insts /\ Live(i)
    BY DEF Known
  <1>2. PICK t : t = stack
    OBVIOUS
  <1>3. PICK cause \in {"PARENT", "REGULAR"} :
            stack' = Append(stack, [Frame("children", i, "loop") EXCEPT !.cause = cause])
    BY DEF UserTermChildren
  <1>4. PICK e, h : e = Frame("children", i, "loop") /\ h = [e EXCEPT !.cause = cause]
    OBVIOUS
  <1>5. e \in Frames /\ e.fn = "children" /\ e.fi = i
    BY <1>1, <1>4, FrameIs DEF FnNames, Places
  <1>6. h \in Frames /\ h.fn = "children" /\ h.fi = i
    BY <1>4, <1>5 DEF Frames
  <1>7. FrameOk(h)
    BY <1>1, <1>6 DEF FrameOk
  <1>8. MayCall("term_children") /\ UNCHANGED <<prog, inst, depth, collect>>
    BY DEF UserTermChildren
  <1>9. Fits(t) /\ Open(t)
    BY <1>2, <1>8, FitsStack, MayCallIs
  <1>10. prog.dealloc \/ Terms(t) # {}
    BY <1>2, <1>8, MayCallIs, Carefully DEF Careful
  <1>11. PICK r : r = Append(t, h)
    OBVIOUS
  <1>12. Fits(r)
    BY <1>6, <1>7, <1>9, <1>10, <1>11, FitsCall
  <1> QED
    BY <1>2, <1>3, <1>4, <1>8, <1>11, <1>12, FitsStep

LEMMA UserBroadcastKeeps ==
    ASSUME Inv, Protected, NEW i \in Known, UserBroadcast(i), prog' = prog
    PROVE  Inv'
  <1>1. i \in Insts /\ Live(i)
    BY DEF Known
  <1>2. PICK t : t = stack
    OBVIOUS
  <1>3. PICK c : c = Head(inst[i].children)
    OBVIOUS
  <1>4. c \in Kids(i) /\ c \in Insts
    <2>1. inst[i].children \in Seq(Insts) /\ inst[i].children # <<>>
      BY <1>1 DEF UserBroadcast, Inv, Types, Instances
    <2>2. 1 \in DOMAIN inst[i].children /\ c = inst[i].children[1] /\ c \in Insts
      BY <1>3, <2>1
    <2> QED
      BY <2>2 DEF Kids
  <1>5. Live(c)
    BY <1>1, <1>4 DEF Inv, Down
  <1>6. PICK e, h : e = Frame("broadcast", i, "loop") /\ h = [e EXCEPT !.child = c]
    OBVIOUS
  <1>7. e \in Frames /\ e.fn = "broadcast" /\ e.fi = i
    BY <1>1, <1>6, FrameIs DEF FnNames, Places
  <1>8. h \in Frames /\ h.fn = "broadcast" /\ h.fi = i /\ h.child = c
    BY <1>4, <1>6, <1>7 DEF Frames
  <1>9. FrameOk(h) /\ ~Inner(h)
    BY <1>1, <1>5, <1>8 DEF FrameOk, Inner
  <1>10. MayCall("broadcast") /\ UNCHANGED <<prog, inst, depth, collect>>
    BY DEF UserBroadcast
  <1>11. Fits(t) /\ Open(t)
    BY <1>2, <1>10, FitsStack, MayCallIs
  <1>12. prog.calls["action"] = {}
    BY <1>10, MayCallIs, FsmAssumption DEF Inv, Types
  <1>13. PICK r : r = Append(t, h)
    OBVIOUS
  <1>14. Fits(r)
    BY <1>8, <1>9, <1>11, <1>12, <1>13, FitsCall
  <1>15. stack' = r
    BY <1>2, <1>3, <1>6, <1>13 DEF UserBroadcast
  <1> QED
    BY <1>10, <1>14, <1>15, FitsStep

LEMMA BroadcastLoopKeeps == ASSUME Inv, BroadcastLoop, prog' = prog PROVE Inv'
  <1>1. stack # <<>>
    BY DEF BroadcastLoop, Running
  <1>2. PICK b \in Seq(Frames), f \in Frames :
            stack = Append(b, f) /\ b = Below /\ f = Top /\ FrameOk(f)
    BY <1>1, Split
  <1>3. f.fn = "broadcast" /\ UNCHANGED <<prog, inst, depth, collect>>
    BY <1>2 DEF BroadcastLoop, Running
  <1>4. f.fi \in Insts /\ f.child \in Insts \cup {None} /\ Live(f.fi)
    BY <1>2, <1>3 DEF Frames, FrameOk
  <1>5. CASE f.child = None
    BY <1>2, <1>3, <1>5, FitsReturn, FitsStep DEF BroadcastLoop
  <1>6. CASE f.child # None
    <2>1. PICK c : c = Successor(f.fi, f.child)
      OBVIOUS
    <2>2. c = None \/ c \in Kids(f.fi)
      BY <2>1 DEF Successor, Kids
    <2>3. c = None \/ (c \in Insts /\ Live(c))
      BY <1>4, <2>2 DEF Inv, Types, Down, Kids, Instances
    <2>4. PICK g : g = [f EXCEPT !.child = c]
      OBVIOUS
    <2>5. g \in Frames /\ g.fn = "broadcast" /\ g.fi = f.fi /\ g.child = c
      BY <1>3, <2>3, <2>4 DEF Frames
    <2>6. FrameOk(g)
      BY <1>4, <2>3, <2>5 DEF FrameOk
    <2>7. PICK s : s = Append(b, g)
      OBVIOUS
    <2>8. Fits(s) /\ (prog.dealloc \/ prog.calls["action"] = {})
      BY <1>2, <1>3, <2>5, <2>6, <2>7, FitsGoesOn
    <2>9. PICK r : r = stack'
      OBVIOUS
    <2>10. r \in Dispatched(f.child, s)
      BY <1>2, <1>6, <2>1, <2>4, <2>7, <2>9 DEF BroadcastLoop
    <2>11. Fits(r)
      BY <1>4, <1>6, <2>8, <2>10, FitsDispatched DEF Open
    <2> QED
      BY <1>3, <2>9, <2>11, FitsStep
  <1> QED
    BY <1>5, <1>6

-----------------------------------------------------------------------------
(* Terminations begin *)

Causes == {"PARENT", "REGULAR", "TIMEOUT"}

LEMMA TermKeeps ==
    ASSUME Inv, NEW s, Fits(s), Open(s), NEW i \in Known, NEW cause \in Causes,
           Term(i, cause, s), prog' = prog, collect' = collect
    PROVE  Inv'
  <1>1. i \in Insts /\ Live(i) /\ ~inst[i].cleaned
    BY DEF Known
  <1>2. CASE inst[i].terminating
    BY <1>2, FitsStep DEF Term
  <1>3. CASE ~inst[i].terminating
    <2>1. PICK e, g, h : /\ e = Frame("term", i, "children") /\ h = Callback("pre_term", i)
                         /\ g = [e EXCEPT !.cause = cause, !.event = inst[i].event]
      OBVIOUS
    <2>2. /\ inst' = [inst EXCEPT ![i].terminating = TRUE]
          /\ depth' = IF prog.safely THEN depth + 1 ELSE depth
          /\ stack' = s \o <<g, h>>
      BY <1>3, <2>1 DEF Term
    <2>3. inst \in [Insts -> Instances] /\ s \in Seq(Frames)
      BY DEF Inv, Types, Fits
    <2>4. e \in Frames /\ e.fn = "term" /\ e.fi = i /\ e.at = "children"
      BY <1>1, <2>1, FrameIs DEF FnNames, Places
    <2>5. /\ g \in Frames /\ g.fn = "term" /\ g.fi = i /\ g.at = "children"
          /\ g.event = inst[i].event
      BY <1>1, <2>1, <2>3, <2>4 DEF Frames, Instances, Causes
    <2>6. h \in Frames /\ h.fn = "user" /\ h.at = "pre_term" /\ FrameOk(h)'
      BY <1>1, <2>1, CallbackIs DEF Callbacks
    <2>7. Light /\ \A j \in Insts : /\ inst'[j].ctx = inst[j].ctx
                                    /\ inst'[j].terminating => inst[j].terminating \/ j = i
      BY <1>1, <2>2, <2>3, ZenonT(60) DEF Light, Instances
    <2>8. FrameOk(g)'
      <3>1. inst[i].parent # None => Live(inst[i].parent) /\ inst[i].parent \in Insts
        BY <2>3, <1>1 DEF Inv, Up, Instances
      <3>2. inst'[i].terminating /\ inst'[i].parent = inst[i].parent /\ inst'[i].event = inst[i].event
        BY <1>1, <2>2, <2>3 DEF Instances
      <3>3. \A j \in Insts : Live(j)' = Live(j)
        BY <2>7 DEF Light, Live
      <3> QED
        BY <1>1, <2>5, <3>1, <3>2, <3>3 DEF FrameOk
    <2>9. PICK r, q : r = Append(s, g) /\ q = Append(r, h)
      OBVIOUS
    <2>10. r \in Seq(Frames) /\ q \in Seq(Frames) /\ stack' = q
      BY <2>2, <2>3, <2>5, <2>6, <2>9, PushIs, PushTwo
    <2>11. Good(q)'
      <3>1. Good(s)'
        BY <2>3, <2>7, LightKeeps DEF Fits
      <3>2. Good(r)'
        BY <2>3, <2>5, <2>8, <2>9, <3>1, GoodPush
      <3> QED
        BY <2>6, <2>9, <2>10, <3>2, GoodPush
    <2>12. \A j : Has(q, j) <=> Has(s, j) \/ j = i
      BY <2>3, <2>5, <2>6, <2>9, <2>10, HasPush
    <2>13. /\ Terms(r) # {} /\ Cardinality(Terms(q)) = Cardinality(Terms(s)) + 1
      BY <2>3, <2>5, <2>6, <2>9, <2>10, TermsPush
    <2>14. prog.dealloc \/ Nested(q)
      <3>1. prog.dealloc \/ (Nested(r) /\ Plain(r))
        BY <2>3, <2>5, <2>9, NestedPush, PlainPush DEF Fits, Open, Inner
      <3> QED
        BY <2>6, <2>9, <2>10, <2>13, <3>1, NestedPush
    <2>15. depth \in Nat /\ depth = IF prog.safely THEN Cardinality(Terms(stack)) ELSE 0
      BY DEF Inv, Types, Depth
    <2>16. /\ depth' \in Nat /\ depth' >= depth
           /\ depth' = IF prog.safely THEN Cardinality(Terms(q)) ELSE 0
      BY <2>2, <2>13, <2>15 DEF Fits
    <2> QED
      BY <2>7, <2>10, <2>11, <2>12, <2>14, <2>16, LightStep DEF Fits
  <1> QED
    BY <1>2, <1>3

LEMMA UserTermKeeps ==
    ASSUME Inv, NEW i \in Known, UserTerm(i), prog' = prog
    PROVE  Inv'
  <1>1. PICK t : t = stack
    OBVIOUS
  <1>2. Fits(t) /\ Open(t)
    BY <1>1, FitsStack, MayCallIs DEF UserTerm
  <1>3. Term(i, "REGULAR", t) /\ collect' = collect
    BY <1>1 DEF UserTerm
  <1> QED
    BY <1>2, <1>3, TermKeeps DEF Causes

LEMMA TimerCbTermKeeps == ASSUME Inv, TimerCbTerm, prog' = prog PROVE Inv'
  <1>1. stack # <<>>
    BY DEF TimerCbTerm, Running
  <1>2. PICK b \in Seq(Frames), f \in Frames : stack = Append(b, f) /\ b = Below /\ f = Top
    BY <1>1, Split
  <1>3. /\ f.fn = "user" /\ f.at = "timer_cb" /\ f.fi \in Known
        /\ Term(f.fi, "TIMEOUT", b) /\ collect' = collect
    BY <1>2 DEF TimerCbTerm, Running
  <1>4. Fits(b) /\ Open(b)
    BY <1>2, <1>3, FitsReturn DEF Quiet
  <1> QED
    BY <1>3, <1>4, TermKeeps DEF Causes

LEMMA ChildrenLoopKeeps == ASSUME Inv, ChildrenLoop, prog' = prog PROVE Inv'
  <1>1. stack # <<>>
    BY DEF ChildrenLoop, Running
  <1>2. PICK b \in Seq(Frames), f \in Frames :
            stack = Append(b, f) /\ b = Below /\ f = Top /\ FrameOk(f)
    BY <1>1, Split
  <1>3. f.fn = "children" /\ collect' = collect
    BY <1>2 DEF ChildrenLoop, Running
  <1>4. f.fi \in Insts /\ Live(f.fi) /\ f.cause \in Causes
    BY <1>2, <1>3 DEF Frames, FrameOk, Causes
  <1>5. CASE LoopEnds
    BY <1>2, <1>3, <1>5, FitsReturn, FitsStep DEF ChildrenLoop
  <1>6. CASE ~LoopEnds
    <2>1. PICK c : c = Head(inst[f.fi].children)
      OBVIOUS
    <2>2. c \in Kids(f.fi) /\ c \in Insts
      <3>1. inst[f.fi].children \in Seq(Insts) /\ inst[f.fi].children # <<>>
        BY <1>2, <1>4, <1>6 DEF LoopEnds, Inv, Types, Instances
      <3>2. 1 \in DOMAIN inst[f.fi].children /\ c = inst[f.fi].children[1] /\ c \in Insts
        BY <2>1, <3>1
      <3> QED
        BY <3>2 DEF Kids
    <2>3. c \in Known
      BY <1>4, <2>2 DEF Inv, Down, Known
    <2>4. PICK g : g = [f EXCEPT !.child = c]
      OBVIOUS
    <2>5. g \in Frames /\ g.fn = "children" /\ g.fi = f.fi
      BY <1>3, <2>2, <2>4 DEF Frames
    <2>6. FrameOk(g)
      BY <1>4, <2>5 DEF FrameOk
    <2>7. PICK s : s = Append(b, g)
      OBVIOUS
    <2>8. Fits(s) /\ Open(s)
      BY <1>2, <1>3, <2>5, <2>6, <2>7, FitsGoesOn
    <2>9. Term(c, f.cause, s)
      BY <1>2, <1>6, <2>1, <2>4, <2>7 DEF ChildrenLoop
    <2> QED
      BY <1>3, <1>4, <2>3, <2>8, <2>9, TermKeeps
  <1> QED
    BY <1>5, <1>6

-----------------------------------------------------------------------------
(* Timers and state changes *)

LEMMA StateChgEnterKeeps == ASSUME Inv, StateChgEnter, prog' = prog PROVE Inv'
  <1>1. stack # <<>>
    BY DEF StateChgEnter, Running
  <1>2. PICK b \in Seq(Frames), f \in Frames : stack = Append(b, f) /\ b = Below /\ f = Top
    BY <1>1, Split
  <1>3. /\ f.fn = "state_chg" /\ f.fi \in Insts
        /\ inst' = [inst EXCEPT ![f.fi].timer = @ \/ f.at = "timed"]
        /\ UNCHANGED <<prog, depth, collect>>
    BY <1>2 DEF StateChgEnter, Running, Frames
  <1>4. PICK s : s = Append(b, Callback("onenter", f.fi))
    OBVIOUS
  <1>5. Fits(b) /\ Open(b)
    BY <1>2, <1>3, FitsReturn DEF Quiet
  <1>6. Fits(s)
    BY <1>3, <1>4, <1>5, FitsCallback DEF Callbacks
  <1>7. stack' = s
    BY <1>2, <1>4 DEF StateChgEnter
  <1>8. inst \in [Insts -> Instances]
    BY DEF Inv, Types
  <1>9. PICK on \in BOOLEAN : on = (inst[f.fi].timer \/ f.at = "timed")
    OBVIOUS
  <1>10. inst' = [inst EXCEPT ![f.fi].timer = on]
    BY <1>3, <1>9
  <1>11. /\ Light
         /\ \A i \in Insts : inst'[i].ctx = inst[i].ctx /\ inst'[i].terminating = inst[i].terminating
    BY <1>3, <1>8, <1>10 DEF Light, Instances
  <1> QED
    BY <1>3, <1>6, <1>7, <1>11, FitsLight

LEMMA TimerExpiryKeeps ==
    ASSUME Inv, NEW i \in Insts, TimerExpiry(i), prog' = prog
    PROVE  Inv'
  <1>1. stack = <<>> /\ UNCHANGED <<prog, depth, collect>>
        /\ inst' = [inst EXCEPT ![i].timer = FALSE]
    BY DEF TimerExpiry
  <1>2. PICK t, s : t = stack /\ s = Append(t, Callback("timer_cb", i))
    OBVIOUS
  <1>3. Fits(t) /\ Open(t)
    BY <1>1, <1>2, FitsStack DEF Open, Plain
  <1>4. Fits(s)
    BY <1>2, <1>3, FitsCallback DEF Callbacks
  <1>5. stack' = s
    BY <1>1, <1>2 DEF TimerExpiry
  <1>6. inst \in [Insts -> Instances]
    BY DEF Inv, Types
  <1>7. /\ Light
        /\ \A j \in Insts : inst'[j].ctx = inst[j].ctx /\ inst'[j].terminating = inst[j].terminating
    BY <1>1, <1>6, ZenonT(60) DEF Light, Instances
  <1> QED
    BY <1>1, <1>4, <1>5, <1>7, FitsLight

LEMMA UserStateChgKeeps ==
    ASSUME Inv, Protected, NEW i \in Known, UserStateChg(i), prog' = prog
    PROVE  Inv'
  <1>1. i \in Insts /\ Live(i)
    BY DEF Known
  <1>2. PICK keep \in BOOLEAN, at \in {"timed", "untimed"} :
            /\ inst' = [inst EXCEPT ![i].timer = @ /\ keep]
            /\ stack' = stack \o <<Frame("state_chg", i, at), Callback("onleave", i)>>
    BY DEF UserStateChg
  <1>3. UNCHANGED <<prog, depth, collect>> /\ MayCall("state_chg")
    BY DEF UserStateChg
  <1>4. PICK t, g, h : t = stack /\ g = Frame("state_chg", i, at) /\ h = Callback("onleave", i)
    OBVIOUS
  <1>5. g \in Frames /\ g.fn = "state_chg" /\ g.fi = i
    BY <1>1, <1>2, <1>4, FrameIs DEF FnNames, Places
  <1>6. h \in Frames /\ h.fn = "user" /\ h.at = "onleave" /\ FrameOk(h)
    BY <1>1, <1>4, CallbackIs DEF Callbacks
  <1>7. FrameOk(g) /\ ~Inner(g) /\ ~Inner(h)
    BY <1>1, <1>5, <1>6 DEF FrameOk, Inner
  <1>8. Fits(t) /\ Open(t)
    BY <1>3, <1>4, FitsStack, MayCallIs
  <1>9. PICK s, r : s = Append(t, g) /\ r = Append(s, h)
    OBVIOUS
  <1>10. Fits(s)
    BY <1>5, <1>7, <1>8, <1>9, FitsCall
  <1>11. Open(s) \/ Quiet(h)
    BY <1>6, Carefully DEF Careful, Quiet, Open
  <1>12. Fits(r)
    BY <1>6, <1>7, <1>9, <1>10, <1>11, FitsCall
  <1>13. stack' = r
    BY <1>2, <1>4, <1>5, <1>6, <1>8, <1>9, PushTwo DEF Fits
  <1>14. inst \in [Insts -> Instances]
    BY DEF Inv, Types
  <1>15. PICK on \in BOOLEAN : on = (inst[i].timer /\ keep)
    OBVIOUS
  <1>16. inst' = [inst EXCEPT ![i].timer = on]
    BY <1>2, <1>15
  <1>17. /\ Light
         /\ \A j \in Insts : inst'[j].ctx = inst[j].ctx /\ inst'[j].terminating = inst[j].terminating
    BY <1>1, <1>3, <1>14, <1>16 DEF Light, Instances
  <1> QED
    BY <1>3, <1>12, <1>13, <1>17, FitsLight

-----------------------------------------------------------------------------
(* Children leave their parents *)

LEMMA Settle ==
    ASSUME Inv, prog' = prog, inst' \in [Insts -> Instances], NEW s \in Seq(Frames), stack' = s,
           depth' \in Nat, collect' \in BOOLEAN, Down', Up', Deferred', Good(s)',
           depth' = IF prog.safely THEN Cardinality(Terms(s)) ELSE 0,
           prog.dealloc \/ Nested(s)
    PROVE  Inv'
  <1>1. Types'
    BY SameFrames DEF Types, Inv
  <1>2. Depth'
    BY DEF Depth
  <1>3. Good(stack)'
    BY DEF Good
  <1>4. (prog.dealloc \/ Nested(stack))'
    BY SameFrames DEF Nested
  <1> QED
    BY <1>1, <1>2, <1>3, <1>4 DEF Inv

(* i is taken off the list of its parent, and is either finished or without *)
(* a parent from now on.                                                    *)
Leaves(i) ==
    /\ prog' = prog /\ inst' \in [Insts -> Instances]
    /\ \A j \in Insts :
          /\ inst'[j].mem = inst[j].mem /\ inst'[j].terminating = inst[j].terminating
          /\ inst'[j].children = IF j = inst[i].parent THEN Without(inst[j].children, i)
                                 ELSE inst[j].children
          /\ j # i => /\ inst'[j].ctx = inst[j].ctx /\ inst'[j].parent = inst[j].parent
                      /\ inst'[j].event = inst[j].event /\ inst'[j].cleaned = inst[j].cleaned
    /\ \/ inst'[i].cleaned /\ inst'[i].parent = inst[i].parent /\ inst'[i].event = inst[i].event
       \/ inst'[i].parent = None /\ inst'[i].cleaned = inst[i].cleaned

LEMMA LeavesKeeps ==
    ASSUME Inv, NEW i \in Insts, Leaves(i)
    PROVE  /\ Down' /\ Up' /\ \A f \in Frames : FrameOk(f) => FrameOk(f)'
           /\ \A s \in Seq(Frames) : Good(s) => Good(s)'
  <1>1. inst \in [Insts -> Instances]
    BY DEF Inv, Types
  <1>2. \A j \in Insts : Live(j)' = Live(j)
    BY DEF Leaves, Live
  <1>3. ASSUME NEW j \in Insts, Live(j)
        PROVE  Once(inst'[j].children) /\ Kids(j)' = Kids(j) \ {i}
    <2>1. inst[j].children \in Seq(Insts) /\ Once(inst[j].children)
      BY <1>1, <1>3 DEF Instances, Inv, Down
    <2>2. CASE j = inst[i].parent
      <3>1. PICK r, q : q = inst[j].children /\ r = Without(q, i)
        OBVIOUS
      <3>2. inst'[j].children = r
        BY <2>2, <3>1 DEF Leaves
      <3>3. Once(r) /\ {r[n] : n \in DOMAIN r} = {q[n] : n \in DOMAIN q} \ {i}
        <4>1. q \in Seq(Insts) /\ Once(q)
          BY <2>1, <3>1
        <4>2. /\ Once(Without(q, i))
              /\ {Without(q, i)[n] : n \in DOMAIN Without(q, i)} = {q[n] : n \in DOMAIN q} \ {i}
          BY <4>1, WithoutIs
        <4> QED
          BY <3>1, <4>2
      <3>4. Kids(j)' = {r[n] : n \in DOMAIN r} /\ Kids(j) = {q[n] : n \in DOMAIN q}
        BY <3>1, <3>2 DEF Kids
      <3> QED
        BY <3>2, <3>3, <3>4
    <2>3. CASE j # inst[i].parent
      <3>1. inst'[j].children = inst[j].children
        BY <2>3 DEF Leaves
      <3>2. i \notin Kids(j)
        BY <1>3, <2>3 DEF Inv, Down
      <3> QED
        BY <2>1, <3>1, <3>2 DEF Kids
    <2> QED
      BY <2>2, <2>3
  <1>4. \A p \in Insts : \A c \in Kids(p) : c \in Insts
    BY <1>1 DEF Kids, Instances
  <1>5. Down'
    <2> SUFFICES ASSUME NEW p \in Insts, Live(p)'
                 PROVE  /\ Once(inst'[p].children)
                        /\ \A c \in Kids(p)' : /\ Live(c)' /\ ~inst'[c].cleaned
                                               /\ inst'[c].parent = p /\ inst'[c].ctx = p
      BY DEF Down
    <2>1. Live(p) /\ Once(inst'[p].children) /\ Kids(p)' = Kids(p) \ {i}
      BY <1>2, <1>3
    <2>2. ASSUME NEW c \in Kids(p) \ {i}
          PROVE  /\ Live(c)' /\ ~inst'[c].cleaned
                 /\ inst'[c].parent = p /\ inst'[c].ctx = p
      <3>1. c \in Insts /\ c # i
        BY <1>4
      <3>2. Live(c) /\ ~inst[c].cleaned /\ inst[c].parent = p /\ inst[c].ctx = p
        BY <2>1 DEF Inv, Down
      <3> QED
        BY <1>2, <3>1, <3>2 DEF Leaves
    <2> QED
      BY <2>1, <2>2
  <1>6. \A j \in Insts : inst[j].parent \in Insts \cup {None}
    BY <1>1 DEF Instances
  <1>7. Up'
    <2> SUFFICES ASSUME NEW j \in Insts, Live(j)', ~inst'[j].cleaned, inst'[j].parent # None
                 PROVE  (Live(inst[j].parent) /\ j \in Kids(inst[j].parent))'
      BY DEF Up, Known
    <2>1. j # i /\ inst'[j].parent = inst[j].parent /\ ~inst[j].cleaned /\ Live(j)
      BY <1>2 DEF Leaves
    <2>2. PICK p \in Insts : p = inst[j].parent
      BY <1>6, <2>1
    <2>3. Live(p) /\ j \in Kids(p)
      BY <2>1, <2>2 DEF Inv, Up, Known
    <2>4. Live(p)' /\ j \in Kids(p)'
      BY <1>2, <1>3, <2>1, <2>3
    <2> QED
      BY <2>1, <2>2, <2>4 DEF Live, Kids
  <1>8. \A j \in Insts : /\ inst'[j].terminating = inst[j].terminating
                         /\ inst[j].cleaned => inst'[j].cleaned
                         /\ \/ inst'[j].parent = None
                            \/ inst'[j].parent = inst[j].parent /\ inst'[j].event = inst[j].event
    BY DEF Leaves
  <1>9. \A f \in Frames : FrameOk(f) => FrameOk(f)'
    <2> SUFFICES ASSUME NEW f \in Frames, FrameOk(f) PROVE FrameOk(f)'
      OBVIOUS
    <2>1. f.fi \in Insts /\ f.child \in Insts \cup {None} /\ prog' = prog
      BY DEF Frames, Leaves
    <2> QED
      BY <1>2, <1>6, <1>8, <2>1 DEF FrameOk
  <1>10. \A s \in Seq(Frames) : Good(s) => Good(s)'
    BY <1>9 DEF Good
  <1> QED
    BY <1>5, <1>7, <1>9, <1>10

(* An instance with another list of children.                               *)
LEMMA WithKids ==
    ASSUME Inv, NEW j \in Insts, NEW w \in Seq(Insts), NEW q, q = [inst[j] EXCEPT !.children = w]
    PROVE  /\ q \in Instances /\ q.children = w
           /\ q.mem = inst[j].mem /\ q.terminating = inst[j].terminating
           /\ q.ctx = inst[j].ctx /\ q.parent = inst[j].parent
           /\ q.event = inst[j].event /\ q.cleaned = inst[j].cleaned
  BY DEF Inv, Types, Instances

LEMMA TermCleanupKeeps == ASSUME Inv, TermCleanup, prog' = prog PROVE Inv'
  <1>1. stack # <<>>
    BY DEF TermCleanup, Running
  <1>2. PICK b \in Seq(Frames), f \in Frames :
            stack = Append(b, f) /\ b = Below /\ f = Top /\ FrameOk(f)
    BY <1>1, Split
  <1>3. f.fn = "term" /\ f.at = "cleanup" /\ UNCHANGED <<prog, depth, collect>>
    BY <1>2 DEF TermCleanup, Running
  <1>4. PICK i, p, off : /\ i = f.fi /\ p = inst[i].parent
                         /\ off = IF p = None THEN inst
                                  ELSE [inst EXCEPT ![p].children = Without(@, i)]
    OBVIOUS
  <1>5. inst' = [off EXCEPT ![i].cleaned = TRUE]
    BY <1>2, <1>4 DEF TermCleanup
  <1>6. /\ i \in Insts /\ Live(i) /\ inst[i].terminating
        /\ p # None => Live(p)
    BY <1>2, <1>3, <1>4 DEF FrameOk, Frames
  <1>7. inst \in [Insts -> Instances]
    BY DEF Inv, Types
  <1>8. p \in Insts \cup {None}
    BY <1>4, <1>6, <1>7 DEF Instances
  <1>9. PICK w, k : w = Without(inst[p].children, i) /\ k = [inst[p] EXCEPT !.children = w]
    OBVIOUS
  <1>10. p # None => w \in Seq(Insts) /\ p \in Insts
    <2> SUFFICES ASSUME p # None PROVE w \in Seq(Insts) /\ p \in Insts
      OBVIOUS
    <2>1. p \in Insts /\ inst[p].children \in Seq(Insts) /\ Once(inst[p].children)
      BY <1>6, <1>7, <1>8 DEF Inv, Down, Instances
    <2> QED
      BY <1>6, <1>9, <2>1, WithoutIs
  <1>11. \A j \in Insts : off[j] = IF j = p /\ p # None THEN k ELSE inst[j]
    BY <1>4, <1>7, <1>9, <1>10
  <1>12. /\ off \in [Insts -> Instances]
         /\ \A j \in Insts :
              /\ off[j].mem = inst[j].mem /\ off[j].terminating = inst[j].terminating
              /\ off[j].ctx = inst[j].ctx /\ off[j].parent = inst[j].parent
              /\ off[j].event = inst[j].event /\ off[j].cleaned = inst[j].cleaned
              /\ off[j].children = IF j = p THEN w ELSE inst[j].children
    <2>1. p # None => /\ k \in Instances /\ k.children = w
                      /\ k.mem = inst[p].mem /\ k.terminating = inst[p].terminating
                      /\ k.ctx = inst[p].ctx /\ k.parent = inst[p].parent
                      /\ k.event = inst[p].event /\ k.cleaned = inst[p].cleaned
      BY <1>9, <1>10, WithKids
    <2>2. \A j \in Insts : off[j] \in Instances
      BY <1>7, <1>11, <2>1
    <2>3. off \in [Insts -> Instances]
      <3>1. CASE p = None
        BY <3>1, <1>4, <1>7
      <3>2. CASE p # None
        <4>1. off = [inst EXCEPT ![p] = k]
          BY <3>2, <1>4, <1>9
        <4> QED
          BY <4>1, <1>7, <3>2, <2>1
      <3> QED
        BY <3>1, <3>2
    <2> QED
      BY FsmAssumption, <1>11, <2>1, <2>3
  <1>13. /\ inst' \in [Insts -> Instances]
         /\ inst'[i].cleaned /\ \A j \in Insts \ {i} : inst'[j].cleaned = inst[j].cleaned
         /\ \A j \in Insts :
              /\ inst'[j].mem = inst[j].mem /\ inst'[j].terminating = inst[j].terminating
              /\ inst'[j].ctx = inst[j].ctx /\ inst'[j].parent = inst[j].parent
              /\ inst'[j].event = inst[j].event
              /\ inst'[j].children = IF j = p THEN w ELSE inst[j].children
    <2>1. /\ inst' \in [Insts -> Instances] /\ inst'[i].cleaned
          /\ \A j \in Insts \ {i} : inst'[j] = off[j]
          /\ inst'[i].mem = off[i].mem /\ inst'[i].terminating = off[i].terminating
          /\ inst'[i].ctx = off[i].ctx /\ inst'[i].parent = off[i].parent
          /\ inst'[i].event = off[i].event /\ inst'[i].children = off[i].children
      <3>1. PICK c : c = [off[i] EXCEPT !.cleaned = TRUE]
        OBVIOUS
      <3>2. inst' = [off EXCEPT ![i] = c] /\ off[i] \in Instances
        BY <1>5, <1>6, <1>12, <3>1
      <3>3. /\ c \in Instances /\ c.cleaned /\ c.mem = off[i].mem
            /\ c.terminating = off[i].terminating /\ c.ctx = off[i].ctx
            /\ c.parent = off[i].parent /\ c.event = off[i].event /\ c.children = off[i].children
        BY <3>1, <3>2 DEF Instances
      <3> QED
        BY <1>6, <1>12, <3>2, <3>3
    <2> QED
      BY <1>12, <2>1
  <1>14. Leaves(i)
    BY <1>3, <1>4, <1>6, <1>9, <1>13, ZenonT(60) DEF Leaves
  <1>15. PICK g : g = [f EXCEPT !.at = "notify"]
    OBVIOUS
  <1>16. g \in Frames /\ g.fn = "term" /\ g.fi = i /\ g.at = "notify" /\ g.event = f.event
    BY <1>3, <1>4, <1>15 DEF Frames, Places
  <1>17. FrameOk(g)'
    <2>1. FrameOk(f)'
      BY <1>2, <1>6, <1>14, LeavesKeeps
    <2>2. inst'[i].cleaned
      BY <1>6, <1>13
    <2> QED
      BY <1>3, <1>4, <1>16, <2>1, <2>2 DEF FrameOk
  <1>19. PICK h, s, r : h = Callback("cleanup", i) /\ s = Append(b, g) /\ r = Append(s, h)
    OBVIOUS
  <1>20. h \in Frames /\ h.fn = "user" /\ h.at = "cleanup" /\ FrameOk(h)'
    BY <1>6, <1>19, CallbackIs DEF Callbacks
  <1>21. s \in Seq(Frames) /\ r \in Seq(Frames)
    BY <1>16, <1>19, <1>20, PushIs
  <1>22. stack' = r
    BY <1>2, <1>4, <1>15, <1>19 DEF TermCleanup, Continue
  <1>23. Good(r)'
    <2>1. Good(b)'
      BY <1>2, <1>6, <1>14, LeavesKeeps, GoodPush DEF Inv
    <2> QED
      BY <2>1, <1>16, <1>17, <1>19, <1>20, <1>21, GoodPush
  <1>24. \A j : Has(stack, j) <=> Has(r, j)
    <2>1. \A j : Has(s, j) <=> Has(b, j) \/ i = j
      BY <1>16, <1>19, HasPush
    <2>2. \A j : Has(r, j) <=> Has(s, j)
      BY <1>19, <1>20, <1>21, HasPush
    <2>3. \A j : Has(Append(b, f), j) <=> Has(b, j) \/ i = j
      BY <1>3, <1>4, HasPush
    <2> QED
      BY <1>2, <2>1, <2>2, <2>3
  <1>25. Cardinality(Terms(r)) = Cardinality(Terms(stack)) /\ Terms(s) # {}
    <2>1. Cardinality(Terms(s)) = Cardinality(Terms(b)) + 1 /\ Terms(s) # {}
      BY <1>16, <1>19, TermsPush
    <2>2. Terms(r) = Terms(s)
      BY <1>19, <1>20, <1>21, TermsPush
    <2>3. Cardinality(Terms(Append(b, f))) = Cardinality(Terms(b)) + 1
      BY <1>3, TermsPush
    <2> QED
      BY <1>2, <2>1, <2>2, <2>3
  <1>26. prog.dealloc \/ Nested(r)
    <2>1. prog.dealloc \/ (Nested(b) /\ Plain(b))
      BY <1>2, <1>3, NestedPush DEF Inv, Quiet
    <2>2. prog.dealloc \/ (Nested(s) /\ Plain(s))
      BY <1>16, <1>19, <2>1, NestedPush, PlainPush DEF Inner
    <2> QED
      BY <1>19, <1>20, <1>21, <1>25, <2>2, NestedPush
  <1>27. Deferred'
    BY <1>3, <1>6, <1>13, <1>22, <1>24 DEF Deferred, Inv, Live
  <1>28. depth' \in Nat /\ collect' \in BOOLEAN /\ depth' = IF prog.safely THEN Cardinality(Terms(r)) ELSE 0
    BY <1>3, <1>25 DEF Inv, Types, Depth
  <1> QED
    BY <1>3, <1>6, <1>13, <1>14, <1>21, <1>22, <1>23, <1>26, <1>27, <1>28, LeavesKeeps, Settle

LEMMA UserUnlinkParentKeeps ==
    ASSUME Inv, NEW i \in Known, UserUnlinkParent(i), prog' = prog
    PROVE  Inv'
  <1>1. i \in Insts /\ Live(i) /\ ~inst[i].cleaned
    BY DEF Known
  <1>2. inst' = Unlinked(i, "program") /\ UNCHANGED <<prog, stack, depth, collect>>
    BY DEF UserUnlinkParent
  <1>3. PICK p : p = inst[i].parent
    OBVIOUS
  <1>4. inst \in [Insts -> Instances]
    BY DEF Inv, Types
  <1>5. p \in Insts \cup {None}
    BY <1>1, <1>3, <1>4 DEF Instances
  <1>6. PICK t : t = stack
    OBVIOUS
  <1>7. Fits(t) /\ stack' = t
    BY <1>2, <1>6, FitsStack
  <1>8. CASE p = None
    <2>1. inst' = inst
      BY <1>2, <1>3, <1>8 DEF Unlinked
    <2> QED
      BY <1>2, <1>7, <2>1, FitsStep
  <1>9. CASE p # None
    <2>1. inst' = [inst EXCEPT ![i].ctx = "program", ![i].parent = None, ![i].event = 0,
                               ![p].children = Without(@, i)]
      BY <1>2, <1>3, <1>9 DEF Unlinked
    <2>2. Live(p) /\ p \in Insts
      BY <1>1, <1>3, <1>5, <1>9 DEF Inv, Up
    <2>3. PICK w : w = Without(inst[p].children, i)
      OBVIOUS
    <2>4. w \in Seq(Insts) /\ 0 \in prog.events
      <3>1. inst[p].children \in Seq(Insts) /\ Once(inst[p].children)
        BY <1>4, <2>2 DEF Inv, Down, Instances
      <3> QED
        BY FsmAssumption, <1>1, <2>3, <3>1, WithoutIs DEF Inv, Types
    <2>5. PICK new : new = [inst[i] EXCEPT !.ctx = "program", !.parent = None, !.event = 0]
      OBVIOUS
    <2>6. /\ new \in Instances /\ new.ctx = "program" /\ new.parent = None
          /\ new.mem = inst[i].mem /\ new.terminating = inst[i].terminating
          /\ new.children = inst[i].children /\ new.cleaned = inst[i].cleaned
      BY <1>1, <1>4, <2>4, <2>5, ZenonT(60) DEF Instances, Contexts
    <2>7. PICK one : one = [inst EXCEPT ![i] = new]
      OBVIOUS
    <2>8. one \in [Insts -> Instances] /\ one[i] = new /\ \A j \in Insts \ {i} : one[j] = inst[j]
      BY <1>1, <1>4, <2>6, <2>7
    <2>9. p # i => one[p] = inst[p]
      BY <2>2, <2>8
    <2>10. \A j \in Insts :
             /\ one[j].mem = inst[j].mem /\ one[j].terminating = inst[j].terminating
             /\ one[j].children = inst[j].children /\ one[j].cleaned = inst[j].cleaned
      BY <2>6, <2>8
    <2>11. inst' = [one EXCEPT ![p].children = w]
      <3>1. inst' = [[inst EXCEPT ![i].ctx = "program", ![i].parent = None, ![i].event = 0]
                        EXCEPT ![p].children = Without(@, i)]
        BY <2>1
      <3>2. [inst EXCEPT ![i].ctx = "program", ![i].parent = None, ![i].event = 0] = one
        BY <1>1, <1>4, <2>5, <2>7
      <3>3. inst' = [one EXCEPT ![p].children = Without(@, i)]
        BY <3>1, <3>2
      <3> QED
        BY <2>2, <2>3, <2>8, <2>10, <3>3
    <2>12. /\ inst' \in [Insts -> Instances]
           /\ \A j \in Insts \ {p} : inst'[j] = one[j]
           /\ inst'[p].children = w
           /\ inst'[p].mem = one[p].mem /\ inst'[p].terminating = one[p].terminating
           /\ inst'[p].cleaned = one[p].cleaned /\ inst'[p].ctx = one[p].ctx
           /\ inst'[p].parent = one[p].parent /\ inst'[p].event = one[p].event
      BY <2>2, <2>4, <2>8, <2>11 DEF Instances
    <2>13. \A j \in Insts :
             /\ inst'[j].mem = inst[j].mem /\ inst'[j].terminating = inst[j].terminating
             /\ inst'[j].cleaned = inst[j].cleaned
             /\ inst'[j].children = IF j = p THEN Without(inst[j].children, i) ELSE inst[j].children
             /\ inst'[j].ctx = one[j].ctx /\ inst'[j].parent = one[j].parent /\ inst'[j].event = one[j].event
      BY <2>2, <2>3, <2>10, <2>12
    <2>14. Leaves(i)
      BY <1>1, <1>2, <1>3, <2>6, <2>8, <2>12, <2>13 DEF Leaves
    <2>15. Good(t)'
      BY <1>1, <1>7, <2>14, LeavesKeeps DEF Fits
    <2>16. Deferred'
      BY <1>1, <1>2, <2>6, <2>8, <2>13 DEF Deferred, Inv, Live
    <2>17. /\ depth' \in Nat /\ collect' \in BOOLEAN
           /\ depth' = IF prog.safely THEN Cardinality(Terms(t)) ELSE 0
      BY <1>2, <1>6 DEF Inv, Types, Depth
    <2> QED
      BY <1>1, <1>2, <1>7, <2>12, <2>14, <2>15, <2>16, <2>17, LeavesKeeps, Settle DEF Fits
  <1> QED
    BY <1>8, <1>9

-----------------------------------------------------------------------------
(* Instances are allocated *)

LEMMA UserAllocKeeps ==
    ASSUME Inv, NEW i \in DOMAIN prog.shape, UserAlloc(i), prog' = prog
    PROVE  Inv'
  <1>1. i \in Insts /\ prog.shape[i] \in Insts \cup {None} /\ 0 \in prog.events
    BY FsmAssumption DEF Inv, Types
  <1>2. PICK p : p = prog.shape[i]
    OBVIOUS
  <1>3. PICK ev \in (IF prog.shape[i] = None THEN {0} ELSE prog.events) :
            inst' = [j \in Insts |->
                       IF j = i
                       THEN [Unused EXCEPT !.mem = "live", !.listed = TRUE, !.parent = prog.shape[i],
                               !.event = ev,
                               !.ctx = IF prog.shape[i] = None THEN "program" ELSE prog.shape[i]]
                       ELSE IF j = prog.shape[i] THEN [inst[j] EXCEPT !.children = <<i>> \o @]
                       ELSE inst[j]]
    BY DEF UserAlloc
  <1>4. /\ ~Live(i) /\ (p # None => p \in Known)
        /\ UNCHANGED <<stack, depth, collect>>
    BY <1>2 DEF UserAlloc
  <1>5. inst \in [Insts -> Instances]
    BY DEF Inv, Types
  <1>6. PICK new, cx : /\ cx = (IF p = None THEN "program" ELSE p)
                       /\ new = [Unused EXCEPT !.mem = "live", !.listed = TRUE, !.parent = p,
                                               !.event = ev, !.ctx = cx]
    OBVIOUS
  <1>7. /\ new \in Instances /\ new.mem = "live" /\ new.parent = p /\ new.children = <<>>
        /\ ~new.cleaned /\ ~new.terminating
        /\ new.ctx = IF p = None THEN "program" ELSE p
    <2>1. ev \in prog.events /\ p \in Insts \cup {None}
      BY <1>1, <1>2, <1>3
    <2>2. cx \in Contexts
      BY <1>6, <2>1 DEF Contexts
    <2>3. new = [mem |-> "live", ctx |-> cx, parent |-> p, event |-> ev, children |-> <<>>,
                 listed |-> TRUE, terminating |-> FALSE, cleaned |-> FALSE, timer |-> FALSE]
      BY <1>6 DEF Unused
    <2>4. <<>> \in Seq(Insts)
      OBVIOUS
    <2>5. new \in Instances
      BY <2>1, <2>2, <2>3, <2>4 DEF Instances
    <2>6. new.ctx = cx /\ new.mem = "live" /\ new.parent = p /\ new.children = <<>>
      BY <2>3
    <2>7. ~new.cleaned /\ ~new.terminating
      BY <2>3
    <2> QED
      BY <1>6, <2>5, <2>6, <2>7
  <1>8. p # None => p \in Insts /\ Live(p) /\ p # i
    BY <1>4 DEF Known
  <1>9. \A j \in Insts : \A c \in Kids(j) : c \in Insts
    BY <1>5 DEF Kids, Instances
  <1>10. p # None => \A n \in DOMAIN inst[p].children : inst[p].children[n] # i
    BY <1>4, <1>8 DEF Inv, Down, Kids
  <1>11. p # None => /\ <<i>> \o inst[p].children \in Seq(Insts) /\ Once(<<i>> \o inst[p].children)
                     /\ Kids(p)' = Kids(p) \cup {i}
    <2> SUFFICES ASSUME p # None
                 PROVE  /\ <<i>> \o inst[p].children \in Seq(Insts) /\ Once(<<i>> \o inst[p].children)
                        /\ Kids(p)' = Kids(p) \cup {i}
      OBVIOUS
    <2>1. PICK q, r : q = inst[p].children /\ r = <<i>> \o q
      OBVIOUS
    <2>2. q \in Seq(Insts) /\ Once(q) /\ \A n \in DOMAIN q : q[n] # i
      BY <1>5, <1>8, <1>10, <2>1 DEF Inv, Down, Instances
    <2>3. /\ r \in Seq(Insts) /\ Once(r)
          /\ {r[n] : n \in DOMAIN r} = {q[n] : n \in DOMAIN q} \cup {i}
      <3>1. /\ <<i>> \o q \in Seq(Insts) /\ Once(<<i>> \o q)
            /\ {(<<i>> \o q)[n] : n \in DOMAIN (<<i>> \o q)} = {q[n] : n \in DOMAIN q} \cup {i}
        BY <1>1, <2>2, PutFirst
      <3> QED
        BY <2>1, <3>1
    <2>4. inst'[p].children = r
      <3>1. inst'[p] = [inst[p] EXCEPT !.children = <<i>> \o @]
        BY <1>2, <1>3, <1>8
      <3> QED
        BY <1>5, <1>8, <2>1, <3>1 DEF Instances
    <2>5. Kids(p)' = {r[n] : n \in DOMAIN r} /\ Kids(p) = {q[n] : n \in DOMAIN q}
      BY <2>1, <2>4 DEF Kids
    <2> QED
      BY <2>1, <2>3, <2>5
  <1>12. /\ inst'[i] = new /\ inst' \in [Insts -> Instances]
         /\ \A j \in Insts \ {i} :
               /\ inst'[j].mem = inst[j].mem /\ inst'[j].ctx = inst[j].ctx
               /\ inst'[j].parent = inst[j].parent /\ inst'[j].event = inst[j].event
               /\ inst'[j].cleaned = inst[j].cleaned /\ inst'[j].terminating = inst[j].terminating
               /\ j # p => inst'[j] = inst[j]
               /\ j = p => inst'[j].children = <<i>> \o inst[j].children
    <2>1. PICK w, k : w = <<i>> \o inst[p].children /\ k = [inst[p] EXCEPT !.children = w]
      OBVIOUS
    <2>2. \A j \in Insts : inst'[j] = IF j = i THEN new ELSE IF j = p THEN k ELSE inst[j]
      BY <1>2, <1>3, <1>6, <2>1
    <2>3. p \in Insts => /\ k \in Instances /\ k.children = w
                         /\ k.mem = inst[p].mem /\ k.terminating = inst[p].terminating
                         /\ k.ctx = inst[p].ctx /\ k.parent = inst[p].parent
                         /\ k.event = inst[p].event /\ k.cleaned = inst[p].cleaned
      <3> SUFFICES ASSUME p \in Insts
                   PROVE  /\ k \in Instances /\ k.children = w
                          /\ k.mem = inst[p].mem /\ k.terminating = inst[p].terminating
                          /\ k.ctx = inst[p].ctx /\ k.parent = inst[p].parent
                          /\ k.event = inst[p].event /\ k.cleaned = inst[p].cleaned
        OBVIOUS
      <3>1. w \in Seq(Insts)
        BY <1>11, <2>1, FsmAssumption
      <3>2. k = [inst[p] EXCEPT !.children = w]
        BY <2>1
      <3> QED
        BY <3>1, <3>2, WithKids
    <2>4. \A j \in Insts : inst'[j] \in Instances
      BY <1>5, <1>7, <2>2, <2>3
    <2>5. inst' \in [Insts -> Instances]
      BY <1>3, <2>4
    <2> QED
      BY <1>1, <2>1, <2>2, <2>3, <2>5
  <1>13. inst' \in [Insts -> Instances]
    BY <1>12
  <1>14. \A j \in Insts : Live(j)' <=> Live(j) \/ j = i
    BY <1>1, <1>7, <1>12 DEF Live
  <1>15. /\ Kids(i)' = {}
         /\ \A j \in Insts \ {i} : j # p => Kids(j)' = Kids(j)
    BY <1>7, <1>12 DEF Kids
  <1>16. Down'
    <2> SUFFICES ASSUME NEW q \in Insts, Live(q)'
                 PROVE  /\ Once(inst'[q].children)
                        /\ \A c \in Kids(q)' : /\ Live(c)' /\ ~inst'[c].cleaned
                                               /\ inst'[c].parent = q /\ inst'[c].ctx = q
      BY DEF Down
    <2>1. CASE q = i
      BY <1>7, <1>12, <1>15, <2>1 DEF Once
    <2>2. CASE q # i
      <3>1. Live(q) /\ Once(inst[q].children)
        BY <1>14, <2>2 DEF Inv, Down
      <3>2. Once(inst'[q].children)
        <4>1. CASE q = p
          BY <1>11, <1>12, <2>2, <4>1, FsmAssumption
        <4>2. CASE q # p
          BY <1>12, <2>2, <3>1, <4>2
        <4> QED
          BY <4>1, <4>2
      <3>3. ASSUME NEW c \in Kids(q)
            PROVE  Live(c)' /\ ~inst'[c].cleaned /\ inst'[c].parent = q /\ inst'[c].ctx = q
        <4>1. c \in Insts /\ Live(c) /\ ~inst[c].cleaned /\ inst[c].parent = q /\ inst[c].ctx = q
          BY <1>9, <3>1 DEF Inv, Down
        <4>2. c # i
          BY <1>4, <4>1
        <4> QED
          BY <1>12, <1>14, <4>1, <4>2
      <3>4. q = p => Live(i)' /\ ~inst'[i].cleaned /\ inst'[i].parent = q /\ inst'[i].ctx = q
        BY <1>1, <1>7, <1>12, <1>14, FsmAssumption
      <3>5. \A c \in Kids(q)' : c \in Kids(q) \/ (c = i /\ q = p)
        BY <1>11, <1>15, <2>2, FsmAssumption
      <3> QED
        BY <3>2, <3>3, <3>4, <3>5
    <2> QED
      BY <2>1, <2>2
  <1>17. Up'
    <2> SUFFICES ASSUME NEW j \in Insts, Live(j)', ~inst'[j].cleaned, inst'[j].parent # None
                 PROVE  (Live(inst[j].parent) /\ j \in Kids(inst[j].parent))'
      BY DEF Up, Known
    <2>1. CASE j = i
      <3>1. inst'[j].parent = p /\ p # None
        BY <1>7, <1>12, <2>1
      <3>2. Live(p)' /\ i \in Kids(p)'
        BY <1>8, <1>11, <1>14, <3>1
      <3> QED
        BY <2>1, <3>1, <3>2 DEF Live, Kids
    <2>2. CASE j # i
      <3>1. inst'[j].parent = inst[j].parent /\ ~inst[j].cleaned /\ Live(j)
        BY <1>12, <1>14, <2>2
      <3>2. PICK q \in Insts : q = inst[j].parent
        BY <1>5, <3>1 DEF Instances
      <3>3. Live(q) /\ j \in Kids(q) /\ q # i
        BY <1>4, <3>1, <3>2 DEF Inv, Up, Known
      <3>4. Live(q)' /\ j \in Kids(q)'
        <4>1. CASE q = p
          BY <1>11, <1>14, <3>3, <4>1, FsmAssumption
        <4>2. CASE q # p
          BY <1>14, <1>15, <3>3, <4>2
        <4> QED
          BY <4>1, <4>2
      <3> QED
        BY <3>1, <3>2, <3>4 DEF Live, Kids
    <2> QED
      BY <2>1, <2>2
  <1>18. \A f \in Frames : FrameOk(f) => FrameOk(f)'
    <2> SUFFICES ASSUME NEW f \in Frames, FrameOk(f) PROVE FrameOk(f)'
      OBVIOUS
    <2>1. f.fi \in Insts /\ f.child \in Insts \cup {None} /\ inst[f.fi].parent \in Insts \cup {None}
      BY <1>5 DEF Frames, Instances
    <2> QED
      BY <1>4, <1>12, <1>14, <2>1 DEF FrameOk
  <1>19. PICK t : t = stack
    OBVIOUS
  <1>20. Fits(t) /\ stack' = t
    BY <1>4, <1>19, FitsStack
  <1>21. Good(t)'
    BY <1>18, <1>20 DEF Fits, Good
  <1>22. Deferred'
    BY <1>1, <1>4, <1>7, <1>8, <1>12, <1>14, FsmAssumption DEF Deferred, Inv
  <1>23. /\ depth' \in Nat /\ collect' \in BOOLEAN
         /\ depth' = IF prog.safely THEN Cardinality(Terms(t)) ELSE 0
    BY <1>4, <1>19 DEF Inv, Types, Depth
  <1> QED
    BY <1>13, <1>16, <1>17, <1>20, <1>21, <1>22, <1>23, Settle DEF Fits

-----------------------------------------------------------------------------
(* Memory is freed *)

(* The memory of finished instances is freed, and what hangs on it.         *)
Freed(roots) ==
    /\ roots \subseteq Insts /\ \A i \in roots : inst[i].cleaned
    /\ prog' = prog /\ inst' \in [Insts -> Instances]
    /\ \A j \in Insts :
          /\ inst'[j].parent = inst[j].parent /\ inst'[j].children = inst[j].children
          /\ inst'[j].cleaned = inst[j].cleaned /\ inst'[j].ctx = inst[j].ctx
          /\ inst'[j].terminating = inst[j].terminating
          /\ inst'[j].mem = IF j \in Owned(roots) THEN "freed" ELSE inst[j].mem

LEMMA FreedKeeps == ASSUME Inv, NEW roots, Freed(roots) PROVE Down' /\ Up'
  <1>1. inst \in [Insts -> Instances]
    BY DEF Inv, Types
  <1>2. PICK O : O = Owned(roots)
    OBVIOUS
  <1>3. /\ O \subseteq Insts
        /\ \A j \in Insts : Live(j) /\ inst[j].ctx \in O => j \in O
        /\ \A j \in O \ roots : inst[j].ctx \in O
    BY <1>2, OwnedIs DEF Freed
  <1>4. \A j \in Insts : Live(j)' <=> Live(j) /\ j \notin O
    BY <1>2 DEF Freed, Live
  <1>5. \A j \in Insts : Kids(j)' = Kids(j)
    BY DEF Freed, Kids
  <1>6. \A j \in Insts : \A c \in Kids(j) : c \in Insts
    BY <1>1 DEF Kids, Instances
  <1>7. Down'
    <2> SUFFICES ASSUME NEW p \in Insts, Live(p)'
                 PROVE  /\ Once(inst'[p].children)
                        /\ \A c \in Kids(p)' : /\ Live(c)' /\ ~inst'[c].cleaned
                                               /\ inst'[c].parent = p /\ inst'[c].ctx = p
      BY DEF Down
    <2>1. Live(p) /\ p \notin O /\ Once(inst[p].children)
      BY <1>4 DEF Inv, Down
    <2>2. ASSUME NEW c \in Kids(p)
          PROVE  Live(c)' /\ ~inst'[c].cleaned /\ inst'[c].parent = p /\ inst'[c].ctx = p
      <3>1. /\ c \in Insts /\ Live(c) /\ ~inst[c].cleaned
            /\ inst[c].parent = p /\ inst[c].ctx = p
        BY <1>6, <2>1 DEF Inv, Down
      <3>2. c \notin roots
        BY <3>1 DEF Freed
      <3>3. c \notin O
        BY <1>3, <2>1, <3>1, <3>2
      <3> QED
        BY <1>4, <3>1, <3>3 DEF Freed
    <2>3. Once(inst'[p].children)
      BY <2>1 DEF Freed
    <2> QED
      BY <1>5, <2>2, <2>3
  <1>8. Up'
    <2> SUFFICES ASSUME NEW j \in Insts, Live(j)', ~inst'[j].cleaned, inst'[j].parent # None
                 PROVE  (Live(inst[j].parent) /\ j \in Kids(inst[j].parent))'
      BY DEF Up, Known
    <2>1. inst'[j].parent = inst[j].parent /\ ~inst[j].cleaned /\ Live(j) /\ j \notin O
      BY <1>4 DEF Freed
    <2>2. PICK p \in Insts : p = inst[j].parent
      BY <1>1, <2>1 DEF Instances
    <2>3. Live(p) /\ j \in Kids(p)
      BY <2>1, <2>2 DEF Inv, Up, Known
    <2>4. inst[j].ctx = p
      BY <2>3 DEF Inv, Down
    <2>5. p \notin O
      BY <1>3, <2>1, <2>4
    <2>6. Live(p)' /\ j \in Kids(p)'
      BY <1>4, <1>5, <2>3, <2>5
    <2> QED
      BY <2>1, <2>2, <2>6 DEF Live, Kids
  <1> QED
    BY <1>7, <1>8

LEMMA ClearDeallocCtxKeeps == ASSUME Inv, ClearDeallocCtx, prog' = prog PROVE Inv'
  <1>1. PICK roots : roots = {j \in Insts : Live(j) /\ inst[j].ctx = "dealloc"}
    OBVIOUS
  <1>2. /\ stack = <<>> /\ UNCHANGED <<prog, stack, depth, collect>>
        /\ inst' = [j \in Insts |-> IF j \in Owned(roots)
                        THEN [inst[j] EXCEPT !.mem = "freed"] ELSE inst[j]]
    BY <1>1 DEF ClearDeallocCtx
  <1>3. inst \in [Insts -> Instances]
    BY DEF Inv, Types
  <1>4. roots \subseteq Insts /\ \A i \in roots : inst[i].cleaned
    BY <1>1 DEF Inv, Deferred
  <1>5. PICK O : O = Owned(roots)
    OBVIOUS
  <1>6. \A j \in Insts :
          /\ inst'[j] \in Instances
          /\ inst'[j].parent = inst[j].parent /\ inst'[j].children = inst[j].children
          /\ inst'[j].cleaned = inst[j].cleaned /\ inst'[j].ctx = inst[j].ctx
          /\ inst'[j].terminating = inst[j].terminating
          /\ inst'[j].mem = IF j \in O THEN "freed" ELSE inst[j].mem
    <2> SUFFICES ASSUME NEW j \in Insts
                 PROVE  /\ inst'[j] \in Instances
                        /\ inst'[j].parent = inst[j].parent /\ inst'[j].children = inst[j].children
                        /\ inst'[j].cleaned = inst[j].cleaned /\ inst'[j].ctx = inst[j].ctx
                        /\ inst'[j].terminating = inst[j].terminating
                        /\ inst'[j].mem = IF j \in O THEN "freed" ELSE inst[j].mem
      OBVIOUS
    <2>1. inst'[j] = IF j \in O THEN [inst[j] EXCEPT !.mem = "freed"] ELSE inst[j]
      BY <1>2, <1>5
    <2>2. inst[j] \in Instances
      BY <1>3
    <2> QED
      BY <2>1, <2>2 DEF Instances
  <1>7. inst' \in [Insts -> Instances]
    BY <1>2, <1>6
  <1>8. Freed(roots)
    BY <1>2, <1>4, <1>5, <1>6, <1>7 DEF Freed
  <1>9. PICK t : t = stack
    OBVIOUS
  <1>10. Fits(t) /\ stack' = t /\ Good(t)'
    BY <1>2, <1>9, FitsStack DEF Good
  <1>11. Deferred'
    BY <1>2, <1>6 DEF Deferred, Inv, Live
  <1>12. /\ depth' \in Nat /\ collect' \in BOOLEAN
         /\ depth' = IF prog.safely THEN Cardinality(Terms(t)) ELSE 0
    BY <1>2, <1>9 DEF Inv, Types, Depth
  <1> QED
    BY <1>2, <1>7, <1>8, <1>10, <1>11, <1>12, FreedKeeps, Settle DEF Fits

(* The memory of finished instances moves to another context.               *)
Moved(roots, cx) ==
    /\ roots \subseteq Insts /\ \A i \in roots : inst[i].cleaned
    /\ prog' = prog /\ inst' \in [Insts -> Instances]
    /\ \A j \in Insts :
          /\ inst'[j].mem = inst[j].mem /\ inst'[j].event = inst[j].event
          /\ inst'[j].parent = inst[j].parent /\ inst'[j].children = inst[j].children
          /\ inst'[j].cleaned = inst[j].cleaned /\ inst'[j].terminating = inst[j].terminating
          /\ inst'[j].ctx = IF j \in roots THEN cx ELSE inst[j].ctx

LEMMA MovedIsLight == ASSUME NEW roots, NEW cx, Moved(roots, cx) PROVE Light
  BY DEF Moved, Light

(* What osmo_fsm_inst_free() frees or moves: the instance and all that was  *)
(* deferred.                                                                *)
Waiting(i) == {i} \cup {j \in Insts : Live(j) /\ inst[j].ctx = "collect"}

LEMMA InstFreeIs ==
    ASSUME Inv, NEW i \in Insts, inst[i].cleaned, NEW d \in Nat, InstFree(i, d), prog' = prog
    PROVE  /\ d > 0 => Moved({i}, "collect") /\ collect' = TRUE
           /\ d = 0 /\ prog.dealloc => Moved(Waiting(i), "dealloc") /\ collect' = FALSE
           /\ d = 0 /\ ~prog.dealloc => Freed(Waiting(i)) /\ collect' = FALSE
  <1>1. inst \in [Insts -> Instances]
    BY DEF Inv, Types
  <1>2. PICK off : off = [inst EXCEPT ![i].timer = FALSE, ![i].listed = FALSE]
    OBVIOUS
  <1>3. /\ off \in [Insts -> Instances]
        /\ \A j \in Insts :
             /\ off[j].mem = inst[j].mem /\ off[j].event = inst[j].event
             /\ off[j].parent = inst[j].parent /\ off[j].children = inst[j].children
             /\ off[j].cleaned = inst[j].cleaned /\ off[j].terminating = inst[j].terminating
             /\ off[j].ctx = inst[j].ctx
    BY <1>1, <1>2, ZenonT(60) DEF Instances
  <1>4. PICK W, O : W = Waiting(i) /\ O = Owned(W)
    OBVIOUS
  <1>5. W \subseteq Insts /\ \A j \in W : inst[j].cleaned
    BY <1>4 DEF Waiting, Inv, Deferred
  <1>6. CASE d > 0
    <2>1. inst' = [off EXCEPT ![i].ctx = "collect"] /\ collect' = TRUE
      BY <1>2, <1>6 DEF InstFree
    <2>2. ASSUME NEW j \in Insts
          PROVE  /\ inst'[j] \in Instances
                 /\ inst'[j].mem = off[j].mem /\ inst'[j].event = off[j].event
                 /\ inst'[j].parent = off[j].parent /\ inst'[j].children = off[j].children
                 /\ inst'[j].cleaned = off[j].cleaned /\ inst'[j].terminating = off[j].terminating
                 /\ inst'[j].ctx = IF j \in {i} THEN "collect" ELSE off[j].ctx
      <3>1. off[j] \in Instances /\ inst'[j] = IF j = i THEN [off[j] EXCEPT !.ctx = "collect"] ELSE off[j]
        BY <1>3, <2>1
      <3> QED
        BY <3>1 DEF Instances, Contexts
    <2>3. inst' \in [Insts -> Instances]
      BY <1>3, <2>1, <2>2
    <2>4. Moved({i}, "collect")
      BY <1>3, <2>2, <2>3 DEF Moved
    <2> QED
      BY <1>6, <2>1, <2>4
  <1>7. CASE d = 0 /\ prog.dealloc
    <2>1. /\ inst' = [j \in Insts |-> IF j \in W THEN [off[j] EXCEPT !.ctx = "dealloc"] ELSE off[j]]
          /\ collect' = FALSE
      <3>1. ~(d > 0) /\ W = {i} \cup {j \in Insts : Live(j) /\ inst[j].ctx = "collect"}
        BY <1>4, <1>7 DEF Waiting
      <3> QED
        BY <1>2, <1>7, <3>1, Zenon DEF InstFree
    <2>2. ASSUME NEW j \in Insts
          PROVE  /\ inst'[j] \in Instances
                 /\ inst'[j].mem = off[j].mem /\ inst'[j].event = off[j].event
                 /\ inst'[j].parent = off[j].parent /\ inst'[j].children = off[j].children
                 /\ inst'[j].cleaned = off[j].cleaned /\ inst'[j].terminating = off[j].terminating
                 /\ inst'[j].ctx = IF j \in W THEN "dealloc" ELSE off[j].ctx
      <3>1. off[j] \in Instances /\ inst'[j] = IF j \in W THEN [off[j] EXCEPT !.ctx = "dealloc"] ELSE off[j]
        BY <1>3, <2>1
      <3> QED
        BY <3>1 DEF Instances, Contexts
    <2>3. inst' \in [Insts -> Instances]
      BY <2>1, <2>2
    <2>4. Moved(W, "dealloc")
      BY <1>3, <1>5, <2>2, <2>3 DEF Moved
    <2> QED
      BY <1>4, <1>7, <2>1, <2>4
  <1>8. CASE d = 0 /\ ~prog.dealloc
    <2>1. /\ inst' = [j \in Insts |-> IF j \in O THEN [off[j] EXCEPT !.mem = "freed"] ELSE off[j]]
          /\ collect' = FALSE
      <3>1. ~(d > 0) /\ W = {i} \cup {j \in Insts : Live(j) /\ inst[j].ctx = "collect"}
        BY <1>4, <1>8 DEF Waiting
      <3> QED
        BY <1>2, <1>4, <1>8, <3>1, Zenon DEF InstFree
    <2>2. ASSUME NEW j \in Insts
          PROVE  /\ inst'[j] \in Instances
                 /\ inst'[j].parent = off[j].parent /\ inst'[j].children = off[j].children
                 /\ inst'[j].cleaned = off[j].cleaned /\ inst'[j].terminating = off[j].terminating
                 /\ inst'[j].ctx = off[j].ctx
                 /\ inst'[j].mem = IF j \in O THEN "freed" ELSE off[j].mem
      <3>1. off[j] \in Instances /\ inst'[j] = IF j \in O THEN [off[j] EXCEPT !.mem = "freed"] ELSE off[j]
        BY <1>3, <2>1
      <3> QED
        BY <3>1 DEF Instances
    <2>3. inst' \in [Insts -> Instances]
      BY <2>1, <2>2
    <2>4. Freed(W)
      BY <1>3, <1>4, <1>5, <2>2, <2>3 DEF Freed
    <2> QED
      BY <1>4, <1>8, <2>1, <2>4
  <1> QED
    BY <1>6, <1>7, <1>8

(* A termination ends: f leaves the stack, its instance is freed.           *)
LEMMA InstFreeKeeps ==
    ASSUME Inv, NEW b \in Seq(Frames), NEW f \in Frames, stack = Append(b, f), f.fn = "term",
           inst[f.fi].cleaned, prog' = prog, NEW s \in Seq(Frames), stack' = s, Good(s),
           \A j : Has(b, j) => Has(s, j),
           NEW d \in Nat, depth' = d, d = IF prog.safely THEN Cardinality(Terms(s)) ELSE 0,
           prog.dealloc \/ Nested(s),
           prog.dealloc \/ d > 0 \/ \A n \in DOMAIN s : s[n].fn = "user",
           InstFree(f.fi, d)
    PROVE  Inv'
  <1>1. PICK i \in Insts : i = f.fi
    BY DEF Frames
  <1>2. \A j : Has(stack, j) => Has(s, j) \/ j = i
    BY <1>1, HasPush
  <1>3. /\ d > 0 => Moved({i}, "collect") /\ collect' = TRUE
        /\ d = 0 /\ prog.dealloc => Moved(Waiting(i), "dealloc") /\ collect' = FALSE
        /\ d = 0 /\ ~prog.dealloc => Freed(Waiting(i)) /\ collect' = FALSE
    BY <1>1, InstFreeIs
  <1>4. Deferred
    BY DEF Inv
  <1>5. inst[i].cleaned
    BY <1>1
  <1>6. CASE d > 0
    <2>1. Moved({i}, "collect") /\ collect' = TRUE
      BY <1>3, <1>6
    <2>2. Down' /\ Up' /\ Good(s)' /\ inst' \in [Insts -> Instances]
      <3>1. Light
        BY <2>1, MovedIsLight
      <3>2. inst' \in [Insts -> Instances]
        BY <3>1 DEF Light
      <3> QED
        BY <3>1, <3>2, LightKeeps
    <2>3. Deferred'
      BY <1>2, <1>4, <1>5, <1>6, <2>1 DEF Deferred, Moved, Live
    <2> QED
      BY <2>1, <2>2, <2>3, Settle
  <1>7. CASE d = 0 /\ prog.dealloc
    <2>1. Moved(Waiting(i), "dealloc") /\ collect' = FALSE
      BY <1>3, <1>7
    <2>2. Down' /\ Up' /\ Good(s)' /\ inst' \in [Insts -> Instances]
      <3>1. Light
        BY <2>1, MovedIsLight
      <3>2. inst' \in [Insts -> Instances]
        BY <3>1 DEF Light
      <3> QED
        BY <3>1, <3>2, LightKeeps
    <2>3. \A j \in Insts : Live(j) /\ inst[j].ctx = "collect" => j \in Waiting(i)
      BY DEF Waiting
    <2>4. i \in Waiting(i)
      BY DEF Waiting
    <2>5. \A j \in Insts :
             /\ inst'[j].cleaned = inst[j].cleaned
             /\ inst'[j].ctx = IF j \in Waiting(i) THEN "dealloc" ELSE inst[j].ctx
             /\ inst'[j].terminating = inst[j].terminating /\ (Live(j)' <=> Live(j))
             /\ j \in Waiting(i) => inst[j].cleaned
      BY <2>1 DEF Moved, Live
    <2>6. Deferred'
      BY <1>2, <1>4, <2>1, <2>3, <2>4, <2>5 DEF Deferred
    <2> QED
      BY <2>1, <2>2, <2>6, Settle
  <1>8. CASE d = 0 /\ ~prog.dealloc
    <2>1. Freed(Waiting(i)) /\ collect' = FALSE
      BY <1>3, <1>8
    <2>2. Down' /\ Up' /\ inst' \in [Insts -> Instances]
      BY <2>1, FreedKeeps DEF Freed
    <2>3. Good(s)'
      <3>1. \A n \in DOMAIN s : s[n].fn = "user" /\ FrameOk(s[n])
        BY <1>8 DEF Good
      <3>2. \A n \in DOMAIN s : FrameOk(s[n])'
        BY <3>1 DEF FrameOk
      <3> QED
        BY <3>2 DEF Good
    <2>4. \A j \in Waiting(i) : j \in Owned(Waiting(i))
      BY <2>1, OwnedIs DEF Freed
    <2>5. \A j \in Insts : (Live(j) /\ inst[j].ctx = "collect") \/ j = i => ~Live(j)'
      BY <2>1, <2>4 DEF Waiting, Freed, Live
    <2>6. \A j \in Insts : Live(j)' => Live(j)
      BY <2>1 DEF Freed, Live
    <2>7. Deferred'
      BY <1>2, <1>4, <2>1, <2>5, <2>6 DEF Deferred, Freed
    <2> QED
      BY <2>1, <2>2, <2>3, <2>7, Settle
  <1> QED
    BY <1>6, <1>7, <1>8

LEMMA TermNotifyKeeps == ASSUME Inv, Protected, TermNotify, prog' = prog PROVE Inv'
  <1>1. stack # <<>>
    BY DEF TermNotify, Running
  <1>2. PICK b \in Seq(Frames), f \in Frames :
            /\ stack = Append(b, f) /\ b = Below /\ f = Top /\ Good(b) /\ FrameOk(f)
            /\ prog.dealloc \/ (Nested(b) /\ (Plain(b) \/ Quiet(f)))
    BY <1>1, Split
  <1>3. f.fn = "term" /\ f.at = "notify" /\ UNCHANGED <<prog, depth>>
    BY <1>2 DEF TermNotify, Running
  <1>4. PICK i, p : i = f.fi /\ p = inst[i].parent
    OBVIOUS
  <1>5. i \in Insts /\ Live(i) /\ inst[i].cleaned /\ p \in Insts \cup {None}
    BY <1>2, <1>3, <1>4 DEF FrameOk, Frames, Inv, Types, Instances
  <1>6. PICK r : r = stack'
    OBVIOUS
  <1>7. depth \in Nat /\ depth = IF prog.safely THEN Cardinality(Terms(stack)) ELSE 0
    BY DEF Inv, Types, Depth
  <1>8. CASE depth # 0
    <2>1. prog.safely
      BY <1>7, <1>8
    <2>2. PICK g : g = [f EXCEPT !.at = "free"]
      OBVIOUS
    <2>3. g \in Frames /\ g.fn = "term" /\ g.fi = i /\ g.at = "free" /\ g.event = f.event
      BY <1>3, <1>4, <2>2 DEF Frames, Places
    <2>4. FrameOk(g)
      BY <1>2, <1>3, <1>4, <2>1, <2>3 DEF FrameOk
    <2>5. PICK s : s = Append(b, g)
      OBVIOUS
    <2>6. Fits(s) /\ Open(s)
      BY <1>2, <1>3, <1>4, <2>3, <2>4, <2>5, FitsGoesOn
    <2>7. /\ r = s \/ (p # None /\ r \in Dispatched(p, s))
          /\ UNCHANGED <<inst, collect>>
      BY <1>2, <1>4, <1>6, <1>8, <2>2, <2>5 DEF TermNotify, Continue
    <2>8. Fits(r)
      BY <1>5, <2>6, <2>7, FitsDispatched
    <2> QED
      BY <1>3, <1>6, <2>7, <2>8, FitsStep
  <1>9. CASE depth = 0
    <2>1. ~prog.safely
      BY <1>2, <1>3, <1>7, <1>9, TermsPush
    <2>2. prog.dealloc
      BY <2>1, Carefully DEF Careful
    <2>3. r = b \/ (p # None /\ r \in Dispatched(p, b))
      BY <1>2, <1>4, <1>6, <1>9 DEF TermNotify
    <2>4. r = b \/ (p # None /\ r = Append(b, Callback("action", p)))
      BY <2>3 DEF Dispatched
    <2>5. r \in Seq(Frames) /\ Good(r) /\ \A j : Has(b, j) => Has(r, j)
      <3>1. CASE r = b
        BY <1>2, <3>1
      <3>2. CASE p # None /\ r = Append(b, Callback("action", p))
        <4>1. PICK h : h = Callback("action", p)
          OBVIOUS
        <4>2. h \in Frames /\ FrameOk(h)
          BY <1>5, <3>2, <4>1, CallbackIs DEF Callbacks
        <4> QED
          BY <1>2, <3>2, <4>1, <4>2, PushIs, GoodPush, HasPush
      <3> QED
        BY <2>4, <3>1, <3>2
    <2>6. InstFree(i, 0)
      BY <1>2, <1>4, <1>9 DEF TermNotify
    <2>7. PICK d \in Nat : d = 0
      OBVIOUS
    <2>8. InstFree(f.fi, d) /\ depth' = d /\ d = IF prog.safely THEN Cardinality(Terms(r)) ELSE 0
      BY <1>3, <1>4, <1>9, <2>1, <2>6, <2>7
    <2> QED
      BY <1>2, <1>3, <1>4, <1>5, <1>6, <2>2, <2>5, <2>8, InstFreeKeeps
  <1> QED
    BY <1>8, <1>9

LEMMA TermFreeKeeps == ASSUME Inv, Protected, TermFree, prog' = prog PROVE Inv'
  <1>1. stack # <<>>
    BY DEF TermFree, Running
  <1>2. PICK b \in Seq(Frames), f \in Frames :
            /\ stack = Append(b, f) /\ b = Below /\ f = Top /\ Good(b) /\ FrameOk(f)
            /\ prog.dealloc \/ (Nested(b) /\ (Plain(b) \/ Quiet(f)))
    BY <1>1, Split
  <1>3. f.fn = "term" /\ f.at = "free" /\ prog.safely /\ inst[f.fi].cleaned
    BY <1>2 DEF TermFree, Running, FrameOk
  <1>4. PICK d : d = depth - 1
    OBVIOUS
  <1>5. stack' = b /\ depth' = d /\ InstFree(f.fi, d)
    BY <1>2, <1>4 DEF TermFree
  <1>6. d \in Nat /\ d = Cardinality(Terms(b))
    <2>1. depth = Cardinality(Terms(stack))
      BY <1>3 DEF Inv, Depth
    <2>2. /\ Cardinality(Terms(Append(b, f))) = Cardinality(Terms(b)) + 1
          /\ Cardinality(Terms(b)) \in Nat
      BY <1>3, TermsPush
    <2> QED
      BY <1>2, <1>4, <2>1, <2>2
  <1>7. ASSUME ~prog.dealloc, ~(d > 0) PROVE \A n \in DOMAIN b : b[n].fn = "user"
    <2>1. Terms(b) = {} /\ Nested(b) /\ Plain(b)
      BY <1>2, <1>3, <1>6, <1>7, TermsPush DEF Quiet
    <2>2. \A n \in DOMAIN b : b[n].fn \in FnNames
      <3>1. \A n \in DOMAIN b : b[n] \in Frames
        OBVIOUS
      <3> QED
        BY <3>1 DEF Frames
    <2>3. \A n \in DOMAIN b : b[n].fn # "term"
      BY <2>1 DEF Terms
    <2>4. \A n \in DOMAIN b : b[n].fn # "children"
      BY <2>1, <2>3 DEF Nested, Inner
    <2>5. \A n \in DOMAIN b : b[n].fn \notin {"state_chg", "broadcast"}
      BY <2>1 DEF Plain
    <2> QED
      BY <2>2, <2>3, <2>4, <2>5 DEF FnNames
  <1> QED
    BY <1>2, <1>3, <1>5, <1>6, <1>7, InstFreeKeeps

-----------------------------------------------------------------------------
(* Every step keeps the invariant *)

LEMMA InitInv == Init => Inv
  <1> SUFFICES ASSUME Init PROVE Inv
    OBVIOUS
  <1>1. 0 \in prog.events /\ prog \in Programs
    BY FsmAssumption DEF Init
  <1>2. Unused \in Instances
    BY <1>1 DEF Unused, Instances, Contexts
  <1>3. inst = [i \in Insts |-> Unused] /\ \A i \in Insts : ~Live(i) /\ ~inst[i].cleaned
    BY DEF Init, Live, Unused
  <1>4. Types
    <2>1. stack \in Seq(Frames)
      BY DEF Init
    <2>2. inst \in [Insts -> Instances]
      BY <1>2, <1>3
    <2>3. depth \in Nat /\ collect \in BOOLEAN
      BY DEF Init
    <2> QED
      BY <1>1, <2>1, <2>2, <2>3 DEF Types
  <1>5. Down /\ Up
    BY <1>3 DEF Down, Up, Known
  <1>6. Terms(stack) = {}
    BY DEF Init, Terms
  <1>7. Depth
    BY <1>6, FS_EmptySet DEF Depth, Init
  <1>8. Deferred
    BY <1>3 DEF Deferred, Init, Unused
  <1>9. Good(stack) /\ Nested(stack)
    BY DEF Init, Good, Nested
  <1> QED
    BY <1>4, <1>5, <1>7, <1>8, <1>9 DEF Inv

LEMMA NextInv == Protected /\ Inv /\ [Next]_vars => Inv'
  <1> SUFFICES ASSUME Protected, Inv, [Next]_vars PROVE Inv'
    OBVIOUS
  <1>1. CASE Step
    <2>1. prog' = prog
      BY <1>1 DEF Step, Count
    <2> QED
      BY <1>1, <2>1, TermChildrenKeeps, TermCleanupKeeps, TermNotifyKeeps, TermFreeKeeps,
         ChildrenLoopKeeps, BroadcastLoopKeeps, StateChgEnterKeeps, UserReturnKeeps DEF Step
  <1>2. CASE UserCall
    <2>1. prog' = prog
      BY <1>2 DEF UserCall, Count
    <2>2. ASSUME NEW i \in Known PROVE ~UserChangeParent(i)
      BY MayCallIs DEF UserChangeParent, Protected, Inv, Types
    <2> QED
      BY <1>2, <2>1, <2>2, UserAllocKeeps, UserTermKeeps, UserDispatchKeeps,
         UserTermChildrenKeeps, UserBroadcastKeeps, UserStateChgKeeps,
         UserUnlinkParentKeeps DEF UserCall
  <1>3. CASE MainLoop
    <2>1. prog' = prog
      BY <1>3 DEF MainLoop, Count
    <2> QED
      BY <1>3, <2>1, TimerCbTermKeeps, TimerExpiryKeeps, ClearDeallocCtxKeeps DEF MainLoop
  <1>4. CASE UNCHANGED vars
    BY <1>4, FitsStack, FitsStep DEF vars
  <1> QED
    BY <1>1, <1>2, <1>3, <1>4 DEF Next

LEMMA InvHolds == Protected /\ Spec => []Inv
  <1> SUFFICES ASSUME Protected PROVE Spec => []Inv
    OBVIOUS
  <1>1. Inv /\ [Next]_vars => Inv'
    BY NextInv
  <1> QED
    BY <1>1, InitInv, PTL DEF Spec

-----------------------------------------------------------------------------
(* The theorems *)

(* No function of fsm.c that a callback interrupted goes on with an         *)
(* instance whose memory was freed, however deep the callbacks of a         *)
(* termination cascade call back into it: what osmo_fsm_term_safely() and   *)
(* osmo_fsm_set_dealloc_ctx() promise, for every tree of instances.  (That  *)
(* no timer outlives its instance is FreedAreFinished.)                     *)
THEOREM NoUseAfterFreeHolds == Protected /\ Spec => []NoUseAfterFree
  <1>1. Inv => NoUseAfterFree
    <2> SUFFICES ASSUME Inv, stack # <<>>, NEW i \in Touched PROVE Live(i)
      BY DEF NoUseAfterFree
    <2>1. PICK f \in Frames : f = Top /\ FrameOk(f)
      BY Split
    <2>2. CASE f.fn = "term" /\ f.at \in {"cleanup", "notify"}
      <3>1. i = f.fi \/ (i = inst[f.fi].parent /\ i # None)
        BY <2>1, <2>2 DEF Touched
      <3> QED
        BY <2>1, <2>2, <3>1 DEF FrameOk
    <2>3. CASE f.fn = "user"
      BY <2>1, <2>3 DEF Touched
    <2>4. CASE f.fn = "broadcast"
      BY <2>1, <2>4 DEF Touched, FrameOk
    <2>5. CASE /\ ~(f.fn = "term" /\ f.at \in {"cleanup", "notify"})
               /\ f.fn # "user" /\ f.fn # "broadcast"
      <3>1. i = f.fi
        BY <2>1, <2>5 DEF Touched
      <3> QED
        BY <2>1, <2>5, <3>1 DEF FrameOk
    <2> QED
      BY <2>2, <2>3, <2>4, <2>5
  <1> QED
    BY <1>1, InvHolds, PTL

(* Whenever user code runs, the parent pointers and the lists of children   *)
(* of the instances it knows agree, whichever of them are terminating,      *)
(* unlinked or about to be freed.                                           *)
THEOREM TreeConsistentHolds == Protected /\ Spec => []TreeConsistent
  <1>1. Inv => TreeConsistent
    <2> SUFFICES ASSUME Inv, NEW i \in Known, NEW p \in Known
                 PROVE  inst[i].parent = p <=> i \in Kids(p)
      BY DEF TreeConsistent, Kids
    <2>1. inst[i].parent = p => i \in Kids(p)
      BY FsmAssumption DEF Inv, Up, Known
    <2>2. i \in Kids(p) => inst[i].parent = p
      BY DEF Inv, Down, Known
    <2> QED
      BY <2>1, <2>2
  <1> QED
    BY <1>1, InvHolds, PTL

(* Every cascade is complete when the main loop is back: the depth is 0,    *)
(* the collect_ctx is gone, and no instance is left that began to terminate *)
(* and is neither freed nor in the dealloc_ctx.                             *)
THEOREM CascadeCompletesHolds == Protected /\ Spec => []CascadeCompletes
  <1>1. Inv => CascadeCompletes
    <2> SUFFICES ASSUME Inv, stack = <<>>
                 PROVE  /\ depth = 0 /\ ~collect
                        /\ \A i \in Insts : Live(i) /\ inst[i].terminating =>
                               inst[i].cleaned /\ inst[i].ctx = "dealloc"
      BY DEF CascadeCompletes
    <2>1. Terms(stack) = {} /\ \A i : ~Has(stack, i)
      BY DEF Terms, Has
    <2>2. depth = 0
      BY <2>1, FS_EmptySet DEF Inv, Depth
    <2> QED
      BY <2>1, <2>2 DEF Inv, Deferred
  <1> QED
    BY <1>1, InvHolds, PTL

-----------------------------------------------------------------------------
(* What is freed is finished *)

(* The loop over the children does not give up on one that does not go away *)
(* ("a child FSM is stuck") while there are others, that nobody has         *)
(* terminated.                                                              *)
Settled(i) == \A c \in Kids(i) : inst[c].terminating
NoChildForgotten == Running("children", "loop") /\ LoopEnds => Settled(Top.fi)

(* No onleave() terminates its own instance, whose timer state_chg() then   *)
(* arms.                                                                    *)
NoTimerAfterEnd == Running("state_chg", "timed") => ~inst[Top.fi].terminating

(* An instance that is about to be cleaned up is next, and has no children  *)
(* but such as terminate themselves; or the loop over them is running on it.*)
Cleaning(f) == f.fn = "term" /\ f.at = "cleanup"
Swept(s) ==
    \A n \in DOMAIN s : Cleaning(s[n]) =>
        \/ n = Len(s) /\ Settled(s[n].fi)
        \/ n + 1 \in DOMAIN s /\ s[n + 1].fn = "children" /\ s[n + 1].fi = s[n].fi
(* No clean-up is next.                                                     *)
Bare(s) == \A n \in DOMAIN s : n = Len(s) => ~Cleaning(s[n])

(* What is freed is finished; what is deferred is so already, and has no    *)
(* children but such as terminate; memory that hangs on an instance is that *)
(* of one of its children, present or past.                                 *)
Off(i) == ~inst[i].listed /\ ~inst[i].timer
Finished ==
    \A i \in Insts :
        /\ inst[i].mem = "freed" => inst[i].cleaned /\ Off(i)
        /\ Live(i) /\ inst[i].ctx \in {"collect", "dealloc"} => Off(i)
        /\ Live(i) /\ inst[i].cleaned => Settled(i)
        /\ Live(i) /\ inst[i].ctx \in Insts => inst[i].parent = inst[i].ctx
        /\ inst[i].cleaned => inst[i].terminating

Fin == Finished /\ Swept(stack)

LEMMA KidsIn == ASSUME Inv PROVE \A p \in Insts : \A c \in Kids(p) : c \in Insts
  BY DEF Kids, Inv, Types, Instances

(* Calls, returns, and functions that go on.                                *)
LEMMA SweptPush ==
    ASSUME NEW s \in Seq(Frames), NEW f \in Frames, ~Cleaning(f), Bare(s)
    PROVE  /\ Swept(s) => Swept(Append(s, f))
           /\ Swept(s)' => Swept(Append(s, f))'
           /\ Bare(Append(s, f))
  <1> DEFINE t == Append(s, f)
  <1>1. /\ DOMAIN t = DOMAIN s \cup {Len(s) + 1} /\ t[Len(s) + 1] = f
        /\ Len(s) \in Nat /\ DOMAIN s = 1..Len(s) /\ Len(t) = Len(s) + 1
        /\ \A n \in DOMAIN s : t[n] = s[n]
    BY PushIs
  <1> HIDE DEF t
  <1>2. ASSUME NEW n \in DOMAIN t, Cleaning(t[n]) PROVE n \in DOMAIN s /\ n # Len(s) /\ t[n] = s[n]
    BY <1>1, <1>2 DEF Bare
  <1>3. Swept(s) => Swept(t)
    BY <1>1, <1>2 DEF Swept
  <1>4. Swept(s)' => Swept(t)'
    BY <1>1, <1>2 DEF Swept
  <1>5. Bare(t)
    BY <1>1, <1>2 DEF Bare
  <1> QED
    BY <1>3, <1>4, <1>5 DEF t

LEMMA SweptPop ==
    ASSUME NEW s \in Seq(Frames), NEW f \in Frames, f.fn = "children" => Settled(f.fi),
           Swept(Append(s, f))
    PROVE  Swept(s) /\ (f.fn # "children" => Bare(s))
  <1> DEFINE t == Append(s, f)
  <1>1. /\ DOMAIN t = DOMAIN s \cup {Len(s) + 1} /\ t[Len(s) + 1] = f
        /\ Len(s) \in Nat /\ DOMAIN s = 1..Len(s) /\ Len(t) = Len(s) + 1
        /\ \A n \in DOMAIN s : t[n] = s[n]
    BY PushIs
  <1>2. Swept(t)
    OBVIOUS
  <1> HIDE DEF t
  <1>3. ASSUME NEW n \in DOMAIN s, Cleaning(s[n])
        PROVE n + 1 \in DOMAIN t /\ t[n + 1].fn = "children" /\ t[n + 1].fi = s[n].fi
    BY <1>1, <1>2, <1>3 DEF Swept
  <1>4. Swept(s)
    BY <1>1, <1>3 DEF Swept
  <1>5. f.fn # "children" => Bare(s)
    BY <1>1, <1>3 DEF Bare
  <1> QED
    BY <1>4, <1>5

(* User code, and the main loop, have no clean-up under them.               *)
LEMMA BareInUser == ASSUME Inv, InUser PROVE Bare(stack)
  <1>1. CASE stack = <<>>
    BY <1>1 DEF Bare
  <1>2. CASE stack # <<>>
    <2>1. PICK b \in Seq(Frames), f \in Frames : stack = Append(b, f) /\ f = Top
      BY <1>2, Split
    <2>2. f.fn = "user" /\ stack[Len(b) + 1] = f /\ Len(stack) = Len(b) + 1
      BY <1>2, <2>1, PushIs DEF InUser
    <2> QED
      BY <2>2 DEF Bare, Cleaning
  <1> QED
    BY <1>1, <1>2

LEMMA SweptOn ==
    ASSUME NEW s \in Seq(Frames), NEW f \in Frames, NEW g \in Frames, g.fn = f.fn, g.fi = f.fi,
           Cleaning(g) => Settled(g.fi), Swept(Append(s, f))
    PROVE  Swept(Append(s, g))
  <1> DEFINE t == Append(s, f)
             r == Append(s, g)
  <1>1. /\ DOMAIN t = DOMAIN s \cup {Len(s) + 1} /\ t[Len(s) + 1] = f
        /\ DOMAIN r = DOMAIN s \cup {Len(s) + 1} /\ r[Len(s) + 1] = g
        /\ Len(s) \in Nat /\ DOMAIN s = 1..Len(s)
        /\ Len(t) = Len(s) + 1 /\ Len(r) = Len(s) + 1
        /\ \A n \in DOMAIN s : t[n] = s[n] /\ r[n] = s[n]
    BY PushIs
  <1>2. Swept(t)
    OBVIOUS
  <1> HIDE DEF t, r
  <1>3. ASSUME NEW n \in DOMAIN s, Cleaning(r[n])
        PROVE \/ n = Len(r) /\ Settled(r[n].fi)
              \/ n + 1 \in DOMAIN r /\ r[n + 1].fn = "children" /\ r[n + 1].fi = r[n].fi
    <2>1. Cleaning(t[n]) /\ n \in DOMAIN t /\ t[n] = r[n]
      BY <1>1, <1>3
    <2>2. \/ n = Len(t) /\ Settled(t[n].fi)
          \/ n + 1 \in DOMAIN t /\ t[n + 1].fn = "children" /\ t[n + 1].fi = t[n].fi
      BY <1>2, <2>1 DEF Swept
    <2>3. n + 1 \in DOMAIN t => r[n + 1].fn = t[n + 1].fn /\ r[n + 1].fi = t[n + 1].fi
      BY <1>1
    <2> QED
      BY <1>1, <2>1, <2>2, <2>3
  <1>4. Swept(r)
    BY <1>1, <1>3 DEF Swept
  <1> QED
    BY <1>4 DEF r

LEMMA SweptChildren ==
    ASSUME NEW s \in Seq(Frames), NEW f \in Frames, NEW g \in Frames, NEW h \in Frames,
           g.fn = "term", f.fn = "term", g.fi = f.fi, h.fn = "children", h.fi = f.fi,
           Swept(Append(s, f))
    PROVE  Swept(Append(Append(s, g), h))
  <1> DEFINE t == Append(s, f)
             r == Append(s, g)
             q == Append(r, h)
  <1>1. /\ DOMAIN t = DOMAIN s \cup {Len(s) + 1} /\ t[Len(s) + 1] = f
        /\ DOMAIN r = DOMAIN s \cup {Len(s) + 1} /\ r[Len(s) + 1] = g
        /\ Len(s) \in Nat /\ DOMAIN s = 1..Len(s)
        /\ \A n \in DOMAIN s : t[n] = s[n] /\ r[n] = s[n]
        /\ r \in Seq(Frames)
    BY PushIs
  <1>2. Swept(t)
    OBVIOUS
  <1>3. Len(r) = Len(s) + 1 /\ Len(t) = Len(s) + 1
    OBVIOUS
  <1> HIDE DEF t, r
  <1>4. /\ DOMAIN q = DOMAIN s \cup {Len(s) + 1, Len(s) + 2}
        /\ q[Len(s) + 1] = g /\ q[Len(s) + 2] = h /\ \A n \in DOMAIN s : q[n] = s[n]
    BY <1>1, <1>3
  <1> HIDE DEF q
  <1>5. ASSUME NEW n \in DOMAIN s, Cleaning(q[n])
        PROVE \/ n = Len(q) /\ Settled(q[n].fi)
              \/ n + 1 \in DOMAIN q /\ q[n + 1].fn = "children" /\ q[n + 1].fi = q[n].fi
    <2>1. Cleaning(t[n]) /\ n \in DOMAIN t /\ t[n] = q[n]
      BY <1>1, <1>4, <1>5
    <2>2. \/ n = Len(t) /\ Settled(t[n].fi)
          \/ n + 1 \in DOMAIN t /\ t[n + 1].fn = "children" /\ t[n + 1].fi = t[n].fi
      BY <1>2, <2>1 DEF Swept
    <2>3. n + 1 \in DOMAIN t => q[n + 1].fn = t[n + 1].fn /\ q[n + 1].fi = t[n + 1].fi
      BY <1>1, <1>4
    <2> QED
      BY <1>1, <1>3, <1>4, <2>1, <2>2, <2>3
  <1>6. /\ (Len(s) + 1) + 1 \in DOMAIN q
        /\ q[(Len(s) + 1) + 1].fn = "children" /\ q[(Len(s) + 1) + 1].fi = q[Len(s) + 1].fi
    BY <1>1, <1>4
  <1>7. ~Cleaning(q[Len(s) + 2])
    BY <1>4 DEF Cleaning
  <1>8. Swept(q)
    BY <1>4, <1>5, <1>6, <1>7 DEF Swept
  <1> QED
    BY <1>8 DEF q, r

(* Steps that change the instances.                                         *)
LEMMA SweptBare ==
    ASSUME NEW s \in Seq(Frames), Bare(s), Swept(s)
    PROVE  Swept(s)'
  BY DEF Bare, Swept

LEMMA SweptKept ==
    ASSUME NEW s \in Seq(Frames), Swept(s), \A i \in Insts : Settled(i) => Settled(i)'
    PROVE  Swept(s)'
  <1>1. \A n \in DOMAIN s : s[n] \in Frames
    OBVIOUS
  <1>2. \A n \in DOMAIN s : s[n].fi \in Insts
    BY <1>1 DEF Frames
  <1> QED
    BY <1>2 DEF Swept

(* A step that changes only the stack.                                      *)
LEMMA FinStep ==
    ASSUME Inv, Fin, inst' = inst, NEW s \in Seq(Frames), Swept(s), stack' = s
    PROVE  Fin'
  BY DEF Fin, Finished, Swept, Live, Off, Settled, Kids

LEMMA SweptCallback ==
    ASSUME Inv, NEW s \in Seq(Frames), Bare(s), NEW i \in Insts, NEW cb \in Callbacks
    PROVE  /\ Append(s, Callback(cb, i)) \in Seq(Frames)
           /\ Swept(s) => Swept(Append(s, Callback(cb, i)))
           /\ Swept(s)' => Swept(Append(s, Callback(cb, i)))'
  <1>1. PICK h : h = Callback(cb, i)
    OBVIOUS
  <1>2. h \in Frames /\ h.fn = "user"
    BY <1>1, CallbackIs
  <1>3. ~Cleaning(h)
    BY <1>2 DEF Cleaning
  <1>4. /\ Append(s, h) \in Seq(Frames)
        /\ Swept(s) => Swept(Append(s, h))
        /\ Swept(s)' => Swept(Append(s, h))'
    BY <1>2, <1>3, PushIs, SweptPush
  <1> QED
    BY <1>1, <1>4

LEMMA SweptDispatched ==
    ASSUME Inv, NEW s \in Seq(Frames), NEW i \in Insts, NEW r \in Dispatched(i, s), Swept(s), Bare(s)
    PROVE  r \in Seq(Frames) /\ Swept(r)
  <1>1. r = s \/ r = Append(s, Callback("action", i))
    BY DEF Dispatched
  <1> QED
    BY <1>1, SweptCallback DEF Callbacks

LEMMA TermChildrenFin == ASSUME Inv, Fin, TermChildren PROVE Fin'
  <1>1. stack # <<>>
    BY DEF TermChildren, Running
  <1>2. PICK b \in Seq(Frames), f \in Frames : stack = Append(b, f) /\ b = Below /\ f = Top
    BY <1>1, Split
  <1>3. f.fn = "term"
    BY <1>2 DEF TermChildren, Running
  <1>4. PICK g, h : g = [f EXCEPT !.at = "cleanup"] /\ h = Frame("children", f.fi, "loop")
    OBVIOUS
  <1>5. g \in Frames /\ g.fn = "term" /\ g.fi = f.fi /\ f.fi \in Insts
    BY <1>3, <1>4 DEF Frames, Places
  <1>6. h \in Frames /\ h.fn = "children" /\ h.fi = f.fi
    BY <1>4, <1>5, FrameIs DEF FnNames, Places
  <1>7. PICK r : r = Append(Append(b, g), h)
    OBVIOUS
  <1>8. r \in Seq(Frames) /\ Swept(r)
    BY <1>2, <1>3, <1>5, <1>6, <1>7, PushIs, SweptChildren DEF Fin
  <1>9. stack' = r /\ inst' = inst
    BY <1>2, <1>4, <1>7 DEF TermChildren, Continue
  <1> QED
    BY <1>8, <1>9, FinStep

LEMMA UserReturnFin == ASSUME Inv, Fin, UserReturn PROVE Fin'
  <1>1. stack # <<>>
    BY DEF UserReturn
  <1>2. PICK b \in Seq(Frames), f \in Frames : stack = Append(b, f) /\ b = Below /\ f = Top
    BY <1>1, Split
  <1>3. f.fn = "user" /\ stack' = b /\ inst' = inst
    BY <1>2 DEF UserReturn, InUser
  <1>4. Swept(b)
    BY <1>2, <1>3, SweptPop DEF Fin
  <1> QED
    BY <1>3, <1>4, FinStep

LEMMA UserDispatchFin == ASSUME Inv, Fin, NEW i \in Known, UserDispatch(i) PROVE Fin'
  <1>1. PICK t, r : t = stack /\ r = stack'
    OBVIOUS
  <1>2. t \in Seq(Frames) /\ Swept(t) /\ Bare(t) /\ i \in Insts
    BY <1>1, BareInUser DEF Fin, Inv, Types, Known, UserDispatch, MayCall
  <1>3. r \in Dispatched(i, t) /\ inst' = inst
    BY <1>1 DEF UserDispatch
  <1>4. r \in Seq(Frames) /\ Swept(r)
    BY <1>2, <1>3, SweptDispatched
  <1> QED
    BY <1>1, <1>3, <1>4, FinStep

LEMMA UserTermChildrenFin == ASSUME Inv, Fin, NEW i \in Known, UserTermChildren(i) PROVE Fin'
  <1>1. PICK cause \in {"PARENT", "REGULAR"} :
            stack' = Append(stack, [Frame("children", i, "loop") EXCEPT !.cause = cause])
    BY DEF UserTermChildren
  <1>2. PICK t, e, h : /\ t = stack /\ e = Frame("children", i, "loop")
                       /\ h = [e EXCEPT !.cause = cause]
    OBVIOUS
  <1>3. t \in Seq(Frames) /\ Swept(t) /\ Bare(t) /\ i \in Insts
    BY <1>2, BareInUser DEF Fin, Inv, Types, Known, UserTermChildren, MayCall
  <1>4. e \in Frames /\ e.fn = "children"
    BY <1>2, <1>3, FrameIs DEF FnNames, Places
  <1>5. h \in Frames /\ h.fn = "children"
    BY <1>2, <1>4 DEF Frames
  <1>6. PICK r : r = Append(t, h)
    OBVIOUS
  <1>7. r \in Seq(Frames) /\ Swept(r)
    BY <1>3, <1>5, <1>6, PushIs, SweptPush DEF Cleaning
  <1>8. stack' = r /\ inst' = inst
    BY <1>1, <1>2, <1>6 DEF UserTermChildren
  <1> QED
    BY <1>7, <1>8, FinStep

LEMMA UserBroadcastFin == ASSUME Inv, Fin, NEW i \in Known, UserBroadcast(i) PROVE Fin'
  <1>1. PICK t, c, e, h : /\ t = stack /\ c = Head(inst[i].children)
                          /\ e = Frame("broadcast", i, "loop") /\ h = [e EXCEPT !.child = c]
    OBVIOUS
  <1>2. t \in Seq(Frames) /\ Swept(t) /\ Bare(t) /\ i \in Insts
    BY <1>1, BareInUser DEF Fin, Inv, Types, Known, UserBroadcast, MayCall
  <1>3. inst[i].children \in Seq(Insts) /\ inst[i].children # <<>>
    BY <1>2 DEF UserBroadcast, Inv, Types, Instances
  <1>4. c \in Insts
    BY <1>1, <1>3
  <1>5. e \in Frames /\ e.fn = "broadcast"
    BY <1>1, <1>2, FrameIs DEF FnNames, Places
  <1>6. h \in Frames /\ h.fn = "broadcast"
    BY <1>1, <1>4, <1>5 DEF Frames
  <1>7. PICK r : r = Append(t, h)
    OBVIOUS
  <1>8. r \in Seq(Frames) /\ Swept(r)
    BY <1>2, <1>6, <1>7, PushIs, SweptPush DEF Cleaning
  <1>9. stack' = r /\ inst' = inst
    BY <1>1, <1>7 DEF UserBroadcast
  <1> QED
    BY <1>8, <1>9, FinStep

LEMMA BroadcastLoopFin == ASSUME Inv, Fin, BroadcastLoop PROVE Fin'
  <1>1. stack # <<>>
    BY DEF BroadcastLoop, Running
  <1>2. PICK b \in Seq(Frames), f \in Frames :
            stack = Append(b, f) /\ b = Below /\ f = Top /\ FrameOk(f)
    BY <1>1, Split
  <1>3. f.fn = "broadcast" /\ inst' = inst
    BY <1>2 DEF BroadcastLoop, Running
  <1>4. f.fi \in Insts /\ f.child \in Insts \cup {None} /\ Live(f.fi)
    BY <1>2, <1>3 DEF Frames, FrameOk
  <1>5. CASE f.child = None
    <2>1. stack' = b
      BY <1>2, <1>5 DEF BroadcastLoop
    <2>2. Swept(b)
      BY <1>2, <1>3, SweptPop DEF Fin
    <2> QED
      BY <1>3, <2>1, <2>2, FinStep
  <1>6. CASE f.child # None
    <2>1. PICK c, g, s, r : /\ c = Successor(f.fi, f.child) /\ g = [f EXCEPT !.child = c]
                            /\ s = Append(b, g) /\ r = stack'
      OBVIOUS
    <2>2. c = None \/ c \in Insts
      BY <1>4, <2>1 DEF Successor, Inv, Types, Instances
    <2>3. g \in Frames /\ g.fn = "broadcast" /\ g.fi = f.fi
      BY <1>3, <2>1, <2>2 DEF Frames
    <2>4. s \in Seq(Frames) /\ Swept(s) /\ Bare(s)
      BY <1>2, <1>3, <2>1, <2>3, PushIs, SweptOn, SweptPop, SweptPush DEF Fin, Cleaning
    <2>5. r \in Dispatched(f.child, s)
      BY <1>2, <1>6, <2>1 DEF BroadcastLoop
    <2>6. r \in Seq(Frames) /\ Swept(r)
      BY <1>4, <1>6, <2>4, <2>5, SweptDispatched
    <2> QED
      BY <1>3, <2>1, <2>6, FinStep
  <1> QED
    BY <1>5, <1>6

LEMMA TermFin ==
    ASSUME Inv, Fin, NEW s \in Seq(Frames), Swept(s), Bare(s), Good(s),
           NEW i \in Insts, NEW cause \in Causes, Term(i, cause, s)
    PROVE  Fin'
  <1>1. CASE inst[i].terminating
    BY <1>1, FinStep DEF Term
  <1>2. CASE ~inst[i].terminating
    <2>1. PICK e, g, h : /\ e = Frame("term", i, "children") /\ h = Callback("pre_term", i)
                         /\ g = [e EXCEPT !.cause = cause, !.event = inst[i].event]
      OBVIOUS
    <2>2. inst' = [inst EXCEPT ![i].terminating = TRUE] /\ stack' = s \o <<g, h>>
      BY <1>2, <2>1 DEF Term
    <2>3. inst \in [Insts -> Instances]
      BY DEF Inv, Types
    <2>4. e \in Frames /\ e.fn = "term" /\ e.at = "children"
      BY <2>1, FrameIs DEF FnNames, Places
    <2>5. g \in Frames /\ g.at = "children"
      BY <2>1, <2>3, <2>4 DEF Frames, Instances, Causes
    <2>6. h \in Frames
      BY <2>1, CallbackIs DEF Callbacks
    <2>7. \A j \in Insts :
             /\ inst'[j].mem = inst[j].mem /\ inst'[j].cleaned = inst[j].cleaned
             /\ inst'[j].listed = inst[j].listed /\ inst'[j].timer = inst[j].timer
             /\ inst'[j].ctx = inst[j].ctx /\ inst'[j].parent = inst[j].parent
             /\ inst'[j].children = inst[j].children
             /\ inst[j].terminating => inst'[j].terminating
      BY <2>2, <2>3, ZenonT(60) DEF Instances
    <2>8. \A j \in Insts : Settled(j) => Settled(j)'
      BY <2>7, KidsIn DEF Settled, Kids
    <2>9. Swept(s)' /\ Finished'
      BY <2>7, <2>8, SweptKept DEF Fin, Finished, Live, Off
    <2>10. PICK r, q : r = Append(s, g) /\ q = Append(r, h)
      OBVIOUS
    <2>11. r \in Seq(Frames) /\ Swept(r)' /\ Bare(r)
      BY <2>5, <2>9, <2>10, PushIs, SweptPush DEF Cleaning
    <2>12. Swept(q)'
      BY <2>1, <2>10, <2>11, SweptCallback DEF Callbacks
    <2>13. stack' = q
      BY <2>2, <2>5, <2>6, <2>10, PushTwo
    <2> QED
      BY <2>9, <2>12, <2>13 DEF Fin, Swept
  <1> QED
    BY <1>1, <1>2

LEMMA UserTermFin == ASSUME Inv, Fin, NEW i \in Known, UserTerm(i) PROVE Fin'
  <1>1. PICK t : t = stack
    OBVIOUS
  <1>2. t \in Seq(Frames) /\ Swept(t) /\ Bare(t) /\ Good(t) /\ i \in Insts
        /\ Term(i, "REGULAR", t)
    BY <1>1, BareInUser DEF Fin, Inv, Types, Known, UserTerm, MayCall
  <1> QED
    BY <1>2, TermFin DEF Causes

LEMMA TimerCbTermFin == ASSUME Inv, Fin, TimerCbTerm PROVE Fin'
  <1>1. stack # <<>>
    BY DEF TimerCbTerm, Running
  <1>2. PICK b \in Seq(Frames), f \in Frames :
            stack = Append(b, f) /\ b = Below /\ f = Top /\ Good(b)
    BY <1>1, Split
  <1>3. f.fn = "user" /\ f.fi \in Insts /\ Term(f.fi, "TIMEOUT", b)
    BY <1>2 DEF TimerCbTerm, Running, Known
  <1>4. Swept(b) /\ Bare(b)
    BY <1>2, <1>3, SweptPop DEF Fin
  <1> QED
    BY <1>2, <1>3, <1>4, TermFin DEF Causes

LEMMA ChildrenLoopFin == ASSUME Inv, Fin, ChildrenLoop, NoChildForgotten PROVE Fin'
  <1>1. stack # <<>> /\ Running("children", "loop")
    BY DEF ChildrenLoop, Running
  <1>2. PICK b \in Seq(Frames), f \in Frames :
            stack = Append(b, f) /\ b = Below /\ f = Top /\ Good(b) /\ FrameOk(f)
    BY <1>1, Split
  <1>3. f.fn = "children" /\ f.fi \in Insts /\ Live(f.fi) /\ f.cause \in Causes
    BY <1>1, <1>2 DEF Running, Frames, FrameOk, Causes
  <1>4. CASE LoopEnds
    <2>1. stack' = b /\ inst' = inst
      BY <1>2, <1>4 DEF ChildrenLoop
    <2>2. Settled(f.fi)
      BY <1>1, <1>2, <1>4 DEF NoChildForgotten
    <2>3. Swept(b)
      BY <1>2, <2>2, SweptPop DEF Fin
    <2> QED
      BY <2>1, <2>3, FinStep
  <1>5. CASE ~LoopEnds
    <2>1. PICK c, g, s : /\ c = Head(inst[f.fi].children) /\ g = [f EXCEPT !.child = c]
                         /\ s = Append(b, g)
      OBVIOUS
    <2>2. inst[f.fi].children \in Seq(Insts) /\ inst[f.fi].children # <<>>
      BY <1>2, <1>3, <1>5 DEF LoopEnds, Inv, Types, Instances
    <2>3. c \in Insts
      BY <2>1, <2>2
    <2>4. g \in Frames /\ g.fn = "children" /\ g.fi = f.fi
      BY <1>3, <2>1, <2>3 DEF Frames
    <2>5. s \in Seq(Frames) /\ Swept(s) /\ Bare(s) /\ Good(s)
      <3>1. FrameOk(g)
        BY <1>3, <2>4 DEF FrameOk
      <3>2. Bare(s)
        <4>1. s[Len(b) + 1] = g /\ Len(s) = Len(b) + 1
          BY <1>2, <2>1, <2>4, PushIs
        <4> QED
          BY <2>4, <4>1 DEF Bare, Cleaning
      <3> QED
        BY <1>2, <1>3, <2>1, <2>4, <3>1, <3>2, PushIs, GoodPush, SweptOn DEF Fin, Cleaning
    <2>6. Term(c, f.cause, s)
      BY <1>2, <1>5, <2>1 DEF ChildrenLoop
    <2> QED
      BY <1>3, <2>3, <2>5, <2>6, TermFin
  <1> QED
    BY <1>4, <1>5

(* A timer is deleted, or armed of an instance that is not terminating.     *)
LEMMA TimerFin ==
    ASSUME Inv, Fin, NEW i \in Insts, NEW on \in BOOLEAN,
           inst' = [inst EXCEPT ![i].timer = on],
           on => inst[i].timer \/ (Live(i) /\ ~inst[i].terminating),
           NEW s \in Seq(Frames), Swept(s), Good(s), stack' = s
    PROVE  Fin'
  <1>1. inst \in [Insts -> Instances]
    BY DEF Inv, Types
  <1>2. /\ inst'[i].timer = on
        /\ \A j \in Insts \ {i} : inst'[j].timer = inst[j].timer
        /\ \A j \in Insts :
             /\ inst'[j].mem = inst[j].mem /\ inst'[j].cleaned = inst[j].cleaned
             /\ inst'[j].listed = inst[j].listed
             /\ inst'[j].ctx = inst[j].ctx /\ inst'[j].parent = inst[j].parent
             /\ inst'[j].children = inst[j].children
             /\ inst'[j].terminating = inst[j].terminating
    BY <1>1 DEF Instances
  <1>3. inst[i].ctx \in {"collect", "dealloc"} => inst[i].terminating
    BY DEF Inv, Deferred, Fin, Finished
  <1>4. \A j \in Insts : Settled(j) => Settled(j)'
    BY <1>2, KidsIn DEF Settled, Kids
  <1>5. Finished' /\ Swept(s)'
    BY <1>2, <1>3, <1>4, SweptKept DEF Fin, Finished, Live, Off
  <1> QED
    BY <1>5 DEF Fin, Swept

LEMMA StateChgEnterFin == ASSUME Inv, Fin, StateChgEnter, NoTimerAfterEnd PROVE Fin'
  <1>1. stack # <<>>
    BY DEF StateChgEnter, Running
  <1>2. PICK b \in Seq(Frames), f \in Frames :
            stack = Append(b, f) /\ b = Below /\ f = Top /\ Good(b) /\ FrameOk(f)
    BY <1>1, Split
  <1>3. /\ f.fn = "state_chg" /\ f.fi \in Insts
        /\ inst' = [inst EXCEPT ![f.fi].timer = @ \/ f.at = "timed"]
        /\ f.at = "timed" => ~inst[f.fi].terminating
    BY <1>2 DEF StateChgEnter, Running, Frames, NoTimerAfterEnd
  <1>4. PICK h, s : h = Callback("onenter", f.fi) /\ s = Append(b, h)
    OBVIOUS
  <1>5. Swept(b) /\ Bare(b)
    BY <1>2, <1>3, SweptPop DEF Fin
  <1>6. s \in Seq(Frames) /\ Swept(s)
    BY <1>3, <1>4, <1>5, SweptCallback DEF Callbacks
  <1>7. Good(s)
    BY <1>2, <1>3, <1>4, CallbackIs, GoodPush DEF Callbacks
  <1>8. stack' = s
    BY <1>2, <1>4 DEF StateChgEnter
  <1>9. PICK on \in BOOLEAN : on = (inst[f.fi].timer \/ f.at = "timed")
    OBVIOUS
  <1>10. inst' = [inst EXCEPT ![f.fi].timer = on]
    BY <1>3, <1>9
  <1>11. on => inst[f.fi].timer \/ (Live(f.fi) /\ ~inst[f.fi].terminating)
    BY <1>2, <1>3, <1>9 DEF FrameOk
  <1> QED
    BY <1>3, <1>6, <1>7, <1>8, <1>10, <1>11, TimerFin

LEMMA TimerExpiryFin == ASSUME Inv, Fin, NEW i \in Insts, TimerExpiry(i) PROVE Fin'
  <1>1. stack = <<>> /\ inst' = [inst EXCEPT ![i].timer = FALSE]
    BY DEF TimerExpiry
  <1>2. PICK t, h, s : t = stack /\ h = Callback("timer_cb", i) /\ s = Append(t, h)
    OBVIOUS
  <1>3. t \in Seq(Frames) /\ Swept(t) /\ Bare(t) /\ Good(t)
    BY <1>1, <1>2, BareInUser DEF Inv, Types, Fin, InUser
  <1>4. s \in Seq(Frames) /\ Swept(s)
    BY <1>2, <1>3, SweptCallback DEF Callbacks
  <1>5. Good(s)
    BY <1>2, <1>3, CallbackIs, GoodPush DEF Callbacks
  <1>6. stack' = s
    BY <1>1, <1>2 DEF TimerExpiry
  <1> QED
    BY <1>1, <1>4, <1>5, <1>6, TimerFin

LEMMA UserStateChgFin == ASSUME Inv, Fin, NEW i \in Known, UserStateChg(i) PROVE Fin'
  <1>1. i \in Insts /\ Live(i)
    BY DEF Known
  <1>2. PICK keep \in BOOLEAN, at \in {"timed", "untimed"} :
            /\ inst' = [inst EXCEPT ![i].timer = @ /\ keep]
            /\ stack' = stack \o <<Frame("state_chg", i, at), Callback("onleave", i)>>
    BY DEF UserStateChg
  <1>3. PICK t, g, h : t = stack /\ g = Frame("state_chg", i, at) /\ h = Callback("onleave", i)
    OBVIOUS
  <1>4. t \in Seq(Frames) /\ Swept(t) /\ Bare(t) /\ Good(t)
    BY <1>3, BareInUser DEF Inv, Types, Fin, UserStateChg, MayCall
  <1>5. g \in Frames /\ g.fn = "state_chg" /\ g.fi = i
    BY <1>1, <1>2, <1>3, FrameIs DEF FnNames, Places
  <1>6. h \in Frames /\ FrameOk(h)
    BY <1>1, <1>3, CallbackIs DEF Callbacks
  <1>7. FrameOk(g)
    BY <1>1, <1>5 DEF FrameOk
  <1>8. PICK s, r : s = Append(t, g) /\ r = Append(s, h)
    OBVIOUS
  <1>9. s \in Seq(Frames) /\ Swept(s) /\ Bare(s) /\ Good(s)
    BY <1>4, <1>5, <1>7, <1>8, PushIs, GoodPush, SweptPush DEF Cleaning
  <1>10. r \in Seq(Frames) /\ Swept(r) /\ Good(r)
    BY <1>1, <1>3, <1>6, <1>8, <1>9, SweptCallback, GoodPush DEF Callbacks
  <1>11. stack' = r
    BY <1>2, <1>3, <1>4, <1>5, <1>6, <1>8, PushTwo
  <1>12. PICK on \in BOOLEAN : on = (inst[i].timer /\ keep)
    OBVIOUS
  <1>13. inst' = [inst EXCEPT ![i].timer = on]
    BY <1>2, <1>12
  <1> QED
    BY <1>1, <1>10, <1>11, <1>12, <1>13, TimerFin

-----------------------------------------------------------------------------
(* Children leave their parents, instances are allocated *)

LEMMA WithoutWithin ==
    ASSUME NEW s \in Seq(Insts), NEW i
    PROVE  \A n \in DOMAIN Without(s, i) : \E m \in DOMAIN s : Without(s, i)[n] = s[m]
  <1>1. CASE ~\E n \in DOMAIN s : s[n] = i
    BY <1>1 DEF Without
  <1>2. CASE \E n \in DOMAIN s : s[n] = i
    <2>1. PICK k \in DOMAIN s : k = CHOOSE n \in DOMAIN s : s[n] = i
      BY <1>2
    <2>2. Without(s, i) = SubSeq(s, 1, k - 1) \o SubSeq(s, k + 1, Len(s))
      BY <1>2, <2>1 DEF Without, RemoveAt
    <2>3. k \in 1..Len(s) /\ Len(s) \in Nat
      BY <2>1
    <2> DEFINE r == Without(s, i)
    <2>4. /\ r \in Seq(Insts) /\ DOMAIN r = 1..(Len(s) - 1)
          /\ \A n \in 1..(Len(s) - 1) : r[n] = IF n < k THEN s[n] ELSE s[n + 1]
      BY <2>2, <2>3, SMTT(30)
    <2> HIDE DEF r
    <2>5. ASSUME NEW n \in DOMAIN r PROVE \E m \in DOMAIN s : r[n] = s[m]
      BY <2>3, <2>4
    <2> QED
      BY <2>5 DEF r
  <1> QED
    BY <1>1, <1>2

(* i leaves the list of its parent.                                         *)
LeavesQuietly(i) ==
    \A j \in Insts :
       /\ inst'[j].mem = inst[j].mem
       /\ inst'[j].listed = inst[j].listed /\ inst'[j].timer = inst[j].timer
       /\ inst'[j].terminating = inst[j].terminating
       /\ inst'[j].children = inst[j].children \/ inst'[j].children = Without(inst[j].children, i)
       /\ \/ inst'[j].ctx = inst[j].ctx /\ inst'[j].parent = inst[j].parent
          \/ inst'[j].ctx = "program"
       /\ \/ inst'[j].cleaned = inst[j].cleaned
          \/ inst'[j].cleaned /\ inst[j].terminating /\ Settled(j)

LEMMA LeavesFin ==
    ASSUME Inv, Fin, NEW i, LeavesQuietly(i), NEW s \in Seq(Frames), Swept(s)
    PROVE  Finished' /\ Swept(s)'
  <1>1. \A j \in Insts : Settled(j) => Settled(j)'
    <2> SUFFICES ASSUME NEW j \in Insts, Settled(j), NEW c \in Kids(j)'
                 PROVE  inst'[c].terminating
      BY DEF Settled
    <2>1. inst[j].children \in Seq(Insts)
      BY DEF Inv, Types, Instances
    <2>2. PICK n \in DOMAIN inst'[j].children : c = inst'[j].children[n]
      BY DEF Kids
    <2>3. \E m \in DOMAIN inst[j].children : c = inst[j].children[m]
      <3>1. PICK q, r : q = inst[j].children /\ r = inst'[j].children
        OBVIOUS
      <3>2. r = q \/ r = Without(q, i)
        BY <3>1 DEF LeavesQuietly
      <3>3. q \in Seq(Insts) /\ n \in DOMAIN r /\ c = r[n]
        BY <2>1, <2>2, <3>1
      <3>4. \E m \in DOMAIN q : c = q[m]
        BY <3>2, <3>3, WithoutWithin
      <3> QED
        BY <3>1, <3>4
    <2>4. c \in Kids(j) /\ c \in Insts
      BY <2>3, KidsIn DEF Kids
    <2> QED
      BY <2>4 DEF Settled, LeavesQuietly
  <1>2. Swept(s)'
    BY <1>1, SweptKept
  <1>3. "program" \notin Insts
    BY FsmAssumption
  <1>4. ASSUME NEW j \in Insts
        PROVE  /\ inst'[j].mem = "freed" => inst'[j].cleaned /\ Off(j)'
               /\ Live(j)' /\ inst'[j].ctx \in {"collect", "dealloc"} => Off(j)'
               /\ Live(j)' /\ inst'[j].cleaned => Settled(j)'
               /\ Live(j)' /\ inst'[j].ctx \in Insts => inst'[j].parent = inst'[j].ctx
               /\ inst'[j].cleaned => inst'[j].terminating
    <2>1. /\ inst'[j].mem = inst[j].mem /\ (Live(j)' <=> Live(j)) /\ (Off(j)' <=> Off(j))
          /\ inst'[j].terminating = inst[j].terminating
          /\ \/ inst'[j].ctx = inst[j].ctx /\ inst'[j].parent = inst[j].parent
             \/ inst'[j].ctx = "program"
          /\ \/ inst'[j].cleaned = inst[j].cleaned
             \/ inst'[j].cleaned /\ inst[j].terminating /\ Settled(j)
      BY DEF LeavesQuietly, Live, Off
    <2>2. /\ inst[j].mem = "freed" => inst[j].cleaned /\ Off(j)
          /\ Live(j) /\ inst[j].ctx \in {"collect", "dealloc"} => Off(j)
          /\ Live(j) /\ inst[j].cleaned => Settled(j)
          /\ Live(j) /\ inst[j].ctx \in Insts => inst[j].parent = inst[j].ctx
          /\ inst[j].cleaned => inst[j].terminating
      BY DEF Fin, Finished
    <2> QED
      BY <1>1, <1>3, <2>1, <2>2
  <1>5. Finished'
    BY <1>4 DEF Finished
  <1> QED
    BY <1>2, <1>5

LEMMA TermCleanupFin == ASSUME Inv, Fin, TermCleanup PROVE Fin'
  <1>1. stack # <<>>
    BY DEF TermCleanup, Running
  <1>2. PICK b \in Seq(Frames), f \in Frames :
            stack = Append(b, f) /\ b = Below /\ f = Top /\ FrameOk(f)
    BY <1>1, Split
  <1>3. f.fn = "term" /\ f.at = "cleanup"
    BY <1>2 DEF TermCleanup, Running
  <1>4. PICK i, p, off : /\ i = f.fi /\ p = inst[i].parent
                         /\ off = IF p = None THEN inst
                                  ELSE [inst EXCEPT ![p].children = Without(@, i)]
    OBVIOUS
  <1>5. inst' = [off EXCEPT ![i].cleaned = TRUE]
    BY <1>2, <1>4 DEF TermCleanup
  <1>6. inst \in [Insts -> Instances] /\ i \in Insts /\ inst[i].terminating
    BY <1>2, <1>3, <1>4 DEF Inv, Types, FrameOk, Frames
  <1>7. p \in Insts \cup {None}
    BY <1>4, <1>6 DEF Instances
  <1>8. Settled(i)
    <2>1. /\ Len(b) + 1 \in DOMAIN stack /\ stack[Len(b) + 1] = f
          /\ DOMAIN stack = DOMAIN b \cup {Len(b) + 1}
          /\ Len(b) \in Nat /\ DOMAIN b = 1..Len(b)
      BY <1>2, PushIs
    <2>2. (Len(b) + 1) + 1 \notin DOMAIN stack
      BY <2>1
    <2> QED
      BY <1>3, <1>4, <2>1, <2>2 DEF Fin, Swept, Cleaning
  <1>9. DOMAIN off = Insts /\ \A j \in Insts :
             /\ off[j].mem = inst[j].mem /\ off[j].cleaned = inst[j].cleaned
             /\ off[j].listed = inst[j].listed /\ off[j].timer = inst[j].timer
             /\ off[j].ctx = inst[j].ctx /\ off[j].parent = inst[j].parent
             /\ off[j].terminating = inst[j].terminating
             /\ \/ off[j].children = inst[j].children
                \/ off[j].children = Without(inst[j].children, i)
             /\ DOMAIN off[j] = DOMAIN inst[j]
    <2>1. CASE p = None
      BY <1>4, <1>6, <2>1
    <2>2. CASE p # None
      <3>1. p \in Insts /\ off = [inst EXCEPT ![p].children = Without(@, i)]
        BY <1>4, <1>7, <2>2
      <3>2. PICK k : k = [inst[p] EXCEPT !.children = Without(inst[p].children, i)]
        OBVIOUS
      <3>3. inst[p] \in Instances
        BY <1>6, <3>1
      <3>4. /\ k.mem = inst[p].mem /\ k.cleaned = inst[p].cleaned
            /\ k.listed = inst[p].listed /\ k.timer = inst[p].timer
            /\ k.ctx = inst[p].ctx /\ k.parent = inst[p].parent
            /\ k.terminating = inst[p].terminating
            /\ k.children = Without(inst[p].children, i) /\ DOMAIN k = DOMAIN inst[p]
        BY <3>2, <3>3 DEF Instances
      <3>5. \A j \in Insts : off[j] = IF j = p THEN k ELSE inst[j]
        BY <1>6, <3>1, <3>2
      <3> QED
        BY <1>6, <3>1, <3>4, <3>5
    <2> QED
      BY <2>1, <2>2
  <1>10. LeavesQuietly(i)
    <2>1. PICK c : c = [off[i] EXCEPT !.cleaned = TRUE]
      OBVIOUS
    <2>2. \A j \in Insts : inst'[j] = IF j = i THEN c ELSE off[j]
      BY <1>5, <1>6, <1>9, <2>1
    <2>3. /\ c.mem = off[i].mem /\ c.cleaned
          /\ c.listed = off[i].listed /\ c.timer = off[i].timer
          /\ c.ctx = off[i].ctx /\ c.parent = off[i].parent
          /\ c.terminating = off[i].terminating /\ c.children = off[i].children
      <3>1. DOMAIN off[i] = {"mem", "ctx", "parent", "event", "children", "listed",
                             "terminating", "cleaned", "timer"}
        BY <1>6, <1>9 DEF Instances
      <3> QED
        BY <2>1, <3>1
    <2> QED
      BY <1>6, <1>8, <1>9, <2>2, <2>3 DEF LeavesQuietly
  <1>11. PICK g, s, r : /\ g = [f EXCEPT !.at = "notify"] /\ s = Append(b, g)
                        /\ r = Append(s, Callback("cleanup", i))
    OBVIOUS
  <1>12. g \in Frames /\ g.fn = "term" /\ g.fi = i /\ g.at = "notify"
    BY <1>3, <1>4, <1>11 DEF Frames, Places
  <1>13. s \in Seq(Frames) /\ Swept(s) /\ Bare(s)
    BY <1>2, <1>3, <1>4, <1>11, <1>12, PushIs, SweptOn, SweptPop, SweptPush DEF Fin, Cleaning
  <1>14. r \in Seq(Frames) /\ Swept(r)
    BY <1>6, <1>11, <1>13, SweptCallback DEF Callbacks
  <1>15. Finished' /\ Swept(r)'
    BY <1>10, <1>14, LeavesFin
  <1>16. stack' = r
    BY <1>2, <1>4, <1>11 DEF TermCleanup, Continue
  <1> QED
    BY <1>15, <1>16 DEF Fin, Swept

LEMMA UserUnlinkParentFin == ASSUME Inv, Fin, NEW i \in Known, UserUnlinkParent(i) PROVE Fin'
  <1>1. i \in Insts /\ Live(i) /\ ~inst[i].cleaned
    BY DEF Known
  <1>2. inst' = Unlinked(i, "program") /\ stack' = stack
    BY DEF UserUnlinkParent
  <1>3. PICK p : p = inst[i].parent
    OBVIOUS
  <1>4. inst \in [Insts -> Instances]
    BY DEF Inv, Types
  <1>5. p \in Insts \cup {None}
    BY <1>1, <1>3, <1>4 DEF Instances
  <1>6. PICK t : t = stack
    OBVIOUS
  <1>7. t \in Seq(Frames) /\ Swept(t) /\ stack' = t
    BY <1>2, <1>6 DEF Fin, Inv, Types
  <1>8. CASE p = None
    <2>1. inst' = inst
      BY <1>2, <1>3, <1>8 DEF Unlinked
    <2> QED
      BY <1>7, <2>1, FinStep
  <1>9. CASE p # None
    <2>1. inst' = [inst EXCEPT ![i].ctx = "program", ![i].parent = None, ![i].event = 0,
                               ![p].children = Without(@, i)]
      BY <1>2, <1>3, <1>9 DEF Unlinked
    <2>2. PICK new, one : /\ new = [inst[i] EXCEPT !.ctx = "program", !.parent = None, !.event = 0]
                          /\ one = [inst EXCEPT ![i] = new]
      OBVIOUS
    <2>3. /\ new.ctx = "program" /\ new.mem = inst[i].mem /\ new.terminating = inst[i].terminating
          /\ new.children = inst[i].children /\ new.cleaned = inst[i].cleaned
          /\ new.listed = inst[i].listed /\ new.timer = inst[i].timer
          /\ DOMAIN new = DOMAIN inst[i]
      BY <1>1, <1>4, <2>2, ZenonT(60) DEF Instances
    <2>4. DOMAIN one = Insts /\ \A j \in Insts : one[j] = IF j = i THEN new ELSE inst[j]
      BY <1>1, <1>4, <2>2
    <2>5. inst' = [one EXCEPT ![p].children = Without(@, i)]
      <3>1. inst' = [[inst EXCEPT ![i].ctx = "program", ![i].parent = None, ![i].event = 0]
                        EXCEPT ![p].children = Without(@, i)]
        BY <2>1
      <3>2. [inst EXCEPT ![i].ctx = "program", ![i].parent = None, ![i].event = 0] = one
        BY <1>1, <1>4, <2>2
      <3> QED
        BY <3>1, <3>2
    <2>6. PICK k : k = [one[p] EXCEPT !.children = Without(one[p].children, i)]
      OBVIOUS
    <2>7. \A j \in Insts : inst'[j] = IF j = p THEN k ELSE one[j]
      BY <1>5, <1>9, <2>4, <2>5, <2>6
    <2>8. /\ k.ctx = one[p].ctx /\ k.mem = one[p].mem /\ k.terminating = one[p].terminating
          /\ k.children = Without(one[p].children, i) /\ k.cleaned = one[p].cleaned
          /\ k.listed = one[p].listed /\ k.timer = one[p].timer /\ k.parent = one[p].parent
      <3>1. DOMAIN one[p] = {"mem", "ctx", "parent", "event", "children", "listed",
                             "terminating", "cleaned", "timer"}
        BY <1>1, <1>4, <1>5, <1>9, <2>3, <2>4 DEF Instances
      <3> QED
        BY <2>6, <3>1
    <2>9. LeavesQuietly(i)
      BY <1>1, <2>3, <2>4, <2>7, <2>8 DEF LeavesQuietly
    <2>10. Finished' /\ Swept(t)'
      BY <1>7, <2>9, LeavesFin
    <2> QED
      BY <1>7, <2>10 DEF Fin, Swept
  <1> QED
    BY <1>8, <1>9

LEMMA UserAllocFin == ASSUME Inv, Fin, NEW i \in DOMAIN prog.shape, UserAlloc(i) PROVE Fin'
  <1>1. i \in Insts /\ prog.shape[i] \in Insts \cup {None}
    BY FsmAssumption DEF Inv, Types
  <1>2. PICK p : p = prog.shape[i]
    OBVIOUS
  <1>3. PICK ev \in (IF prog.shape[i] = None THEN {0} ELSE prog.events) :
            inst' = [j \in Insts |->
                       IF j = i
                       THEN [Unused EXCEPT !.mem = "live", !.listed = TRUE, !.parent = prog.shape[i],
                               !.event = ev,
                               !.ctx = IF prog.shape[i] = None THEN "program" ELSE prog.shape[i]]
                       ELSE IF j = prog.shape[i] THEN [inst[j] EXCEPT !.children = <<i>> \o @]
                       ELSE inst[j]]
    BY DEF UserAlloc
  <1>4. ~Live(i) /\ (p # None => p \in Known) /\ stack' = stack
    BY <1>2 DEF UserAlloc
  <1>5. inst \in [Insts -> Instances]
    BY DEF Inv, Types
  <1>6. PICK new, cx, k : /\ cx = (IF p = None THEN "program" ELSE p)
                          /\ new = [Unused EXCEPT !.mem = "live", !.listed = TRUE, !.parent = p,
                                                  !.event = ev, !.ctx = cx]
                          /\ k = [inst[p] EXCEPT !.children = <<i>> \o inst[p].children]
    OBVIOUS
  <1>7. /\ new.mem = "live" /\ new.parent = p /\ new.children = <<>>
        /\ new.ctx = cx /\ ~new.cleaned
    BY <1>6 DEF Unused
  <1>8. \A j \in Insts : inst'[j] = IF j = i THEN new ELSE IF j = p THEN k ELSE inst[j]
    BY <1>2, <1>3, <1>6
  <1>9. p \in Insts => /\ k.mem = inst[p].mem /\ k.ctx = inst[p].ctx /\ k.parent = inst[p].parent
                       /\ k.listed = inst[p].listed /\ k.timer = inst[p].timer
                       /\ k.cleaned = inst[p].cleaned /\ k.terminating = inst[p].terminating
    BY <1>5, <1>6 DEF Instances
  <1>10. /\ p \in Insts => p \in Known
         /\ None \notin Insts /\ {"program", "collect", "dealloc"} \cap Insts = {}
    BY <1>4, FsmAssumption
  <1>kids. ASSUME NEW j \in Insts, j # i, j # p, Live(j), Settled(j) PROVE Settled(j)'
    <2> SUFFICES ASSUME NEW c \in Kids(j)' PROVE inst'[c].terminating
      BY DEF Settled
    <2>1. c \in Kids(j)
      BY <1>8, <1>kids DEF Kids
    <2>2. c \in Insts /\ Live(c) /\ inst[c].terminating
      BY <1>kids, <2>1, KidsIn DEF Settled, Inv, Down
    <2>3. c # i
      BY <1>4, <2>2
    <2> QED
      BY <1>8, <1>9, <2>2, <2>3
  <1>11. ASSUME NEW j \in Insts
         PROVE  /\ inst'[j].mem = "freed" => inst'[j].cleaned /\ Off(j)'
                /\ Live(j)' /\ inst'[j].ctx \in {"collect", "dealloc"} => Off(j)'
                /\ Live(j)' /\ inst'[j].cleaned => Settled(j)'
                /\ Live(j)' /\ inst'[j].ctx \in Insts => inst'[j].parent = inst'[j].ctx
                /\ inst'[j].cleaned => inst'[j].terminating
    <2>1. /\ inst[j].mem = "freed" => inst[j].cleaned /\ Off(j)
          /\ Live(j) /\ inst[j].ctx \in {"collect", "dealloc"} => Off(j)
          /\ Live(j) /\ inst[j].cleaned => Settled(j)
          /\ Live(j) /\ inst[j].ctx \in Insts => inst[j].parent = inst[j].ctx
          /\ inst[j].cleaned => inst[j].terminating
      BY DEF Fin, Finished
    <2>2. CASE j = i
      <3>1. inst'[j] = new
        BY <1>8, <2>2
      <3>2. cx \notin {"collect", "dealloc"} /\ (cx \in Insts => cx = p)
        BY <1>1, <1>2, <1>6, <1>10
      <3> QED
        BY <1>7, <3>1, <3>2
    <2>3. CASE j # i /\ j = p
      <3>1. inst'[j] = k /\ ~inst[j].cleaned
        BY <1>8, <1>10, <2>3 DEF Known
      <3> QED
        BY <1>9, <2>1, <2>3, <3>1 DEF Live, Off
    <2>4. CASE j # i /\ j # p
      <3>1. inst'[j] = inst[j]
        BY <1>8, <2>4
      <3> QED
        BY <1>kids, <2>1, <2>4, <3>1 DEF Live, Off
    <2> QED
      BY <2>2, <2>3, <2>4
  <1>12. Finished'
    BY <1>11 DEF Finished
  <1>13. PICK t : t = stack
    OBVIOUS
  <1>14. t \in Seq(Frames) /\ Swept(t) /\ Bare(t) /\ stack' = t
    BY <1>4, <1>13, BareInUser DEF Fin, Inv, Types, UserAlloc, MayCall
  <1>15. Swept(t)'
    BY <1>14, SweptBare
  <1> QED
    BY <1>12, <1>14, <1>15 DEF Fin, Swept

-----------------------------------------------------------------------------
(* Memory is freed *)

(* Whatever hangs on the memory of roots, if these are all that terminates  *)
(* and is not deferred, is finished.                                        *)
LEMMA OwnedFinished ==
    ASSUME Inv, Fin, NEW roots \in SUBSET Insts,
           \A j \in roots : Live(j) /\ inst[j].cleaned,
           \A j \in Insts : Has(stack, j) => j \in roots
    PROVE  \A j \in Owned(roots) : /\ inst[j].cleaned
                                   /\ j \in roots \/ Off(j)
  <1> DEFINE Done == {j \in Insts : Live(j) => /\ inst[j].cleaned
                                               /\ \/ j \in roots
                                                  \/ inst[j].ctx \in {"collect", "dealloc"}}
  <1>1. roots \subseteq Done /\ Done \in SUBSET Insts
    OBVIOUS
  <1>2. ASSUME NEW j \in Insts, Live(j), inst[j].ctx \in Done PROVE j \in Done
    <2>1. PICK k \in Insts : k = inst[j].ctx /\ k = inst[j].parent
      BY <1>2 DEF Fin, Finished
    <2>2. k # None /\ k \notin {"collect", "dealloc"}
      BY FsmAssumption
    <2>3. inst[j].cleaned
      <3> SUFFICES ASSUME ~inst[j].cleaned PROVE FALSE
        OBVIOUS
      <3>1. Live(k) /\ j \in Kids(k)
        BY <1>2, <2>1, <2>2 DEF Inv, Up, Known
      <3>2. inst[j].terminating
        BY <1>2, <2>1, <3>1 DEF Fin, Finished, Settled
      <3>3. Has(stack, j)
        BY <1>2, <3>2 DEF Inv, Deferred
      <3> QED
        BY <3>3
    <2>4. inst[j].terminating
      BY <2>3 DEF Fin, Finished
    <2>5. Has(stack, j)
      BY <1>2, <2>1, <2>2, <2>4 DEF Inv, Deferred
    <2> QED
      BY <2>3, <2>5
  <1>3. Owned(roots) \subseteq Done
    <2>1. \A j \in Insts : Live(j) /\ inst[j]["ctx"] \in Done => j \in Done
      BY <1>2
    <2> HIDE DEF Done
    <2> QED
      BY <1>1, <2>1 DEF Owned, Beneath
  <1>4. \A j \in Owned(roots) : Live(j) /\ j \in Insts
    BY OwnedIs
  <1> QED
    BY <1>3, <1>4 DEF Fin, Finished

LEMMA ClearDeallocCtxFin == ASSUME Inv, Fin, ClearDeallocCtx PROVE Fin'
  <1>1. PICK roots, O : /\ roots = {j \in Insts : Live(j) /\ inst[j].ctx = "dealloc"}
                        /\ O = Owned(roots)
    OBVIOUS
  <1>2. /\ stack = <<>> /\ stack' = stack
        /\ inst' = [j \in Insts |-> IF j \in O THEN [inst[j] EXCEPT !.mem = "freed"] ELSE inst[j]]
    BY <1>1 DEF ClearDeallocCtx
  <1>3. inst \in [Insts -> Instances]
    BY DEF Inv, Types
  <1>4. /\ roots \in SUBSET Insts /\ \A j \in roots : Live(j) /\ inst[j].cleaned /\ Off(j)
        /\ \A j \in Insts : ~Has(stack, j)
    BY <1>1, <1>2 DEF Inv, Deferred, Fin, Finished, Has
  <1>5. \A j \in O : inst[j].cleaned /\ Off(j)
    BY <1>1, <1>4, OwnedFinished
  <1>6. ASSUME NEW j \in Insts
        PROVE  /\ inst'[j].parent = inst[j].parent /\ inst'[j].children = inst[j].children
               /\ inst'[j].cleaned = inst[j].cleaned /\ inst'[j].ctx = inst[j].ctx
               /\ inst'[j].terminating = inst[j].terminating
               /\ inst'[j].listed = inst[j].listed /\ inst'[j].timer = inst[j].timer
               /\ inst'[j].mem = IF j \in O THEN "freed" ELSE inst[j].mem
    <2>1. inst[j] \in Instances /\ inst'[j] = IF j \in O THEN [inst[j] EXCEPT !.mem = "freed"] ELSE inst[j]
      BY <1>2, <1>3
    <2> QED
      BY <2>1 DEF Instances
  <1>7. Finished'
    <2>1. \A j \in Insts : Settled(j) => Settled(j)'
      BY <1>6, KidsIn DEF Settled, Kids
    <2> QED
      BY <1>5, <1>6, <2>1 DEF Fin, Finished, Live, Off
  <1> QED
    BY <1>2, <1>7 DEF Fin, Swept

LEMMA InstFreeFin ==
    ASSUME Inv, Fin, NEW i \in Insts, Live(i), inst[i].cleaned, NEW d \in Nat, InstFree(i, d),
           d = 0 /\ ~prog.dealloc => \A j \in Insts : Has(stack, j) => j = i,
           NEW s \in Seq(Frames), Swept(s)
    PROVE  Finished' /\ Swept(s)'
  <1>1. inst \in [Insts -> Instances]
    BY DEF Inv, Types
  <1>2. PICK off, W, O : /\ off = [inst EXCEPT ![i].timer = FALSE, ![i].listed = FALSE]
                         /\ W = Waiting(i) /\ O = Owned(W)
    OBVIOUS
  <1>3. /\ DOMAIN off = Insts
        /\ off[i].timer = FALSE /\ off[i].listed = FALSE
        /\ \A j \in Insts \ {i} : off[j] = inst[j]
        /\ \A j \in Insts :
             /\ off[j].mem = inst[j].mem /\ off[j].parent = inst[j].parent
             /\ off[j].children = inst[j].children /\ off[j].cleaned = inst[j].cleaned
             /\ off[j].terminating = inst[j].terminating /\ off[j].ctx = inst[j].ctx
             /\ DOMAIN off[j] = {"mem", "ctx", "parent", "event", "children", "listed",
                                 "terminating", "cleaned", "timer"}
    BY <1>1, <1>2, ZenonT(60) DEF Instances
  <1>4. \A j \in W \ {i} : j \in Insts /\ Live(j) /\ inst[j].cleaned /\ Off(j)
    BY <1>2 DEF Waiting, Inv, Deferred, Fin, Finished
  <1>5. "collect" \notin Insts /\ "dealloc" \notin Insts
    BY FsmAssumption
  <1>6. PICK moved, freed, cx :
            /\ moved = IF d > 0 THEN {i} ELSE IF prog.dealloc THEN W ELSE {}
            /\ freed = IF d = 0 /\ ~prog.dealloc THEN O ELSE {}
            /\ cx = IF d > 0 THEN "collect" ELSE "dealloc"
    OBVIOUS
  <1>7. \A j \in Insts : inst'[j] = IF j \in moved THEN [off[j] EXCEPT !.ctx = cx]
                                    ELSE IF j \in freed THEN [off[j] EXCEPT !.mem = "freed"]
                                    ELSE off[j]
    <2>1. CASE d > 0
      <3>1. inst' = [off EXCEPT ![i].ctx = "collect"]
        BY <1>2, <2>1 DEF InstFree
      <3> QED
        BY <1>3, <1>6, <2>1, <3>1
    <2>2. CASE d = 0
      <3>1. ~(d > 0) /\ W = {i} \cup {j \in Insts : Live(j) /\ inst[j].ctx = "collect"}
        BY <1>2, <2>2 DEF Waiting
      <3>2. inst' = IF prog.dealloc
                    THEN [j \in Insts |-> IF j \in W THEN [off[j] EXCEPT !.ctx = "dealloc"] ELSE off[j]]
                    ELSE [j \in Insts |-> IF j \in O THEN [off[j] EXCEPT !.mem = "freed"] ELSE off[j]]
        BY <1>2, <3>1, Zenon DEF InstFree
      <3>3. CASE prog.dealloc
        <4>1. moved = W /\ cx = "dealloc"
          BY <1>6, <2>2, <3>3
        <4> QED
          BY <1>6, <2>2, <3>2, <3>3, <4>1
      <3>4. CASE ~prog.dealloc
        <4>1. moved = {} /\ freed = O
          BY <1>6, <2>2, <3>4
        <4> QED
          BY <3>2, <3>4, <4>1
      <3> QED
        BY <3>3, <3>4
    <2>3. d > 0 \/ d = 0
      OBVIOUS
    <2> QED
      BY <2>1, <2>2, <2>3
  <1>8. ASSUME NEW j \in Insts
        PROVE  /\ inst'[j].parent = inst[j].parent /\ inst'[j].children = inst[j].children
               /\ inst'[j].cleaned = inst[j].cleaned /\ inst'[j].terminating = inst[j].terminating
               /\ inst'[j].listed = off[j].listed /\ inst'[j].timer = off[j].timer
               /\ inst'[j].ctx = IF j \in moved THEN cx ELSE inst[j].ctx
               /\ inst'[j].mem = IF j \notin moved /\ j \in freed THEN "freed" ELSE inst[j].mem
    <2>1. DOMAIN off[j] = {"mem", "ctx", "parent", "event", "children", "listed",
                           "terminating", "cleaned", "timer"}
      BY <1>3
    <2>2. CASE j \in moved
      <3>1. inst'[j] = [off[j] EXCEPT !.ctx = cx]
        BY <1>7, <2>2
      <3> QED
        BY <1>3, <2>1, <2>2, <3>1
    <2>3. CASE j \notin moved /\ j \in freed
      <3>1. inst'[j] = [off[j] EXCEPT !.mem = "freed"]
        BY <1>7, <2>3
      <3> QED
        BY <1>3, <2>1, <2>3, <3>1
    <2>4. CASE j \notin moved /\ j \notin freed
      BY <1>3, <1>7, <2>4
    <2> QED
      BY <2>2, <2>3, <2>4
  <1>9. /\ i \in moved \/ i \in freed
        /\ \A j \in moved : inst[j].cleaned /\ (j = i \/ Off(j))
        /\ \A j \in freed : inst[j].cleaned /\ (j = i \/ Off(j))
        /\ cx \in {"collect", "dealloc"} /\ moved \subseteq Insts /\ freed \subseteq Insts
    <2>1. i \in W /\ W \in SUBSET Insts
      BY <1>2 DEF Waiting
    <2>2. i \in O /\ O \subseteq Insts
      BY <1>2, <2>1, OwnedIs
    <2>3. ASSUME d = 0, ~prog.dealloc PROVE \A j \in O : inst[j].cleaned /\ (j = i \/ Off(j))
      BY <1>2, <1>4, <2>1, <2>3, OwnedFinished
    <2> QED
      BY <1>4, <1>6, <2>1, <2>2, <2>3
  <1>10. \A j \in Insts : Off(j)' <=> (j = i \/ Off(j))
    BY <1>3, <1>8 DEF Off
  <1>11. \A j \in Insts : (Live(j)' => Live(j)) /\ (Settled(j) => Settled(j)')
    BY <1>8, KidsIn DEF Live, Settled, Kids
  <1>12. ASSUME NEW j \in Insts
         PROVE  /\ inst'[j].mem = "freed" => inst'[j].cleaned /\ Off(j)'
                /\ Live(j)' /\ inst'[j].ctx \in {"collect", "dealloc"} => Off(j)'
                /\ Live(j)' /\ inst'[j].cleaned => Settled(j)'
                /\ Live(j)' /\ inst'[j].ctx \in Insts => inst'[j].parent = inst'[j].ctx
                /\ inst'[j].cleaned => inst'[j].terminating
    <2>1. /\ inst[j].mem = "freed" => inst[j].cleaned /\ Off(j)
          /\ Live(j) /\ inst[j].ctx \in {"collect", "dealloc"} => Off(j)
          /\ Live(j) /\ inst[j].cleaned => Settled(j)
          /\ Live(j) /\ inst[j].ctx \in Insts => inst[j].parent = inst[j].ctx
          /\ inst[j].cleaned => inst[j].terminating
      BY DEF Fin, Finished
    <2> QED
      BY <1>5, <1>8, <1>9, <1>10, <1>11, <2>1
  <1>13. Finished'
    BY <1>12 DEF Finished
  <1>14. Swept(s)'
    BY <1>11, SweptKept
  <1> QED
    BY <1>13, <1>14

LEMMA TermNotifyFin == ASSUME Inv, Fin, Protected, TermNotify PROVE Fin'
  <1>1. stack # <<>>
    BY DEF TermNotify, Running
  <1>2. PICK b \in Seq(Frames), f \in Frames :
            stack = Append(b, f) /\ b = Below /\ f = Top /\ FrameOk(f)
    BY <1>1, Split
  <1>3. f.fn = "term" /\ f.at = "notify"
    BY <1>2 DEF TermNotify, Running
  <1>4. PICK i, p, r : i = f.fi /\ p = inst[i].parent /\ r = stack'
    OBVIOUS
  <1>5. i \in Insts /\ Live(i) /\ inst[i].cleaned /\ p \in Insts \cup {None}
    BY <1>2, <1>3, <1>4 DEF FrameOk, Frames, Inv, Types, Instances
  <1>6. depth \in Nat /\ depth = IF prog.safely THEN Cardinality(Terms(stack)) ELSE 0
    BY DEF Inv, Types, Depth
  <1>7. CASE depth # 0
    <2>1. PICK g, s : g = [f EXCEPT !.at = "free"] /\ s = Append(b, g)
      OBVIOUS
    <2>2. g \in Frames /\ g.fn = "term" /\ g.fi = f.fi /\ g.at = "free"
      BY <1>3, <2>1 DEF Frames, Places
    <2>3. s \in Seq(Frames) /\ Swept(s) /\ Bare(s)
      BY <1>2, <1>3, <2>1, <2>2, PushIs, SweptOn, SweptPop, SweptPush DEF Fin, Cleaning
    <2>4. (r = s \/ (p # None /\ r \in Dispatched(p, s))) /\ inst' = inst
      BY <1>2, <1>4, <1>7, <2>1 DEF TermNotify, Continue
    <2>5. r \in Seq(Frames) /\ Swept(r)
      BY <1>5, <2>3, <2>4, SweptDispatched
    <2> QED
      BY <1>4, <2>4, <2>5, FinStep
  <1>8. CASE depth = 0
    <2>1. prog.dealloc
      <3>1. ~prog.safely
        BY <1>2, <1>3, <1>6, <1>8, TermsPush
      <3> QED
        BY <3>1, Carefully DEF Careful
    <2>2. (r = b \/ (p # None /\ r \in Dispatched(p, b))) /\ InstFree(i, 0)
      BY <1>2, <1>4, <1>8 DEF TermNotify
    <2>3. Swept(b) /\ Bare(b)
      BY <1>2, <1>3, SweptPop DEF Fin
    <2>4. r \in Seq(Frames) /\ Swept(r)
      BY <1>5, <2>2, <2>3, SweptDispatched
    <2>5. Finished' /\ Swept(r)'
      BY <1>5, <2>1, <2>2, <2>4, InstFreeFin
    <2> QED
      BY <1>4, <2>5 DEF Fin, Swept
  <1> QED
    BY <1>7, <1>8

LEMMA TermFreeFin == ASSUME Inv, Fin, TermFree PROVE Fin'
  <1>1. stack # <<>>
    BY DEF TermFree, Running
  <1>2. PICK b \in Seq(Frames), f \in Frames :
            stack = Append(b, f) /\ b = Below /\ f = Top /\ FrameOk(f)
    BY <1>1, Split
  <1>3. f.fn = "term" /\ f.at = "free" /\ prog.safely /\ inst[f.fi].cleaned /\ Live(f.fi)
    BY <1>2 DEF TermFree, Running, FrameOk
  <1>4. PICK d, i : d = depth - 1 /\ i = f.fi
    OBVIOUS
  <1>5. stack' = b /\ InstFree(i, d) /\ i \in Insts
    BY <1>2, <1>4 DEF TermFree, Frames
  <1>6. d \in Nat /\ d = Cardinality(Terms(b))
    <2>1. depth = Cardinality(Terms(stack))
      BY <1>3 DEF Inv, Depth
    <2>2. /\ Cardinality(Terms(Append(b, f))) = Cardinality(Terms(b)) + 1
          /\ Cardinality(Terms(b)) \in Nat
      BY <1>3, TermsPush
    <2> QED
      BY <1>2, <1>4, <2>1, <2>2
  <1>7. ASSUME d = 0 PROVE \A j \in Insts : Has(stack, j) => j = i
    <2>1. Terms(b) = {}
      BY <1>2, <1>6, <1>7, TermsPush
    <2>2. \A j : ~Has(b, j)
      BY <2>1 DEF Has, Terms
    <2> QED
      BY <1>2, <1>4, <2>2, HasPush
  <1>8. Swept(b)
    BY <1>2, <1>3, SweptPop DEF Fin
  <1>9. Finished' /\ Swept(b)'
    BY <1>3, <1>4, <1>5, <1>6, <1>7, <1>8, InstFreeFin
  <1> QED
    BY <1>5, <1>9 DEF Fin, Swept

LEMMA InitFin == Init => Fin
  <1> SUFFICES ASSUME Init PROVE Fin
    OBVIOUS
  <1>1. \A i \in Insts : inst[i].mem = "none" /\ ~inst[i].cleaned
    BY DEF Init, Unused
  <1> QED
    BY <1>1 DEF Fin, Finished, Swept, Live, Init

LEMMA NextFin ==
    ASSUME Protected, Inv, Fin, NoChildForgotten, NoTimerAfterEnd, [Next]_vars
    PROVE  Fin'
  <1>1. CASE Step
    BY <1>1, TermChildrenFin, TermCleanupFin, TermNotifyFin, TermFreeFin, ChildrenLoopFin,
       BroadcastLoopFin, StateChgEnterFin, UserReturnFin DEF Step
  <1>2. CASE UserCall
    <2>1. ASSUME NEW i \in Known PROVE ~UserChangeParent(i)
      BY MayCallIs DEF UserChangeParent, Protected, Inv, Types
    <2> QED
      BY <1>2, <2>1, UserAllocFin, UserTermFin, UserDispatchFin, UserTermChildrenFin,
         UserBroadcastFin, UserStateChgFin, UserUnlinkParentFin DEF UserCall
  <1>3. CASE MainLoop
    BY <1>3, TimerCbTermFin, TimerExpiryFin, ClearDeallocCtxFin DEF MainLoop
  <1>4. CASE UNCHANGED vars
    BY <1>4 DEF vars, Fin, Finished, Swept, Live, Off, Settled, Kids
  <1> QED
    BY <1>1, <1>2, <1>3, <1>4 DEF Next

(* No instance disappears unfinished with the memory of its parent or of a  *)
(* cascade: whenever osmo_fsm_inst_free() or the main loop frees it,        *)
(* cleanup() was called, it is off fsm->instances and its timer is deleted. *)
(* The program must avoid the two places where fsm.c gives this up: the     *)
(* loop that leaves children behind and the timer armed after onleave().    *)
THEOREM FreedAreFinishedHolds ==
    Protected /\ Spec /\ [](NoChildForgotten /\ NoTimerAfterEnd) => []FreedAreFinished
  <1> SUFFICES ASSUME Protected
               PROVE  Spec /\ [](NoChildForgotten /\ NoTimerAfterEnd) => []FreedAreFinished
    OBVIOUS
  <1>1. Inv /\ Fin /\ (NoChildForgotten /\ NoTimerAfterEnd) /\ [Next]_vars => Fin'
    BY NextFin
  <1>2. Fin => FreedAreFinished
    BY DEF Fin, Finished, FreedAreFinished, Off
  <1>3. Spec => []Inv
    BY InvHolds
  <1> QED
    BY <1>1, <1>2, <1>3, InitFin, PTL DEF Spec

=============================================================================

------------------------------ MODULE SmsProofs ------------------------------
(***************************************************************************)
(* Proofs about short message transactions (SmsLink), for every number of  *)
(* retransmissions, losses, failures and submissions, for an MM layer that *)
(* destroys a transaction on MMSMS-REL-REQ, as the notes on release in     *)
(* gsm0411_smc.c and gsm0411_smr.c say: no handler goes on with a          *)
(* transaction that is gone, the "please fix!" branches are dead, the      *)
(* originator's report is honest, and a message is delivered once.         *)
(***************************************************************************)
EXTENDS SmsLink, TLAPS

TrFields == {"life", "cp_state", "cp_timer", "cp_msg", "cp_rel", "cp_retx",
             "rp_state", "rp_timer", "mm", "prims", "inds", "reps", "fatal"}
Outputs == {"mm", "prims", "inds", "reps"}
IsTr(d) == d = [x \in TrFields |-> d[x]]

RpMsgs == [kind : RpKinds \cup {"none"}]
CpMsgs == [cp : {"DATA", "ACK", "ERROR"}, rp : RpMsgs]

(* Messages that contain no RP-ACK unless ok.                               *)
Rps(ok) == {r \in RpMsgs : r.kind = "ACK" => ok}
Msgs(ok) == {m \in CpMsgs : m.rp.kind = "ACK" => ok}

(* What a transaction has sent and told so far: an RP-ACK is sent only if a *)
(* and told only if b.                                                      *)
Out(d, a, b) ==
    /\ d.cp_msg \in Rps(a) /\ d.mm \in Seq(Msgs(a))
    /\ d.reps \in Seq(Rps(b)) /\ d.inds \in Seq(RpMsgs)

(* A transaction between the steps of a handler.                            *)
Talk(d, a, b) ==
    /\ IsTr(d) /\ d.life = "live" /\ d.fatal = FALSE
    /\ d.rp_state \in RpStates /\ (d.rp_timer => d.rp_state # "IDLE")
    /\ Out(d, a, b)

(* The control layer is not idle, and has a message exactly while it is to  *)
(* be sent or acknowledged; TC1* runs only then.                            *)
Cp(d) ==
    \/ d.cp_state = "MM_CONN_PENDING" /\ d.cp_msg # NoMsg /\ d.cp_timer = FALSE
    \/ d.cp_state = "WAIT_CP_ACK" /\ d.cp_msg # NoMsg
    \/ d.cp_state = "MM_ESTABLISHED" /\ d.cp_msg = NoMsg /\ d.cp_timer = FALSE

(* A handler leaves the transaction going, or has ended it.                 *)
Going(d, a, b) == Talk(d, a, b) /\ Cp(d) /\ d.prims = {}
Ended(d, a, b) ==
    /\ IsTr(d) /\ Out(d, a, b) /\ "REL_REQ" \in d.prims
    /\ \A x \in TrFields \ Outputs : d[x] = Gone[x]

(* A report is due while the relay layer is not idle: from d to o none was  *)
(* made but for one that was due.                                           *)
Due(d) == IF d.rp_state = "IDLE" THEN 0 ELSE 1
Stays(d, o) ==
    /\ Len(o.reps) + Due(o) <= Len(d.reps) + Due(d)
    /\ o.rp_state \in {d.rp_state, "IDLE"} /\ o.inds = d.inds

Result(d, o, a, b) == (Going(o, a, b) \/ Ended(o, a, b)) /\ Stays(d, o)

-----------------------------------------------------------------------------
(* What the handlers are made of *)

LEMMA LiveSteps ==
    ASSUME NEW d, NEW a \in BOOLEAN, NEW b \in BOOLEAN, Talk(d, a, b), NEW s
    PROVE  /\ Used(d) = d
           /\ NewCpState(d, s) = [d EXCEPT !.cp_state = s]
           /\ FreeCpMsg(d) = [d EXCEPT !.cp_msg = NoMsg]
           /\ NewRpState(d, s) = [d EXCEPT !.rp_state = s, !.rp_timer = @ /\ s # "IDLE"]
  <1>1. Used(d) = d
    BY DEF Used, Talk, IsTr, TrFields
  <1> QED
    BY <1>1 DEF NewCpState, FreeCpMsg, NewRpState

LEMMA NoMsgs ==
    ASSUME NEW ok \in BOOLEAN
    PROVE  /\ NoMsg \in Rps(ok) /\ Rp("ERROR") \in Rps(ok) /\ Rp("ERROR") # NoMsg
           /\ \A r \in Rps(ok), cp \in {"DATA", "ACK", "ERROR"} : [cp |-> cp, rp |-> r] \in Msgs(ok)
  <1>1. NoMsg \in Rps(ok) /\ Rp("ERROR") \in Rps(ok)
    BY DEF NoMsg, Rp, Rps, RpMsgs, RpKinds
  <1>2. Rp("ERROR") # NoMsg
    <2>1. Rp("ERROR").kind = "ERROR" /\ NoMsg.kind = "none"
      BY DEF NoMsg, Rp
    <2> QED
      BY <2>1
  <1>3. \A r \in Rps(ok), cp \in {"DATA", "ACK", "ERROR"} : [cp |-> cp, rp |-> r] \in Msgs(ok)
    BY DEF Rps, Msgs, CpMsgs
  <1> QED
    BY <1>1, <1>2, <1>3

LEMMA TalkCpState ==
    ASSUME NEW d, NEW a \in BOOLEAN, NEW b \in BOOLEAN, Talk(d, a, b), NEW s
    PROVE  /\ Talk(NewCpState(d, s), a, b) /\ NewCpState(d, s).cp_state = s
           /\ \A x \in TrFields \ {"cp_state"} : NewCpState(d, s)[x] = d[x]
  <1> DEFINE e == NewCpState(d, s)
  <1>0. Used(d) = d
    BY LiveSteps
  <1>1. e = [d EXCEPT !.cp_state = s]
    BY <1>0 DEF NewCpState
  <1> HIDE DEF e
  <1>2. IsTr(e) /\ e.cp_state = s /\ \A x \in TrFields \ {"cp_state"} : e[x] = d[x]
    BY <1>1 DEF Talk, IsTr, TrFields
  <1>3. Talk(e, a, b)
    BY <1>2 DEF Talk, Out, TrFields
  <1> QED
    BY <1>2, <1>3 DEF e

LEMMA TalkFree ==
    ASSUME NEW d, NEW a \in BOOLEAN, NEW b \in BOOLEAN, Talk(d, a, b)
    PROVE  /\ Talk(FreeCpMsg(d), a, b) /\ FreeCpMsg(d).cp_msg = NoMsg
           /\ \A x \in TrFields \ {"cp_msg"} : FreeCpMsg(d)[x] = d[x]
  <1> DEFINE e == FreeCpMsg(d)
  <1>1. e = [d EXCEPT !.cp_msg = NoMsg]
    BY LiveSteps
  <1> HIDE DEF e
  <1>2. IsTr(e) /\ e.cp_msg = NoMsg /\ \A x \in TrFields \ {"cp_msg"} : e[x] = d[x]
    BY <1>1 DEF Talk, IsTr, TrFields
  <1>3. Talk(e, a, b)
    BY <1>2, NoMsgs DEF Talk, Out, TrFields
  <1> QED
    BY <1>2, <1>3 DEF e

LEMMA TalkRpIdle ==
    ASSUME NEW d, NEW a \in BOOLEAN, NEW b \in BOOLEAN, Talk(d, a, b)
    PROVE  /\ Talk(NewRpState(d, "IDLE"), a, b) /\ NewRpState(d, "IDLE").rp_state = "IDLE"
           /\ \A x \in TrFields \ {"rp_state", "rp_timer"} : NewRpState(d, "IDLE")[x] = d[x]
  <1> DEFINE e == NewRpState(d, "IDLE")
  <1>1. e = [d EXCEPT !.rp_state = "IDLE", !.rp_timer = @ /\ "IDLE" # "IDLE"]
    BY LiveSteps
  <1> HIDE DEF e
  <1>2. /\ IsTr(e) /\ e.rp_state = "IDLE" /\ e.rp_timer = FALSE
        /\ \A x \in TrFields \ {"rp_state", "rp_timer"} : e[x] = d[x]
    BY <1>1 DEF Talk, IsTr, TrFields
  <1>3. Talk(e, a, b)
    BY <1>2 DEF Talk, Out, TrFields, RpStates
  <1> QED
    BY <1>2, <1>3 DEF e

LEMMA TalkCpSend ==
    ASSUME NEW d, NEW a \in BOOLEAN, NEW b \in BOOLEAN, Talk(d, a, b),
           NEW cp \in {"DATA", "ACK", "ERROR"}, NEW rp \in Rps(a)
    PROVE  /\ Talk(CpSend(d, cp, rp), a, b)
           /\ \A x \in TrFields \ {"mm"} : CpSend(d, cp, rp)[x] = d[x]
  <1> DEFINE m == [cp |-> cp, rp |-> rp]
             e == CpSend(d, cp, rp)
  <1>1. m \in Msgs(a)
    BY NoMsgs
  <1> HIDE DEF m
  <1>2. Append(d.mm, m) \in Seq(Msgs(a))
    BY <1>1 DEF Talk, Out
  <1>3. e = [d EXCEPT !.mm = Append(d.mm, m)]
    BY LiveSteps DEF CpSend, m
  <1> HIDE DEF e
  <1>4. /\ IsTr(e) /\ e.mm = Append(d.mm, m)
        /\ \A x \in TrFields \ {"mm"} : e[x] = d[x]
    BY <1>3 DEF Talk, IsTr, TrFields
  <1>5. Talk(e, a, b) /\ \A x \in TrFields \ {"mm"} : e[x] = d[x]
    BY <1>2, <1>4 DEF Talk, Out, TrFields
  <1> QED
    BY <1>5 DEF e

LEMMA TalkReport ==
    ASSUME NEW d, NEW a \in BOOLEAN, NEW b \in BOOLEAN, Talk(d, a, b), NEW rp \in Rps(b)
    PROVE  /\ Talk(RlReportInd(d, rp), a, b)
           /\ Len(RlReportInd(d, rp).reps) = Len(d.reps) + 1
           /\ \A x \in TrFields \ {"reps"} : RlReportInd(d, rp)[x] = d[x]
  <1> DEFINE e == RlReportInd(d, rp)
  <1>2. Append(d.reps, rp) \in Seq(Rps(b)) /\ Len(Append(d.reps, rp)) = Len(d.reps) + 1
    BY DEF Talk, Out
  <1>3. e = [d EXCEPT !.reps = Append(d.reps, rp)]
    BY LiveSteps DEF RlReportInd
  <1> HIDE DEF e
  <1>4. /\ IsTr(e) /\ e.reps = Append(d.reps, rp)
        /\ \A x \in TrFields \ {"reps"} : e[x] = d[x]
    BY <1>3 DEF Talk, IsTr, TrFields
  <1>5. Talk(e, a, b) /\ \A x \in TrFields \ {"reps"} : e[x] = d[x]
    BY <1>2, <1>4 DEF Talk, Out, TrFields
  <1> QED
    BY <1>2, <1>4, <1>5 DEF e

(* MMSMS-REL-REQ ends the transaction.                                      *)
LEMMA EndedByRelReq ==
    ASSUME Destroys, NEW d, NEW a \in BOOLEAN, NEW b \in BOOLEAN, Talk(d, a, b)
    PROVE  /\ Ended(MmRelReq(d), a, b)
           /\ MmRelReq(d).reps = d.reps /\ MmRelReq(d).inds = d.inds
           /\ MmRelReq(d).rp_state = "IDLE"
  <1> DEFINE r == MmSend(d, "REL_REQ")
             e == MmRelReq(d)
  <1>1. r = [d EXCEPT !.prims = @ \cup {"REL_REQ"}]
    BY LiveSteps DEF MmSend
  <1> HIDE DEF r
  <1>2. r.life = "live" /\ r.fatal = FALSE /\ "REL_REQ" \in r.prims
        /\ r.mm = d.mm /\ r.inds = d.inds /\ r.reps = d.reps
    BY <1>1 DEF Talk, IsTr, TrFields
  <1>3. e = [Gone EXCEPT !.life = "gone", !.mm = r.mm, !.prims = r.prims, !.inds = r.inds,
                         !.reps = r.reps, !.fatal = FALSE]
    BY <1>2 DEF MmRelReq, r
  <1> HIDE DEF e
  <1>4. IsTr(Gone) /\ Gone.cp_msg = NoMsg /\ Gone.rp_state = "IDLE"
    BY DEF Gone, New, IsTr, TrFields
  <1>5. Gone.life = "gone" /\ Gone.fatal = FALSE
    BY DEF Gone, New
  <1>6. /\ IsTr(e) /\ e.mm = r.mm /\ e.inds = r.inds /\ e.reps = r.reps /\ e.prims = r.prims
        /\ \A x \in TrFields \ Outputs : e[x] = Gone[x]
    BY <1>3, <1>4, <1>5 DEF IsTr, TrFields, Outputs
  <1>7. /\ e.mm = d.mm /\ e.inds = d.inds /\ e.reps = d.reps /\ "REL_REQ" \in e.prims
        /\ e.cp_msg = NoMsg /\ e.rp_state = "IDLE"
    BY <1>2, <1>4, <1>6 DEF TrFields, Outputs
  <1>8. Out(e, a, b)
    BY <1>7, NoMsgs DEF Talk, Out
  <1> QED
    BY <1>6, <1>7, <1>8 DEF Ended, e

-----------------------------------------------------------------------------
(* Reports and what is due *)

LEMMA StaysSame ==
    ASSUME NEW d, NEW a \in BOOLEAN, NEW b \in BOOLEAN, Out(d, a, b), NEW e,
           e.reps = d.reps, e.inds = d.inds, e.rp_state \in {d.rp_state, "IDLE"}
    PROVE  Stays(d, e)
  <1>1. Len(d.reps) \in Nat
    BY DEF Out
  <1>2. Due(e) <= Due(d) /\ Due(e) \in Nat /\ Due(d) \in Nat
    BY DEF Due
  <1> QED
    BY <1>1, <1>2 DEF Stays

LEMMA StaysThen ==
    ASSUME NEW d, NEW e, NEW f, NEW a \in BOOLEAN, NEW b \in BOOLEAN,
           Out(d, a, b), Out(e, a, b), Out(f, a, b), Stays(d, e), Stays(e, f)
    PROVE  Stays(d, f)
  <1>1. Len(d.reps) \in Nat /\ Len(e.reps) \in Nat /\ Len(f.reps) \in Nat
    BY DEF Out
  <1>2. Due(e) \in Nat /\ Due(d) \in Nat /\ Due(f) \in Nat
    BY DEF Due
  <1>3. Len(f.reps) + Due(f) <= Len(d.reps) + Due(d)
    BY <1>1, <1>2 DEF Stays
  <1> QED
    BY <1>3 DEF Stays

(* The one report that is due is made.                                      *)
LEMMA StaysReport ==
    ASSUME NEW d, NEW a \in BOOLEAN, NEW b \in BOOLEAN, Out(d, a, b), d.rp_state # "IDLE",
           NEW e, Len(e.reps) = Len(d.reps) + 1, e.inds = d.inds, e.rp_state = "IDLE"
    PROVE  Stays(d, e)
  <1>1. Len(d.reps) \in Nat
    BY DEF Out
  <1>2. Due(e) = 0 /\ Due(d) = 1
    BY DEF Due
  <1> QED
    BY <1>1, <1>2 DEF Stays

LEMMA ResultOut ==
    ASSUME NEW d, NEW e, NEW a \in BOOLEAN, NEW b \in BOOLEAN, Result(d, e, a, b)
    PROVE  Out(e, a, b)
  BY DEF Result, Going, Talk, Ended

LEMMA ResultThen ==
    ASSUME NEW d, NEW e, NEW f, NEW a \in BOOLEAN, NEW b \in BOOLEAN,
           Out(d, a, b), Out(e, a, b), Stays(d, e), Result(e, f, a, b)
    PROVE  Result(d, f, a, b)
  BY ResultOut, StaysThen DEF Result

-----------------------------------------------------------------------------
(* Requests of the relay layer *)

(* gsm411_mmsms_send_msg() on a transaction that has a message.             *)
LEMMA GoingSendMsg ==
    ASSUME NEW d, NEW a \in BOOLEAN, NEW b \in BOOLEAN, Talk(d, a, b),
           d.prims = {}, d.cp_msg # NoMsg
    PROVE  /\ Going(SendMsg(d), a, b)
           /\ \A x \in {"rp_state", "rp_timer", "reps", "inds"} : SendMsg(d)[x] = d[x]
  <1> DEFINE r == IF d.cp_state # "WAIT_CP_ACK" THEN 0 ELSE d.cp_retx
             e == [d EXCEPT !.cp_retx = r, !.cp_timer = TRUE]
             f == NewCpState(e, "WAIT_CP_ACK")
             g == CpSend(f, "DATA", d.cp_msg)
  <1>1. /\ IsTr(e) /\ e.cp_timer = TRUE
        /\ \A x \in TrFields \ {"cp_retx", "cp_timer"} : e[x] = d[x]
    <2> HIDE DEF r
    <2> QED
      BY DEF Talk, IsTr, TrFields
  <1>2. SendMsg(d) = g
    BY DEF SendMsg, Talk, IsTr, TrFields
  <1> HIDE DEF e
  <1>3. Talk(e, a, b)
    BY <1>1 DEF Talk, Out, TrFields
  <1>4. Talk(f, a, b) /\ f.cp_state = "WAIT_CP_ACK" /\ \A x \in TrFields \ {"cp_state"} : f[x] = e[x]
    BY <1>3, TalkCpState
  <1> HIDE DEF f
  <1>5. d.cp_msg \in Rps(a)
    BY DEF Talk, Out
  <1>6. Talk(g, a, b) /\ \A x \in TrFields \ {"mm"} : g[x] = f[x]
    BY <1>4, <1>5, TalkCpSend
  <1> HIDE DEF g
  <1>7. /\ g.cp_state = "WAIT_CP_ACK" /\ g.cp_msg = d.cp_msg /\ g.prims = {}
        /\ g.rp_state = d.rp_state /\ g.rp_timer = d.rp_timer
        /\ g.reps = d.reps /\ g.inds = d.inds
    BY <1>1, <1>4, <1>6 DEF TrFields
  <1> QED
    BY <1>2, <1>6, <1>7 DEF Going, Cp

(* MNSMS-DATA-REQ: the message is sent, or the request is ignored.          *)
LEMMA GoingDataReq ==
    ASSUME NEW d, NEW a \in BOOLEAN, NEW b \in BOOLEAN, Going(d, a, b),
           NEW rp \in Rps(a), rp # NoMsg
    PROVE  /\ Going(SmcSend(d, "DATA_REQ", rp), a, b)
           /\ \A x \in {"rp_state", "rp_timer", "reps", "inds"} :
                 SmcSend(d, "DATA_REQ", rp)[x] = d[x]
  <1>0. Talk(d, a, b) /\ d.prims = {}
    BY DEF Going
  <1>1. CASE d.cp_state = "MM_ESTABLISHED"
    <2> DEFINE e == [d EXCEPT !.fatal = FALSE, !.cp_msg = rp]
    <2>1. d.cp_msg = NoMsg /\ d.fatal = FALSE
      BY <1>1 DEF Going, Cp, Talk
    <2>2. (d.fatal \/ d.cp_msg # NoMsg) = FALSE
      BY <2>1
    <2>3. SmcSend(d, "DATA_REQ", rp) = SendMsg([d EXCEPT !.fatal = @ \/ d.cp_msg # NoMsg, !.cp_msg = rp])
      BY <1>1 DEF SmcSend, DataReq
    <2>4. [d EXCEPT !.fatal = @ \/ d.cp_msg # NoMsg, !.cp_msg = rp] = e
      BY <2>2, <1>0 DEF Talk, IsTr, TrFields
    <2>5. /\ IsTr(e) /\ e.fatal = FALSE /\ e.cp_msg = rp
          /\ \A x \in TrFields \ {"fatal", "cp_msg"} : e[x] = d[x]
      BY <1>0 DEF Talk, IsTr, TrFields
    <2>6. SmcSend(d, "DATA_REQ", rp) = SendMsg(e)
      BY <2>3, <2>4
    <2> HIDE DEF e
    <2>7. Talk(e, a, b) /\ e.prims = {} /\ e.cp_msg # NoMsg
      BY <1>0, <2>5 DEF Talk, Out, TrFields
    <2>8. /\ Going(SendMsg(e), a, b)
          /\ \A x \in {"rp_state", "rp_timer", "reps", "inds"} : SendMsg(e)[x] = e[x]
      BY <2>7, GoingSendMsg
    <2> QED
      BY <2>5, <2>6, <2>8 DEF TrFields
  <1>2. CASE d.cp_state # "MM_ESTABLISHED"
    <2>1. SmcSend(d, "DATA_REQ", rp) = d
      BY <1>0, <1>2, LiveSteps DEF SmcSend
    <2> QED
      BY <2>1
  <1> QED
    BY <1>1, <1>2

(* MNSMS-REL-REQ: ignored when the control layer is idle, stored while a    *)
(* message is under way, and the end of the transaction otherwise.          *)
LEMMA IdleRelease ==
    ASSUME NEW d, NEW a \in BOOLEAN, NEW b \in BOOLEAN, Talk(d, a, b), d.cp_state = "IDLE"
    PROVE  SendRelease(d) = d
  BY LiveSteps DEF SendRelease, SmcSend, RelReq

LEMMA GoingRelease ==
    ASSUME Destroys, NEW d, NEW a \in BOOLEAN, NEW b \in BOOLEAN, Going(d, a, b)
    PROVE  Result(d, SendRelease(d), a, b)
  <1>0. Talk(d, a, b) /\ d.prims = {} /\ Cp(d) /\ d.cp_state # "IDLE" /\ Out(d, a, b)
    BY DEF Going, Cp, Talk
  <1>1. SendRelease(d) = RelReq(d)
    BY DEF SendRelease, SmcSend
  <1>2. CASE d.cp_state # "MM_ESTABLISHED"
    <2> DEFINE e == [d EXCEPT !.cp_rel = TRUE]
    <2>1. RelReq(d) = e
      BY <1>0, <1>2, LiveSteps DEF RelReq
    <2>2. IsTr(e) /\ \A x \in TrFields \ {"cp_rel"} : e[x] = d[x]
      BY <1>0 DEF Talk, IsTr, TrFields
    <2> HIDE DEF e
    <2>3. Talk(e, a, b) /\ e.prims = {} /\ Cp(e)
      BY <1>0, <2>2 DEF Talk, Out, TrFields, Cp
    <2>4. e.reps = d.reps /\ e.inds = d.inds /\ e.rp_state \in {d.rp_state, "IDLE"}
      BY <2>2 DEF TrFields
    <2>5. Stays(d, e)
      BY <1>0, <2>4, StaysSame
    <2> QED
      BY <1>1, <2>1, <2>3, <2>5 DEF Result, Going
  <1>3. CASE d.cp_state = "MM_ESTABLISHED"
    <2> DEFINE e == FreeCpMsg(d)
               f == NewCpState(e, "IDLE")
               g == MmRelReq(f)
    <2>1. RelReq(d) = g
      BY <1>3 DEF RelReq
    <2>2. Talk(e, a, b) /\ \A x \in TrFields \ {"cp_msg"} : e[x] = d[x]
      BY <1>0, TalkFree
    <2> HIDE DEF e
    <2>3. Talk(f, a, b) /\ \A x \in TrFields \ {"cp_state"} : f[x] = e[x]
      BY <2>2, TalkCpState
    <2> HIDE DEF f
    <2>4. Ended(g, a, b) /\ g.reps = f.reps /\ g.inds = f.inds /\ g.rp_state = "IDLE"
      BY <2>3, EndedByRelReq
    <2> HIDE DEF g
    <2>5. g.reps = d.reps /\ g.inds = d.inds
      BY <2>2, <2>3, <2>4 DEF TrFields
    <2>6. Stays(d, g)
      BY <1>0, <2>4, <2>5, StaysSame
    <2> QED
      BY <1>1, <2>1, <2>4, <2>6 DEF Result
  <1> QED
    BY <1>2, <1>3

-----------------------------------------------------------------------------
(* The ends of a transaction *)

LEMMA ResultRelReq ==
    ASSUME Destroys, NEW d, NEW e, NEW a \in BOOLEAN, NEW b \in BOOLEAN,
           Out(d, a, b), Talk(e, a, b), Stays(d, e)
    PROVE  Result(d, MmRelReq(e), a, b)
  <1> DEFINE g == MmRelReq(e)
  <1>1. Ended(g, a, b) /\ g.reps = e.reps /\ g.inds = e.inds /\ g.rp_state = "IDLE"
    BY EndedByRelReq
  <1> HIDE DEF g
  <1>2. Out(e, a, b) /\ Out(g, a, b)
    BY <1>1 DEF Talk, Ended
  <1>3. Stays(e, g)
    BY <1>1, <1>2, StaysSame
  <1>4. Stays(d, g)
    BY <1>2, <1>3, StaysThen
  <1> QED
    BY <1>1, <1>4 DEF Result, g

(* MNSMS-ERROR-IND when the control layer has become idle: the report that  *)
(* is due is made, and the release that the relay layer asks for ignored.   *)
LEMMA IdleErrorInd ==
    ASSUME NEW d, NEW a \in BOOLEAN, NEW b \in BOOLEAN, Talk(d, a, b), d.cp_state = "IDLE"
    PROVE  /\ Talk(SmrRecv(d, "ERROR_IND", NoMsg), a, b)
           /\ Stays(d, SmrRecv(d, "ERROR_IND", NoMsg))
  <1>0. Out(d, a, b) /\ NoMsg \in Rps(b) /\ d.rp_state \in RpStates
    BY NoMsgs DEF Talk
  <1> DEFINE e == NewRpState(d, "IDLE")
             f == RlReportInd(e, NoMsg)
  <1>1. /\ Talk(e, a, b) /\ e.rp_state = "IDLE"
        /\ \A x \in TrFields \ {"rp_state", "rp_timer"} : e[x] = d[x]
    BY TalkRpIdle
  <1> HIDE DEF e
  <1>2. /\ Talk(f, a, b) /\ Len(f.reps) = Len(e.reps) + 1
        /\ \A x \in TrFields \ {"reps"} : f[x] = e[x]
    BY <1>0, <1>1, TalkReport
  <1> HIDE DEF f
  <1>3. f.rp_state = "IDLE" /\ f.cp_state = "IDLE" /\ f.inds = d.inds
        /\ Len(f.reps) = Len(d.reps) + 1
    BY <1>1, <1>2 DEF TrFields
  <1>4. CASE d.rp_state = "WAIT_FOR_RP_ACK"
    <2>1. SmrRecv(d, "ERROR_IND", NoMsg) = SendRelease(f)
      BY <1>4 DEF SmrRecv, MnErrorIndTx, e, f
    <2>2. SendRelease(f) = f
      BY <1>2, <1>3, IdleRelease
    <2>3. Stays(d, f)
      BY <1>0, <1>3, <1>4, StaysReport
    <2> QED
      BY <1>2, <2>1, <2>2, <2>3
  <1>5. CASE d.rp_state = "WAIT_TO_TX_RP_ACK"
    <2>1. SmrRecv(d, "ERROR_IND", NoMsg) = f
      BY <1>5 DEF SmrRecv, MnErrorIndRx, e, f
    <2>2. Stays(d, f)
      BY <1>0, <1>3, <1>5, StaysReport
    <2> QED
      BY <1>2, <2>1, <2>2
  <1>6. CASE d.rp_state = "IDLE"
    <2>1. SmrRecv(d, "ERROR_IND", NoMsg) = d
      BY <1>6, LiveSteps DEF SmrRecv
    <2>2. Stays(d, d)
      BY <1>0, StaysSame
    <2> QED
      BY <2>1, <2>2
  <1> QED
    BY <1>0, <1>4, <1>5, <1>6 DEF RpStates

(* A message of a handler that ends the control layer before it tells the   *)
(* relay layer.                                                             *)
LEMMA ToldAndEnded ==
    ASSUME Destroys, NEW d, NEW e, NEW a \in BOOLEAN, NEW b \in BOOLEAN,
           Out(d, a, b), Talk(e, a, b), e.cp_state = "IDLE", Stays(d, e)
    PROVE  /\ Talk(SmrRecv(e, "ERROR_IND", NoMsg), a, b)
           /\ Stays(d, SmrRecv(e, "ERROR_IND", NoMsg))
           /\ Result(d, MmRelReq(SmrRecv(e, "ERROR_IND", NoMsg)), a, b)
  <1> DEFINE f == SmrRecv(e, "ERROR_IND", NoMsg)
  <1>1. Talk(f, a, b) /\ Stays(e, f)
    BY IdleErrorInd
  <1> HIDE DEF f
  <1>2. Out(e, a, b) /\ Out(f, a, b)
    BY <1>1 DEF Talk
  <1>3. Stays(d, f)
    BY <1>1, <1>2, StaysThen
  <1>4. Result(d, MmRelReq(f), a, b)
    BY <1>1, <1>3, ResultRelReq
  <1> QED
    BY <1>1, <1>3, <1>4 DEF f

(* gsm411_mmsms_cp_error(), gsm411_mmsms_rel_ind().                         *)
LEMMA CpErrors ==
    ASSUME Destroys, NEW d, NEW a \in BOOLEAN, NEW b \in BOOLEAN, Talk(d, a, b)
    PROVE  /\ Result(d, CpError(d), a, b)
           /\ Talk(RelInd(d), a, b) /\ Stays(d, RelInd(d))
  <1> DEFINE e == FreeCpMsg(d)
             f == NewCpState(e, "IDLE")
  <1>1. Talk(e, a, b) /\ \A x \in TrFields \ {"cp_msg"} : e[x] = d[x]
    BY TalkFree
  <1> HIDE DEF e
  <1>2. Talk(f, a, b) /\ f.cp_state = "IDLE" /\ \A x \in TrFields \ {"cp_state"} : f[x] = e[x]
    BY <1>1, TalkCpState
  <1> HIDE DEF f
  <1>3. f.reps = d.reps /\ f.inds = d.inds /\ f.rp_state \in {d.rp_state, "IDLE"} /\ Out(d, a, b)
    BY <1>1, <1>2 DEF TrFields, Talk
  <1>4. Stays(d, f)
    BY <1>3, StaysSame
  <1>5. /\ Talk(SmrRecv(f, "ERROR_IND", NoMsg), a, b)
        /\ Stays(d, SmrRecv(f, "ERROR_IND", NoMsg))
        /\ Result(d, MmRelReq(SmrRecv(f, "ERROR_IND", NoMsg)), a, b)
    BY <1>2, <1>3, <1>4, ToldAndEnded
  <1> QED
    BY <1>5 DEF CpError, RelInd, f, e

LEMMA UnhandledEnds ==
    ASSUME Destroys, NEW d, NEW a \in BOOLEAN, NEW b \in BOOLEAN, Talk(d, a, b)
    PROVE  Result(d, Unhandled(d), a, b)
  <1> DEFINE e == NewCpState(d, "IDLE")
             f == CpSend(e, "ERROR", NoMsg)
  <1>1. Talk(e, a, b) /\ e.cp_state = "IDLE" /\ \A x \in TrFields \ {"cp_state"} : e[x] = d[x]
    BY TalkCpState
  <1> HIDE DEF e
  <1>2. Talk(f, a, b) /\ \A x \in TrFields \ {"mm"} : f[x] = e[x]
    BY <1>1, NoMsgs, TalkCpSend
  <1> HIDE DEF f
  <1>3. /\ f.reps = d.reps /\ f.inds = d.inds /\ f.rp_state \in {d.rp_state, "IDLE"}
        /\ f.cp_state = "IDLE" /\ Out(d, a, b)
    BY <1>1, <1>2 DEF TrFields, Talk
  <1>4. Stays(d, f)
    BY <1>3, StaysSame
  <1>5. Result(d, MmRelReq(SmrRecv(f, "ERROR_IND", NoMsg)), a, b)
    BY <1>2, <1>3, <1>4, ToldAndEnded
  <1> QED
    BY <1>5 DEF Unhandled, f, e

(* rp_timer_expired(): the report is made, and the control layer aborts.    *)
LEMMA RpTimerEnds ==
    ASSUME Destroys, NEW d, NEW a \in BOOLEAN, NEW b \in BOOLEAN, Going(d, a, b), d.rp_timer
    PROVE  Result(d, RpTimerExpired(d), a, b)
  <1> DEFINE e == [d EXCEPT !.rp_timer = FALSE]
             f == RlReportInd(e, NoMsg)
             g == FreeCpMsg(f)
             h == NewCpState(g, "IDLE")
             i == CpSend(h, "ERROR", NoMsg)
             o == MmRelReq(i)
  <1>0. /\ Talk(d, a, b) /\ Out(d, a, b) /\ d.cp_state # "IDLE" /\ d.rp_state # "IDLE"
        /\ NoMsg \in Rps(a) /\ NoMsg \in Rps(b)
    BY NoMsgs DEF Going, Cp, Talk
  <1>1. IsTr(e) /\ e.rp_timer = FALSE /\ \A x \in TrFields \ {"rp_timer"} : e[x] = d[x]
    BY <1>0 DEF Talk, IsTr, TrFields
  <1>2. RpTimerExpired(d) = SmcSend(f, "ABORT_REQ", NoMsg)
    BY DEF RpTimerExpired
  <1> HIDE DEF e
  <1>3. Talk(e, a, b)
    BY <1>0, <1>1 DEF Talk, Out, TrFields
  <1>4. /\ Talk(f, a, b) /\ Len(f.reps) = Len(e.reps) + 1
        /\ \A x \in TrFields \ {"reps"} : f[x] = e[x]
    BY <1>0, <1>3, TalkReport
  <1> HIDE DEF f
  <1>5. Talk(g, a, b) /\ \A x \in TrFields \ {"cp_msg"} : g[x] = f[x]
    BY <1>4, TalkFree
  <1> HIDE DEF g
  <1>6. Talk(h, a, b) /\ \A x \in TrFields \ {"cp_state"} : h[x] = g[x]
    BY <1>5, TalkCpState
  <1> HIDE DEF h
  <1>7. Talk(i, a, b) /\ \A x \in TrFields \ {"mm"} : i[x] = h[x]
    BY <1>0, <1>6, TalkCpSend
  <1> HIDE DEF i
  <1>8. Ended(o, a, b) /\ o.reps = i.reps /\ o.inds = i.inds /\ o.rp_state = "IDLE"
    BY <1>7, EndedByRelReq
  <1>9. SmcSend(f, "ABORT_REQ", NoMsg) = o
    <2>1. f.cp_state # "IDLE"
      BY <1>0, <1>1, <1>4 DEF TrFields
    <2> QED
      BY <2>1 DEF SmcSend, AbortReq, g, h, i
  <1> HIDE DEF o
  <1>10. Len(o.reps) = Len(d.reps) + 1 /\ o.inds = d.inds
    BY <1>1, <1>4, <1>5, <1>6, <1>7, <1>8 DEF TrFields
  <1>11. Stays(d, o)
    BY <1>0, <1>8, <1>10, StaysReport
  <1> QED
    BY <1>2, <1>8, <1>9, <1>11 DEF Result

(* cp_timer_expired(): the message is sent again, or the transaction ends.  *)
LEMMA CpTimerResult ==
    ASSUME Destroys, NEW d, NEW a \in BOOLEAN, NEW b \in BOOLEAN, Going(d, a, b), d.cp_timer
    PROVE  Result(d, CpTimerExpired(d), a, b)
  <1> DEFINE e == [d EXCEPT !.cp_timer = FALSE]
  <1>0. Talk(d, a, b) /\ Out(d, a, b) /\ d.prims = {} /\ d.cp_msg # NoMsg
    BY DEF Going, Cp, Talk
  <1>1. IsTr(e) /\ \A x \in TrFields \ {"cp_timer"} : e[x] = d[x]
    BY <1>0 DEF Talk, IsTr, TrFields
  <1>2. CASE d.cp_retx = MaxRetr
    <2> DEFINE f == NewCpState(e, "IDLE")
               g == SmrRecv(f, "ERROR_IND", NoMsg)
               h == FreeCpMsg(g)
    <2>1. CpTimerExpired(d) = MmRelReq(h)
      BY <1>2 DEF CpTimerExpired
    <2> HIDE DEF e
    <2>2. Talk(e, a, b)
      BY <1>0, <1>1 DEF Talk, Out, TrFields
    <2>3. Talk(f, a, b) /\ f.cp_state = "IDLE" /\ \A x \in TrFields \ {"cp_state"} : f[x] = e[x]
      BY <2>2, TalkCpState
    <2> HIDE DEF f
    <2>4. f.reps = d.reps /\ f.inds = d.inds /\ f.rp_state \in {d.rp_state, "IDLE"}
      BY <1>1, <2>3 DEF TrFields
    <2>5. Stays(d, f)
      BY <1>0, <2>4, StaysSame
    <2>6. Talk(g, a, b) /\ Stays(d, g)
      BY <1>0, <2>3, <2>5, ToldAndEnded
    <2> HIDE DEF g
    <2>7. Talk(h, a, b) /\ \A x \in TrFields \ {"cp_msg"} : h[x] = g[x]
      BY <2>6, TalkFree
    <2> HIDE DEF h
    <2>8. h.reps = g.reps /\ h.inds = g.inds /\ h.rp_state = g.rp_state
      BY <2>7 DEF TrFields
    <2>9. Stays(d, h)
      BY <2>6, <2>8 DEF Stays, Due
    <2> QED
      BY <1>0, <2>1, <2>7, <2>9, ResultRelReq
  <1>3. CASE d.cp_retx # MaxRetr
    <2> DEFINE f == [e EXCEPT !.cp_retx = @ + 1]
    <2>1. CpTimerExpired(d) = EstCnf(f)
      BY <1>3 DEF CpTimerExpired
    <2> HIDE DEF e
    <2>2. IsTr(f) /\ \A x \in TrFields \ {"cp_retx"} : f[x] = e[x]
      BY <1>1 DEF IsTr, TrFields
    <2> HIDE DEF f
    <2>3. Talk(f, a, b) /\ f.prims = {} /\ f.cp_msg # NoMsg
      BY <1>0, <1>1, <2>2 DEF Talk, Out, TrFields
    <2>4. EstCnf(f) = SendMsg(f)
      BY <2>3 DEF EstCnf
    <2> DEFINE g == SendMsg(f)
    <2>5. Going(g, a, b) /\ \A x \in {"rp_state", "rp_timer", "reps", "inds"} : g[x] = f[x]
      BY <2>3, GoingSendMsg
    <2> HIDE DEF g
    <2>6. g.reps = d.reps /\ g.inds = d.inds /\ g.rp_state \in {d.rp_state, "IDLE"}
      BY <1>1, <2>2, <2>5 DEF TrFields
    <2>7. Stays(d, g)
      BY <1>0, <2>6, StaysSame
    <2> QED
      BY <2>1, <2>4, <2>5, <2>7 DEF Result, g
  <1> QED
    BY <1>2, <1>3

-----------------------------------------------------------------------------
(* Messages of the peer *)

LEMMA CpAckResult ==
    ASSUME Destroys, NEW d, NEW a \in BOOLEAN, NEW b \in BOOLEAN, Going(d, a, b)
    PROVE  Result(d, CpAck(d), a, b)
  <1> DEFINE e == FreeCpMsg(d)
             f == NewCpState(e, "MM_ESTABLISHED")
             g == [f EXCEPT !.cp_timer = FALSE]
             h == NewCpState(g, "IDLE")
  <1>0. Talk(d, a, b) /\ Out(d, a, b) /\ d.prims = {}
    BY DEF Going, Talk
  <1>1. CpAck(d) = IF d.cp_rel THEN MmRelReq(h) ELSE g
    BY DEF CpAck
  <1>2. Talk(e, a, b) /\ e.cp_msg = NoMsg /\ \A x \in TrFields \ {"cp_msg"} : e[x] = d[x]
    BY <1>0, TalkFree
  <1> HIDE DEF e
  <1>3. /\ Talk(f, a, b) /\ f.cp_state = "MM_ESTABLISHED"
        /\ \A x \in TrFields \ {"cp_state"} : f[x] = e[x]
    BY <1>2, TalkCpState
  <1> HIDE DEF f
  <1>4. IsTr(g) /\ g.cp_timer = FALSE /\ \A x \in TrFields \ {"cp_timer"} : g[x] = f[x]
    BY <1>3 DEF Talk, IsTr, TrFields
  <1> HIDE DEF g
  <1>5. Talk(g, a, b)
    BY <1>3, <1>4 DEF Talk, Out, TrFields
  <1>6. /\ g.reps = d.reps /\ g.inds = d.inds /\ g.rp_state = d.rp_state
        /\ g.cp_msg = NoMsg /\ g.prims = {} /\ g.cp_state = "MM_ESTABLISHED"
    BY <1>0, <1>2, <1>3, <1>4 DEF TrFields
  <1>7. Going(g, a, b)
    BY <1>4, <1>5, <1>6 DEF Going, Cp
  <1>8. Stays(d, g)
    BY <1>0, <1>6, StaysSame
  <1>9. CASE d.cp_rel
    <2>1. Talk(h, a, b) /\ \A x \in TrFields \ {"cp_state"} : h[x] = g[x]
      BY <1>5, TalkCpState
    <2> HIDE DEF h
    <2>2. h.reps = d.reps /\ h.inds = d.inds /\ h.rp_state \in {d.rp_state, "IDLE"}
      BY <1>6, <2>1 DEF TrFields
    <2>3. Stays(d, h)
      BY <1>0, <2>2, StaysSame
    <2>4. Result(d, MmRelReq(h), a, b)
      BY <1>0, <2>1, <2>3, ResultRelReq
    <2> QED
      BY <1>1, <1>9, <2>4
  <1>10. CASE ~d.cp_rel
    BY <1>1, <1>7, <1>8, <1>10 DEF Result
  <1> QED
    BY <1>9, <1>10

(* The relay layer goes idle and asks for a release.                        *)
LEMMA IdleThenRelease ==
    ASSUME Destroys, NEW d, NEW a \in BOOLEAN, NEW b \in BOOLEAN, Going(d, a, b)
    PROVE  /\ Going(NewRpState(d, "IDLE"), a, b) /\ Stays(d, NewRpState(d, "IDLE"))
           /\ Result(d, SendRelease(NewRpState(d, "IDLE")), a, b)
  <1> DEFINE e == NewRpState(d, "IDLE")
  <1>0. Talk(d, a, b) /\ Out(d, a, b) /\ d.prims = {} /\ Cp(d)
    BY DEF Going, Talk
  <1>1. /\ Talk(e, a, b) /\ e.rp_state = "IDLE"
        /\ \A x \in TrFields \ {"rp_state", "rp_timer"} : e[x] = d[x]
    BY <1>0, TalkRpIdle
  <1> HIDE DEF e
  <1>2. /\ e.reps = d.reps /\ e.inds = d.inds /\ e.prims = {} /\ e.cp_state = d.cp_state
        /\ e.cp_msg = d.cp_msg /\ e.cp_timer = d.cp_timer
    BY <1>0, <1>1 DEF TrFields
  <1>3. Going(e, a, b) /\ Out(e, a, b)
    BY <1>0, <1>1, <1>2 DEF Going, Cp, Talk
  <1>4. Stays(d, e)
    BY <1>0, <1>1, <1>2, StaysSame
  <1>5. Result(e, SendRelease(e), a, b)
    BY <1>3, GoingRelease
  <1>6. Result(d, SendRelease(e), a, b)
    BY <1>0, <1>3, <1>4, <1>5, ResultThen
  <1> QED
    BY <1>3, <1>4, <1>6 DEF e

(* gsm411_send_rp_error() and the end of the relay layer's part.            *)
LEMMA RpErrorSent ==
    ASSUME Destroys, NEW d, NEW a \in BOOLEAN, NEW b \in BOOLEAN, Going(d, a, b)
    PROVE  /\ Result(d, NewRpState(SendRpError(d), "IDLE"), a, b)
           /\ Result(d, SendRelease(NewRpState(SendRpError(d), "IDLE")), a, b)
  <1> DEFINE e == SendRpError(d)
  <1>0. Out(d, a, b)
    BY DEF Going, Talk
  <1>1. Going(e, a, b) /\ \A x \in {"rp_state", "rp_timer", "reps", "inds"} : e[x] = d[x]
    BY GoingDataReq, NoMsgs DEF SendRpError
  <1> HIDE DEF e
  <1>2. e.reps = d.reps /\ e.inds = d.inds /\ e.rp_state \in {d.rp_state, "IDLE"}
    BY <1>1
  <1>3. Stays(d, e)
    BY <1>0, <1>2, StaysSame
  <1>4. /\ Going(NewRpState(e, "IDLE"), a, b) /\ Stays(e, NewRpState(e, "IDLE"))
        /\ Result(e, SendRelease(NewRpState(e, "IDLE")), a, b)
    BY <1>1, IdleThenRelease
  <1>5. Out(e, a, b)
    BY <1>1 DEF Going, Talk
  <1>6. Result(e, NewRpState(e, "IDLE"), a, b)
    BY <1>4 DEF Result
  <1>7. Result(d, NewRpState(e, "IDLE"), a, b)
    BY <1>0, <1>3, <1>5, <1>6, ResultThen
  <1>8. Result(d, SendRelease(NewRpState(e, "IDLE")), a, b)
    BY <1>0, <1>3, <1>4, <1>5, ResultThen
  <1> QED
    BY <1>7, <1>8 DEF e

(* gsm411_mnsms_data_ind_tx(): the answer is reported, or is in error.      *)
LEMMA MnDataIndTxResult ==
    ASSUME Destroys, NEW d, NEW a \in BOOLEAN, NEW b \in BOOLEAN, Going(d, a, b),
           d.rp_state # "IDLE", NEW rp \in Rps(b)
    PROVE  Result(d, MnDataIndTx(d, rp), a, b)
  <1>0. Talk(d, a, b) /\ Out(d, a, b)
    BY DEF Going, Talk
  <1>1. CASE rp.kind \in {"ACK", "ERROR"}
    <2> DEFINE e == NewRpState(d, "IDLE")
               f == RlReportInd(e, rp)
    <2>1. MnDataIndTx(d, rp) = SendRelease(f)
      BY <1>1 DEF MnDataIndTx
    <2>2. Going(e, a, b)
      BY IdleThenRelease
    <2>3. e.rp_state = "IDLE" /\ e.reps = d.reps /\ e.inds = d.inds
      BY <1>0, TalkRpIdle DEF TrFields
    <2> HIDE DEF e
    <2>4. /\ Talk(f, a, b) /\ Len(f.reps) = Len(e.reps) + 1
          /\ \A x \in TrFields \ {"reps"} : f[x] = e[x]
      BY <2>2, TalkReport DEF Going
    <2> HIDE DEF f
    <2>5. /\ f.prims = e.prims /\ f.cp_state = e.cp_state /\ f.cp_msg = e.cp_msg
          /\ f.cp_timer = e.cp_timer /\ f.rp_state = "IDLE" /\ f.inds = d.inds
          /\ Len(f.reps) = Len(d.reps) + 1
      BY <2>3, <2>4 DEF TrFields
    <2>6. Going(f, a, b) /\ Out(f, a, b)
      BY <2>2, <2>4, <2>5 DEF Going, Cp, Talk
    <2>7. Stays(d, f)
      BY <1>0, <2>5, StaysReport
    <2>8. Result(f, SendRelease(f), a, b)
      BY <2>6, GoingRelease
    <2> QED
      BY <1>0, <2>1, <2>6, <2>7, <2>8, ResultThen
  <1>2. CASE rp.kind \notin {"ACK", "ERROR"}
    <2>1. MnDataIndTx(d, rp) = SendRelease(NewRpState(SendRpError(d), "IDLE"))
      BY <1>2 DEF MnDataIndTx
    <2> QED
      BY <2>1, RpErrorSent
  <1> QED
    BY <1>1, <1>2

(* CP-ACK goes out, and the control layer stays as it is.                   *)
LEMMA GoingCpSend ==
    ASSUME NEW d, NEW a \in BOOLEAN, NEW b \in BOOLEAN, Going(d, a, b)
    PROVE  /\ Going(CpSend(d, "ACK", NoMsg), a, b)
           /\ \A x \in TrFields \ {"mm"} : CpSend(d, "ACK", NoMsg)[x] = d[x]
  <1> DEFINE e == CpSend(d, "ACK", NoMsg)
  <1>1. Talk(e, a, b) /\ \A x \in TrFields \ {"mm"} : e[x] = d[x]
    BY TalkCpSend, NoMsgs DEF Going
  <1> HIDE DEF e
  <1>2. Going(e, a, b)
    BY <1>1 DEF Going, Cp, TrFields
  <1> QED
    BY <1>1, <1>2 DEF e

LEMMA CpDataResult ==
    ASSUME Destroys, NEW d, NEW a \in BOOLEAN, NEW b \in BOOLEAN, Going(d, a, b),
           NEW rp \in Rps(b)
    PROVE  Result(d, CpData(d, rp), a, b)
  <1> DEFINE e == CpSend(d, "ACK", NoMsg)
  <1>0. Out(d, a, b) /\ d.cp_state # "IDLE"
    BY DEF Going, Talk, Cp
  <1>1. CpData(d, rp) = SmrRecv(e, "DATA_IND", rp)
    BY <1>0 DEF CpData
  <1>2. Going(e, a, b) /\ \A x \in TrFields \ {"mm"} : e[x] = d[x]
    BY GoingCpSend
  <1> HIDE DEF e
  <1>3. e.reps = d.reps /\ e.inds = d.inds /\ e.rp_state \in {d.rp_state, "IDLE"} /\ Out(e, a, b)
    BY <1>2 DEF TrFields, Going, Talk
  <1>4. Stays(d, e)
    BY <1>0, <1>3, StaysSame
  <1>5. CASE e.rp_state = "WAIT_FOR_RP_ACK"
    <2>1. SmrRecv(e, "DATA_IND", rp) = MnDataIndTx(e, rp)
      BY <1>5 DEF SmrRecv
    <2>2. Result(e, MnDataIndTx(e, rp), a, b)
      BY <1>2, <1>5, MnDataIndTxResult
    <2> QED
      BY <1>0, <1>1, <1>3, <1>4, <2>1, <2>2, ResultThen
  <1>6. CASE e.rp_state # "WAIT_FOR_RP_ACK"
    <2>1. SmrRecv(e, "DATA_IND", rp) = Used(e)
      BY <1>6 DEF SmrRecv
    <2>2. Used(e) = e
      BY <1>2, LiveSteps DEF Going
    <2> QED
      BY <1>1, <1>2, <1>4, <2>1, <2>2 DEF Result
  <1> QED
    BY <1>5, <1>6

(* A message of the peer, whatever it is and whenever it arrives.           *)
LEMMA DataIndResult ==
    ASSUME Destroys, NEW d, NEW a \in BOOLEAN, NEW b \in BOOLEAN, Going(d, a, b),
           NEW cp \in {"DATA", "ACK", "ERROR"}, NEW rp \in Rps(b)
    PROVE  Result(d, SmcRecv(d, "DATA_IND", cp, rp), a, b)
  <1> DEFINE o == SmcRecv(d, "DATA_IND", cp, rp)
  <1>1. \/ o = CpError(d) \/ o = CpAck(d) \/ o = CpData(d, rp) \/ o = Unhandled(d)
    BY DEF SmcRecv
  <1>2. Result(d, CpError(d), a, b) /\ Result(d, Unhandled(d), a, b)
    BY CpErrors, UnhandledEnds DEF Going
  <1>3. Result(d, CpAck(d), a, b) /\ Result(d, CpData(d, rp), a, b)
    BY CpAckResult, CpDataResult
  <1> HIDE DEF o
  <1>4. Result(d, o, a, b)
    BY <1>1, <1>2, <1>3
  <1> QED
    BY <1>4 DEF o

(* MMSMS-EST-CNF.                                                           *)
LEMMA EstCnfResult ==
    ASSUME NEW d, NEW a \in BOOLEAN, NEW b \in BOOLEAN, Going(d, a, b)
    PROVE  Result(d, SmcRecv(d, "EST_CNF", "none", NoMsg), a, b)
  <1>0. Talk(d, a, b) /\ Out(d, a, b) /\ d.prims = {}
    BY DEF Going, Talk
  <1>1. CASE d.cp_state = "MM_CONN_PENDING"
    <2>1. d.cp_msg # NoMsg
      BY <1>1 DEF Going, Cp
    <2>2. SmcRecv(d, "EST_CNF", "none", NoMsg) = SendMsg(d)
      BY <1>1, <2>1 DEF SmcRecv, EstCnf
    <2> DEFINE e == SendMsg(d)
    <2>3. Going(e, a, b) /\ \A x \in {"rp_state", "rp_timer", "reps", "inds"} : e[x] = d[x]
      BY <1>0, <2>1, GoingSendMsg
    <2> HIDE DEF e
    <2>4. e.reps = d.reps /\ e.inds = d.inds /\ e.rp_state \in {d.rp_state, "IDLE"}
      BY <2>3
    <2>5. Stays(d, e)
      BY <1>0, <2>4, StaysSame
    <2> QED
      BY <2>2, <2>3, <2>5 DEF Result, e
  <1>2. CASE d.cp_state # "MM_CONN_PENDING"
    <2>1. SmcRecv(d, "EST_CNF", "none", NoMsg) = Used(d)
      BY <1>2 DEF SmcRecv
    <2>2. Used(d) = d
      BY <1>0, LiveSteps
    <2>3. Stays(d, d)
      BY <1>0, StaysSame
    <2> QED
      BY <2>1, <2>2, <2>3 DEF Result
  <1> QED
    BY <1>1, <1>2

(* SM-RL-REPORT-REQ.                                                        *)
LEMMA ReportReqResult ==
    ASSUME Destroys, NEW d, NEW a \in BOOLEAN, NEW b \in BOOLEAN, Going(d, a, b),
           d.rp_state = "WAIT_TO_TX_RP_ACK", NEW rp \in Rps(a), rp # NoMsg
    PROVE  Result(d, SmrSend(d, "REPORT_REQ", rp), a, b)
  <1> DEFINE e == NewRpState(d, "IDLE")
             f == SmcSend(e, "DATA_REQ", rp)
  <1>0. Out(d, a, b)
    BY DEF Going, Talk
  <1>1. SmrSend(d, "REPORT_REQ", rp) = SendRelease(f)
    BY DEF SmrSend, RlReportReq
  <1>2. Going(e, a, b) /\ Stays(d, e)
    BY IdleThenRelease
  <1> HIDE DEF e
  <1>3. Going(f, a, b) /\ \A x \in {"rp_state", "rp_timer", "reps", "inds"} : f[x] = e[x]
    BY <1>2, GoingDataReq
  <1> HIDE DEF f
  <1>4. f.reps = e.reps /\ f.inds = e.inds /\ f.rp_state \in {e.rp_state, "IDLE"}
        /\ Out(e, a, b) /\ Out(f, a, b)
    BY <1>2, <1>3 DEF Going, Talk
  <1>5. Stays(e, f)
    BY <1>4, StaysSame
  <1>6. Stays(d, f)
    BY <1>0, <1>2, <1>4, <1>5, StaysThen
  <1>7. Result(f, SendRelease(f), a, b)
    BY <1>3, GoingRelease
  <1> QED
    BY <1>0, <1>1, <1>4, <1>6, <1>7, ResultThen

-----------------------------------------------------------------------------
(* New transactions *)

LEMMA NewTalks ==
    ASSUME NEW a \in BOOLEAN, NEW b \in BOOLEAN
    PROVE  /\ Talk(New, a, b)
           /\ New.rp_state = "IDLE" /\ New.cp_state = "IDLE" /\ New.prims = {}
           /\ New.reps = <<>> /\ New.inds = <<>> /\ New.cp_msg = NoMsg /\ New.cp_timer = FALSE
  <1>1. /\ New.rp_state = "IDLE" /\ New.cp_state = "IDLE" /\ New.prims = {} /\ New.mm = <<>>
        /\ New.reps = <<>> /\ New.inds = <<>> /\ New.cp_msg = NoMsg /\ New.cp_timer = FALSE
        /\ New.life = "live" /\ New.fatal = FALSE /\ New.rp_timer = FALSE
    BY DEF New
  <1>2. IsTr(New)
    BY DEF New, IsTr, TrFields
  <1> QED
    BY <1>1, <1>2, NoMsgs DEF Talk, Out, RpStates

(* SM-RL-DATA-REQ: the relay layer waits for an answer, the control layer   *)
(* keeps the message until there is a connection.                           *)
LEMMA SubmitNew ==
    ASSUME NEW a \in BOOLEAN, NEW b \in BOOLEAN, NEW rp \in Rps(a), rp # NoMsg
    PROVE  /\ Talk(SmrSend(New, "DATA_REQ", rp), a, b) /\ Cp(SmrSend(New, "DATA_REQ", rp))
           /\ SmrSend(New, "DATA_REQ", rp).prims = {"EST_REQ"}
           /\ SmrSend(New, "DATA_REQ", rp).reps = <<>>
           /\ SmrSend(New, "DATA_REQ", rp).inds = <<>>
           /\ SmrSend(New, "DATA_REQ", rp).rp_state = "WAIT_FOR_RP_ACK"
           /\ SmrSend(New, "DATA_REQ", rp).cp_state = "MM_CONN_PENDING"
  <1> DEFINE e == [New EXCEPT !.rp_timer = TRUE]
             f == NewRpState(e, "WAIT_FOR_RP_ACK")
             g == [f EXCEPT !.fatal = @ \/ f.cp_msg # NoMsg, !.cp_msg = rp, !.cp_rel = FALSE]
             h == NewCpState(g, "MM_CONN_PENDING")
             o == MmSend(h, "EST_REQ")
  <1>0. /\ Talk(New, a, b) /\ New.rp_state = "IDLE" /\ New.cp_state = "IDLE" /\ New.prims = {}
        /\ New.reps = <<>> /\ New.inds = <<>> /\ New.cp_msg = NoMsg /\ New.cp_timer = FALSE
    BY NewTalks
  <1>1. SmrSend(New, "DATA_REQ", rp) = SmcSend(f, "EST_REQ", rp)
    BY <1>0 DEF SmrSend, RlDataReq
  <1>2. IsTr(e) /\ e.rp_timer = TRUE /\ \A x \in TrFields \ {"rp_timer"} : e[x] = New[x]
    BY <1>0 DEF Talk, IsTr, TrFields
  <1> HIDE DEF e
  <1>3. e.life = "live"
    BY <1>0, <1>2 DEF Talk, TrFields
  <1>4. Used(e) = e
    BY <1>2, <1>3 DEF Used, IsTr, TrFields
  <1>5. f = [e EXCEPT !.rp_state = "WAIT_FOR_RP_ACK", !.rp_timer = @ /\ "WAIT_FOR_RP_ACK" # "IDLE"]
    BY <1>4 DEF NewRpState
  <1> HIDE DEF f
  <1>6. /\ IsTr(f) /\ f.rp_state = "WAIT_FOR_RP_ACK"
        /\ \A x \in TrFields \ {"rp_state", "rp_timer"} : f[x] = New[x]
    BY <1>2, <1>5 DEF IsTr, TrFields
  <1>7. f.cp_msg = NoMsg /\ f.cp_state = "IDLE" /\ f.fatal = FALSE
    BY <1>0, <1>6 DEF Talk, TrFields
  <1>8. (f.fatal \/ f.cp_msg # NoMsg) = FALSE
    BY <1>7
  <1>9. /\ IsTr(g) /\ g.fatal = FALSE /\ g.cp_msg = rp
        /\ \A x \in TrFields \ {"fatal", "cp_msg", "cp_rel"} : g[x] = f[x]
    BY <1>6, <1>8 DEF IsTr, TrFields
  <1>10. SmcSend(f, "EST_REQ", rp) = o
    BY <1>7 DEF SmcSend, EstReq
  <1> HIDE DEF g
  <1>11. Talk(g, a, b)
    BY <1>0, <1>6, <1>9 DEF Talk, Out, TrFields, RpStates
  <1>12. Talk(h, a, b) /\ h.cp_state = "MM_CONN_PENDING" /\ \A x \in TrFields \ {"cp_state"} : h[x] = g[x]
    BY <1>11, TalkCpState
  <1> HIDE DEF h
  <1>13. o = [h EXCEPT !.prims = @ \cup {"EST_REQ"}]
    BY <1>12, LiveSteps DEF MmSend
  <1> HIDE DEF o
  <1>14. IsTr(o) /\ o.prims = h.prims \cup {"EST_REQ"} /\ \A x \in TrFields \ {"prims"} : o[x] = h[x]
    BY <1>12, <1>13 DEF Talk, IsTr, TrFields
  <1>15. Talk(o, a, b)
    BY <1>12, <1>14 DEF Talk, Out, TrFields
  <1>16. h.prims = {} /\ o.reps = <<>> /\ o.inds = <<>> /\ o.rp_state = "WAIT_FOR_RP_ACK" /\ o.cp_msg = rp
         /\ o.cp_timer = FALSE /\ o.cp_state = "MM_CONN_PENDING"
    BY <1>0, <1>6, <1>9, <1>12, <1>14 DEF TrFields
  <1>17. Cp(o) /\ o.prims = {"EST_REQ"}
    BY <1>14, <1>16 DEF Cp
  <1> QED
    BY <1>1, <1>10, <1>15, <1>16, <1>17

(* The first CP-DATA of the peer: the message is given to the upper layer,  *)
(* or answered with an error.                                               *)
LEMMA EstIndNew ==
    ASSUME Destroys, NEW a \in BOOLEAN, NEW b \in BOOLEAN, NEW rp \in Rps(b)
    PROVE  LET o == SmcRecv(New, "EST_IND", "DATA", rp)
           IN  /\ Going(o, a, b) \/ Ended(o, a, b)
               /\ o.rp_state = "IDLE" \/ Len(o.inds) = 1
  <1> DEFINE e == NewCpState(New, "MM_ESTABLISHED")
             f == [e EXCEPT !.cp_rel = FALSE]
             g == CpSend(f, "ACK", NoMsg)
             o == SmcRecv(New, "EST_IND", "DATA", rp)
  <1>0. /\ Talk(New, a, b) /\ New.rp_state = "IDLE" /\ New.cp_state = "IDLE" /\ New.prims = {}
        /\ New.reps = <<>> /\ New.inds = <<>> /\ New.cp_msg = NoMsg /\ New.cp_timer = FALSE
    BY NewTalks
  <1>1. o = SmrRecv(g, "EST_IND", rp)
    BY <1>0 DEF SmcRecv, CpData
  <1> HIDE DEF o
  <1>2. /\ Talk(e, a, b) /\ e.cp_state = "MM_ESTABLISHED"
        /\ \A x \in TrFields \ {"cp_state"} : e[x] = New[x]
    BY <1>0, TalkCpState
  <1> HIDE DEF e
  <1>3. IsTr(f) /\ \A x \in TrFields \ {"cp_rel"} : f[x] = e[x]
    BY <1>2 DEF Talk, IsTr, TrFields
  <1> HIDE DEF f
  <1>4. Talk(f, a, b)
    BY <1>2, <1>3 DEF Talk, Out, TrFields
  <1>5. /\ f.cp_state = "MM_ESTABLISHED" /\ f.cp_msg = NoMsg /\ f.cp_timer = FALSE /\ f.prims = {}
        /\ f.rp_state = "IDLE" /\ f.inds = <<>>
    BY <1>0, <1>2, <1>3 DEF TrFields
  <1>6. Going(f, a, b)
    BY <1>4, <1>5 DEF Going, Cp
  <1>7. Going(g, a, b) /\ \A x \in TrFields \ {"mm"} : g[x] = f[x]
    BY <1>6, GoingCpSend
  <1> HIDE DEF g
  <1>8. g.rp_state = "IDLE" /\ g.inds = <<>>
    BY <1>5, <1>7 DEF TrFields
  <1>9. o = MnEstInd(g, rp)
    BY <1>1, <1>8 DEF SmrRecv
  <1>10. CASE rp.kind = "DATA"
    <2> DEFINE h == [g EXCEPT !.rp_timer = TRUE]
               i == NewRpState(h, "WAIT_TO_TX_RP_ACK")
    <2>1. o = RlDataInd(i, rp)
      BY <1>9, <1>10 DEF MnEstInd
    <2>2. IsTr(h) /\ h.rp_timer = TRUE /\ \A x \in TrFields \ {"rp_timer"} : h[x] = g[x]
      BY <1>7 DEF Going, Talk, IsTr, TrFields
    <2> HIDE DEF h
    <2>3. h.life = "live"
      BY <1>7, <2>2 DEF Going, Talk, TrFields
    <2>4. Used(h) = h
      BY <2>2, <2>3 DEF Used, IsTr, TrFields
    <2>5. i = [h EXCEPT !.rp_state = "WAIT_TO_TX_RP_ACK",
                        !.rp_timer = @ /\ "WAIT_TO_TX_RP_ACK" # "IDLE"]
      BY <2>4 DEF NewRpState
    <2> HIDE DEF i
    <2>6. /\ IsTr(i) /\ i.rp_state = "WAIT_TO_TX_RP_ACK"
          /\ \A x \in TrFields \ {"rp_state", "rp_timer"} : i[x] = g[x]
      BY <2>2, <2>5 DEF IsTr, TrFields
    <2>7. Talk(i, a, b)
      BY <1>7, <2>6 DEF Going, Talk, Out, TrFields, RpStates
    <2>8. o = [i EXCEPT !.inds = Append(i.inds, rp)]
      BY <2>1, <2>7, LiveSteps DEF RlDataInd
    <2>9. i.inds = <<>>
      BY <1>8, <2>6 DEF TrFields
    <2>10. Append(i.inds, rp) \in Seq(RpMsgs) /\ Len(Append(i.inds, rp)) = 1
      <3>1. rp \in RpMsgs
        BY DEF Rps
      <3> QED
        BY <2>9, <3>1
    <2>11. /\ IsTr(o) /\ o.inds = Append(i.inds, rp) /\ \A x \in TrFields \ {"inds"} : o[x] = i[x]
      BY <2>7, <2>8 DEF Talk, IsTr, TrFields
    <2>12. Talk(o, a, b)
      BY <2>7, <2>10, <2>11 DEF Talk, Out, TrFields
    <2>13. Going(o, a, b)
      BY <1>7, <2>6, <2>11, <2>12 DEF Going, Cp, TrFields
    <2> QED
      BY <2>10, <2>11, <2>13 DEF o
  <1>11. CASE rp.kind # "DATA"
    <2>1. o \in {SendRelease(NewRpState(SendRpError(g), "IDLE")), NewRpState(SendRpError(g), "IDLE")}
      BY <1>9, <1>11 DEF MnEstInd
    <2>2. Result(g, o, a, b)
      BY <1>7, <2>1, RpErrorSent
    <2>3. o.rp_state = "IDLE"
      BY <1>8, <2>2 DEF Result, Stays
    <2> QED
      BY <2>2, <2>3 DEF Result, o
  <1> QED
    BY <1>10, <1>11

-----------------------------------------------------------------------------
(* The inductive invariant *)

(* The terminator's upper layer was given a message and reported success:   *)
(* only then may the terminator send an RP-ACK, and the originator's upper  *)
(* layer be told of one.                                                    *)
Ok == acked /\ ind > 0
MayAck(e, ok) == e = MO \/ ok
MayTell(e, ok) == e = MT \/ ok

(* Between the handlers: with a connection there is a transaction at work,  *)
(* without one there is none.                                               *)
Idle(d) == d.mm = <<>> /\ d.prims = {} /\ d.inds = <<>> /\ d.reps = <<>>
SideOf(d, c, a, b) ==
    IF c = "none" THEN d = Gone ELSE Going(d, a, b) /\ Idle(d)

Shapes ==
    /\ env \in Environments
    /\ tr = [e \in Sides |-> tr[e]]
    /\ conn = [e \in Sides |-> conn[e]]
    /\ chan = [e \in Sides |-> chan[e]]
    /\ rep = [e \in Sides |-> rep[e]]
    /\ subs \in Nat /\ ind \in Nat /\ acked \in BOOLEAN
SidesInv == \A e \in Sides : SideOf(tr[e], conn[e], MayAck(e, Ok), MayTell(e, Ok))
ChanInv == \A e \in Sides : chan[e] \in Seq(Msgs(MayTell(e, Ok)))
RepInv == \A e \in Sides : rep[e] \in Seq(Rps(MayTell(e, Ok)))
(* A submission is reported on once: the reports made and the one that is   *)
(* due are no more than the submissions.                                    *)
DueInv == Len(rep[MO]) + Due(tr[MO]) <= subs
GivenInv == tr[MT].rp_state = "WAIT_TO_TX_RP_ACK" => ind > 0

Inv == Destroys /\ Shapes /\ SidesInv /\ ChanInv /\ RepInv /\ DueInv /\ GivenInv

LEMMA InitInv == Destroys /\ Init => Inv
  <1> SUFFICES ASSUME Destroys, Init PROVE Inv
    OBVIOUS
  <1>1. Shapes
    BY DEF Init, Shapes
  <1>2. \A e \in Sides : tr[e] = Gone /\ conn[e] = "none" /\ chan[e] = <<>> /\ rep[e] = <<>>
    BY DEF Init
  <1>3. SidesInv
    BY <1>2 DEF SidesInv, SideOf
  <1>4. ChanInv /\ RepInv
    <2>1. \A S : <<>> \in Seq(S)
      OBVIOUS
    <2> QED
      BY <1>2, <2>1 DEF ChanInv, RepInv
  <1>5. MO \in Sides /\ MT \in Sides /\ Gone.rp_state = "IDLE"
    BY DEF Sides, Gone, New
  <1>6. DueInv
    BY <1>2, <1>5 DEF DueInv, Due, Init
  <1>7. GivenInv
    BY <1>2, <1>5 DEF GivenInv
  <1> QED
    BY <1>1, <1>3, <1>4, <1>6, <1>7 DEF Inv

-----------------------------------------------------------------------------
(* What a handler leaves is taken by the layers around it *)

LEMMA MoreAcks ==
    ASSUME NEW ok \in BOOLEAN, NEW more \in BOOLEAN, ok => more
    PROVE  /\ Rps(ok) \subseteq Rps(more) /\ Msgs(ok) \subseteq Msgs(more)
           /\ \A s \in Seq(Rps(ok)) : s \in Seq(Rps(more))
           /\ \A s \in Seq(Msgs(ok)) : s \in Seq(Msgs(more))
  <1>1. Rps(ok) \subseteq Rps(more) /\ Msgs(ok) \subseteq Msgs(more)
    BY DEF Rps, Msgs
  <1>2. \A S, T : S \subseteq T => \A s \in Seq(S) : s \in Seq(T)
    OBVIOUS
  <1> QED
    BY <1>1, <1>2

LEMMA OutMore ==
    ASSUME NEW d, NEW a \in BOOLEAN, NEW b \in BOOLEAN, NEW a2 \in BOOLEAN, NEW b2 \in BOOLEAN,
           a => a2, b => b2
    PROVE  /\ Out(d, a, b) => Out(d, a2, b2)
           /\ Going(d, a, b) => Going(d, a2, b2)
           /\ \A c : SideOf(d, c, a, b) => SideOf(d, c, a2, b2)
  <1>1. Out(d, a, b) => Out(d, a2, b2)
    BY MoreAcks DEF Out
  <1>2. Going(d, a, b) => Going(d, a2, b2)
    BY <1>1 DEF Going, Talk
  <1> QED
    BY <1>1, <1>2 DEF SideOf

ConnAfter(d, c) ==
    IF "REL_REQ" \in d.prims THEN "none"
    ELSE IF "EST_REQ" \in d.prims THEN "pending" ELSE c
Clear(d) == [d EXCEPT !.mm = <<>>, !.prims = {}, !.inds = <<>>, !.reps = <<>>]

(* The transaction goes on, with a connection; or it is over, without one.  *)
GoesOn(d, c, a, b) ==
    /\ Talk(d, a, b) /\ Cp(d)
    /\ (d.prims = {} /\ c # "none") \/ d.prims = {"EST_REQ"}
Over(d, c, a, b) ==
    /\ IsTr(d) /\ Out(d, a, b)
    /\ "REL_REQ" \in d.prims \/ (d.prims = {} /\ c = "none")
    /\ \A x \in TrFields \ Outputs : d[x] = Gone[x]

LEMMA Cleared ==
    ASSUME NEW d, NEW c, NEW a \in BOOLEAN, NEW b \in BOOLEAN,
           GoesOn(d, c, a, b) \/ Over(d, c, a, b)
    PROVE  /\ SideOf(Clear(d), ConnAfter(d, c), a, b)
           /\ Clear(d).rp_state = d.rp_state
  <1> DEFINE e == Clear(d)
  <1>0. IsTr(d) /\ Out(d, a, b)
    BY DEF GoesOn, Over, Talk
  <1>1. IsTr(e) /\ Idle(e) /\ \A x \in TrFields \ Outputs : e[x] = d[x]
    BY <1>0 DEF Clear, IsTr, TrFields, Outputs, Idle
  <1> HIDE DEF e
  <1>2. e.rp_state = d.rp_state
    BY <1>1 DEF TrFields, Outputs
  <1>3. Out(e, a, b)
    BY <1>0, <1>1 DEF Out, Idle, TrFields, Outputs
  <1>4. CASE GoesOn(d, c, a, b)
    <2>1. ConnAfter(d, c) # "none"
      BY <1>4 DEF ConnAfter, GoesOn
    <2>2. Talk(e, a, b) /\ Cp(e) /\ e.prims = {}
      BY <1>1, <1>3, <1>4 DEF GoesOn, Talk, Cp, Idle, TrFields, Outputs
    <2> QED
      BY <1>1, <1>2, <2>1, <2>2 DEF SideOf, Going, e
  <1>5. CASE Over(d, c, a, b)
    <2>1. ConnAfter(d, c) = "none"
      BY <1>5 DEF ConnAfter, Over
    <2>2. IsTr(Gone) /\ Idle(Gone)
      BY DEF Gone, New, IsTr, Idle, TrFields
    <2>3. \A x \in TrFields : e[x] = Gone[x]
      BY <1>1, <1>5, <2>2 DEF Over, Idle, TrFields, Outputs
    <2>4. e = Gone
      BY <1>1, <2>2, <2>3 DEF IsTr
    <2> QED
      BY <1>2, <2>1, <2>4 DEF SideOf, e
  <1> QED
    BY <1>4, <1>5

LEMMA Peers ==
    ASSUME NEW e \in Sides, NEW ok \in BOOLEAN
    PROVE  /\ Peer(e) \in Sides /\ Peer(e) # e /\ \A x \in Sides : x = e \/ x = Peer(e)
           /\ MayTell(Peer(e), ok) = MayAck(e, ok)
           /\ MayTell(e, ok) \in BOOLEAN /\ MayAck(e, ok) \in BOOLEAN
  BY SmsEnvAssumption DEF Sides, Peer, MayTell, MayAck

LEMMA CommitInv ==
    ASSUME Inv, NEW e \in Sides, NEW d, NEW c, NEW rest, Commit(e, d, c, rest),
           NEW ok \in BOOLEAN, ok = (acked' /\ ind' > 0),
           acked' \in BOOLEAN, acked => acked', subs' \in Nat, subs <= subs',
           GoesOn(d, c, MayAck(e, ok), MayTell(e, ok)) \/ Over(d, c, MayAck(e, ok), MayTell(e, ok)),
           rest \in Seq(Msgs(MayTell(e, ok))),
           e = MO => Len(rep[MO]) + Len(d.reps) + Due(d) <= subs',
           e = MT /\ d.rp_state = "WAIT_TO_TX_RP_ACK" => ind' > 0
    PROVE  Inv'
  <1> DEFINE a == MayAck(e, ok)
             b == MayTell(e, ok)
  <1>1. /\ tr' = [tr EXCEPT ![e] = Clear(d)]
        /\ conn' = [conn EXCEPT ![e] = ConnAfter(d, c)]
        /\ chan' = [chan EXCEPT ![e] = rest, ![Peer(e)] = IF c = "up" THEN @ \o d.mm ELSE @]
        /\ rep' = [rep EXCEPT ![e] = @ \o d.reps]
        /\ ind' = ind + Len(d.inds) /\ env' = env
    BY DEF Commit, Clear, ConnAfter
  <1>2. a \in BOOLEAN /\ b \in BOOLEAN
    BY Peers
  <1>3. Out(d, a, b)
    BY DEF GoesOn, Over, Talk
  <1>4. Len(d.inds) \in Nat /\ Len(d.reps) \in Nat
    BY <1>3 DEF Out
  <1>5. Ok \in BOOLEAN /\ (Ok => ok) /\ ind \in Nat /\ ind' \in Nat /\ ind <= ind'
    BY <1>1, <1>4 DEF Inv, Shapes, Ok
  <1>6. Ok' = ok
    BY DEF Ok
  <1>7. /\ tr = [x \in Sides |-> tr[x]] /\ conn = [x \in Sides |-> conn[x]]
        /\ chan = [x \in Sides |-> chan[x]] /\ rep = [x \in Sides |-> rep[x]]
        /\ env \in Environments
    BY DEF Inv, Shapes
  <1>8. Peer(e) \in Sides /\ Peer(e) # e /\ \A x \in Sides : x = e \/ x = Peer(e)
    BY Peers
  <1>9. /\ tr' = [x \in Sides |-> tr'[x]] /\ tr'[e] = Clear(d)
        /\ \A x \in Sides \ {e} : tr'[x] = tr[x]
    BY <1>1, <1>7
  <1>10. /\ conn' = [x \in Sides |-> conn'[x]] /\ conn'[e] = ConnAfter(d, c)
         /\ \A x \in Sides \ {e} : conn'[x] = conn[x]
    BY <1>1, <1>7
  <1>11. /\ chan' = [x \in Sides |-> chan'[x]] /\ chan'[e] = rest
         /\ chan'[Peer(e)] \in {chan[Peer(e)], chan[Peer(e)] \o d.mm}
    BY <1>1, <1>7, <1>8
  <1>12. /\ rep' = [x \in Sides |-> rep'[x]] /\ rep'[e] = rep[e] \o d.reps
         /\ \A x \in Sides \ {e} : rep'[x] = rep[x]
    BY <1>1, <1>7
  <1>13. \A x \in Sides :
            /\ MayAck(x, Ok) \in BOOLEAN /\ MayTell(x, Ok) \in BOOLEAN
            /\ MayAck(x, ok) \in BOOLEAN /\ MayTell(x, ok) \in BOOLEAN
            /\ (MayAck(x, Ok) => MayAck(x, ok)) /\ (MayTell(x, Ok) => MayTell(x, ok))
    BY <1>5 DEF MayAck, MayTell
  <1>14. Shapes'
    BY <1>1, <1>5, <1>7, <1>9, <1>10, <1>11, <1>12 DEF Shapes
  <1>15. SidesInv'
    <2> SUFFICES ASSUME NEW x \in Sides
                 PROVE  SideOf(tr'[x], conn'[x], MayAck(x, ok), MayTell(x, ok))
      BY <1>6 DEF SidesInv
    <2>1. CASE x = e
      BY <1>2, <1>9, <1>10, <2>1, Cleared
    <2>2. CASE x # e
      <3>1. SideOf(tr[x], conn[x], MayAck(x, Ok), MayTell(x, Ok))
        BY DEF Inv, SidesInv
      <3>2. SideOf(tr[x], conn[x], MayAck(x, ok), MayTell(x, ok))
        BY <1>13, <3>1, OutMore
      <3> QED
        BY <1>9, <1>10, <2>2, <3>2
    <2> QED
      BY <2>1, <2>2
  <1>16. ChanInv'
    <2>1. \A x \in Sides : chan[x] \in Seq(Msgs(MayTell(x, ok)))
      BY <1>13, MoreAcks DEF Inv, ChanInv
    <2>2. d.mm \in Seq(Msgs(MayTell(Peer(e), ok)))
      BY <1>3, Peers DEF Out
    <2>3. \A S : \A s, t \in Seq(S) : s \o t \in Seq(S)
      OBVIOUS
    <2>4. chan[Peer(e)] \o d.mm \in Seq(Msgs(MayTell(Peer(e), ok)))
      BY <1>8, <2>1, <2>2, <2>3
    <2>5. chan'[Peer(e)] \in Seq(Msgs(MayTell(Peer(e), ok)))
      BY <1>8, <1>11, <2>1, <2>4
    <2> QED
      BY <1>6, <1>8, <1>11, <2>5 DEF ChanInv
  <1>17. RepInv'
    <2>1. \A x \in Sides : rep[x] \in Seq(Rps(MayTell(x, ok)))
      BY <1>13, MoreAcks DEF Inv, RepInv
    <2>2. d.reps \in Seq(Rps(b))
      BY <1>3 DEF Out
    <2>3. rep'[e] \in Seq(Rps(MayTell(e, ok)))
      BY <1>12, <2>1, <2>2
    <2> QED
      BY <1>6, <1>12, <2>1, <2>3 DEF RepInv
  <1>18. Clear(d).rp_state = d.rp_state
    BY <1>2, Cleared
  <1>19. DueInv'
    <2>0. MO \in Sides /\ rep[MO] \in Seq(Rps(MayTell(MO, Ok)))
      BY DEF Sides, Inv, RepInv
    <2>1. CASE e = MO
      <3>1. Len(rep'[MO]) = Len(rep[MO]) + Len(d.reps)
        <4>1. \A S, T : \A s \in Seq(S), t \in Seq(T) : Len(s \o t) = Len(s) + Len(t)
          OBVIOUS
        <4>2. d.reps \in Seq(Rps(b))
          BY <1>3 DEF Out
        <4>3. rep'[MO] = rep[MO] \o d.reps
          BY <1>12, <2>1
        <4>4. Len(rep[MO] \o d.reps) = Len(rep[MO]) + Len(d.reps)
          BY <2>0, <4>1, <4>2
        <4> QED
          BY <4>3, <4>4
      <3>2. Due(tr'[MO]) = Due(d)
        BY <1>9, <1>18, <2>1 DEF Due
      <3> QED
        BY <2>1, <3>1, <3>2 DEF DueInv
    <2>2. CASE e # MO
      <3>1. tr'[MO] = tr[MO] /\ rep'[MO] = rep[MO]
        BY <1>9, <1>12, <2>0, <2>2
      <3>2. Len(rep[MO]) \in Nat /\ Due(tr[MO]) \in Nat /\ subs \in Nat
        BY <2>0 DEF Due, Inv, Shapes
      <3>3. Len(rep[MO]) + Due(tr[MO]) <= subs
        BY DEF Inv, DueInv
      <3>4. Len(rep[MO]) + Due(tr[MO]) <= subs'
        BY <3>2, <3>3
      <3> QED
        BY <3>1, <3>4 DEF DueInv
    <2> QED
      BY <2>1, <2>2
  <1>20. GivenInv'
    <2>0. MT \in Sides
      BY DEF Sides
    <2>1. CASE e = MT
      BY <1>9, <1>18, <2>1 DEF GivenInv
    <2>2. CASE e # MT
      BY <1>5, <1>9, <2>0, <2>2 DEF GivenInv, Inv
    <2> QED
      BY <2>1, <2>2
  <1> QED
    BY <1>14, <1>15, <1>16, <1>17, <1>19, <1>20 DEF Inv

-----------------------------------------------------------------------------
(* The steps *)

(* A handler of a transaction that is at work.                              *)
LEMMA ResultInv ==
    ASSUME Inv, NEW e \in Sides, NEW d, NEW c, c # "none", NEW rest, Commit(e, d, c, rest),
           conn[e] # "none", NEW ok \in BOOLEAN, ok = (acked' /\ ind > 0),
           acked' \in BOOLEAN, acked => acked', subs' = subs,
           Result(tr[e], d, MayAck(e, ok), MayTell(e, ok)),
           rest \in Seq(Msgs(MayTell(e, Ok)))
    PROVE  Inv'
  <1> DEFINE a == MayAck(e, ok)
             b == MayTell(e, ok)
  <1>1. a \in BOOLEAN /\ b \in BOOLEAN /\ (Ok => ok) /\ Ok \in BOOLEAN
    BY Peers DEF Inv, Shapes, Ok
  <1>2. /\ Going(tr[e], MayAck(e, Ok), MayTell(e, Ok)) /\ tr[e].inds = <<>> /\ tr[e].reps = <<>>
    BY DEF Inv, SidesInv, SideOf, Idle
  <1>3. /\ Len(d.reps) + Due(d) <= Due(tr[e]) /\ d.inds = <<>>
        /\ d.rp_state \in {tr[e].rp_state, "IDLE"}
    <2>1. Stays(tr[e], d)
      BY DEF Result
    <2>2. Len(tr[e].reps) = 0 /\ Due(tr[e]) \in Nat
      BY <1>2 DEF Due
    <2> QED
      BY <1>2, <2>1, <2>2 DEF Stays
  <1>4. Out(d, a, b) /\ Len(d.reps) \in Nat
    BY <1>1, ResultOut DEF Out
  <1>5. ind' = ind
    BY <1>3 DEF Commit, Inv, Shapes
  <1>6. GoesOn(d, c, a, b) \/ Over(d, c, a, b)
    BY DEF Result, Going, Ended, GoesOn, Over
  <1>7. rest \in Seq(Msgs(b))
    <2>1. MayTell(e, Ok) \in BOOLEAN /\ (MayTell(e, Ok) => b)
      BY <1>1 DEF MayTell
    <2> QED
      BY <1>1, <2>1, MoreAcks
  <1>8. e = MO => Len(rep[MO]) + Len(d.reps) + Due(d) <= subs'
    <2> SUFFICES ASSUME e = MO PROVE Len(rep[MO]) + Len(d.reps) + Due(d) <= subs'
      OBVIOUS
    <2>1. rep[MO] \in Seq(Rps(MayTell(MO, Ok)))
      BY DEF Inv, RepInv
    <2>2. Len(rep[MO]) \in Nat /\ Due(tr[MO]) \in Nat /\ Due(d) \in Nat /\ subs \in Nat
      BY <2>1 DEF Due, Inv, Shapes
    <2>3. Len(rep[MO]) + Due(tr[MO]) <= subs
      BY DEF Inv, DueInv
    <2>4. Len(d.reps) + Due(d) <= Due(tr[MO]) /\ subs' = subs
      BY <1>3
    <2>5. \A p, q, r, t, u \in Nat : q + r <= t /\ p + t <= u => p + q + r <= u
      OBVIOUS
    <2>6. Len(rep[MO]) + Len(d.reps) + Due(d) <= subs
      BY <1>4, <2>2, <2>3, <2>4, <2>5
    <2> QED
      BY <2>4, <2>6
  <1>9. e = MT /\ d.rp_state = "WAIT_TO_TX_RP_ACK" => ind' > 0
    BY <1>3, <1>5 DEF Inv, GivenInv
  <1>10. subs' \in Nat /\ subs <= subs'
    BY DEF Inv, Shapes
  <1>11. ok = (acked' /\ ind' > 0)
    BY <1>5
  <1> QED
    BY <1>6, <1>7, <1>8, <1>9, <1>10, <1>11, CommitInv

(* What the invariant says of a side.                                       *)
LEMMA AtWork ==
    ASSUME Inv, NEW e \in Sides
    PROVE  /\ conn[e] = "none" => tr[e] = Gone
           /\ conn[e] # "none" => Going(tr[e], MayAck(e, Ok), MayTell(e, Ok))
           /\ Ok \in BOOLEAN /\ MayAck(e, Ok) \in BOOLEAN /\ MayTell(e, Ok) \in BOOLEAN
           /\ chan[e] \in Seq(Msgs(MayTell(e, Ok)))
  <1>1. Ok \in BOOLEAN
    BY DEF Inv, Shapes, Ok
  <1> QED
    BY <1>1, Peers DEF Inv, SidesInv, ChanInv, SideOf

LEMMA GoneIs ==
    /\ Gone.life = "gone" /\ Gone.fatal = FALSE /\ Gone.rp_state = "IDLE" /\ Gone.cp_state = "IDLE"
    /\ Gone.cp_timer = FALSE /\ Gone.rp_timer = FALSE
  BY DEF Gone, New

LEMMA SubmitInv ==
    ASSUME Inv, NEW kind \in env.kinds, Submit(kind)
    PROVE  Inv'
  <1> DEFINE rp == Rp(kind)
             d == SmrSend(New, "DATA_REQ", rp)
  <1>1. MO \in Sides /\ MO # MT
    BY SmsEnvAssumption DEF Sides
  <1>2. /\ Going(tr[MO], MayAck(MO, Ok), MayTell(MO, Ok)) => tr[MO].cp_state # "IDLE"
        /\ Ok \in BOOLEAN /\ MayTell(MO, Ok) \in BOOLEAN
    BY <1>1, AtWork DEF Going, Cp
  <1>3. conn[MO] = "none" /\ tr[MO] = Gone
    BY <1>1, <1>2, AtWork DEF Submit
  <1>4. Commit(MO, d, "none", chan[MO]) /\ acked' = acked /\ subs' = subs + 1
    BY <1>3, GoneIs DEF Submit
  <1>5. kind \in RpKinds
    BY SmsEnvAssumption DEF Inv, Shapes
  <1>6. rp \in Rps(MayAck(MO, Ok)) /\ rp # NoMsg /\ MayAck(MO, Ok) = TRUE
    <2>1. rp.kind = kind /\ NoMsg.kind = "none" /\ kind # "none"
      BY <1>5 DEF Rp, NoMsg, RpKinds
    <2>2. rp \in RpMsgs
      BY <1>5 DEF Rp, RpMsgs
    <2> QED
      BY <2>1, <2>2 DEF MayAck, Rps
  <1> HIDE DEF rp
  <1>7. /\ Talk(d, MayAck(MO, Ok), MayTell(MO, Ok)) /\ Cp(d) /\ d.prims = {"EST_REQ"}
        /\ d.reps = <<>> /\ d.rp_state = "WAIT_FOR_RP_ACK"
    BY <1>1, <1>2, <1>6, AtWork, SubmitNew
  <1> HIDE DEF d
  <1>8. GoesOn(d, "none", MayAck(MO, Ok), MayTell(MO, Ok))
    BY <1>7 DEF GoesOn
  <1>9. d.inds \in Seq(RpMsgs)
    BY <1>7 DEF Talk, Out
  <1> DEFINE ok == acked' /\ ind' > 0
  <1>10. Len(d.inds) \in Nat /\ ind' = ind + Len(d.inds) /\ ind \in Nat /\ acked \in BOOLEAN
    BY <1>4, <1>9 DEF Commit, Inv, Shapes
  <1>11. ok \in BOOLEAN /\ (Ok => ok)
    BY <1>4, <1>10 DEF Ok
  <1>12. /\ MayTell(MO, ok) \in BOOLEAN /\ MayAck(MO, ok) = MayAck(MO, Ok)
         /\ (MayTell(MO, Ok) => MayTell(MO, ok))
    BY <1>1, <1>2, <1>11 DEF MayAck, MayTell
  <1> HIDE DEF ok
  <1>13. Out(d, MayAck(MO, Ok), MayTell(MO, ok))
    BY <1>1, <1>2, <1>7, <1>12, OutMore, AtWork DEF Talk
  <1>14. GoesOn(d, "none", MayAck(MO, ok), MayTell(MO, ok))
    BY <1>8, <1>12, <1>13 DEF GoesOn, Talk
  <1>15. chan[MO] \in Seq(Msgs(MayTell(MO, ok)))
    BY <1>1, <1>2, <1>12, AtWork, MoreAcks
  <1>16. Len(rep[MO]) + Len(d.reps) + Due(d) <= subs'
    <2>1. rep[MO] \in Seq(Rps(MayTell(MO, Ok)))
      BY <1>1 DEF Inv, RepInv
    <2>2. Len(rep[MO]) \in Nat /\ subs \in Nat
      BY <2>1 DEF Inv, Shapes
    <2>3. Due(tr[MO]) = 0 /\ Due(d) = 1 /\ Len(d.reps) = 0
      BY <1>3, <1>7, GoneIs DEF Due
    <2>4. Len(rep[MO]) + Due(tr[MO]) <= subs
      BY DEF Inv, DueInv
    <2> QED
      BY <1>4, <2>2, <2>3, <2>4
  <1>17. subs' \in Nat /\ subs <= subs' /\ acked' \in BOOLEAN /\ (acked => acked')
    BY <1>4, <1>10 DEF Inv, Shapes
  <1>18. ok = (acked' /\ ind' > 0)
    BY DEF ok
  <1> QED
    BY <1>1, <1>4, <1>11, <1>14, <1>15, <1>16, <1>17, <1>18, CommitInv

(* A success that is reported has been given to the upper layer before.     *)
LEMMA ReportInv ==
    ASSUME Inv, NEW kind \in env.reports, Report(kind)
    PROVE  Inv'
  <1> DEFINE rp == Rp(kind)
             d == SmrSend(tr[MT], "REPORT_REQ", rp)
             ok == acked' /\ ind > 0
  <1>1. MT \in Sides
    BY DEF Sides
  <1>2. /\ tr[MT].rp_state = "WAIT_TO_TX_RP_ACK" /\ subs' = subs
        /\ Commit(MT, d, conn[MT], chan[MT]) /\ acked' = (acked \/ kind = "ACK")
    BY DEF Report
  <1>3. conn[MT] # "none" /\ Going(tr[MT], MayAck(MT, Ok), MayTell(MT, Ok))
    BY <1>1, <1>2, AtWork, GoneIs
  <1>4. acked \in BOOLEAN /\ acked' \in BOOLEAN /\ (acked => acked') /\ ind > 0
    BY <1>2 DEF Inv, Shapes, GivenInv
  <1>5. ok \in BOOLEAN /\ (Ok => ok) /\ (kind = "ACK" => ok)
    BY <1>2, <1>4 DEF Ok
  <1>6. kind \in RpKinds
    BY SmsEnvAssumption DEF Inv, Shapes
  <1>7. rp \in Rps(ok) /\ rp # NoMsg
    <2>1. rp.kind = kind /\ NoMsg.kind = "none" /\ kind # "none"
      BY <1>6 DEF Rp, NoMsg, RpKinds
    <2>2. rp \in RpMsgs
      BY <1>6 DEF Rp, RpMsgs
    <2> HIDE DEF ok
    <2> QED
      BY <1>5, <2>1, <2>2 DEF Rps
  <1> HIDE DEF rp, ok
  <1>8. /\ MayAck(MT, ok) \in BOOLEAN /\ MayTell(MT, ok) \in BOOLEAN
        /\ (MayAck(MT, Ok) => MayAck(MT, ok)) /\ (MayTell(MT, Ok) => MayTell(MT, ok))
        /\ (ok => MayAck(MT, ok))
    BY <1>1, <1>5 DEF MayAck, MayTell
  <1>9. Going(tr[MT], MayAck(MT, ok), MayTell(MT, ok))
    BY <1>1, <1>3, <1>8, OutMore, AtWork
  <1>10. rp \in Rps(MayAck(MT, ok))
    BY <1>5, <1>7, <1>8, MoreAcks
  <1>11. Result(tr[MT], d, MayAck(MT, ok), MayTell(MT, ok))
    BY <1>2, <1>7, <1>8, <1>9, <1>10, ReportReqResult DEF Inv
  <1> HIDE DEF d
  <1>12. chan[MT] \in Seq(Msgs(MayTell(MT, Ok)))
    BY <1>1, AtWork
  <1>13. ok = (acked' /\ ind > 0)
    BY DEF ok
  <1> QED
    BY <1>1, <1>2, <1>3, <1>4, <1>5, <1>11, <1>12, <1>13, ResultInv

(* The steps of a transaction that leave acked and subs alone.              *)
LEMMA HandlerInv ==
    ASSUME Inv, NEW e \in Sides, NEW d, NEW c, c # "none", NEW rest, Commit(e, d, c, rest),
           conn[e] # "none", acked' = acked, subs' = subs,
           Result(tr[e], d, MayAck(e, Ok), MayTell(e, Ok)),
           rest \in Seq(Msgs(MayTell(e, Ok)))
    PROVE  Inv'
  <1>1. Ok \in BOOLEAN /\ acked \in BOOLEAN
    BY DEF Inv, Shapes, Ok
  <1>2. Ok = (acked' /\ ind > 0) /\ acked' \in BOOLEAN /\ (acked => acked')
    BY <1>1 DEF Ok
  <1> QED
    BY <1>1, <1>2, ResultInv

LEMMA ConnConfirmInv ==
    ASSUME Inv, ConnConfirm
    PROVE  Inv'
  <1> DEFINE d == SmcRecv(tr[MO], "EST_CNF", "none", NoMsg)
  <1>1. MO \in Sides /\ conn[MO] # "none" /\ Commit(MO, d, "up", chan[MO])
        /\ acked' = acked /\ subs' = subs
    BY DEF ConnConfirm, Sides
  <1>2. Result(tr[MO], d, MayAck(MO, Ok), MayTell(MO, Ok))
    BY <1>1, AtWork, EstCnfResult
  <1> HIDE DEF d
  <1>3. chan[MO] \in Seq(Msgs(MayTell(MO, Ok)))
    BY <1>1, AtWork
  <1> QED
    BY <1>1, <1>2, <1>3, HandlerInv

LEMMA TimeoutInv ==
    ASSUME Inv, NEW e \in Sides, CpTimeout(e) \/ RpTimeout(e)
    PROVE  Inv'
  <1>1. tr[e].cp_timer \/ tr[e].rp_timer
    BY DEF CpTimeout, RpTimeout
  <1>2. conn[e] # "none" /\ Going(tr[e], MayAck(e, Ok), MayTell(e, Ok))
    BY <1>1, AtWork, GoneIs
  <1>3. chan[e] \in Seq(Msgs(MayTell(e, Ok)))
    BY AtWork
  <1>4. CASE CpTimeout(e)
    <2>1. tr[e].cp_timer /\ Commit(e, CpTimerExpired(tr[e]), conn[e], chan[e])
          /\ acked' = acked /\ subs' = subs
      BY <1>4 DEF CpTimeout
    <2>2. Result(tr[e], CpTimerExpired(tr[e]), MayAck(e, Ok), MayTell(e, Ok))
      BY <1>2, <2>1, AtWork, CpTimerResult DEF Inv
    <2> QED
      BY <1>2, <1>3, <2>1, <2>2, HandlerInv
  <1>5. CASE RpTimeout(e)
    <2>1. tr[e].rp_timer /\ Commit(e, RpTimerExpired(tr[e]), conn[e], chan[e])
          /\ acked' = acked /\ subs' = subs
      BY <1>5 DEF RpTimeout
    <2>2. Result(tr[e], RpTimerExpired(tr[e]), MayAck(e, Ok), MayTell(e, Ok))
      BY <1>2, <2>1, AtWork, RpTimerEnds DEF Inv
    <2> QED
      BY <1>2, <1>3, <2>1, <2>2, HandlerInv
  <1> QED
    BY <1>4, <1>5

LEMMA ConnFailInv ==
    ASSUME Inv, NEW e \in Sides, ConnFail(e)
    PROVE  Inv'
  <1> DEFINE t == tr[e]
             d == SmcRecv(t, "REL_IND", "none", NoMsg)
             o == [Gone EXCEPT !.inds = d.inds, !.reps = d.reps, !.fatal = d.fatal]
             a == MayAck(e, Ok)
             b == MayTell(e, Ok)
  <1>1. Commit(e, o, "none", chan[e]) /\ conn[e] # "none" /\ acked' = acked /\ subs' = subs
    BY DEF ConnFail, Inv
  <1>2. Going(t, a, b) /\ a \in BOOLEAN /\ b \in BOOLEAN /\ Ok \in BOOLEAN
        /\ chan[e] \in Seq(Msgs(b))
    BY <1>1, AtWork
  <1>3. t.inds = <<>> /\ t.reps = <<>>
    BY <1>1 DEF Inv, SidesInv, SideOf, Idle
  <1>4. t.cp_state # "IDLE" /\ Talk(t, a, b)
    BY <1>2 DEF Going, Cp
  <1>5. d = RelInd(t)
    BY <1>4 DEF SmcRecv
  <1>6. Talk(d, a, b) /\ Stays(t, d)
    BY <1>2, <1>4, <1>5, CpErrors DEF Inv
  <1> HIDE DEF d
  <1>7. d.fatal = FALSE /\ d.inds = <<>> /\ d.reps \in Seq(Rps(b)) /\ Len(d.reps) + Due(d) <= Due(t)
    <2>1. Len(t.reps) = 0 /\ Due(t) \in Nat
      BY <1>3 DEF Due
    <2> QED
      BY <1>3, <1>6, <2>1 DEF Talk, Out, Stays
  <1>8. /\ IsTr(Gone) /\ Gone.fatal = FALSE /\ Gone.cp_msg = NoMsg /\ Gone.mm = <<>>
        /\ Gone.prims = {} /\ Gone.rp_state = "IDLE"
    BY DEF Gone, New, IsTr, TrFields
  <1>9. /\ IsTr(o) /\ o.inds = <<>> /\ o.reps = d.reps /\ o.fatal = FALSE
        /\ \A x \in TrFields \ {"inds", "reps", "fatal"} : o[x] = Gone[x]
    BY <1>7, <1>8 DEF IsTr, TrFields
  <1> HIDE DEF o
  <1>10. o.mm = <<>> /\ o.prims = {} /\ o.cp_msg = NoMsg /\ o.rp_state = "IDLE"
    BY <1>8, <1>9 DEF TrFields
  <1>11. Out(o, a, b)
    <2>1. o.cp_msg \in Rps(a)
      BY <1>2, <1>10, NoMsgs
    <2>2. o.mm \in Seq(Msgs(a)) /\ o.inds \in Seq(RpMsgs)
      <3>1. \A S : <<>> \in Seq(S)
        OBVIOUS
      <3> QED
        BY <1>9, <1>10, <3>1
    <2> QED
      BY <1>7, <1>9, <2>1, <2>2 DEF Out
  <1>12. Over(o, "none", a, b)
    BY <1>8, <1>9, <1>10, <1>11 DEF Over, TrFields, Outputs
  <1>13. ind' = ind
    BY <1>1, <1>9 DEF Commit, Inv, Shapes
  <1>14. Ok = (acked' /\ ind' > 0) /\ acked' \in BOOLEAN /\ (acked => acked')
    BY <1>1, <1>13 DEF Ok, Inv, Shapes
  <1>15. subs' \in Nat /\ subs <= subs'
    BY <1>1 DEF Inv, Shapes
  <1>16. e = MO => Len(rep[MO]) + Len(o.reps) + Due(o) <= subs'
    <2> SUFFICES ASSUME e = MO PROVE Len(rep[MO]) + Len(o.reps) + Due(o) <= subs'
      OBVIOUS
    <2>1. rep[MO] \in Seq(Rps(MayTell(MO, Ok)))
      BY DEF Inv, RepInv
    <2>2. /\ Len(rep[MO]) \in Nat /\ Due(tr[MO]) \in Nat /\ Due(o) = 0 /\ Due(d) \in Nat
          /\ subs \in Nat /\ Len(o.reps) \in Nat
      BY <1>7, <1>9, <1>10, <2>1 DEF Due, Inv, Shapes
    <2>3. Len(rep[MO]) + Due(tr[MO]) <= subs
      BY DEF Inv, DueInv
    <2>4. Len(o.reps) + Due(d) <= Due(tr[MO]) /\ subs' = subs
      BY <1>1, <1>7, <1>9
    <2>5. \A p, q, r, u, v \in Nat : q + r <= u /\ p + u <= v => p + q + 0 <= v
      OBVIOUS
    <2>6. Len(rep[MO]) + Len(o.reps) + 0 <= subs
      BY <2>2, <2>3, <2>4, <2>5
    <2> QED
      BY <2>2, <2>4, <2>6
  <1>17. ~(e = MT /\ o.rp_state = "WAIT_TO_TX_RP_ACK")
    BY <1>10
  <1> QED
    BY <1>1, <1>2, <1>12, <1>14, <1>15, <1>16, <1>17, CommitInv

LEMMA HeadTail ==
    ASSUME NEW S, NEW s \in Seq(S), s # <<>>
    PROVE  Head(s) \in S /\ Tail(s) \in Seq(S)
  OBVIOUS

(* chan[e] alone changes, to a part of what it was.                         *)
LEMMA ChanOnly ==
    ASSUME Inv, NEW e \in Sides, chan[e] # <<>>, chan' = [chan EXCEPT ![e] = Tail(@)],
           UNCHANGED <<env, tr, conn, rep, ind, subs, acked>>
    PROVE  Inv'
  <1>1. chan = [x \in Sides |-> chan[x]]
    BY DEF Inv, Shapes
  <1>2. /\ chan' = [x \in Sides |-> chan'[x]] /\ chan'[e] = Tail(chan[e])
        /\ \A x \in Sides \ {e} : chan'[x] = chan[x]
    BY <1>1
  <1>3. Tail(chan[e]) \in Seq(Msgs(MayTell(e, Ok)))
    BY AtWork, HeadTail
  <1>4. Ok' = Ok
    BY DEF Ok
  <1>5. ChanInv'
    BY <1>2, <1>3, <1>4 DEF Inv, ChanInv
  <1>6. Shapes'
    BY <1>2 DEF Inv, Shapes
  <1>7. SidesInv' /\ RepInv'
    BY <1>4 DEF Inv, SidesInv, RepInv
  <1>8. DueInv' /\ GivenInv'
    BY DEF Inv, DueInv, GivenInv
  <1> QED
    BY <1>5, <1>6, <1>7, <1>8 DEF Inv

LEMMA DeliverInv ==
    ASSUME Inv, NEW e \in Sides, Deliver(e)
    PROVE  Inv'
  <1> DEFINE m == Head(chan[e])
             b == MayTell(e, Ok)
             rest == Tail(chan[e])
  <1>1. chan[e] # <<>> /\ acked' = acked /\ subs' = subs
    BY DEF Deliver
  <1>2. m \in Msgs(b) /\ rest \in Seq(Msgs(b)) /\ b \in BOOLEAN /\ Ok \in BOOLEAN
    BY <1>1, AtWork, HeadTail
  <1>3. m.cp \in {"DATA", "ACK", "ERROR"} /\ m.rp \in Rps(b) /\ m.rp \in RpMsgs
    BY <1>2 DEF Msgs, CpMsgs, Rps
  <1>4. CASE conn[e] = "up" /\ Commit(e, SmcRecv(tr[e], "DATA_IND", m.cp, m.rp), "up", rest)
    <2> DEFINE d == SmcRecv(tr[e], "DATA_IND", m.cp, m.rp)
    <2>1. conn[e] # "none"
      BY <1>4
    <2>2. Result(tr[e], d, MayAck(e, Ok), b)
      BY <1>2, <1>3, <2>1, AtWork, DataIndResult DEF Inv
    <2>3. Commit(e, d, "up", rest)
      BY <1>4
    <2> HIDE DEF d, rest
    <2> QED
      BY <1>1, <1>2, <2>1, <2>2, <2>3, HandlerInv
  <1>5. CASE /\ conn[e] = "none" /\ e = MT /\ m.cp = "DATA"
             /\ Commit(e, SmcRecv(IF tr[e].life = "live" THEN tr[e] ELSE New, "EST_IND", m.cp, m.rp),
                       "up", rest)
    <2> DEFINE d == SmcRecv(New, "EST_IND", "DATA", m.rp)
               ok == acked' /\ ind' > 0
               a2 == MayAck(e, ok)
               b2 == MayTell(e, ok)
    <2>1. Commit(e, d, "up", rest)
      BY <1>5, AtWork, GoneIs
    <2>2. ok \in BOOLEAN
      BY <1>1 DEF Inv, Shapes
    <2> HIDE DEF ok
    <2>3. a2 \in BOOLEAN /\ b2 \in BOOLEAN /\ b2 = TRUE /\ b = TRUE
      BY <1>5, <2>2, Peers DEF MayTell
    <2>4. m.rp \in Rps(b2)
      BY <1>3, <2>3
    <2> HIDE DEF m
    <2>5. /\ Going(d, a2, b2) \/ Ended(d, a2, b2)
          /\ d.rp_state = "IDLE" \/ Len(d.inds) = 1
      BY <2>3, <2>4, EstIndNew DEF Inv
    <2> HIDE DEF d
    <2>6. GoesOn(d, "up", a2, b2) \/ Over(d, "up", a2, b2)
      BY <2>5 DEF Going, Ended, GoesOn, Over
    <2>7. Len(d.inds) \in Nat /\ ind' = ind + Len(d.inds) /\ ind \in Nat
      BY <2>1, <2>5 DEF Going, Talk, Ended, Out, Commit, Inv, Shapes
    <2>8. e = MT /\ d.rp_state = "WAIT_TO_TX_RP_ACK" => ind' > 0
      <3>1. Len(d.inds) = 1 => ind' > 0
        BY <2>7
      <3>2. d.rp_state = "WAIT_TO_TX_RP_ACK" => Len(d.inds) = 1
        BY <2>5
      <3> QED
        BY <3>1, <3>2
    <2>9. rest \in Seq(Msgs(b2))
      BY <1>2, <2>3
    <2>10. acked' \in BOOLEAN /\ (acked => acked') /\ subs' \in Nat /\ subs <= subs'
      BY <1>1 DEF Inv, Shapes
    <2>11. e # MO
      BY <1>5, SmsEnvAssumption
    <2>12. ok = (acked' /\ ind' > 0)
      BY DEF ok
    <2> HIDE DEF rest
    <2> QED
      BY <2>1, <2>2, <2>6, <2>8, <2>9, <2>10, <2>11, <2>12, CommitInv
  <1>6. CASE chan' = [chan EXCEPT ![e] = Tail(@)] /\ UNCHANGED <<env, tr, conn, rep, ind>>
    BY <1>1, <1>6, ChanOnly
  <1> QED
    BY <1>4, <1>5, <1>6 DEF Deliver

LEMMA LoseInv ==
    ASSUME Inv, NEW e \in Sides, Lose(e)
    PROVE  Inv'
  BY ChanOnly DEF Lose

LEMMA NextInv == Inv /\ [Next]_vars => Inv'
  <1> SUFFICES ASSUME Inv, [Next]_vars PROVE Inv'
    OBVIOUS
  <1>1. ASSUME NEW kind \in env.kinds, Submit(kind) PROVE Inv'
    BY <1>1, SubmitInv
  <1>2. ASSUME NEW kind \in env.reports, Report(kind) PROVE Inv'
    BY <1>2, ReportInv
  <1>3. CASE ConnConfirm
    BY <1>3, ConnConfirmInv
  <1>4. ASSUME NEW e \in Sides, ConnFail(e) PROVE Inv'
    BY <1>4, ConnFailInv
  <1>5. ASSUME NEW e \in Sides, Deliver(e) PROVE Inv'
    BY <1>5, DeliverInv
  <1>6. ASSUME NEW e \in Sides, Lose(e) PROVE Inv'
    BY <1>6, LoseInv
  <1>7. ASSUME NEW e \in Sides, CpTimeout(e) \/ RpTimeout(e) PROVE Inv'
    BY <1>7, TimeoutInv
  <1>8. CASE UNCHANGED vars
    <2>1. UNCHANGED <<env, tr, conn, chan, rep, subs, ind, acked>>
      BY <1>8 DEF vars
    <2>2. Ok' = Ok
      BY <2>1 DEF Ok
    <2>3. Shapes' /\ DueInv' /\ GivenInv'
      BY <2>1 DEF Inv, Shapes, DueInv, GivenInv
    <2>4. SidesInv' /\ ChanInv' /\ RepInv'
      BY <2>1, <2>2 DEF Inv, SidesInv, ChanInv, RepInv
    <2> QED
      BY <2>3, <2>4 DEF Inv
  <1> QED
    BY <1>1, <1>2, <1>3, <1>4, <1>5, <1>6, <1>7, <1>8 DEF Next

LEMMA SmsInvariant == Destroys /\ Spec => []Inv
  BY InitInv, NextInv, PTL DEF Spec

-----------------------------------------------------------------------------
(* The theorems *)

(* No handler of the control or the relay layer goes on with a transaction  *)
(* that its own MMSMS-REL-REQ, deeper in the calls, let the MM layer        *)
(* destroy.                                                                 *)
THEOREM NoUseAfterDestroyHolds == Destroys /\ Spec => []NoUseAfterDestroy
  <1>1. Inv => NoUseAfterDestroy
    <2> SUFFICES ASSUME Inv, NEW e \in Sides PROVE tr[e].life # "used"
      BY DEF NoUseAfterDestroy
    <2> QED
      BY AtWork, GoneIs DEF Going, Talk
  <1> QED
    BY <1>1, SmsInvariant, PTL

(* The "please fix!" branches of gsm0411_smc.c are dead: no stored message  *)
(* is overwritten, and none is missing when TC1* or a confirmed connection  *)
(* sends it.                                                                *)
THEOREM NeverHappensHolds == Destroys /\ Spec => []NeverHappens
  <1>1. Inv => NeverHappens
    <2> SUFFICES ASSUME Inv, NEW e \in Sides PROVE ~tr[e].fatal
      BY DEF NeverHappens
    <2> QED
      BY AtWork, GoneIs DEF Going, Talk
  <1> QED
    BY <1>1, SmsInvariant, PTL

(* However many messages are repeated, lost and answered late, the          *)
(* originator's upper layer is told at most once of each submission, and of *)
(* success only after the terminator's upper layer was given a message and  *)
(* reported success.                                                        *)
THEOREM HonestReportHolds == Destroys /\ Spec => []HonestReport
  <1>1. Inv => HonestReport
    <2> SUFFICES ASSUME Inv PROVE HonestReport
      OBVIOUS
    <2>1. MO \in Sides /\ MO # MT
      BY SmsEnvAssumption DEF Sides
    <2>2. rep[MO] \in Seq(Rps(MayTell(MO, Ok)))
      BY <2>1 DEF Inv, RepInv
    <2>3. Len(rep[MO]) \in Nat /\ Due(tr[MO]) \in Nat /\ subs \in Nat
      BY <2>2 DEF Due, Inv, Shapes
    <2>4. Len(rep[MO]) <= subs
      BY <2>3 DEF Inv, DueInv
    <2>5. ASSUME NEW n \in DOMAIN rep[MO], rep[MO][n].kind = "ACK" PROVE ind > 0 /\ acked
      <3>1. rep[MO][n] \in Rps(MayTell(MO, Ok))
        BY <2>2
      <3> QED
        BY <2>1, <2>5, <3>1 DEF Rps, MayTell, Ok
    <2> QED
      BY <2>4, <2>5 DEF HonestReport
  <1> QED
    BY <1>1, SmsInvariant, PTL

-----------------------------------------------------------------------------
(* The terminator's upper layer is not given a message twice behind its     *)
(* back (DeliveredOnce): with a TC1* that exceeds the round trip, fewer     *)
(* than three messages lost on the way back and an MM connection that does  *)
(* not fail, for every number of retransmissions (one or more), every       *)
(* number of messages lost on the way to the terminator, and every kind of  *)
(* message that is submitted and reported with.                             *)

CpMsg(cp, rp) == [cp |-> cp, rp |-> rp]
Sent(d, cp, rp) == Append(d.mm, CpMsg(cp, rp))

(* A transaction at work between two handlers; one whose control layer      *)
(* waits for the acknowledgement of an RP-DATA.                             *)
Works(d, a, b) == Going(d, a, b) /\ Idle(d)
SendsData(d) == d.cp_state = "WAIT_CP_ACK" /\ d.cp_msg.kind = "DATA"

-----------------------------------------------------------------------------
(* What the handlers send *)

LEMMA First ==
    ASSUME NEW m
    PROVE  Append(<<>>, m) = <<m>>
  OBVIOUS

LEMMA Sends ==
    ASSUME NEW d, NEW a \in BOOLEAN, NEW b \in BOOLEAN, Talk(d, a, b), NEW cp, NEW rp
    PROVE  CpSend(d, cp, rp).mm = Append(d.mm, CpMsg(cp, rp))
  <1> DEFINE m == CpMsg(cp, rp)
  <1>1. CpSend(d, cp, rp) = [d EXCEPT !.mm = Append(d.mm, m)]
    BY LiveSteps DEF CpSend, CpMsg
  <1> HIDE DEF m
  <1>2. CpSend(d, cp, rp).mm = Append(d.mm, m)
    BY <1>1 DEF Talk, IsTr, TrFields
  <1> QED
    BY <1>2 DEF m

LEMMA Releases ==
    ASSUME Destroys, NEW d, NEW a \in BOOLEAN, NEW b \in BOOLEAN, Talk(d, a, b)
    PROVE  /\ MmRelReq(d).mm = d.mm /\ MmRelReq(d).reps = d.reps /\ MmRelReq(d).inds = d.inds
           /\ MmRelReq(d).cp_state = "IDLE" /\ Ended(MmRelReq(d), a, b)
  <1> DEFINE r == MmSend(d, "REL_REQ")
             e == MmRelReq(d)
  <1>1. r = [d EXCEPT !.prims = @ \cup {"REL_REQ"}]
    BY LiveSteps DEF MmSend
  <1>2. e = [Gone EXCEPT !.life = IF r.life = "live" THEN "gone" ELSE "used",
                         !.mm = r.mm, !.prims = r.prims, !.inds = r.inds,
                         !.reps = r.reps, !.fatal = r.fatal]
    BY DEF MmRelReq
  <1> HIDE DEF r, e
  <1>3. r.mm = d.mm
    BY <1>1 DEF Talk, IsTr, TrFields
  <1>4. IsTr(Gone)
    BY DEF Gone, New, IsTr, TrFields
  <1>5. e.mm = r.mm
    BY <1>2, <1>4 DEF IsTr, TrFields
  <1>6. Ended(e, a, b) /\ e.reps = d.reps /\ e.inds = d.inds
    BY EndedByRelReq DEF e
  <1>7. e.cp_state = "IDLE"
    BY <1>6, GoneIs DEF Ended, TrFields, Outputs
  <1> QED
    BY <1>3, <1>5, <1>6, <1>7 DEF e

(* MNSMS-ERROR-IND sends nothing, once the control layer is idle.           *)
LEMMA ErrorIndSends ==
    ASSUME NEW d, NEW a \in BOOLEAN, NEW b \in BOOLEAN, Talk(d, a, b), d.cp_state = "IDLE"
    PROVE  /\ Talk(SmrRecv(d, "ERROR_IND", NoMsg), a, b)
           /\ SmrRecv(d, "ERROR_IND", NoMsg).mm = d.mm
           /\ d.rp_state = "IDLE" => SmrRecv(d, "ERROR_IND", NoMsg).reps = d.reps
  <1> DEFINE e == NewRpState(d, "IDLE")
             f == RlReportInd(e, NoMsg)
  <1>0. Talk(SmrRecv(d, "ERROR_IND", NoMsg), a, b) /\ d.rp_state \in RpStates
    BY IdleErrorInd DEF Talk
  <1>1. Talk(e, a, b) /\ \A x \in TrFields \ {"rp_state", "rp_timer"} : e[x] = d[x]
    BY TalkRpIdle
  <1> HIDE DEF e
  <1>2. Talk(f, a, b) /\ \A x \in TrFields \ {"reps"} : f[x] = e[x]
    BY <1>1, NoMsgs, TalkReport
  <1> HIDE DEF f
  <1>3. f.mm = d.mm /\ f.cp_state = "IDLE"
    BY <1>1, <1>2 DEF TrFields
  <1>4. CASE d.rp_state = "WAIT_FOR_RP_ACK"
    <2>1. SmrRecv(d, "ERROR_IND", NoMsg) = SendRelease(f)
      BY <1>4 DEF SmrRecv, MnErrorIndTx, e, f
    <2>2. SendRelease(f) = f
      BY <1>2, <1>3, IdleRelease
    <2> QED
      BY <1>0, <1>3, <1>4, <2>1, <2>2
  <1>5. CASE d.rp_state = "WAIT_TO_TX_RP_ACK"
    <2>1. SmrRecv(d, "ERROR_IND", NoMsg) = f
      BY <1>5 DEF SmrRecv, MnErrorIndRx, e, f
    <2> QED
      BY <1>0, <1>3, <1>5, <2>1
  <1>6. CASE d.rp_state = "IDLE"
    <2>1. SmrRecv(d, "ERROR_IND", NoMsg) = d
      BY <1>6, LiveSteps DEF SmrRecv
    <2> QED
      BY <1>0, <2>1
  <1> QED
    BY <1>0, <1>4, <1>5, <1>6 DEF RpStates

(* What is not expected is answered with CP-ERROR, and ends the             *)
(* transaction.                                                             *)
LEMMA UnhandledSends ==
    ASSUME Destroys, NEW d, NEW a \in BOOLEAN, NEW b \in BOOLEAN, Works(d, a, b)
    PROVE  /\ Unhandled(d).mm = <<CpMsg("ERROR", NoMsg)>> /\ Ended(Unhandled(d), a, b)
           /\ Unhandled(d).cp_state = "IDLE"
           /\ d.rp_state = "IDLE" => Unhandled(d).reps = <<>>
  <1> DEFINE e == NewCpState(d, "IDLE")
             f == CpSend(e, "ERROR", NoMsg)
             g == SmrRecv(f, "ERROR_IND", NoMsg)
             o == MmRelReq(g)
             m == CpMsg("ERROR", NoMsg)
  <1>0. Talk(d, a, b) /\ d.mm = <<>> /\ d.reps = <<>>
    BY DEF Works, Going, Idle
  <1>1. Talk(e, a, b) /\ e.cp_state = "IDLE" /\ \A x \in TrFields \ {"cp_state"} : e[x] = d[x]
    BY <1>0, TalkCpState
  <1>2. Unhandled(d) = o
    BY DEF Unhandled
  <1> HIDE DEF e
  <1>3. /\ Talk(f, a, b) /\ f.mm = Append(e.mm, m)
        /\ \A x \in TrFields \ {"mm"} : f[x] = e[x]
    BY <1>1, NoMsgs, TalkCpSend, Sends
  <1> HIDE DEF f, m
  <1>4. f.cp_state = "IDLE" /\ f.rp_state = d.rp_state /\ f.reps = <<>> /\ f.mm = <<m>>
    <2>1. e.mm = <<>>
      BY <1>0, <1>1 DEF TrFields
    <2>2. f.mm = <<m>>
      BY <1>3, <2>1, First
    <2> QED
      BY <1>0, <1>1, <1>3, <2>2 DEF TrFields
  <1>5. Talk(g, a, b) /\ g.mm = f.mm /\ (f.rp_state = "IDLE" => g.reps = f.reps)
    BY <1>3, <1>4, ErrorIndSends
  <1> HIDE DEF g
  <1>6. o.mm = g.mm /\ o.reps = g.reps /\ o.cp_state = "IDLE" /\ Ended(o, a, b)
    BY <1>5, Releases
  <1> HIDE DEF o
  <1> QED
    BY <1>2, <1>4, <1>5, <1>6 DEF m

(* CP-ERROR is not answered.                                                *)
LEMMA CpErrorSends ==
    ASSUME Destroys, NEW d, NEW a \in BOOLEAN, NEW b \in BOOLEAN, Works(d, a, b)
    PROVE  CpError(d).mm = <<>> /\ CpError(d).cp_state = "IDLE"
  <1> DEFINE e == FreeCpMsg(d)
             f == NewCpState(e, "IDLE")
             g == SmrRecv(f, "ERROR_IND", NoMsg)
             o == MmRelReq(g)
  <1>0. Talk(d, a, b) /\ d.mm = <<>> /\ CpError(d) = o
    BY DEF Works, Going, Idle, CpError
  <1>1. Talk(e, a, b) /\ \A x \in TrFields \ {"cp_msg"} : e[x] = d[x]
    BY <1>0, TalkFree
  <1> HIDE DEF e
  <1>2. Talk(f, a, b) /\ f.cp_state = "IDLE" /\ \A x \in TrFields \ {"cp_state"} : f[x] = e[x]
    BY <1>1, TalkCpState
  <1> HIDE DEF f
  <1>3. Talk(g, a, b) /\ g.mm = f.mm
    BY <1>2, ErrorIndSends
  <1> HIDE DEF g
  <1>4. o.mm = g.mm /\ o.cp_state = "IDLE"
    BY <1>3, Releases
  <1> HIDE DEF o
  <1> QED
    BY <1>0, <1>1, <1>2, <1>3, <1>4 DEF TrFields

(* CP-ACK is not answered, and the message not sent again.                  *)
LEMMA CpAckSends ==
    ASSUME Destroys, NEW d, NEW a \in BOOLEAN, NEW b \in BOOLEAN, Works(d, a, b)
    PROVE  CpAck(d).mm = <<>> /\ CpAck(d).cp_state \in {"IDLE", "MM_ESTABLISHED"}
  <1> DEFINE e == FreeCpMsg(d)
             f == NewCpState(e, "MM_ESTABLISHED")
             g == [f EXCEPT !.cp_timer = FALSE]
             h == NewCpState(g, "IDLE")
             o == MmRelReq(h)
  <1>0. Talk(d, a, b) /\ d.mm = <<>>
    BY DEF Works, Going, Idle
  <1>1. CpAck(d) = IF d.cp_rel THEN o ELSE g
    BY DEF CpAck
  <1>2. Talk(e, a, b) /\ \A x \in TrFields \ {"cp_msg"} : e[x] = d[x]
    BY <1>0, TalkFree
  <1> HIDE DEF e
  <1>3. /\ Talk(f, a, b) /\ f.cp_state = "MM_ESTABLISHED"
        /\ \A x \in TrFields \ {"cp_state"} : f[x] = e[x]
    BY <1>2, TalkCpState
  <1> HIDE DEF f
  <1>4. IsTr(g) /\ g.cp_timer = FALSE /\ \A x \in TrFields \ {"cp_timer"} : g[x] = f[x]
    BY <1>3 DEF Talk, IsTr, TrFields
  <1> HIDE DEF g
  <1>5. Talk(g, a, b)
    BY <1>3, <1>4 DEF Talk, Out, TrFields
  <1>6. Talk(h, a, b) /\ \A x \in TrFields \ {"cp_state"} : h[x] = g[x]
    BY <1>5, TalkCpState
  <1> HIDE DEF h
  <1>7. o.mm = h.mm /\ o.cp_state = "IDLE"
    BY <1>6, Releases
  <1> HIDE DEF o
  <1>8. g.mm = <<>> /\ g.cp_state = "MM_ESTABLISHED" /\ o.mm = <<>>
    BY <1>0, <1>2, <1>3, <1>4, <1>6, <1>7 DEF TrFields
  <1> QED
    BY <1>1, <1>7, <1>8

(* gsm411_mmsms_send_msg().                                                 *)
LEMMA SendMsgSends ==
    ASSUME NEW d, NEW a \in BOOLEAN, NEW b \in BOOLEAN, Talk(d, a, b)
    PROVE  /\ SendMsg(d).mm = Append(d.mm, CpMsg("DATA", d.cp_msg))
           /\ SendMsg(d).cp_state = "WAIT_CP_ACK"
           /\ SendMsg(d).cp_retx = IF d.cp_state # "WAIT_CP_ACK" THEN 0 ELSE d.cp_retx
           /\ \A x \in TrFields \ {"mm", "cp_state", "cp_retx", "cp_timer"} : SendMsg(d)[x] = d[x]
  <1> DEFINE r == IF d.cp_state # "WAIT_CP_ACK" THEN 0 ELSE d.cp_retx
             e == [d EXCEPT !.cp_retx = r, !.cp_timer = TRUE]
             f == NewCpState(e, "WAIT_CP_ACK")
             g == CpSend(f, "DATA", d.cp_msg)
             m == CpMsg("DATA", d.cp_msg)
  <1>1. /\ IsTr(e) /\ e.cp_timer = TRUE /\ e.cp_retx = r
        /\ \A x \in TrFields \ {"cp_retx", "cp_timer"} : e[x] = d[x]
    <2> HIDE DEF r
    <2> QED
      BY DEF Talk, IsTr, TrFields
  <1>2. SendMsg(d) = g
    BY DEF SendMsg, Talk, IsTr, TrFields
  <1> HIDE DEF e, r
  <1>4. Talk(e, a, b)
    BY <1>1 DEF Talk, Out, TrFields
  <1>5. Talk(f, a, b) /\ f.cp_state = "WAIT_CP_ACK" /\ \A x \in TrFields \ {"cp_state"} : f[x] = e[x]
    BY <1>4, TalkCpState
  <1> HIDE DEF f
  <1>6. d.cp_msg \in Rps(a)
    BY DEF Talk, Out
  <1>7. \A x \in TrFields \ {"mm"} : g[x] = f[x]
    BY <1>5, <1>6, TalkCpSend
  <1>8. g.mm = Append(f.mm, m)
    <2>1. \A rp : CpSend(f, "DATA", rp).mm = Append(f.mm, CpMsg("DATA", rp))
      BY <1>5, Sends
    <2> QED
      BY <2>1, Zenon
  <1> HIDE DEF g, m
  <1>9. f.mm = d.mm /\ g.cp_state = "WAIT_CP_ACK" /\ g.cp_retx = r
    BY <1>1, <1>5, <1>7 DEF TrFields
  <1>10. \A x \in TrFields \ {"mm", "cp_state", "cp_retx", "cp_timer"} : g[x] = d[x]
    BY <1>1, <1>5, <1>7
  <1> QED
    BY <1>2, <1>8, <1>9, <1>10 DEF m, r

(* MNSMS-DATA-REQ on an established connection.                             *)
LEMMA DataReqSends ==
    ASSUME NEW d, NEW a \in BOOLEAN, NEW b \in BOOLEAN, Going(d, a, b),
           d.cp_state = "MM_ESTABLISHED", NEW rp \in Rps(a), rp # NoMsg,
           NEW o, o = SmcSend(d, "DATA_REQ", rp)
    PROVE  /\ Going(o, a, b) /\ o.mm = Sent(d, "DATA", rp)
           /\ o.cp_state = "WAIT_CP_ACK" /\ o.cp_retx = 0 /\ o.cp_msg = rp
           /\ o.rp_state = d.rp_state /\ o.rp_timer = d.rp_timer
           /\ o.reps = d.reps /\ o.inds = d.inds
  <1> DEFINE e == [d EXCEPT !.fatal = FALSE, !.cp_msg = rp]
             g == SendMsg(e)
             m == CpMsg("DATA", rp)
  <1>0. Talk(d, a, b)
    BY DEF Going
  <1>1. d.cp_msg = NoMsg /\ d.fatal = FALSE
    BY DEF Going, Cp, Talk
  <1>2. (d.fatal \/ d.cp_msg # NoMsg) = FALSE
    BY <1>1
  <1>3. o = SendMsg([d EXCEPT !.fatal = @ \/ d.cp_msg # NoMsg, !.cp_msg = rp])
    BY DEF SmcSend, DataReq
  <1>4. [d EXCEPT !.fatal = @ \/ d.cp_msg # NoMsg, !.cp_msg = rp] = e
    BY <1>2, <1>0 DEF Talk, IsTr, TrFields
  <1>5. /\ IsTr(e) /\ e.fatal = FALSE /\ e.cp_msg = rp
        /\ \A x \in TrFields \ {"fatal", "cp_msg"} : e[x] = d[x]
    BY <1>0 DEF Talk, IsTr, TrFields
  <1>6. o = g
    BY <1>3, <1>4
  <1>7. /\ Going(o, a, b)
        /\ \A x \in {"rp_state", "rp_timer", "reps", "inds"} : o[x] = d[x]
    BY GoingDataReq
  <1> HIDE DEF e
  <1>8. Talk(e, a, b) /\ e.cp_state = "MM_ESTABLISHED" /\ e.mm = d.mm
    BY <1>0, <1>5 DEF Talk, Out, TrFields
  <1>9. /\ g.mm = Append(e.mm, CpMsg("DATA", e.cp_msg)) /\ g.cp_state = "WAIT_CP_ACK"
        /\ g.cp_retx = IF e.cp_state # "WAIT_CP_ACK" THEN 0 ELSE e.cp_retx
        /\ g.cp_msg = e.cp_msg
    BY <1>8, SendMsgSends DEF TrFields
  <1> HIDE DEF g
  <1>10. g.mm = Append(d.mm, m) /\ g.cp_state = "WAIT_CP_ACK" /\ g.cp_retx = 0 /\ g.cp_msg = rp
    BY <1>5, <1>8, <1>9
  <1> HIDE DEF m
  <1>11. g.mm = Sent(d, "DATA", rp)
    BY <1>10 DEF m, Sent
  <1> QED
    BY <1>6, <1>7, <1>10, <1>11

(* MNSMS-REL-REQ: stored while a message is under way, made otherwise.      *)
LEMMA ReleaseSends ==
    ASSUME Destroys, NEW d, NEW a \in BOOLEAN, NEW b \in BOOLEAN, Going(d, a, b)
    PROVE  /\ d.cp_state = "WAIT_CP_ACK" =>
                 \A x \in TrFields \ {"cp_rel"} : SendRelease(d)[x] = d[x]
           /\ d.cp_state = "MM_ESTABLISHED" =>
                 SendRelease(d).mm = d.mm /\ SendRelease(d).cp_state = "IDLE"
  <1> DEFINE h == [d EXCEPT !.cp_rel = TRUE]
             e == FreeCpMsg(d)
             f == NewCpState(e, "IDLE")
             g == MmRelReq(f)
  <1>0. Talk(d, a, b) /\ SendRelease(d) = RelReq(d)
    BY DEF Going, SendRelease, SmcSend
  <1>1. CASE d.cp_state = "WAIT_CP_ACK"
    <2>1. RelReq(d) = h
      BY <1>0, <1>1, LiveSteps DEF RelReq
    <2>2. \A x \in TrFields \ {"cp_rel"} : h[x] = d[x]
      BY <1>0 DEF Talk, IsTr, TrFields
    <2> HIDE DEF h
    <2> QED
      BY <1>0, <1>1, <2>1, <2>2
  <1>2. CASE d.cp_state = "MM_ESTABLISHED"
    <2>1. RelReq(d) = g
      BY <1>2 DEF RelReq
    <2>2. Talk(e, a, b) /\ \A x \in TrFields \ {"cp_msg"} : e[x] = d[x]
      BY <1>0, TalkFree
    <2> HIDE DEF e
    <2>3. Talk(f, a, b) /\ \A x \in TrFields \ {"cp_state"} : f[x] = e[x]
      BY <2>2, TalkCpState
    <2> HIDE DEF f
    <2>4. g.mm = f.mm /\ g.cp_state = "IDLE"
      BY <2>3, Releases
    <2> HIDE DEF g
    <2>5. f.mm = d.mm
      BY <2>2, <2>3 DEF TrFields
    <2> QED
      BY <1>0, <1>2, <2>1, <2>4, <2>5
  <1> QED
    BY <1>1, <1>2

(* TR1N and TR2N: CP-ERROR goes out, and the upper layer is told.           *)
LEMMA RpTimerSends ==
    ASSUME Destroys, NEW d, NEW a \in BOOLEAN, NEW b \in BOOLEAN, Works(d, a, b), d.rp_timer
    PROVE  /\ RpTimerExpired(d).mm = <<CpMsg("ERROR", NoMsg)>>
           /\ RpTimerExpired(d).cp_state = "IDLE" /\ Ended(RpTimerExpired(d), a, b)
           /\ Len(RpTimerExpired(d).reps) = 1
  <1> DEFINE e == [d EXCEPT !.rp_timer = FALSE]
             f == RlReportInd(e, NoMsg)
             g == FreeCpMsg(f)
             h == NewCpState(g, "IDLE")
             i == CpSend(h, "ERROR", NoMsg)
             o == MmRelReq(i)
             m == CpMsg("ERROR", NoMsg)
  <1>0. /\ Talk(d, a, b) /\ d.cp_state # "IDLE" /\ d.mm = <<>> /\ d.reps = <<>>
        /\ NoMsg \in Rps(a) /\ NoMsg \in Rps(b)
    BY NoMsgs DEF Works, Idle, Going, Cp
  <1>1. IsTr(e) /\ e.rp_timer = FALSE /\ \A x \in TrFields \ {"rp_timer"} : e[x] = d[x]
    BY <1>0 DEF Talk, IsTr, TrFields
  <1>2. RpTimerExpired(d) = SmcSend(f, "ABORT_REQ", NoMsg)
    BY DEF RpTimerExpired
  <1> HIDE DEF e
  <1>3. Talk(e, a, b)
    BY <1>0, <1>1 DEF Talk, Out, TrFields
  <1>4. /\ Talk(f, a, b) /\ Len(f.reps) = Len(e.reps) + 1
        /\ \A x \in TrFields \ {"reps"} : f[x] = e[x]
    BY <1>0, <1>3, TalkReport
  <1> HIDE DEF f
  <1>5. Talk(g, a, b) /\ \A x \in TrFields \ {"cp_msg"} : g[x] = f[x]
    BY <1>4, TalkFree
  <1> HIDE DEF g
  <1>6. Talk(h, a, b) /\ \A x \in TrFields \ {"cp_state"} : h[x] = g[x]
    BY <1>5, TalkCpState
  <1> HIDE DEF h
  <1>7. Talk(i, a, b) /\ i.mm = Append(h.mm, m) /\ \A x \in TrFields \ {"mm"} : i[x] = h[x]
    BY <1>0, <1>6, TalkCpSend, Sends
  <1> HIDE DEF i, m
  <1>8. o.mm = i.mm /\ o.reps = i.reps /\ o.cp_state = "IDLE" /\ Ended(o, a, b)
    BY <1>7, Releases
  <1>9. SmcSend(f, "ABORT_REQ", NoMsg) = o
    <2>1. f.cp_state # "IDLE"
      BY <1>0, <1>1, <1>4 DEF TrFields
    <2> QED
      BY <2>1 DEF SmcSend, AbortReq, g, h, i
  <1> HIDE DEF o
  <1>10. h.mm = <<>> /\ Len(i.reps) = Len(e.reps) + 1 /\ e.reps = <<>>
    BY <1>0, <1>1, <1>4, <1>5, <1>6, <1>7 DEF TrFields
  <1>11. i.mm = <<m>> /\ Len(i.reps) = 1
    BY <1>7, <1>10, First
  <1> QED
    BY <1>2, <1>8, <1>9, <1>11 DEF m

(* TC1*: the message is sent again, or the transaction ends.                *)
LEMMA CpTimerSends ==
    ASSUME Destroys, NEW d, NEW a \in BOOLEAN, NEW b \in BOOLEAN, Works(d, a, b), d.cp_timer
    PROVE  /\ d.cp_state = "WAIT_CP_ACK"
           /\ \/ /\ d.cp_retx # MaxRetr
                 /\ CpTimerExpired(d).mm = <<CpMsg("DATA", d.cp_msg)>>
                 /\ CpTimerExpired(d).cp_state = "WAIT_CP_ACK"
                 /\ CpTimerExpired(d).cp_retx = d.cp_retx + 1
                 /\ \A x \in {"cp_msg", "rp_state", "prims", "reps"} : CpTimerExpired(d)[x] = d[x]
              \/ /\ d.cp_retx = MaxRetr
                 /\ CpTimerExpired(d).mm = <<>> /\ CpTimerExpired(d).cp_state = "IDLE"
                 /\ Ended(CpTimerExpired(d), a, b)
                 /\ d.rp_state = "IDLE" => CpTimerExpired(d).reps = <<>>
  <1> DEFINE e == [d EXCEPT !.cp_timer = FALSE]
  <1>0. /\ Talk(d, a, b) /\ d.cp_msg # NoMsg /\ d.cp_state = "WAIT_CP_ACK"
        /\ d.mm = <<>> /\ d.reps = <<>>
    BY DEF Works, Idle, Going, Cp
  <1>1. IsTr(e) /\ \A x \in TrFields \ {"cp_timer"} : e[x] = d[x]
    BY <1>0 DEF Talk, IsTr, TrFields
  <1>2. CASE d.cp_retx = MaxRetr
    <2> DEFINE f == NewCpState(e, "IDLE")
               g == SmrRecv(f, "ERROR_IND", NoMsg)
               h == FreeCpMsg(g)
               o == MmRelReq(h)
    <2>1. CpTimerExpired(d) = o
      BY <1>2 DEF CpTimerExpired
    <2> HIDE DEF e
    <2>2. Talk(e, a, b)
      BY <1>0, <1>1 DEF Talk, Out, TrFields
    <2>3. Talk(f, a, b) /\ f.cp_state = "IDLE" /\ \A x \in TrFields \ {"cp_state"} : f[x] = e[x]
      BY <2>2, TalkCpState
    <2> HIDE DEF f
    <2>4. Talk(g, a, b) /\ g.mm = f.mm /\ (f.rp_state = "IDLE" => g.reps = f.reps)
      BY <2>3, ErrorIndSends
    <2> HIDE DEF g
    <2>5. Talk(h, a, b) /\ \A x \in TrFields \ {"cp_msg"} : h[x] = g[x]
      BY <2>4, TalkFree
    <2> HIDE DEF h
    <2>6. o.mm = h.mm /\ o.reps = h.reps /\ o.cp_state = "IDLE" /\ Ended(o, a, b)
      BY <2>5, Releases
    <2> HIDE DEF o
    <2>7. o.mm = <<>> /\ (d.rp_state = "IDLE" => o.reps = <<>>)
      BY <1>0, <1>1, <2>3, <2>4, <2>5, <2>6 DEF TrFields
    <2> QED
      BY <1>0, <1>2, <2>1, <2>6, <2>7
  <1>3. CASE d.cp_retx # MaxRetr
    <2> DEFINE f == [e EXCEPT !.cp_retx = @ + 1]
               g == SendMsg(f)
               m == CpMsg("DATA", d.cp_msg)
    <2>1. CpTimerExpired(d) = EstCnf(f)
      BY <1>3 DEF CpTimerExpired
    <2> HIDE DEF e
    <2>2. IsTr(f) /\ f.cp_retx = e.cp_retx + 1 /\ \A x \in TrFields \ {"cp_retx"} : f[x] = e[x]
      BY <1>1 DEF IsTr, TrFields
    <2> HIDE DEF f
    <2>3. Talk(f, a, b) /\ f.cp_msg = d.cp_msg
      BY <1>0, <1>1, <2>2 DEF Talk, Out, TrFields
    <2>4. EstCnf(f) = g
      BY <1>0, <2>3 DEF EstCnf
    <2>5. /\ g.mm = Append(f.mm, CpMsg("DATA", f.cp_msg)) /\ g.cp_state = "WAIT_CP_ACK"
          /\ g.cp_retx = IF f.cp_state # "WAIT_CP_ACK" THEN 0 ELSE f.cp_retx
          /\ \A x \in TrFields \ {"mm", "cp_state", "cp_retx", "cp_timer"} : g[x] = f[x]
      BY <2>3, SendMsgSends
    <2> HIDE DEF g
    <2>6. g.mm = Append(f.mm, m) /\ f.mm = <<>> /\ f.cp_state = "WAIT_CP_ACK" /\ f.cp_retx = d.cp_retx + 1
      BY <1>0, <1>1, <2>2, <2>3, <2>5 DEF TrFields
    <2>7. \A x \in {"cp_msg", "rp_state", "prims", "reps"} : g[x] = d[x]
      BY <1>1, <2>2, <2>5 DEF TrFields
    <2> HIDE DEF m
    <2>8. g.mm = <<m>> /\ g.cp_retx = d.cp_retx + 1 /\ g.cp_state = "WAIT_CP_ACK"
      BY <2>5, <2>6, First
    <2> QED
      BY <1>0, <1>3, <2>1, <2>4, <2>7, <2>8 DEF m
  <1> QED
    BY <1>2, <1>3

(* The CP-DATA that carries the message; messages without one.              *)
Copy(m) == m.cp = "DATA" /\ m.rp.kind = "DATA"
Plain(s) == \A n \in DOMAIN s : ~Copy(s[n])

LEMMA PlainMsgs ==
    /\ ~Copy(CpMsg("ACK", NoMsg)) /\ ~Copy(CpMsg("ERROR", NoMsg))
    /\ ~Copy(CpMsg("DATA", Rp("ERROR"))) /\ Plain(<<>>)
    /\ \A m : ~Copy(m) => Plain(<<m>>)
  <1>1. ~Copy(CpMsg("ACK", NoMsg)) /\ ~Copy(CpMsg("ERROR", NoMsg)) /\ ~Copy(CpMsg("DATA", Rp("ERROR")))
    BY DEF Copy, CpMsg, Rp
  <1>2. Plain(<<>>) /\ \A m : ~Copy(m) => Plain(<<m>>)
    BY DEF Plain
  <1> QED
    BY <1>1, <1>2

LEMMA PlainAppend ==
    ASSUME NEW S, NEW s \in Seq(S), Plain(s), NEW m, ~Copy(m)
    PROVE  Plain(Append(s, m))
  BY DEF Plain

(* CP-DATA on an established connection is acknowledged; it is not answered *)
(* with the message, whatever the relay layer makes of it.                  *)
LEMMA AckSends ==
    ASSUME NEW d, NEW a \in BOOLEAN, NEW b \in BOOLEAN, Works(d, a, b)
    PROVE  /\ Going(CpSend(d, "ACK", NoMsg), a, b)
           /\ CpSend(d, "ACK", NoMsg).mm = <<CpMsg("ACK", NoMsg)>>
           /\ \A x \in TrFields \ {"mm"} : CpSend(d, "ACK", NoMsg)[x] = d[x]
  <1> DEFINE e == CpSend(d, "ACK", NoMsg)
             m == CpMsg("ACK", NoMsg)
  <1>1. Going(e, a, b) /\ \A x \in TrFields \ {"mm"} : e[x] = d[x]
    BY GoingCpSend DEF Works
  <1>2. e.mm = Append(d.mm, m) /\ d.mm = <<>>
    BY Sends DEF Works, Going, Idle
  <1> HIDE DEF e, m
  <1>3. e.mm = <<m>>
    BY <1>2, First
  <1> QED
    BY <1>1, <1>3 DEF e, m

LEMMA RelaySends ==
    ASSUME Destroys, NEW d, NEW a \in BOOLEAN, NEW b \in BOOLEAN, Going(d, a, b),
           d.cp_state = "MM_ESTABLISHED", Plain(d.mm), NEW rp \in Rps(b)
    PROVE  /\ Plain(MnDataIndTx(d, rp).mm) /\ ~SendsData(MnDataIndTx(d, rp))
           /\ MnDataIndTx(d, rp).cp_state # "MM_CONN_PENDING"
  <1> DEFINE o == MnDataIndTx(d, rp)
  <1>0. Talk(d, a, b)
    BY DEF Going
  <1>1. CASE rp.kind \in {"ACK", "ERROR"}
    <2> DEFINE e == NewRpState(d, "IDLE")
               f == RlReportInd(e, rp)
    <2>1. o = SendRelease(f)
      BY <1>1 DEF MnDataIndTx
    <2>2. Going(e, a, b)
      BY IdleThenRelease
    <2>3. \A x \in TrFields \ {"rp_state", "rp_timer"} : e[x] = d[x]
      BY <1>0, TalkRpIdle
    <2> HIDE DEF e
    <2>4. Talk(f, a, b) /\ \A x \in TrFields \ {"reps"} : f[x] = e[x]
      BY <2>2, TalkReport DEF Going
    <2> HIDE DEF f
    <2>5. Going(f, a, b)
      BY <2>2, <2>4 DEF Going, Cp, TrFields
    <2>6. f.cp_state = "MM_ESTABLISHED" /\ f.mm = d.mm
      BY <2>3, <2>4 DEF TrFields
    <2> HIDE DEF o
    <2>7. o.mm = f.mm /\ o.cp_state = "IDLE"
      BY <2>1, <2>5, <2>6, ReleaseSends
    <2>8. Plain(o.mm) /\ ~SendsData(o) /\ o.cp_state # "MM_CONN_PENDING"
      BY <2>6, <2>7 DEF SendsData
    <2> QED
      BY <2>8 DEF o
  <1>2. CASE rp.kind \notin {"ACK", "ERROR"}
    <2>0. PICK q : q = Rp("ERROR")
      OBVIOUS
    <2> DEFINE e == SendRpError(d)
               f == NewRpState(e, "IDLE")
               n == CpMsg("DATA", q)
    <2>1. o = SendRelease(f)
      BY <1>2 DEF MnDataIndTx
    <2>2. q \in Rps(a) /\ q # NoMsg
      BY <2>0, NoMsgs
    <2>3. ~Copy(n) /\ q.kind # "DATA"
      BY <2>0, PlainMsgs DEF Rp
    <2>4. e = SmcSend(d, "DATA_REQ", q)
      BY <2>0 DEF SendRpError
    <2> HIDE DEF e
    <2>5. /\ Going(e, a, b) /\ e.mm = Sent(d, "DATA", q)
          /\ e.cp_state = "WAIT_CP_ACK" /\ e.cp_msg = q
      BY <2>2, <2>4, DataReqSends
    <2> HIDE DEF n
    <2>6. Going(f, a, b)
      BY <2>5, IdleThenRelease
    <2>7. \A x \in TrFields \ {"rp_state", "rp_timer"} : f[x] = e[x]
      BY <2>5, TalkRpIdle DEF Going
    <2> HIDE DEF f, o
    <2>8. f.cp_state = "WAIT_CP_ACK" /\ f.mm = Sent(d, "DATA", q) /\ f.cp_msg = q
      BY <2>5, <2>7 DEF TrFields
    <2>9. o.cp_state = "WAIT_CP_ACK" /\ o.mm = Sent(d, "DATA", q) /\ o.cp_msg = q
      BY <2>1, <2>6, <2>8, ReleaseSends DEF TrFields
    <2>10. d.mm \in Seq(Msgs(a))
      BY <1>0 DEF Talk, Out
    <2>11. Plain(o.mm)
      <3>1. o.mm = Append(d.mm, n)
        BY <2>9 DEF Sent, n
      <3> QED
        BY <2>3, <2>10, <3>1, PlainAppend
    <2>12. ~SendsData(o) /\ o.cp_state # "MM_CONN_PENDING"
      BY <2>3, <2>9 DEF SendsData
    <2> QED
      BY <2>11, <2>12 DEF o
  <1> QED
    BY <1>1, <1>2

LEMMA CpDataSends ==
    ASSUME Destroys, NEW d, NEW a \in BOOLEAN, NEW b \in BOOLEAN, Works(d, a, b),
           d.cp_state = "MM_ESTABLISHED", NEW rp \in Rps(b)
    PROVE  /\ Plain(CpData(d, rp).mm) /\ ~SendsData(CpData(d, rp))
           /\ CpData(d, rp).cp_state # "MM_CONN_PENDING"
           /\ d.rp_state = "WAIT_TO_TX_RP_ACK" =>
                 /\ CpData(d, rp).mm = <<CpMsg("ACK", NoMsg)>>
                 /\ \A x \in TrFields \ {"mm"} : CpData(d, rp)[x] = d[x]
  <1> DEFINE e == CpSend(d, "ACK", NoMsg)
             o == CpData(d, rp)
             m == CpMsg("ACK", NoMsg)
  <1>1. o = SmrRecv(e, "DATA_IND", rp)
    BY DEF CpData
  <1>2. Going(e, a, b) /\ e.mm = <<m>> /\ \A x \in TrFields \ {"mm"} : e[x] = d[x]
    BY AckSends
  <1> HIDE DEF e, o
  <1>3. e.cp_state = "MM_ESTABLISHED" /\ e.rp_state = d.rp_state
    BY <1>2 DEF TrFields
  <1>4. CASE e.rp_state = "WAIT_FOR_RP_ACK"
    <2>0. ~Copy(m)
      BY PlainMsgs
    <2> HIDE DEF m
    <2>1. o = MnDataIndTx(e, rp) /\ Plain(e.mm)
      BY <1>1, <1>2, <1>4, <2>0, PlainMsgs DEF SmrRecv
    <2>2. Plain(o.mm) /\ ~SendsData(o) /\ o.cp_state # "MM_CONN_PENDING"
      BY <1>2, <1>3, <2>1, RelaySends
    <2> QED
      BY <1>3, <1>4, <2>2 DEF o
  <1>5. CASE e.rp_state # "WAIT_FOR_RP_ACK"
    <2>1. o = Used(e)
      BY <1>1, <1>5 DEF SmrRecv
    <2>2. Used(e) = e
      BY <1>2, LiveSteps DEF Going
    <2>3. o = e
      BY <2>1, <2>2
    <2>4. ~Copy(m)
      BY PlainMsgs
    <2> HIDE DEF m
    <2>5. Plain(o.mm) /\ ~SendsData(o) /\ o.cp_state # "MM_CONN_PENDING"
      BY <1>2, <1>3, <2>3, <2>4, PlainMsgs DEF SendsData
    <2> QED
      BY <1>2, <2>3, <2>5 DEF o, m
  <1> QED
    BY <1>4, <1>5

(* A message of the peer does not make a side send the message again.       *)
LEMMA DataIndSends ==
    ASSUME Destroys, NEW d, NEW a \in BOOLEAN, NEW b \in BOOLEAN, Works(d, a, b),
           d.cp_state # "MM_CONN_PENDING", NEW cp \in {"DATA", "ACK", "ERROR"}, NEW rp \in Rps(b)
    PROVE  /\ Plain(SmcRecv(d, "DATA_IND", cp, rp).mm)
           /\ ~SendsData(SmcRecv(d, "DATA_IND", cp, rp))
           /\ SmcRecv(d, "DATA_IND", cp, rp).cp_state # "MM_CONN_PENDING"
           /\ cp = "DATA" /\ d.cp_state = "WAIT_CP_ACK" =>
                 SmcRecv(d, "DATA_IND", cp, rp) = Unhandled(d)
           /\ cp = "DATA" /\ d.cp_state = "MM_ESTABLISHED" =>
                 SmcRecv(d, "DATA_IND", cp, rp) = CpData(d, rp)
  <1> DEFINE o == SmcRecv(d, "DATA_IND", cp, rp)
             m == CpMsg("ERROR", NoMsg)
             Quiet(x) == Plain(x.mm) /\ ~SendsData(x) /\ x.cp_state # "MM_CONN_PENDING"
  <1>1. \/ o = CpError(d) \/ o = CpAck(d) \/ o = Unhandled(d)
        \/ o = CpData(d, rp) /\ d.cp_state = "MM_ESTABLISHED"
    BY DEF SmcRecv
  <1>2. /\ cp = "DATA" /\ d.cp_state = "WAIT_CP_ACK" => o = Unhandled(d)
        /\ cp = "DATA" /\ d.cp_state = "MM_ESTABLISHED" => o = CpData(d, rp)
    BY DEF SmcRecv
  <1>3. ~Copy(m) /\ Plain(<<>>) /\ Plain(<<m>>)
    BY PlainMsgs
  <1>4. Quiet(Unhandled(d))
    BY <1>3, UnhandledSends DEF SendsData
  <1>5. Quiet(CpError(d))
    BY <1>3, CpErrorSends DEF SendsData
  <1>6. Quiet(CpAck(d))
    BY <1>3, CpAckSends DEF SendsData
  <1>7. d.cp_state = "MM_ESTABLISHED" => Quiet(CpData(d, rp))
    BY CpDataSends
  <1> HIDE DEF Quiet, o
  <1>8. Quiet(o)
    BY <1>1, <1>4, <1>5, <1>6, <1>7
  <1> QED
    BY <1>2, <1>8 DEF Quiet, o

(* MMSMS-EST-CNF: the message that was kept goes out.                       *)
LEMMA EstCnfSends ==
    ASSUME NEW d, NEW a \in BOOLEAN, NEW b \in BOOLEAN, Works(d, a, b),
           d.cp_state = "MM_CONN_PENDING"
    PROVE  /\ SmcRecv(d, "EST_CNF", "none", NoMsg).mm = <<CpMsg("DATA", d.cp_msg)>>
           /\ SmcRecv(d, "EST_CNF", "none", NoMsg).cp_state = "WAIT_CP_ACK"
           /\ SmcRecv(d, "EST_CNF", "none", NoMsg).cp_msg = d.cp_msg
           /\ SmcRecv(d, "EST_CNF", "none", NoMsg).prims = {}
  <1> DEFINE o == SmcRecv(d, "EST_CNF", "none", NoMsg)
             m == CpMsg("DATA", d.cp_msg)
  <1>0. Talk(d, a, b) /\ d.cp_msg # NoMsg /\ d.prims = {} /\ d.mm = <<>>
    BY DEF Works, Going, Cp, Idle
  <1>1. o = SendMsg(d)
    BY <1>0 DEF SmcRecv, EstCnf
  <1> HIDE DEF o
  <1>2. /\ o.mm = Append(d.mm, m) /\ o.cp_state = "WAIT_CP_ACK"
        /\ o.cp_msg = d.cp_msg /\ o.prims = d.prims
    BY <1>0, <1>1, SendMsgSends DEF TrFields
  <1> HIDE DEF m
  <1>3. o.mm = <<m>>
    BY <1>0, <1>2, First
  <1> QED
    BY <1>0, <1>2, <1>3 DEF o, m

(* SM-RL-REPORT-REQ: the answer goes out, the release is stored.            *)
LEMMA ReportSends ==
    ASSUME Destroys, NEW d, NEW a \in BOOLEAN, NEW b \in BOOLEAN, Works(d, a, b),
           d.rp_state = "WAIT_TO_TX_RP_ACK", d.cp_state = "MM_ESTABLISHED",
           NEW rp \in Rps(a), rp # NoMsg
    PROVE  /\ SmrSend(d, "REPORT_REQ", rp).mm = <<CpMsg("DATA", rp)>>
           /\ SmrSend(d, "REPORT_REQ", rp).cp_state = "WAIT_CP_ACK"
           /\ SmrSend(d, "REPORT_REQ", rp).cp_retx = 0
           /\ SmrSend(d, "REPORT_REQ", rp).rp_state = "IDLE"
           /\ SmrSend(d, "REPORT_REQ", rp).prims = {}
           /\ SmrSend(d, "REPORT_REQ", rp).reps = <<>>
  <1> DEFINE e == NewRpState(d, "IDLE")
             f == SmcSend(e, "DATA_REQ", rp)
             o == SmrSend(d, "REPORT_REQ", rp)
             m == CpMsg("DATA", rp)
  <1>0. d.mm = <<>> /\ d.reps = <<>> /\ Going(d, a, b) /\ Talk(d, a, b)
    BY DEF Works, Idle, Going
  <1>1. o = SendRelease(f)
    BY DEF SmrSend, RlReportReq
  <1>2. Going(e, a, b)
    BY <1>0, IdleThenRelease
  <1>3. e.rp_state = "IDLE" /\ \A x \in TrFields \ {"rp_state", "rp_timer"} : e[x] = d[x]
    BY <1>0, TalkRpIdle
  <1> HIDE DEF e
  <1>4. e.cp_state = "MM_ESTABLISHED" /\ e.mm = <<>> /\ e.reps = <<>>
    BY <1>0, <1>3 DEF TrFields
  <1>5. /\ Going(f, a, b) /\ f.mm = Sent(e, "DATA", rp) /\ f.cp_state = "WAIT_CP_ACK"
        /\ f.cp_retx = 0 /\ f.rp_state = "IDLE" /\ f.reps = <<>>
    BY <1>2, <1>3, <1>4, DataReqSends
  <1> HIDE DEF f, m, o
  <1>6. f.mm = <<m>> /\ f.prims = {}
    <2>1. f.mm = Append(<<>>, m)
      BY <1>4, <1>5 DEF Sent, m
    <2> QED
      BY <1>5, <2>1, First DEF Going
  <1>7. \A x \in TrFields \ {"cp_rel"} : o[x] = f[x]
    BY <1>1, <1>5, ReleaseSends
  <1>8. /\ o.mm = <<m>> /\ o.cp_state = "WAIT_CP_ACK" /\ o.cp_retx = 0 /\ o.rp_state = "IDLE"
        /\ o.prims = {} /\ o.reps = <<>>
    BY <1>5, <1>6, <1>7 DEF TrFields
  <1> QED
    BY <1>8 DEF o, m

(* The first CP-DATA of the peer: the message is acknowledged and given to  *)
(* the upper layer; another RP message is not given to it.                  *)
LEMMA EstIndSends ==
    ASSUME Destroys, NEW a \in BOOLEAN, NEW b \in BOOLEAN, NEW rp \in Rps(b),
           NEW o, o = SmcRecv(New, "EST_IND", "DATA", rp)
    PROVE  /\ rp.kind = "DATA" =>
                 /\ o.mm = <<CpMsg("ACK", NoMsg)>> /\ o.prims = {} /\ Len(o.inds) = 1 /\ o.reps = <<>>
                 /\ o.cp_state = "MM_ESTABLISHED" /\ o.rp_state = "WAIT_TO_TX_RP_ACK"
           /\ rp.kind # "DATA" => o.inds = <<>>
  <1> DEFINE e == NewCpState(New, "MM_ESTABLISHED")
             f == [e EXCEPT !.cp_rel = FALSE]
             g == CpSend(f, "ACK", NoMsg)
             m == CpMsg("ACK", NoMsg)
  <1>0. /\ Talk(New, a, b) /\ New.rp_state = "IDLE" /\ New.cp_state = "IDLE" /\ New.prims = {}
        /\ New.reps = <<>> /\ New.inds = <<>> /\ New.cp_msg = NoMsg /\ New.cp_timer = FALSE
    BY NewTalks
  <1>1. o = SmrRecv(g, "EST_IND", rp)
    BY <1>0 DEF SmcRecv, CpData
  <1>2. /\ Talk(e, a, b) /\ e.cp_state = "MM_ESTABLISHED"
        /\ \A x \in TrFields \ {"cp_state"} : e[x] = New[x]
    BY <1>0, TalkCpState
  <1> HIDE DEF e
  <1>3. IsTr(f) /\ \A x \in TrFields \ {"cp_rel"} : f[x] = e[x]
    BY <1>2 DEF Talk, IsTr, TrFields
  <1> HIDE DEF f
  <1>4. Talk(f, a, b)
    BY <1>2, <1>3 DEF Talk, Out, TrFields
  <1>5. New.mm = <<>>
    BY DEF New
  <1>6. /\ f.cp_state = "MM_ESTABLISHED" /\ f.cp_msg = NoMsg /\ f.cp_timer = FALSE /\ f.prims = {}
        /\ f.rp_state = "IDLE" /\ f.inds = <<>> /\ f.reps = <<>> /\ f.mm = <<>>
    BY <1>0, <1>2, <1>3, <1>5 DEF TrFields
  <1>7. Works(f, a, b)
    BY <1>4, <1>6 DEF Works, Idle, Going, Cp
  <1>8. Going(g, a, b) /\ g.mm = <<m>> /\ \A x \in TrFields \ {"mm"} : g[x] = f[x]
    BY <1>7, AckSends
  <1> HIDE DEF g, m
  <1>9. /\ g.rp_state = "IDLE" /\ g.inds = <<>> /\ g.reps = <<>> /\ g.prims = {}
        /\ g.cp_state = "MM_ESTABLISHED"
    BY <1>6, <1>8 DEF TrFields
  <1>10. o = MnEstInd(g, rp)
    BY <1>1, <1>9 DEF SmrRecv
  <1>11. CASE rp.kind = "DATA"
    <2> DEFINE h == [g EXCEPT !.rp_timer = TRUE]
               i == NewRpState(h, "WAIT_TO_TX_RP_ACK")
    <2>1. o = RlDataInd(i, rp)
      BY <1>10, <1>11 DEF MnEstInd
    <2>2. IsTr(h) /\ h.rp_timer = TRUE /\ \A x \in TrFields \ {"rp_timer"} : h[x] = g[x]
      BY <1>8 DEF Going, Talk, IsTr, TrFields
    <2> HIDE DEF h
    <2>3. h.life = "live"
      BY <1>8, <2>2 DEF Going, Talk, TrFields
    <2>4. Used(h) = h
      BY <2>2, <2>3 DEF Used, IsTr, TrFields
    <2>5. i = [h EXCEPT !.rp_state = "WAIT_TO_TX_RP_ACK",
                        !.rp_timer = @ /\ "WAIT_TO_TX_RP_ACK" # "IDLE"]
      BY <2>4 DEF NewRpState
    <2> HIDE DEF i
    <2>6. /\ IsTr(i) /\ i.rp_state = "WAIT_TO_TX_RP_ACK"
          /\ \A x \in TrFields \ {"rp_state", "rp_timer"} : i[x] = g[x]
      BY <2>2, <2>5 DEF IsTr, TrFields
    <2>7. Talk(i, a, b)
      BY <1>8, <2>6 DEF Going, Talk, Out, TrFields, RpStates
    <2>8. o = [i EXCEPT !.inds = Append(i.inds, rp)]
      BY <2>1, <2>7, LiveSteps DEF RlDataInd
    <2>9. i.inds = <<>> /\ Len(<<rp>>) = 1
      BY <1>9, <2>6 DEF TrFields
    <2>10. /\ o.inds = Append(i.inds, rp) /\ \A x \in TrFields \ {"inds"} : o[x] = i[x]
      BY <2>7, <2>8 DEF Talk, IsTr, TrFields
    <2>11. Len(o.inds) = 1
      BY <2>9, <2>10, First
    <2>12. /\ o.mm = <<m>> /\ o.prims = {} /\ o.reps = <<>>
           /\ o.cp_state = "MM_ESTABLISHED" /\ o.rp_state = "WAIT_TO_TX_RP_ACK"
      BY <1>8, <1>9, <2>6, <2>10 DEF TrFields
    <2> QED
      BY <1>11, <2>11, <2>12 DEF m
  <1>12. CASE rp.kind # "DATA"
    <2>1. o \in {SendRelease(NewRpState(SendRpError(g), "IDLE")), NewRpState(SendRpError(g), "IDLE")}
      BY <1>10, <1>12 DEF MnEstInd
    <2>2. Result(g, o, a, b)
      BY <1>8, <2>1, RpErrorSent
    <2>3. o.inds = <<>>
      BY <1>9, <2>2 DEF Result, Stays
    <2> QED
      BY <1>12, <2>3
  <1> QED
    BY <1>11, <1>12

-----------------------------------------------------------------------------
(* The argument: a state of the pair of transactions, seen from the message *)

Answer(m) == m.cp \in {"ACK", "ERROR"}
Answers(s) == \E n \in DOMAIN s : Answer(s[n])
Flies(q) == q # <<>> /\ Copy(q[1])
Last(s) == s[Len(s)]

(* What the terminator, with the transaction u and the connection k, knows  *)
(* of the message: it has none, gave one to the upper layer, or has sent    *)
(* the upper layer's report.                                                *)
Phase(k, u) ==
    CASE k = "none" -> "none"
      [] k = "up" /\ u.rp_state = "WAIT_TO_TX_RP_ACK" /\ u.cp_state = "MM_ESTABLISHED" -> "told"
      [] k = "up" /\ u.rp_state = "IDLE" /\ u.cp_state = "WAIT_CP_ACK" -> "answered"
      [] OTHER -> "other"

(* s: the originator is sending the message; up: it has a connection; ph:   *)
(* the terminator's phase, x its retransmissions; p: the channel to the     *)
(* originator, which has lost l; q: the channel to the terminator; i: the   *)
(* messages given to the terminator's upper layer, r: the failures it was   *)
(* told of.                                                                 *)

(* The message is at most once on its way, ahead of everything else, and    *)
(* alone as long as the originator is sending it.                           *)
Alone(s, up, q) ==
    /\ \A n \in DOMAIN q : Copy(q[n]) => n = 1
    /\ s => up /\ Len(q) <= 1 /\ (q # <<>> => Copy(q[1]))
(* While it may arrive again, the terminator is in one of three phases, and *)
(* without a transaction if it arrives for the first time, or the upper     *)
(* layer was told of a failure.                                             *)
Known(s, ph, x, q, i, r) ==
    /\ s \/ Flies(q) =>
          /\ ph \in {"none", "told", "answered"} /\ ((ph = "none" /\ i = r) \/ i = r + 1)
          /\ ph = "answered" => x \in Nat
    /\ Flies(q) /\ ph = "none" => i = r
(* If the originator is sending what was given to the upper layer, then     *)
(* what the terminator sent was lost or is on its way; what ends its        *)
(* transaction is the last of it.                                           *)
Owed(s, ph, x, p, l, i, r) ==
    s /\ i = r + 1 =>
       /\ l + Len(p) >= IF ph = "told" THEN 1 ELSE IF ph = "answered" THEN 2 + x ELSE 3
       /\ p # <<>> /\ ph = "none" => Last(p).cp = "ERROR"
       /\ p # <<>> /\ ph = "answered" => Last(p).cp = "DATA"
(* No answer to the message is on its way as long as the message is, and if *)
(* the originator has given up, that is on its way as well.                 *)
Silent(s, ph, p, q) ==
    Flies(q) /\ ph # "none" => ~Answers(p) /\ (~s => Answers(q))

Once(s, up, ph, x, p, q, l, i, r) ==
    /\ Alone(s, up, q) /\ Known(s, ph, x, q, i, r) /\ Owed(s, ph, x, p, l, i, r)
    /\ Silent(s, ph, p, q) /\ i <= 1 + r

-----------------------------------------------------------------------------
(* Sequences of messages *)

LEMMA Added ==
    ASSUME NEW S, NEW s \in Seq(S), NEW m \in S
    PROVE  /\ s \o <<m>> \in Seq(S) /\ Len(s \o <<m>>) = Len(s) + 1
           /\ (s \o <<m>>)[Len(s) + 1] = m
           /\ \A n \in 1..Len(s) : (s \o <<m>>)[n] = s[n]
           /\ s \o <<m>> # <<>> /\ Last(s \o <<m>>) = m
           /\ s = <<>> => s \o <<m>> = <<m>>
  <1> DEFINE t == s \o <<m>>
  <1>1. <<m>> \in Seq(S) /\ Len(<<m>>) = 1 /\ <<m>>[1] = m
    OBVIOUS
  <1>2. t \in Seq(S) /\ Len(t) = Len(s) + 1
    BY <1>1
  <1>3. t[Len(s) + 1] = m /\ \A n \in 1..Len(s) : t[n] = s[n]
    BY <1>1
  <1>4. s = <<>> => t = <<m>>
    OBVIOUS
  <1> HIDE DEF t
  <1>5. t # <<>> /\ Last(t) = m
    BY <1>2, <1>3 DEF Last
  <1> QED
    BY <1>2, <1>3, <1>4, <1>5 DEF t

LEMMA AddedAnswers ==
    ASSUME NEW S, NEW s \in Seq(S), NEW m \in S
    PROVE  Answers(s \o <<m>>) <=> Answers(s) \/ Answer(m)
  <1> DEFINE t == s \o <<m>>
  <1>1. /\ t \in Seq(S) /\ Len(t) = Len(s) + 1 /\ t[Len(s) + 1] = m
        /\ \A n \in 1..Len(s) : t[n] = s[n]
    BY Added
  <1> HIDE DEF t
  <1>2. DOMAIN t = 1..(Len(s) + 1) /\ DOMAIN s = 1..Len(s) /\ Len(s) \in Nat
    BY <1>1
  <1>3. Answers(t) <=> Answers(s) \/ Answer(m)
    BY <1>1, <1>2 DEF Answers
  <1> QED
    BY <1>3 DEF t

LEMMA Taken ==
    ASSUME NEW S, NEW s \in Seq(S), s # <<>>
    PROVE  /\ Tail(s) \in Seq(S) /\ Len(Tail(s)) = Len(s) - 1 /\ Head(s) = s[1] /\ 1 \in DOMAIN s
           /\ \A n \in DOMAIN Tail(s) : n + 1 \in DOMAIN s /\ Tail(s)[n] = s[n + 1]
           /\ Tail(s) # <<>> => Last(Tail(s)) = Last(s)
           /\ Len(s) <= 1 => Tail(s) = <<>>
  <1> DEFINE t == Tail(s)
  <1>1. t \in Seq(S) /\ Len(t) = Len(s) - 1 /\ Head(s) = s[1] /\ 1 \in DOMAIN s
    OBVIOUS
  <1>2. \A n \in DOMAIN t : n + 1 \in DOMAIN s /\ t[n] = s[n + 1]
    OBVIOUS
  <1>3. Len(s) \in Nat /\ Len(s) >= 1
    OBVIOUS
  <1> HIDE DEF t
  <1>4. Len(s) <= 1 => t = <<>>
    BY <1>1, <1>3
  <1>5. t # <<>> => Last(t) = Last(s)
    <2> SUFFICES ASSUME t # <<>> PROVE Last(t) = Last(s)
      OBVIOUS
    <2>1. Len(t) \in DOMAIN t
      BY <1>1
    <2>2. t[Len(t)] = s[Len(t) + 1] /\ Len(t) + 1 = Len(s)
      BY <1>1, <1>2, <1>3, <2>1
    <2> QED
      BY <2>2 DEF Last
  <1> QED
    BY <1>1, <1>2, <1>4, <1>5 DEF t

(* What is ahead is taken: the message is on its way no more, and nothing   *)
(* that was an answer appears.                                              *)
LEMMA TakenMsgs ==
    ASSUME NEW S, NEW s \in Seq(S), s # <<>>
    PROVE  /\ Answers(Tail(s)) => Answers(s)
           /\ \A b \in BOOLEAN : \A up : Alone(b, up, s) => Alone(b, up, Tail(s)) /\ ~Flies(Tail(s))
           /\ Answer(Head(s)) => Answers(s)
  <1> DEFINE t == Tail(s)
  <1>1. /\ t \in Seq(S) /\ Len(t) = Len(s) - 1 /\ Head(s) = s[1] /\ 1 \in DOMAIN s
        /\ \A n \in DOMAIN t : n + 1 \in DOMAIN s /\ t[n] = s[n + 1]
        /\ Len(s) <= 1 => t = <<>>
    BY Taken
  <1> HIDE DEF t
  <1>2. (Answers(t) => Answers(s)) /\ (Answer(Head(s)) => Answers(s))
    BY <1>1 DEF Answers
  <1>3. ASSUME NEW b \in BOOLEAN, NEW up, Alone(b, up, s)
        PROVE  Alone(b, up, t) /\ ~Flies(t)
    <2>1. \A n \in DOMAIN t : ~Copy(t[n])
      <3> SUFFICES ASSUME NEW n \in DOMAIN t, Copy(t[n]) PROVE FALSE
        OBVIOUS
      <3>1. n \in Nat /\ n >= 1
        BY <1>1
      <3>2. n + 1 = 1
        BY <1>1, <1>3 DEF Alone
      <3> QED
        BY <3>1, <3>2
    <2>2. ~Flies(t)
      <3>1. t # <<>> => 1 \in DOMAIN t
        BY <1>1
      <3> QED
        BY <2>1, <3>1 DEF Flies
    <2>3. b => up /\ t = <<>>
      BY <1>1, <1>3 DEF Alone
    <2>4. Len(<<>>) <= 1
      OBVIOUS
    <2> QED
      BY <2>1, <2>2, <2>3, <2>4 DEF Alone
  <1> QED
    BY <1>2, <1>3 DEF t

-----------------------------------------------------------------------------
(* The steps, seen from the message *)

(* There is no message on its way any more, and none is sent.               *)
LEMMA Nothing ==
    ASSUME NEW up, NEW ph, NEW x, NEW p, NEW q, NEW l, NEW i, NEW r,
           \A n \in DOMAIN q : Copy(q[n]) => n = 1, ~Flies(q), i <= 1 + r
    PROVE  Once(FALSE, up, ph, x, p, q, l, i, r)
  BY DEF Once, Alone, Known, Owed, Silent

(* The message, or another one, is lost or discarded on its way to the      *)
(* terminator.                                                              *)
LEMMA GoesAstray ==
    ASSUME NEW s \in BOOLEAN, NEW up, NEW ph, NEW x, NEW p, NEW q \in Seq(CpMsgs), NEW l, NEW i, NEW r,
           Once(s, up, ph, x, p, q, l, i, r), q # <<>>
    PROVE  Once(s, up, ph, x, p, Tail(q), l, i, r)
  <1>1. Alone(s, up, Tail(q)) /\ ~Flies(Tail(q))
    BY TakenMsgs DEF Once
  <1>2. Known(s, ph, x, Tail(q), i, r)
    BY <1>1 DEF Once, Known
  <1>3. Silent(s, ph, p, Tail(q))
    BY <1>1 DEF Silent
  <1> QED
    BY <1>1, <1>2, <1>3 DEF Once

(* A message is lost on its way to the originator, or discarded if the      *)
(* originator is not sending.                                               *)
LEMMA BackAstray ==
    ASSUME NEW s \in BOOLEAN, NEW up, NEW ph, NEW x, NEW p \in Seq(CpMsgs), NEW q,
           NEW l \in Nat, NEW k \in Nat, NEW i, NEW r,
           Once(s, up, ph, x, p, q, l, i, r), p # <<>>, s => k = l + 1
    PROVE  Once(s, up, ph, x, Tail(p), q, k, i, r)
  <1> DEFINE t == Tail(p)
  <1>1. /\ Len(t) = Len(p) - 1 /\ Len(p) \in Nat /\ (t # <<>> => Last(t) = Last(p))
        /\ (Answers(t) => Answers(p))
    BY Taken, TakenMsgs
  <1> HIDE DEF t
  <1>2. Owed(s, ph, x, t, k, i, r)
    <2> SUFFICES ASSUME s, i = r + 1 PROVE Owed(TRUE, ph, x, t, k, i, r)
      BY DEF Owed
    <2>1. k + Len(t) = l + Len(p)
      BY <1>1
    <2> QED
      BY <1>1, <2>1 DEF Once, Owed
  <1>3. Silent(s, ph, t, q)
    BY <1>1 DEF Once, Silent
  <1> QED
    BY <1>2, <1>3 DEF Once, t

(* The originator stops sending, or was not; what it sends then is not the  *)
(* message, and is an answer if the message is still on its way to a        *)
(* terminator that has it already.                                          *)
LEMMA Stops ==
    ASSUME NEW s \in BOOLEAN, NEW up, NEW up2, NEW ph, NEW x, NEW p, NEW p2,
           NEW q \in Seq(CpMsgs), NEW mm \in Seq(CpMsgs), NEW l, NEW i, NEW r,
           Once(s, up, ph, x, p, q, l, i, r), Plain(mm),
           Answers(p2) => Answers(p),
           s /\ Flies(q) /\ ph # "none" => Answers(mm)
    PROVE  Once(FALSE, up2, ph, x, p2, q \o mm, l, i, r)
  <1> DEFINE t == q \o mm
  <1>1. /\ t \in Seq(CpMsgs) /\ Len(t) = Len(q) + Len(mm) /\ Len(q) \in Nat /\ Len(mm) \in Nat
        /\ \A n \in 1..Len(q) : t[n] = q[n]
        /\ \A n \in 1..Len(mm) : t[Len(q) + n] = mm[n]
    OBVIOUS
  <1>2. DOMAIN t = 1..Len(t) /\ DOMAIN q = 1..Len(q) /\ DOMAIN mm = 1..Len(mm)
    BY <1>1
  <1> HIDE DEF t
  <1>3. \A n \in DOMAIN t : Copy(t[n]) => n = 1 /\ n \in DOMAIN q /\ Copy(q[n])
    <2> SUFFICES ASSUME NEW n \in DOMAIN t, Copy(t[n]) PROVE n = 1 /\ n \in DOMAIN q /\ Copy(q[n])
      OBVIOUS
    <2>1. CASE n \in 1..Len(q)
      BY <1>1, <1>2, <2>1 DEF Once, Alone
    <2>2. CASE n \notin 1..Len(q)
      <3>1. n - Len(q) \in 1..Len(mm) /\ n = Len(q) + (n - Len(q))
        BY <1>1, <1>2, <2>2
      <3>2. t[n] = mm[n - Len(q)]
        BY <1>1, <3>1
      <3> QED
        BY <1>2, <3>1, <3>2 DEF Plain
    <2> QED
      BY <2>1, <2>2
  <1>4. Flies(t) => Flies(q)
    <2>1. t # <<>> => 1 \in DOMAIN t
      BY <1>1
    <2>2. 1 \in DOMAIN q => q # <<>>
      BY <1>1
    <2> QED
      BY <1>3, <2>1, <2>2 DEF Flies
  <1>5. Answers(q) \/ Answers(mm) => Answers(t)
    <2>1. ASSUME NEW n \in DOMAIN q, Answer(q[n]) PROVE Answers(t)
      BY <1>1, <1>2, <2>1 DEF Answers
    <2>2. ASSUME NEW n \in DOMAIN mm, Answer(mm[n]) PROVE Answers(t)
      <3>1. Len(q) + n \in DOMAIN t /\ t[Len(q) + n] = mm[n]
        BY <1>1, <1>2
      <3> QED
        BY <2>2, <3>1 DEF Answers
    <2> QED
      BY <2>1, <2>2 DEF Answers
  <1>6. Alone(FALSE, up2, t)
    BY <1>3 DEF Alone
  <1>7. Known(FALSE, ph, x, t, i, r)
    BY <1>4 DEF Once, Known
  <1>8. Silent(FALSE, ph, p2, t)
    BY <1>4, <1>5 DEF Once, Silent
  <1>9. Owed(FALSE, ph, x, p2, l, i, r)
    BY DEF Owed
  <1> QED
    BY <1>6, <1>7, <1>8, <1>9 DEF Once, t

(* TC1* of the originator sends the message again: nothing of it and no     *)
(* answer is on its way, and as fewer than three messages were lost the     *)
(* terminator still has its transaction, or the upper layer was told.       *)
LEMMA Repeats ==
    ASSUME NEW up, NEW ph, NEW x, NEW p \in Seq(CpMsgs), NEW q \in Seq(CpMsgs),
           NEW l \in Nat, NEW i \in Nat, NEW r \in Nat,
           Once(TRUE, up, ph, x, p, q, l, i, r), l < 3,
           ~Answers(p), \A n \in DOMAIN q : q[n].cp # "DATA", NEW m \in CpMsgs, Copy(m)
    PROVE  Once(TRUE, up, ph, x, p, q \o <<m>>, l, i, r)
  <1> DEFINE t == q \o <<m>>
  <1>1. q = <<>>
    <2>1. q # <<>> => 1 \in DOMAIN q /\ Copy(q[1])
      BY DEF Once, Alone
    <2> QED
      BY <2>1 DEF Copy
  <1>2. t = <<m>> /\ Len(<<m>>) = 1 /\ <<m>>[1] = m /\ DOMAIN <<m>> = {1} /\ <<m>> # <<>>
    BY <1>1
  <1> HIDE DEF t
  <1>3. Alone(TRUE, up, t)
    BY <1>2 DEF Once, Alone
  <1>4. ph = "none" => i = r
    <2> SUFFICES ASSUME ph = "none", i # r PROVE FALSE
      OBVIOUS
    <2>1. i = r + 1
      BY DEF Once, Known
    <2>2. p # <<>> => Last(p).cp = "ERROR" /\ Len(p) \in DOMAIN p
      BY <2>1 DEF Once, Owed
    <2>3. p = <<>>
      BY <2>2 DEF Answers, Answer, Last
    <2>4. l + Len(p) >= 3
      BY <2>1 DEF Once, Owed
    <2> QED
      BY <2>3, <2>4
  <1>5. Known(TRUE, ph, x, t, i, r)
    BY <1>4 DEF Once, Known
  <1>6. Silent(TRUE, ph, p, t)
    BY DEF Silent
  <1> QED
    BY <1>3, <1>5, <1>6 DEF Once, t

(* The message arrives for the first time: it is acknowledged and given to  *)
(* the upper layer.                                                         *)
LEMMA Arrives ==
    ASSUME NEW s \in BOOLEAN, NEW up, NEW x, NEW y, NEW p \in Seq(CpMsgs), NEW q \in Seq(CpMsgs),
           NEW l \in Nat, NEW i \in Nat, NEW r \in Nat,
           Once(s, up, "none", x, p, q, l, i, r), q # <<>>, Copy(Head(q)), NEW m \in CpMsgs
    PROVE  Once(s, up, "told", y, p \o <<m>>, Tail(q), l, i + 1, r)
  <1> DEFINE t == p \o <<m>>
             u == Tail(q)
  <1>1. Len(t) = Len(p) + 1 /\ Len(p) \in Nat
    BY Added
  <1>2. Alone(s, up, u) /\ ~Flies(u) /\ Flies(q)
    BY Taken, TakenMsgs DEF Once, Flies
  <1> HIDE DEF t, u
  <1>3. i = r
    BY <1>2 DEF Once, Known
  <1>4. Known(s, "told", y, u, i + 1, r)
    BY <1>2, <1>3 DEF Known
  <1>5. Owed(s, "told", y, t, l, i + 1, r)
    BY <1>1 DEF Owed
  <1>6. Silent(s, "told", t, u)
    BY <1>2 DEF Silent
  <1>7. i + 1 <= 1 + r
    BY <1>3
  <1> QED
    BY <1>2, <1>4, <1>5, <1>6, <1>7 DEF Once, t, u

(* It arrives again before the upper layer has reported: it is              *)
(* acknowledged once more.                                                  *)
LEMMA ArrivesAgain ==
    ASSUME NEW s \in BOOLEAN, NEW up, NEW x, NEW y, NEW p \in Seq(CpMsgs), NEW q \in Seq(CpMsgs),
           NEW l \in Nat, NEW i \in Nat, NEW r \in Nat,
           Once(s, up, "told", x, p, q, l, i, r), q # <<>>, NEW m \in CpMsgs
    PROVE  Once(s, up, "told", y, p \o <<m>>, Tail(q), l, i, r)
  <1> DEFINE t == p \o <<m>>
             u == Tail(q)
  <1>1. Len(t) = Len(p) + 1 /\ Len(p) \in Nat
    BY Added
  <1>2. Alone(s, up, u) /\ ~Flies(u)
    BY Taken, TakenMsgs DEF Once, Flies
  <1> HIDE DEF t, u
  <1>3. Known(s, "told", y, u, i, r)
    BY <1>2 DEF Once, Known
  <1>4. Owed(s, "told", y, t, l, i, r)
    BY <1>1 DEF Owed
  <1>5. Silent(s, "told", t, u)
    BY <1>2 DEF Silent
  <1> QED
    BY <1>2, <1>3, <1>4, <1>5 DEF Once, t, u

(* It arrives again after the report was sent: the transaction ends with    *)
(* CP-ERROR.                                                                *)
LEMMA ArrivesLate ==
    ASSUME NEW s \in BOOLEAN, NEW up, NEW x, NEW y, NEW p \in Seq(CpMsgs), NEW q \in Seq(CpMsgs),
           NEW l \in Nat, NEW i \in Nat, NEW r \in Nat,
           Once(s, up, "answered", x, p, q, l, i, r), q # <<>>, Copy(Head(q)),
           NEW m \in CpMsgs, m.cp = "ERROR"
    PROVE  Once(s, up, "none", y, p \o <<m>>, Tail(q), l, i, r)
  <1> DEFINE t == p \o <<m>>
             u == Tail(q)
  <1>1. Len(t) = Len(p) + 1 /\ Len(p) \in Nat /\ Last(t) = m
    BY Added
  <1>2. Alone(s, up, u) /\ ~Flies(u) /\ Flies(q)
    BY Taken, TakenMsgs DEF Once, Flies
  <1> HIDE DEF t, u
  <1>3. i = r + 1 /\ x \in Nat
    BY <1>2 DEF Once, Known
  <1>4. Known(s, "none", y, u, i, r)
    BY <1>2, <1>3 DEF Known
  <1>5. Owed(s, "none", y, t, l, i, r)
    <2>1. s => l + Len(p) >= 2 + x
      BY <1>3 DEF Once, Owed
    <2>2. s => l + Len(t) >= 3
      BY <1>1, <1>3, <2>1
    <2> QED
      BY <1>1, <2>2 DEF Owed
  <1>6. Silent(s, "none", t, u)
    BY DEF Silent
  <1> QED
    BY <1>2, <1>4, <1>5, <1>6 DEF Once, t, u

(* The upper layer reports, or TC1* sends the report again.                 *)
LEMMA Reports ==
    ASSUME NEW s \in BOOLEAN, NEW up, NEW ph, NEW x, NEW y \in Nat,
           NEW p \in Seq(CpMsgs), NEW q \in Seq(CpMsgs),
           NEW l \in Nat, NEW i \in Nat, NEW r \in Nat,
           Once(s, up, ph, x, p, q, l, i, r), NEW m \in CpMsgs, m.cp = "DATA",
           (ph = "told" /\ y = 0) \/ (ph = "answered" /\ y = x + 1)
    PROVE  Once(s, up, "answered", y, p \o <<m>>, q, l, i, r)
  <1> DEFINE t == p \o <<m>>
  <1>1. Len(t) = Len(p) + 1 /\ Len(p) \in Nat /\ Last(t) = m
    BY Added
  <1>2. Answers(t) => Answers(p)
    BY AddedAnswers DEF Answer
  <1> HIDE DEF t
  <1>3. Known(s, "answered", y, q, i, r)
    BY DEF Once, Known
  <1>4. Owed(s, "answered", y, t, l, i, r)
    <2> SUFFICES ASSUME s, i = r + 1 PROVE l + Len(t) >= 2 + y
      BY <1>1 DEF Owed
    <2>1. CASE ph = "told" /\ y = 0
      <3>1. l + Len(p) >= 1
        BY <2>1 DEF Once, Owed
      <3> QED
        BY <1>1, <2>1, <3>1
    <2>2. CASE ph = "answered" /\ y = x + 1
      <3>1. l + Len(p) >= 2 + x /\ x \in Nat
        BY <2>2 DEF Once, Owed, Known
      <3> QED
        BY <1>1, <2>2, <3>1
    <2> QED
      BY <2>1, <2>2
  <1>5. Silent(s, "answered", t, q)
    BY <1>2 DEF Once, Silent
  <1> QED
    BY <1>3, <1>4, <1>5 DEF Once, t

(* TR2N ends the terminator's transaction, and the upper layer is told.     *)
LEMMA Gives ==
    ASSUME NEW s \in BOOLEAN, NEW up, NEW x, NEW y, NEW p, NEW t, NEW q,
           NEW l \in Nat, NEW i \in Nat, NEW r \in Nat,
           Once(s, up, "told", x, p, q, l, i, r)
    PROVE  Once(s, up, "none", y, t, q, l, i, r + 1)
  <1>1. Known(s, "none", y, q, i, r + 1)
    BY DEF Once, Known
  <1>2. Owed(s, "none", y, t, l, i, r + 1) /\ i <= 1 + (r + 1)
    <2>1. s => i = r + 1
      BY DEF Once, Known
    <2> QED
      BY <2>1 DEF Once, Owed
  <1>3. Silent(s, "none", t, q)
    BY DEF Silent
  <1> QED
    BY <1>1, <1>2, <1>3 DEF Once

(* TC1* ends it after the last repetition of the report, when neither the   *)
(* message nor an answer to the report is on its way.  The originator has   *)
(* stopped by then: or else the acknowledgement, the report and each of its *)
(* repetitions would have been lost, at least three messages.               *)
LEMMA Ends ==
    ASSUME NEW s \in BOOLEAN, NEW up, NEW x, NEW y, NEW p \in Seq(CpMsgs), NEW q \in Seq(CpMsgs),
           NEW l \in Nat, NEW i \in Nat, NEW r \in Nat,
           Once(s, up, "answered", x, p, q, l, i, r), l < 3, x = MaxRetr, MaxRetr > 0,
           ~Answers(q), \A n \in DOMAIN p : p[n].cp # "DATA"
    PROVE  Once(s, up, "none", y, p, q, l, i, r)
  <1>0. x \in Nat /\ x > 0 /\ Len(p) \in Nat
    BY SmsAssumption
  <1>1. ~s
    <2> SUFFICES ASSUME s PROVE FALSE
      OBVIOUS
    <2>1. i = r + 1
      BY DEF Once, Known
    <2>2. p # <<>> => Last(p).cp = "DATA" /\ Len(p) \in DOMAIN p
      BY <2>1 DEF Once, Owed
    <2>3. p = <<>>
      BY <2>2 DEF Last
    <2>4. l + Len(p) >= 2 + x
      BY <2>1 DEF Once, Owed
    <2> QED
      BY <1>0, <2>3, <2>4
  <1>2. ~Flies(q)
    BY <1>1 DEF Once, Silent
  <1>3. Once(FALSE, up, "none", y, p, q, l, i, r)
    BY <1>2, Nothing DEF Once, Alone
  <1> QED
    BY <1>1, <1>3

-----------------------------------------------------------------------------
(* The invariant *)

Counts == loss = [e \in Sides |-> loss[e]] /\ (\A e \in Sides : loss[e] \in Nat) /\ fails \in Nat

(* TC1* exceeds the round trip, one message is submitted, fewer than three  *)
(* are lost on the way back and the MM connection does not fail.            *)
Calm == env.timely /\ subs <= 1 /\ loss[MO] < 3 /\ fails = 0

(* Before the connection is made nothing has been sent.                     *)
Start ==
    subs = 0 \/ tr[MO].cp_state = "MM_CONN_PENDING" =>
       /\ chan[MO] = <<>> /\ chan[MT] = <<>> /\ conn[MT] = "none" /\ conn[MO] # "up"
       /\ ind = 0 /\ rep[MT] = <<>> /\ (subs = 0 => conn[MO] = "none")

OnceNow ==
    Once(SendsData(tr[MO]), conn[MO] = "up", Phase(conn[MT], tr[MT]), tr[MT].cp_retx,
         chan[MO], chan[MT], loss[MO], ind, Len(rep[MT]))

OnceInv == Counts /\ (Calm => Start /\ OnceNow)

LEMMA TwoSides == MO \in Sides /\ MT \in Sides /\ MO # MT /\ Peer(MO) = MT /\ Peer(MT) = MO
  BY SmsEnvAssumption DEF Sides, Peer

LEMMA AtWorks ==
    ASSUME Inv, NEW e \in Sides, conn[e] # "none"
    PROVE  /\ Works(tr[e], MayAck(e, Ok), MayTell(e, Ok))
           /\ MayAck(e, Ok) \in BOOLEAN /\ MayTell(e, Ok) \in BOOLEAN /\ Destroys
  <1>1. Going(tr[e], MayAck(e, Ok), MayTell(e, Ok)) /\ MayAck(e, Ok) \in BOOLEAN /\ MayTell(e, Ok) \in BOOLEAN
    BY AtWork
  <1>2. Idle(tr[e]) /\ Destroys
    BY DEF Inv, SidesInv, SideOf
  <1> QED
    BY <1>1, <1>2 DEF Works

LEMMA Shaped ==
    ASSUME Inv, Counts
    PROVE  /\ \A e \in Sides : chan[e] \in Seq(CpMsgs)
           /\ ind \in Nat /\ Len(rep[MT]) \in Nat /\ loss[MO] \in Nat /\ fails \in Nat /\ subs \in Nat
           /\ SendsData(tr[MO]) \in BOOLEAN
  <1>1. ASSUME NEW e \in Sides PROVE chan[e] \in Seq(CpMsgs)
    <2>1. chan[e] \in Seq(Msgs(MayTell(e, Ok))) /\ Msgs(MayTell(e, Ok)) \subseteq CpMsgs
      BY AtWork DEF Msgs
    <2>2. \A S, T : S \subseteq T => \A s \in Seq(S) : s \in Seq(T)
      OBVIOUS
    <2> QED
      BY <2>1, <2>2
  <1>2. rep[MT] \in Seq(Rps(MayTell(MT, Ok)))
    BY TwoSides DEF Inv, RepInv
  <1>3. Len(rep[MT]) \in Nat
    BY <1>2
  <1>4. SendsData(tr[MO]) \in BOOLEAN
    BY DEF SendsData
  <1> QED
    BY <1>1, <1>3, <1>4, TwoSides DEF Inv, Shapes, Counts

(* What a channel in the state c carries, and an upper layer has, after s.  *)
Joined(s, t) == s \o t
Carried(c, s, t) == IF c = "up" THEN Joined(s, t) ELSE s

LEMMA CommitSays ==
    ASSUME Inv, NEW e \in Sides, NEW d, NEW c, NEW rest, Commit(e, d, c, rest), IsTr(d)
    PROVE  /\ \A x \in TrFields \ Outputs : tr'[e][x] = d[x]
           /\ conn'[e] = ConnAfter(d, c) /\ chan'[e] = rest
           /\ chan'[Peer(e)] = Carried(c, chan[Peer(e)], d.mm)
           /\ tr'[Peer(e)] = tr[Peer(e)] /\ conn'[Peer(e)] = conn[Peer(e)]
           /\ rep'[e] = Joined(rep[e], d.reps) /\ rep'[Peer(e)] = rep[Peer(e)]
           /\ ind' = ind + Len(d.inds) /\ env' = env
  <1>1. /\ tr' = [tr EXCEPT ![e] = Clear(d)]
        /\ conn' = [conn EXCEPT ![e] = ConnAfter(d, c)]
        /\ chan' = [chan EXCEPT ![e] = rest, ![Peer(e)] = IF c = "up" THEN @ \o d.mm ELSE @]
        /\ rep' = [rep EXCEPT ![e] = @ \o d.reps]
        /\ ind' = ind + Len(d.inds) /\ env' = env
    BY DEF Commit, Clear, ConnAfter
  <1>2. /\ tr = [x \in Sides |-> tr[x]] /\ conn = [x \in Sides |-> conn[x]]
        /\ chan = [x \in Sides |-> chan[x]] /\ rep = [x \in Sides |-> rep[x]]
    BY DEF Inv, Shapes
  <1>3. Peer(e) \in Sides /\ Peer(e) # e
    BY TwoSides DEF Sides
  <1>4. tr'[e] = Clear(d) /\ tr'[Peer(e)] = tr[Peer(e)]
    BY <1>1, <1>2, <1>3
  <1>5. conn'[e] = ConnAfter(d, c) /\ conn'[Peer(e)] = conn[Peer(e)]
    BY <1>1, <1>2, <1>3
  <1>6. /\ chan'[e] = rest
        /\ chan'[Peer(e)] = IF c = "up" THEN chan[Peer(e)] \o d.mm ELSE chan[Peer(e)]
    BY <1>1, <1>2, <1>3
  <1>7. rep'[e] = rep[e] \o d.reps /\ rep'[Peer(e)] = rep[Peer(e)]
    BY <1>1, <1>2, <1>3
  <1>8. \A x \in TrFields \ Outputs : Clear(d)[x] = d[x]
    BY DEF Clear, IsTr, TrFields, Outputs
  <1> QED
    BY <1>1, <1>4, <1>5, <1>6, <1>7, <1>8 DEF Carried, Joined

(* A step of the originator after the connection was made.                  *)
LEMMA MoStep ==
    ASSUME Inv, OnceInv, NEW d, NEW c, NEW rest, Commit(MO, d, c, rest), IsTr(d), d.inds = <<>>,
           UNCHANGED <<loss, fails, subs>>, NEW q,
           q = Carried(c, chan[MT], d.mm),
           Calm => /\ subs # 0 /\ d.cp_state # "MM_CONN_PENDING"
                   /\ Once(SendsData(d), ConnAfter(d, c) = "up", Phase(conn[MT], tr[MT]),
                           tr[MT].cp_retx, rest, q, loss[MO], ind, Len(rep[MT]))
    PROVE  OnceInv'
  <1>1. /\ \A x \in TrFields \ Outputs : tr'[MO][x] = d[x]
        /\ conn'[MO] = ConnAfter(d, c) /\ chan'[MO] = rest /\ chan'[MT] = q
        /\ tr'[MT] = tr[MT] /\ conn'[MT] = conn[MT] /\ rep'[MT] = rep[MT]
        /\ ind' = ind + Len(d.inds) /\ env' = env
    BY CommitSays, TwoSides
  <1>2. ind' = ind
    BY <1>1 DEF Inv, Shapes
  <1>3. tr'[MO].cp_state = d.cp_state /\ tr'[MO].cp_msg = d.cp_msg
    BY <1>1 DEF TrFields, Outputs
  <1>4. SendsData(tr'[MO]) = SendsData(d)
    BY <1>3 DEF SendsData
  <1>5. Counts' /\ (Calm' => Calm)
    BY <1>1 DEF OnceInv, Counts, Calm
  <1>6. Calm' => Start' /\ OnceNow'
    <2> SUFFICES ASSUME Calm' PROVE Start' /\ OnceNow'
      OBVIOUS
    <2>1. Start'
      BY <1>3, <1>5 DEF Start
    <2>2. OnceNow'
      BY <1>1, <1>2, <1>4, <1>5 DEF OnceNow
    <2> QED
      BY <2>1, <2>2
  <1> QED
    BY <1>5, <1>6 DEF OnceInv

(* A step of the terminator.                                                *)
LEMMA MtStep ==
    ASSUME Inv, OnceInv, NEW d, NEW c, NEW rest, Commit(MT, d, c, rest), IsTr(d),
           UNCHANGED <<loss, fails, subs>>, NEW p, NEW i, NEW r, NEW ph,
           p = Carried(c, chan[MO], d.mm),
           i = ind + Len(d.inds), r = Len(Joined(rep[MT], d.reps)),
           ph = Phase(ConnAfter(d, c), d),
           conn[MT] # "none" \/ chan[MT] # <<>>,
           Calm => Once(SendsData(tr[MO]), conn[MO] = "up", ph, d.cp_retx, p, rest, loss[MO], i, r)
    PROVE  OnceInv'
  <1>1. /\ \A x \in TrFields \ Outputs : tr'[MT][x] = d[x]
        /\ conn'[MT] = ConnAfter(d, c) /\ chan'[MT] = rest /\ chan'[MO] = p
        /\ tr'[MO] = tr[MO] /\ conn'[MO] = conn[MO] /\ rep'[MT] = Joined(rep[MT], d.reps)
        /\ ind' = i /\ env' = env
    BY CommitSays, TwoSides
  <1>2. /\ tr'[MT].cp_state = d.cp_state /\ tr'[MT].rp_state = d.rp_state
        /\ tr'[MT].cp_retx = d.cp_retx
    BY <1>1 DEF TrFields, Outputs
  <1>3. Phase(conn'[MT], tr'[MT]) = ph
    BY <1>1, <1>2 DEF Phase
  <1>4. Counts' /\ (Calm' => Calm)
    BY <1>1 DEF OnceInv, Counts, Calm
  <1>5. Calm' => Start' /\ OnceNow'
    <2> SUFFICES ASSUME Calm' PROVE Start' /\ OnceNow'
      OBVIOUS
    <2>1. Start'
      <3>1. subs # 0 /\ tr[MO].cp_state # "MM_CONN_PENDING"
        BY <1>4 DEF OnceInv, Start
      <3> QED
        BY <1>1, <3>1 DEF Start
    <2>2. OnceNow'
      BY <1>1, <1>2, <1>3, <1>4 DEF OnceNow
    <2> QED
      BY <2>1, <2>2
  <1> QED
    BY <1>4, <1>5 DEF OnceInv

-----------------------------------------------------------------------------
(* The originator's steps *)

LEMMA SubmitOnce ==
    ASSUME Inv, OnceInv, NEW kind \in env.kinds, Submit(kind)
    PROVE  OnceInv'
  <1> DEFINE rp == Rp(kind)
             d == SmrSend(New, "DATA_REQ", rp)
             a == MayAck(MO, Ok)
             b == MayTell(MO, Ok)
  <1>1. Ok \in BOOLEAN /\ a \in BOOLEAN /\ b \in BOOLEAN /\ a = TRUE
    BY TwoSides, AtWork DEF MayAck
  <1>2. conn[MO] # "none" => tr[MO].cp_state # "IDLE"
    BY TwoSides, AtWork DEF Going, Cp
  <1>3. conn[MO] = "none" /\ tr[MO] = Gone
    BY <1>2, TwoSides, AtWork DEF Submit
  <1>4. Commit(MO, d, "none", chan[MO]) /\ UNCHANGED <<loss, fails>> /\ subs' = subs + 1
    BY <1>3, GoneIs DEF Submit
  <1>5. kind \in RpKinds
    BY SmsEnvAssumption DEF Inv, Shapes
  <1>6. rp \in Rps(a) /\ rp # NoMsg
    <2>1. rp.kind = kind /\ NoMsg.kind = "none" /\ kind # "none"
      BY <1>5 DEF Rp, NoMsg, RpKinds
    <2>2. rp \in RpMsgs
      BY <1>5 DEF Rp, RpMsgs
    <2> QED
      BY <1>1, <2>1, <2>2 DEF Rps
  <1> HIDE DEF rp, a, b
  <1>7. /\ Talk(d, a, b) /\ d.prims = {"EST_REQ"} /\ d.inds = <<>> /\ d.cp_state = "MM_CONN_PENDING"
    BY <1>1, <1>6, SubmitNew
  <1> HIDE DEF d
  <1>8. IsTr(d) /\ ConnAfter(d, "none") = "pending"
    BY <1>7 DEF Talk, ConnAfter
  <1>9. /\ \A x \in TrFields \ Outputs : tr'[MO][x] = d[x]
        /\ conn'[MO] = ConnAfter(d, "none") /\ chan'[MO] = chan[MO]
        /\ chan'[MT] = Carried("none", chan[MT], d.mm)
        /\ tr'[MT] = tr[MT] /\ conn'[MT] = conn[MT] /\ rep'[MT] = rep[MT]
        /\ ind' = ind + Len(d.inds) /\ env' = env
    BY <1>4, <1>8, CommitSays, TwoSides
  <1>10. ind' = ind /\ chan'[MT] = chan[MT] /\ tr'[MO].cp_state = "MM_CONN_PENDING"
    BY <1>7, <1>9 DEF Inv, Shapes, Carried, TrFields, Outputs
  <1>11. Counts'
    BY <1>4 DEF OnceInv, Counts
  <1>12. ASSUME Calm' PROVE Start' /\ OnceNow'
    <2>1. subs = 0 /\ subs' = 1 /\ Calm
      BY <1>4, <1>9, <1>12 DEF Calm, Inv, Shapes
    <2>2. /\ chan[MO] = <<>> /\ chan[MT] = <<>> /\ conn[MT] = "none" /\ ind = 0 /\ rep[MT] = <<>>
      BY <2>1 DEF OnceInv, Start
    <2>3. Start'
      BY <1>8, <1>9, <1>10, <2>1, <2>2 DEF Start
    <2>4. ~SendsData(tr'[MO])
      BY <1>10 DEF SendsData
    <2>5. ~Flies(chan'[MT]) /\ DOMAIN chan'[MT] = {} /\ ind' <= 1 + Len(rep'[MT])
      BY <1>9, <1>10, <2>2 DEF Flies
    <2>6. SendsData(tr'[MO]) = FALSE
      BY <2>4 DEF SendsData
    <2>7. \A up, ph, x, p, l : Once(FALSE, up, ph, x, p, chan'[MT], l, ind', Len(rep'[MT]))
      BY <2>5 DEF Once, Alone, Known, Owed, Silent
    <2>8. OnceNow'
      BY <2>6, <2>7 DEF OnceNow
    <2> QED
      BY <2>3, <2>8
  <1> QED
    BY <1>11, <1>12 DEF OnceInv

(* The originator's handlers leave a record of the same shape, and give     *)
(* nothing to the terminator's upper layer.                                 *)
LEMMA ResultShape ==
    ASSUME NEW d, NEW a \in BOOLEAN, NEW b \in BOOLEAN, Works(d, a, b), NEW o, Result(d, o, a, b)
    PROVE  /\ IsTr(o) /\ o.inds = <<>> /\ o.mm \in Seq(CpMsgs) /\ o.reps \in Seq(RpMsgs)
           /\ Going(o, a, b) \/ Ended(o, a, b)
  <1>1. IsTr(o) /\ (Going(o, a, b) \/ Ended(o, a, b)) /\ Out(o, a, b) /\ Stays(d, o)
    BY ResultOut DEF Result, Going, Ended, Talk
  <1>2. o.inds = <<>>
    BY <1>1 DEF Stays, Works, Idle
  <1>3. o.mm \in Seq(Msgs(a)) /\ Msgs(a) \subseteq CpMsgs /\ o.reps \in Seq(Rps(b)) /\ Rps(b) \subseteq RpMsgs
    BY <1>1 DEF Out, Msgs, Rps
  <1>4. \A S, T : S \subseteq T => \A s \in Seq(S) : s \in Seq(T)
    OBVIOUS
  <1> QED
    BY <1>1, <1>2, <1>3, <1>4

(* MMSMS-EST-CNF: the message goes out for the first time.                  *)
LEMMA ConnConfirmOnce ==
    ASSUME Inv, OnceInv, ConnConfirm
    PROVE  OnceInv'
  <1> DEFINE t == tr[MO]
             a == MayAck(MO, Ok)
             b == MayTell(MO, Ok)
             o == SmcRecv(t, "EST_CNF", "none", NoMsg)
             q == Carried("up", chan[MT], o.mm)
  <1>1. conn[MO] = "pending" /\ Commit(MO, o, "up", chan[MO]) /\ UNCHANGED <<loss, fails, subs>>
    BY DEF ConnConfirm
  <1>2. Works(t, a, b) /\ a \in BOOLEAN /\ b \in BOOLEAN /\ Destroys
    BY <1>1, AtWorks, TwoSides
  <1>3. Result(t, o, a, b)
    BY <1>2, EstCnfResult DEF Works
  <1> HIDE DEF a, b
  <1>4. IsTr(o) /\ o.inds = <<>>
    BY <1>2, <1>3, ResultShape
  <1>5. Calm => subs # 0
    BY <1>1 DEF OnceInv, Start
  <1>6. CASE t.cp_state = "MM_CONN_PENDING"
    <2> DEFINE m == CpMsg("DATA", t.cp_msg)
    <2>1. o.mm = <<m>> /\ o.cp_state = "WAIT_CP_ACK" /\ o.cp_msg = t.cp_msg /\ o.prims = {}
      BY <1>2, <1>6, EstCnfSends
    <2>2. m.cp = "DATA" /\ m.rp = t.cp_msg
      BY DEF CpMsg
    <2> HIDE DEF o, m, t
    <2>3. ConnAfter(o, "up") = "up" /\ o.cp_state # "MM_CONN_PENDING" /\ SendsData(o) = Copy(m)
      BY <2>1, <2>2 DEF ConnAfter, SendsData, Copy
    <2>4. ASSUME Calm
          PROVE  Once(SendsData(o), ConnAfter(o, "up") = "up", Phase(conn[MT], tr[MT]),
                      tr[MT].cp_retx, chan[MO], q, loss[MO], ind, Len(rep[MT]))
      <3>1. chan[MT] = <<>> /\ conn[MT] = "none" /\ ind = 0 /\ rep[MT] = <<>>
        BY <1>6, <2>4 DEF OnceInv, Start, t
      <3>2. q = <<m>> /\ ind = Len(rep[MT]) /\ Len(rep[MT]) \in Nat
        BY <2>1, <3>1 DEF Carried, Joined
      <3> DEFINE s == SendsData(o)
                 ph == Phase(conn[MT], tr[MT])
                 x == tr[MT].cp_retx
      <3>3. s \in BOOLEAN /\ s = Copy(m)
        BY <2>3 DEF SendsData
      <3>4. DOMAIN <<m>> = {1} /\ <<m>>[1] = m /\ Len(<<m>>) = 1 /\ <<m>> # <<>>
        OBVIOUS
      <3>5. ph = "none"
        BY <3>1 DEF Phase
      <3> HIDE DEF s, ph, x, q
      <3>6. Alone(s, TRUE, q) /\ (Flies(q) => s)
        BY <3>2, <3>3, <3>4 DEF Alone, Flies
      <3>7. Known(s, ph, x, q, ind, Len(rep[MT]))
        BY <3>2, <3>5 DEF Known
      <3>8. Owed(s, ph, x, chan[MO], loss[MO], ind, Len(rep[MT])) /\ ind <= 1 + Len(rep[MT])
        BY <3>2 DEF Owed
      <3>9. Silent(s, ph, chan[MO], q)
        BY <3>5 DEF Silent
      <3>10. Once(s, TRUE, ph, x, chan[MO], q, loss[MO], ind, Len(rep[MT]))
        BY <3>6, <3>7, <3>8, <3>9 DEF Once
      <3>11. (ConnAfter(o, "up") = "up") = TRUE
        BY <2>3
      <3> QED
        BY <3>10, <3>11 DEF s, ph, x
    <2> HIDE DEF q
    <2>5. q = Carried("up", chan[MT], o.mm)
      BY DEF q
    <2> QED
      BY <1>1, <1>4, <1>5, <2>3, <2>4, <2>5, MoStep DEF o, t
  <1>7. CASE t.cp_state # "MM_CONN_PENDING"
    <2>1. o = t
      BY <1>2, <1>7, LiveSteps DEF SmcRecv, Works, Going
    <2>2. t.mm = <<>> /\ t.prims = {}
      BY <1>2 DEF Works, Idle
    <2>3. ConnAfter(t, "up") = "up"
      BY <2>2 DEF ConnAfter
    <2>4. ASSUME Calm
          PROVE  Once(SendsData(t), TRUE, Phase(conn[MT], tr[MT]),
                      tr[MT].cp_retx, chan[MO], q, loss[MO], ind, Len(rep[MT]))
      <3>1. Once(SendsData(t), conn[MO] = "up", Phase(conn[MT], tr[MT]),
                 tr[MT].cp_retx, chan[MO], chan[MT], loss[MO], ind, Len(rep[MT]))
        BY <2>4 DEF OnceInv, OnceNow
      <3>2. q = chan[MT]
        <4>1. \A s \in Seq(CpMsgs) : s \o <<>> = s
          OBVIOUS
        <4>2. chan[MT] \in Seq(CpMsgs)
          BY Shaped, TwoSides DEF OnceInv
        <4> QED
          BY <2>1, <2>2, <4>1, <4>2 DEF Carried, Joined
      <3> HIDE DEF t, q
      <3> QED
        BY <3>1, <3>2 DEF Once, Alone
    <2>5. (ConnAfter(o, "up") = "up") = TRUE /\ SendsData(o) = SendsData(t) /\ o.cp_state # "MM_CONN_PENDING"
      BY <1>7, <2>1, <2>3
    <2> HIDE DEF q, o, t
    <2>6. q = Carried("up", chan[MT], o.mm)
      BY DEF q
    <2>7. Calm => Once(SendsData(o), ConnAfter(o, "up") = "up", Phase(conn[MT], tr[MT]),
                       tr[MT].cp_retx, chan[MO], q, loss[MO], ind, Len(rep[MT]))
      BY <2>4, <2>5
    <2> QED
      BY <1>1, <1>4, <1>5, <2>5, <2>6, <2>7, MoStep DEF o, t
  <1> QED
    BY <1>6, <1>7


(* A step after which the originator is not sending the message.            *)
LEMMA MoStops ==
    ASSUME Inv, OnceInv, conn[MO] # "none", NEW d, NEW rest, Commit(MO, d, conn[MO], rest),
           IsTr(d), d.inds = <<>>, d.mm \in Seq(CpMsgs), UNCHANGED <<loss, fails, subs>>,
           Answers(rest) => Answers(chan[MO]),
           Calm => /\ d.cp_state # "MM_CONN_PENDING" /\ ~SendsData(d) /\ Plain(d.mm)
                   /\ SendsData(tr[MO]) /\ Flies(chan[MT]) /\ Phase(conn[MT], tr[MT]) # "none" =>
                         Answers(d.mm)
    PROVE  OnceInv'
  <1> DEFINE s == SendsData(tr[MO])
             ph == Phase(conn[MT], tr[MT])
             x == tr[MT].cp_retx
             up == conn[MO] = "up"
             up2 == ConnAfter(d, conn[MO]) = "up"
  <1>0. PICK q : q = Carried(conn[MO], chan[MT], d.mm)
    OBVIOUS
  <1>1. Calm => subs # 0
    BY DEF OnceInv, Start
  <1>2. /\ chan[MT] \in Seq(CpMsgs) /\ s \in BOOLEAN
    BY Shaped, TwoSides DEF OnceInv
  <1>3. ASSUME Calm
        PROVE  Once(FALSE, up2, ph, x, rest, q, loss[MO], ind, Len(rep[MT]))
    <2>1. Once(s, up, ph, x, chan[MO], chan[MT], loss[MO], ind, Len(rep[MT]))
      BY <1>3 DEF OnceInv, OnceNow
    <2>2. CASE up
      <3>1. q = chan[MT] \o d.mm
        BY <1>0, <2>2 DEF Carried, Joined
      <3>2. Plain(d.mm) /\ (s /\ Flies(chan[MT]) /\ ph # "none" => Answers(d.mm))
        BY <1>3
      <3> HIDE DEF s, ph, x, up, up2
      <3>3. Once(FALSE, up2, ph, x, rest, chan[MT] \o d.mm, loss[MO], ind, Len(rep[MT]))
        BY <1>2, <2>1, <3>2, Stops
      <3> QED
        BY <3>1, <3>3
    <2>3. CASE ~up
      <3>1. q = chan[MT]
        BY <1>0, <2>3 DEF Carried
      <3>2. ~s
        BY <2>1, <2>3 DEF Once, Alone
      <3> HIDE DEF s, ph, x, up, up2
      <3>3. <<>> \in Seq(CpMsgs) /\ Plain(<<>>) /\ chan[MT] \o <<>> = chan[MT]
        BY <1>2, PlainMsgs
      <3>4. Once(FALSE, up2, ph, x, rest, chan[MT] \o <<>>, loss[MO], ind, Len(rep[MT]))
        BY <1>2, <2>1, <3>2, <3>3, Stops
      <3> QED
        BY <3>1, <3>3, <3>4
    <2> QED
      BY <2>2, <2>3
  <1>4. Calm => SendsData(d) = FALSE
    BY DEF SendsData
  <1>5. Calm => Once(SendsData(d), up2, ph, x, rest, q, loss[MO], ind, Len(rep[MT]))
    <2> HIDE DEF ph, x, up2
    <2> QED
      BY <1>3, <1>4
  <1> QED
    BY <1>0, <1>1, <1>5, MoStep

(* TR1N ends the originator's transaction.                                  *)
LEMMA MoRpTimeoutOnce ==
    ASSUME Inv, OnceInv, RpTimeout(MO)
    PROVE  OnceInv'
  <1> DEFINE t == tr[MO]
             a == MayAck(MO, Ok)
             b == MayTell(MO, Ok)
             o == RpTimerExpired(t)
             m == CpMsg("ERROR", NoMsg)
  <1>1. t.rp_timer /\ Commit(MO, o, conn[MO], chan[MO]) /\ UNCHANGED <<loss, fails, subs>>
    BY DEF RpTimeout
  <1>2. conn[MO] # "none"
    BY <1>1, AtWork, GoneIs, TwoSides
  <1>3. Works(t, a, b) /\ a \in BOOLEAN /\ b \in BOOLEAN /\ Destroys
    BY <1>2, AtWorks, TwoSides
  <1> HIDE DEF t, a, b
  <1>4. Result(t, o, a, b)
    BY <1>1, <1>3, RpTimerEnds DEF Works
  <1>5. o.mm = <<m>> /\ o.cp_state = "IDLE"
    BY <1>1, <1>3, RpTimerSends
  <1> HIDE DEF o
  <1>6. IsTr(o) /\ o.inds = <<>> /\ o.mm \in Seq(CpMsgs)
    BY <1>3, <1>4, ResultShape
  <1>7. Plain(o.mm) /\ Answers(o.mm) /\ ~SendsData(o)
    <2>1. ~Copy(m) /\ Answer(m)
      BY PlainMsgs DEF Answer, CpMsg
    <2> HIDE DEF m
    <2>2. Answers(<<m>>)
      BY <2>1 DEF Answers
    <2> QED
      BY <1>5, <2>1, <2>2, PlainMsgs DEF SendsData
  <1> QED
    BY <1>1, <1>2, <1>5, <1>6, <1>7, MoStops

(* TC1* sends what the originator is sending again, or ends its             *)
(* transaction.                                                             *)
LEMMA MoCpTimeoutOnce ==
    ASSUME Inv, OnceInv, CpTimeout(MO)
    PROVE  OnceInv'
  <1> DEFINE t == tr[MO]
             a == MayAck(MO, Ok)
             b == MayTell(MO, Ok)
             o == CpTimerExpired(t)
             m == CpMsg("DATA", t.cp_msg)
             ph == Phase(conn[MT], tr[MT])
             x == tr[MT].cp_retx
  <1>1. /\ t.cp_timer /\ Commit(MO, o, conn[MO], chan[MO]) /\ UNCHANGED <<loss, fails, subs>>
        /\ Calm => ~UnderWay(MO)
    BY DEF CpTimeout, Calm
  <1>2. conn[MO] # "none"
    BY <1>1, AtWork, GoneIs, TwoSides
  <1>3. Works(t, a, b) /\ a \in BOOLEAN /\ b \in BOOLEAN /\ Destroys
    BY <1>2, AtWorks, TwoSides
  <1>4. SendsData(t) => t.cp_msg.kind = "DATA"
    BY DEF SendsData
  <1>5. /\ chan[MT] \in Seq(CpMsgs) /\ chan[MO] \in Seq(CpMsgs)
        /\ ind \in Nat /\ Len(rep[MT]) \in Nat /\ loss[MO] \in Nat
    BY Shaped, TwoSides DEF OnceInv
  <1>6. Calm => /\ \A n \in DOMAIN chan[MT] : chan[MT][n].cp # "DATA"
                /\ ~Answers(chan[MO])
    BY <1>1, TwoSides DEF UnderWay, Answers, Answer
  <1> HIDE DEF t, a, b
  <1>7. Result(t, o, a, b)
    BY <1>1, <1>3, CpTimerResult DEF Works
  <1>8. /\ t.cp_state = "WAIT_CP_ACK"
        /\ \/ /\ o.mm = <<m>> /\ o.cp_state = "WAIT_CP_ACK"
              /\ o.cp_msg = t.cp_msg /\ o.prims = t.prims
           \/ o.mm = <<>> /\ o.cp_state = "IDLE"
    BY <1>1, <1>3, CpTimerSends
  <1> HIDE DEF o
  <1>9. IsTr(o) /\ o.inds = <<>> /\ o.mm \in Seq(CpMsgs)
    BY <1>3, <1>7, ResultShape
  <1>10. m.cp = "DATA" /\ m.rp = t.cp_msg
    BY DEF CpMsg
  <1> HIDE DEF m
  <1>11. CASE o.cp_state = "IDLE"
    <2>1. Plain(o.mm) /\ ~SendsData(o)
      BY <1>8, <1>11, PlainMsgs DEF SendsData
    <2>2. Calm => ~Flies(chan[MT])
      <3>1. chan[MT] # <<>> => 1 \in DOMAIN chan[MT]
        BY <1>5
      <3> QED
        BY <1>6, <3>1 DEF Flies, Copy
    <2> QED
      BY <1>1, <1>2, <1>9, <1>11, <2>1, <2>2, MoStops DEF t
  <1>12. CASE o.cp_state # "IDLE" /\ ~SendsData(t)
    <2>1. ~Copy(m) /\ ~SendsData(o) /\ o.mm = <<m>> /\ o.cp_state = "WAIT_CP_ACK"
      BY <1>8, <1>10, <1>12 DEF Copy, SendsData
    <2>2. Plain(o.mm)
      BY <2>1, PlainMsgs
    <2> QED
      BY <1>1, <1>2, <1>9, <1>12, <2>1, <2>2, MoStops DEF t
  <1>13. CASE o.cp_state # "IDLE" /\ SendsData(t)
    <2>1. /\ Copy(m) /\ SendsData(o) /\ o.mm = <<m>> /\ o.cp_state = "WAIT_CP_ACK"
          /\ SendsData(o) = TRUE /\ SendsData(t) = TRUE
      BY <1>8, <1>10, <1>13 DEF Copy, SendsData
    <2>2. PICK q : q = Carried(conn[MO], chan[MT], o.mm)
      OBVIOUS
    <2>3. m \in CpMsgs
      <3>1. <<m>> \in Seq(CpMsgs)
        BY <1>9, <2>1
      <3>2. <<m>>[1] = m /\ 1 \in DOMAIN <<m>>
        OBVIOUS
      <3> QED
        BY <3>1, <3>2
    <2>4. Calm => subs # 0
      BY <1>2 DEF OnceInv, Start
    <2>5. ConnAfter(o, conn[MO]) = conn[MO]
      BY <1>3, <1>8, <2>1 DEF ConnAfter, Works, Idle
    <2>6. ASSUME Calm
          PROVE  Once(SendsData(o), ConnAfter(o, conn[MO]) = "up", ph, x, chan[MO], q,
                      loss[MO], ind, Len(rep[MT]))
      <3>1. Once(SendsData(t), conn[MO] = "up", ph, x, chan[MO], chan[MT], loss[MO], ind, Len(rep[MT]))
        BY <2>6 DEF OnceInv, OnceNow, t
      <3>2. Once(TRUE, conn[MO] = "up", ph, x, chan[MO], chan[MT], loss[MO], ind, Len(rep[MT]))
        BY <2>1, <3>1
      <3>3. conn[MO] = "up"
        BY <3>2 DEF Once, Alone
      <3>4. q = chan[MT] \o <<m>>
        BY <2>1, <2>2, <3>3 DEF Carried, Joined
      <3> HIDE DEF ph, x
      <3>5. loss[MO] < 3
        BY <2>6 DEF Calm
      <3> DEFINE up == conn[MO] = "up"
      <3>6. Once(TRUE, up, ph, x, chan[MO], chan[MT], loss[MO], ind, Len(rep[MT]))
        BY <3>2
      <3>7. (ConnAfter(o, conn[MO]) = "up") = up
        BY <2>5
      <3> HIDE DEF up
      <3>8. Once(TRUE, up, ph, x, chan[MO], chan[MT] \o <<m>>, loss[MO], ind, Len(rep[MT]))
        BY <1>5, <1>6, <2>1, <2>3, <2>6, <3>5, <3>6, Repeats
      <3> QED
        BY <2>1, <3>4, <3>7, <3>8
    <2> QED
      BY <1>1, <1>9, <2>1, <2>2, <2>4, <2>6, MoStep
  <1> QED
    BY <1>11, <1>12, <1>13

(* What the originator is sent by the terminator.                           *)
LEMMA MoDeliverOnce ==
    ASSUME Inv, OnceInv, chan[MO] # <<>>, conn[MO] = "up", UNCHANGED <<loss, fails, subs>>,
           Commit(MO, SmcRecv(tr[MO], "DATA_IND", Head(chan[MO]).cp, Head(chan[MO]).rp),
                  "up", Tail(chan[MO]))
    PROVE  OnceInv'
  <1> DEFINE t == tr[MO]
             a == MayAck(MO, Ok)
             b == MayTell(MO, Ok)
             n == Head(chan[MO])
             o == SmcRecv(t, "DATA_IND", n.cp, n.rp)
             rest == Tail(chan[MO])
  <1>1. conn[MO] # "none" /\ Commit(MO, o, conn[MO], rest)
    OBVIOUS
  <1>2. Works(t, a, b) /\ a \in BOOLEAN /\ b \in BOOLEAN /\ Destroys
    BY <1>1, AtWorks, TwoSides
  <1>3. n.cp \in {"DATA", "ACK", "ERROR"} /\ n.rp \in Rps(b) /\ chan[MO] \in Seq(CpMsgs)
    <2>1. n \in Msgs(b)
      BY AtWork, HeadTail, TwoSides
    <2>2. chan[MO] \in Seq(CpMsgs)
      BY Shaped, TwoSides DEF OnceInv
    <2> QED
      BY <2>1, <2>2 DEF Msgs, CpMsgs, Rps
  <1>4. Answers(rest) => Answers(chan[MO])
    BY <1>3, TakenMsgs
  <1>5. Answer(n) => Answers(chan[MO])
    BY <1>3, TakenMsgs
  <1>6. Calm => t.cp_state # "MM_CONN_PENDING"
    BY DEF OnceInv, Start
  <1>7. ASSUME Calm, SendsData(t), Flies(chan[MT]), Phase(conn[MT], tr[MT]) # "none"
        PROVE  n.cp = "DATA" /\ t.cp_state = "WAIT_CP_ACK"
    <2>1. ~Answers(chan[MO])
      BY <1>7 DEF OnceInv, OnceNow, Once, Silent
    <2>2. n.cp = "DATA"
      BY <1>3, <1>5, <2>1 DEF Answer
    <2> QED
      BY <1>7, <2>2 DEF SendsData
  <1> HIDE DEF t, a, b, n, rest
  <1>8. Result(t, o, a, b)
    BY <1>2, <1>3, DataIndResult DEF Works
  <1>9. Calm => /\ Plain(o.mm) /\ ~SendsData(o) /\ o.cp_state # "MM_CONN_PENDING"
                /\ n.cp = "DATA" /\ t.cp_state = "WAIT_CP_ACK" => o = Unhandled(t)
    BY <1>2, <1>3, <1>6, DataIndSends
  <1> HIDE DEF o
  <1>10. IsTr(o) /\ o.inds = <<>> /\ o.mm \in Seq(CpMsgs)
    BY <1>2, <1>8, ResultShape
  <1>11. o = Unhandled(t) => Answers(o.mm)
    <2> DEFINE m == CpMsg("ERROR", NoMsg)
    <2>1. Unhandled(t).mm = <<m>>
      BY <1>2, UnhandledSends
    <2>2. Answer(m)
      BY DEF Answer, CpMsg
    <2> HIDE DEF m
    <2>3. Answers(<<m>>)
      BY <2>2 DEF Answers
    <2> QED
      BY <2>1, <2>3
  <1>12. Calm => (SendsData(t) /\ Flies(chan[MT]) /\ Phase(conn[MT], tr[MT]) # "none" => Answers(o.mm))
    BY <1>7, <1>9, <1>11
  <1> QED
    BY <1>1, <1>4, <1>9, <1>10, <1>12, MoStops DEF t

-----------------------------------------------------------------------------
(* The terminator's steps *)

LEMMA JoinedLen ==
    ASSUME Inv, NEW s \in Seq(RpMsgs)
    PROVE  Len(Joined(rep[MT], s)) = Len(rep[MT]) + Len(s) /\ Len(rep[MT]) \in Nat /\ Len(s) \in Nat
  <1>1. rep[MT] \in Seq(Rps(MayTell(MT, Ok)))
    BY TwoSides DEF Inv, RepInv
  <1>2. \A S, T : \A u \in Seq(S), v \in Seq(T) :
            Len(u \o v) = Len(u) + Len(v) /\ Len(u) \in Nat /\ Len(v) \in Nat
    OBVIOUS
  <1> QED
    BY <1>1, <1>2 DEF Joined

(* A handler of the terminator whose transaction is at work.                *)
LEMMA MtResult ==
    ASSUME Inv, conn[MT] # "none", NEW d, NEW a \in BOOLEAN, NEW b \in BOOLEAN,
           Works(tr[MT], a, b), Result(tr[MT], d, a, b)
    PROVE  /\ IsTr(d) /\ d.inds = <<>> /\ d.mm \in Seq(CpMsgs) /\ d.reps \in Seq(RpMsgs)
           /\ ind + Len(d.inds) = ind
           /\ Len(Joined(rep[MT], d.reps)) = Len(rep[MT]) + Len(d.reps)
           /\ Len(rep[MT]) \in Nat /\ Len(d.reps) \in Nat
  <1>1. IsTr(d) /\ d.inds = <<>> /\ d.mm \in Seq(CpMsgs) /\ d.reps \in Seq(RpMsgs)
    BY ResultShape
  <1>2. ind + Len(d.inds) = ind
    BY <1>1 DEF Inv, Shapes
  <1> QED
    BY <1>1, <1>2, JoinedLen

LEMMA PhaseIs ==
    ASSUME NEW k, NEW u
    PROVE  /\ Phase(k, u) = "none" <=> k = "none"
           /\ Phase(k, u) = "told" <=>
                 k = "up" /\ u.rp_state = "WAIT_TO_TX_RP_ACK" /\ u.cp_state = "MM_ESTABLISHED"
           /\ Phase(k, u) = "answered" <=>
                 k = "up" /\ u.rp_state = "IDLE" /\ u.cp_state = "WAIT_CP_ACK"
  BY DEF Phase

(* The message is not on its way, nor will it be.                           *)
LEMMA MtQuiet ==
    ASSUME Inv, OnceInv, NEW d, NEW c, NEW rest, Commit(MT, d, c, rest), IsTr(d), d.inds = <<>>,
           d.reps \in Seq(RpMsgs), UNCHANGED <<loss, fails, subs>>,
           conn[MT] # "none" \/ chan[MT] # <<>>,
           Calm => /\ ~SendsData(tr[MO]) /\ ~Flies(rest)
                   /\ \A n \in DOMAIN rest : Copy(rest[n]) => n = 1
    PROVE  OnceInv'
  <1>1. PICK p, i, r, ph, x, up :
             /\ p = Carried(c, chan[MO], d.mm) /\ i = ind + Len(d.inds)
             /\ r = Len(Joined(rep[MT], d.reps)) /\ ph = Phase(ConnAfter(d, c), d)
             /\ x = d.cp_retx /\ up = (conn[MO] = "up")
    OBVIOUS
  <1>2. i = ind /\ r = Len(rep[MT]) + Len(d.reps) /\ ind \in Nat /\ Len(rep[MT]) \in Nat /\ Len(d.reps) \in Nat
    <2>1. ind \in Nat /\ Len(<<>>) = 0
      BY DEF Inv, Shapes
    <2>2. i = ind
      BY <1>1, <2>1
    <2>3. /\ Len(Joined(rep[MT], d.reps)) = Len(rep[MT]) + Len(d.reps)
          /\ Len(rep[MT]) \in Nat /\ Len(d.reps) \in Nat
      BY JoinedLen
    <2> QED
      BY <1>1, <2>1, <2>2, <2>3, Zenon
  <1>3. ASSUME Calm PROVE Once(SendsData(tr[MO]), up, ph, x, p, rest, loss[MO], i, r)
    <2>1. ind <= 1 + Len(rep[MT])
      BY <1>3 DEF OnceInv, OnceNow, Once
    <2>2. i <= 1 + r
      <3> DEFINE u == Len(rep[MT])
                 v == Len(d.reps)
      <3>1. i = ind /\ r = u + v /\ ind \in Nat /\ u \in Nat /\ v \in Nat /\ ind <= 1 + u
        BY <1>2, <2>1
      <3> HIDE DEF u, v
      <3> QED
        BY <3>1
    <2>3. SendsData(tr[MO]) = FALSE
      BY <1>3 DEF SendsData
    <2>4. Once(FALSE, up, ph, x, p, rest, loss[MO], i, r)
      BY <1>3, <2>2, Nothing
    <2> QED
      BY <2>3, <2>4
  <1> QED
    BY <1>1, <1>3, MtStep

(* What the invariant says of the state before the step.                    *)
LEMMA MtBefore ==
    ASSUME Inv, OnceInv, Calm, NEW s, NEW up, NEW ph, NEW x,
           s = SendsData(tr[MO]), up = (conn[MO] = "up"),
           ph = Phase(conn[MT], tr[MT]), x = tr[MT].cp_retx
    PROVE  /\ Once(s, up, ph, x, chan[MO], chan[MT], loss[MO], ind, Len(rep[MT]))
           /\ s \in BOOLEAN /\ chan[MO] \in Seq(CpMsgs) /\ chan[MT] \in Seq(CpMsgs)
           /\ loss[MO] \in Nat /\ loss[MO] < 3 /\ ind \in Nat /\ Len(rep[MT]) \in Nat
           /\ s \/ Flies(chan[MT]) => ph \in {"none", "told", "answered"}
           /\ \A n \in DOMAIN chan[MT] : Copy(chan[MT][n]) => n = 1
  <1>1. Once(s, up, ph, x, chan[MO], chan[MT], loss[MO], ind, Len(rep[MT]))
    BY DEF OnceInv, OnceNow
  <1>2. /\ s \in BOOLEAN /\ chan[MO] \in Seq(CpMsgs) /\ chan[MT] \in Seq(CpMsgs)
        /\ loss[MO] \in Nat /\ ind \in Nat /\ Len(rep[MT]) \in Nat
    BY Shaped, TwoSides DEF OnceInv
  <1> QED
    BY <1>1, <1>2 DEF Once, Alone, Known, Calm

(* SM-RL-REPORT-REQ.                                                        *)
LEMMA ReportOnce ==
    ASSUME Inv, OnceInv, NEW kind \in env.reports, Report(kind)
    PROVE  OnceInv'
  <1> DEFINE t == tr[MT]
             rp == Rp(kind)
             o == SmrSend(t, "REPORT_REQ", rp)
             m == CpMsg("DATA", rp)
  <1>1. /\ t.rp_state = "WAIT_TO_TX_RP_ACK" /\ Commit(MT, o, conn[MT], chan[MT])
        /\ UNCHANGED <<loss, fails, subs>>
    BY DEF Report
  <1>2. conn[MT] # "none"
    BY <1>1, AtWork, GoneIs, TwoSides
  <1>3. PICK a \in BOOLEAN, b \in BOOLEAN : a /\ Works(t, a, b)
    <2>1. /\ Works(t, MayAck(MT, Ok), MayTell(MT, Ok))
          /\ MayAck(MT, Ok) \in BOOLEAN /\ MayTell(MT, Ok) \in BOOLEAN
      BY <1>2, AtWorks, TwoSides
    <2>2. Works(t, TRUE, MayTell(MT, Ok))
      BY <2>1, OutMore DEF Works
    <2> QED
      BY <2>1, <2>2
  <1>4. Destroys
    BY DEF Inv
  <1>5. rp \in Rps(a) /\ rp # NoMsg /\ m \in CpMsgs /\ m.cp = "DATA"
    <2>1. kind \in RpKinds
      BY SmsEnvAssumption DEF Inv, Shapes
    <2>2. rp.kind = kind /\ NoMsg.kind = "none" /\ kind # "none" /\ rp \in RpMsgs
      BY <2>1 DEF Rp, NoMsg, RpKinds, RpMsgs
    <2> QED
      BY <1>3, <2>2 DEF Rps, CpMsg, CpMsgs
  <1> HIDE DEF rp
  <1>6. Result(t, o, a, b)
    BY <1>1, <1>3, <1>4, <1>5, ReportReqResult DEF Works
  <1>7. t.cp_state = "MM_ESTABLISHED" =>
           /\ o.mm = <<m>> /\ o.cp_state = "WAIT_CP_ACK" /\ o.cp_retx = 0
           /\ o.rp_state = "IDLE" /\ o.prims = {} /\ o.reps = <<>>
    BY <1>1, <1>3, <1>4, <1>5, ReportSends
  <1> HIDE DEF o, m
  <1>8. /\ IsTr(o) /\ o.inds = <<>> /\ o.reps \in Seq(RpMsgs) /\ ind + Len(o.inds) = ind
        /\ Len(Joined(rep[MT], o.reps)) = Len(rep[MT]) + Len(o.reps) /\ Len(rep[MT]) \in Nat
    BY <1>2, <1>3, <1>6, MtResult
  <1>9. CASE conn[MT] = "up" /\ t.cp_state = "MM_ESTABLISHED"
    <2>1. PICK p, ph, s, up, ph0, x, y :
             /\ p = Carried(conn[MT], chan[MO], o.mm) /\ ph = Phase(ConnAfter(o, conn[MT]), o)
             /\ s = SendsData(tr[MO]) /\ up = (conn[MO] = "up")
             /\ ph0 = Phase(conn[MT], tr[MT]) /\ x = tr[MT].cp_retx /\ y = o.cp_retx
      OBVIOUS
    <2>2. p = chan[MO] \o <<m>> /\ y = 0
      BY <1>7, <1>9, <2>1 DEF Carried, Joined
    <2>3. ph0 = "told"
      BY <1>1, <1>9, <2>1, PhaseIs
    <2>4. ph = "answered"
      <3>1. ConnAfter(o, conn[MT]) = "up"
        BY <1>7, <1>9 DEF ConnAfter
      <3> QED
        BY <1>7, <1>9, <2>1, <3>1, PhaseIs
    <2>5. Len(Joined(rep[MT], o.reps)) = Len(rep[MT])
      <3>1. o.reps = <<>> /\ Len(<<>>) = 0
        BY <1>7, <1>9
      <3>2. \A n \in Nat : n + 0 = n
        OBVIOUS
      <3> QED
        BY <1>8, <3>1, <3>2, Zenon
    <2>6. Calm => Once(s, up, "answered", y, chan[MO] \o <<m>>, chan[MT], loss[MO], ind, Len(rep[MT]))
      <3> SUFFICES ASSUME Calm
          PROVE Once(s, up, "answered", y, chan[MO] \o <<m>>, chan[MT], loss[MO], ind, Len(rep[MT]))
        OBVIOUS
      <3>1. /\ Once(s, up, ph0, x, chan[MO], chan[MT], loss[MO], ind, Len(rep[MT]))
            /\ s \in BOOLEAN /\ chan[MO] \in Seq(CpMsgs) /\ chan[MT] \in Seq(CpMsgs)
            /\ loss[MO] \in Nat /\ ind \in Nat /\ Len(rep[MT]) \in Nat
        BY <2>1, MtBefore
      <3> QED
        BY <1>5, <2>2, <2>3, <3>1, Reports
    <2>7. Calm => Once(SendsData(tr[MO]), conn[MO] = "up", ph, o.cp_retx, p, chan[MT], loss[MO],
                       ind, Len(rep[MT]))
      BY <2>1, <2>2, <2>4, <2>6
    <2> QED
      BY <1>1, <1>2, <1>8, <2>1, <2>5, <2>7, MtStep
  <1>10. CASE ~(conn[MT] = "up" /\ t.cp_state = "MM_ESTABLISHED")
    <2>1. Phase(conn[MT], tr[MT]) \notin {"none", "told", "answered"}
      BY <1>1, <1>2, <1>10, PhaseIs
    <2>2. Calm => /\ ~SendsData(tr[MO]) /\ ~Flies(chan[MT])
                  /\ \A n \in DOMAIN chan[MT] : Copy(chan[MT][n]) => n = 1
      BY <2>1, MtBefore
    <2> QED
      BY <1>1, <1>2, <1>8, <2>2, MtQuiet
  <1> QED
    BY <1>9, <1>10

(* TR2N.                                                                    *)
LEMMA MtRpTimeoutOnce ==
    ASSUME Inv, OnceInv, RpTimeout(MT)
    PROVE  OnceInv'
  <1> DEFINE t == tr[MT]
             a == MayAck(MT, Ok)
             b == MayTell(MT, Ok)
             o == RpTimerExpired(t)
  <1>1. t.rp_timer /\ Commit(MT, o, conn[MT], chan[MT]) /\ UNCHANGED <<loss, fails, subs>>
    BY DEF RpTimeout
  <1>2. conn[MT] # "none"
    BY <1>1, AtWork, GoneIs, TwoSides
  <1>3. Works(t, a, b) /\ a \in BOOLEAN /\ b \in BOOLEAN /\ Destroys
    BY <1>2, AtWorks, TwoSides
  <1>4. t.rp_state # "IDLE"
    BY <1>1, <1>3 DEF Works, Going, Talk
  <1> HIDE DEF a, b
  <1>5. Result(t, o, a, b)
    BY <1>1, <1>3, RpTimerEnds DEF Works
  <1>6. Ended(o, a, b) /\ Len(o.reps) = 1
    BY <1>1, <1>3, RpTimerSends
  <1> HIDE DEF o
  <1>7. /\ IsTr(o) /\ o.inds = <<>> /\ o.reps \in Seq(RpMsgs) /\ ind + Len(o.inds) = ind
        /\ Len(Joined(rep[MT], o.reps)) = Len(rep[MT]) + Len(o.reps) /\ Len(rep[MT]) \in Nat
    BY <1>2, <1>3, <1>5, MtResult
  <1>8. CASE Phase(conn[MT], tr[MT]) = "told"
    <2>1. PICK p, ph, s, up, ph0, x, y :
             /\ p = Carried(conn[MT], chan[MO], o.mm) /\ ph = Phase(ConnAfter(o, conn[MT]), o)
             /\ s = SendsData(tr[MO]) /\ up = (conn[MO] = "up")
             /\ ph0 = Phase(conn[MT], tr[MT]) /\ x = tr[MT].cp_retx /\ y = o.cp_retx
      OBVIOUS
    <2>2. ph = "none"
      <3>1. ConnAfter(o, conn[MT]) = "none"
        BY <1>6 DEF ConnAfter, Ended
      <3> QED
        BY <2>1, <3>1, PhaseIs
    <2>3. Len(Joined(rep[MT], o.reps)) = Len(rep[MT]) + 1
      BY <1>6, <1>7
    <2>4. Calm => Once(s, up, "none", y, p, chan[MT], loss[MO], ind, Len(rep[MT]) + 1)
      <3> SUFFICES ASSUME Calm
          PROVE Once(s, up, "none", y, p, chan[MT], loss[MO], ind, Len(rep[MT]) + 1)
        OBVIOUS
      <3>1. /\ Once(s, up, ph0, x, chan[MO], chan[MT], loss[MO], ind, Len(rep[MT]))
            /\ s \in BOOLEAN /\ loss[MO] \in Nat /\ ind \in Nat /\ Len(rep[MT]) \in Nat
        BY <2>1, MtBefore
      <3> QED
        BY <1>8, <2>1, <3>1, Gives
    <2>5. Calm => Once(SendsData(tr[MO]), conn[MO] = "up", ph, o.cp_retx, p, chan[MT], loss[MO],
                       ind, Len(rep[MT]) + 1)
      BY <2>1, <2>2, <2>4
    <2> QED
      BY <1>1, <1>2, <1>7, <2>1, <2>3, <2>5, MtStep
  <1>9. CASE Phase(conn[MT], tr[MT]) # "told"
    <2>1. Phase(conn[MT], tr[MT]) \notin {"none", "told", "answered"}
      BY <1>2, <1>4, <1>9, PhaseIs
    <2>2. Calm => /\ ~SendsData(tr[MO]) /\ ~Flies(chan[MT])
                  /\ \A n \in DOMAIN chan[MT] : Copy(chan[MT][n]) => n = 1
      BY <2>1, MtBefore
    <2> QED
      BY <1>1, <1>2, <1>7, <2>2, MtQuiet
  <1> QED
    BY <1>8, <1>9

(* TC1* sends the report again, or ends the terminator's transaction.       *)
LEMMA MtCpTimeoutOnce ==
    ASSUME Inv, OnceInv, MaxRetr > 0, CpTimeout(MT)
    PROVE  OnceInv'
  <1> DEFINE t == tr[MT]
             a == MayAck(MT, Ok)
             b == MayTell(MT, Ok)
             o == CpTimerExpired(t)
             m == CpMsg("DATA", t.cp_msg)
  <1>1. /\ t.cp_timer /\ Commit(MT, o, conn[MT], chan[MT]) /\ UNCHANGED <<loss, fails, subs>>
        /\ Calm => ~UnderWay(MT)
    BY DEF CpTimeout, Calm
  <1>2. conn[MT] # "none"
    BY <1>1, AtWork, GoneIs, TwoSides
  <1>3. Works(t, a, b) /\ a \in BOOLEAN /\ b \in BOOLEAN /\ Destroys
    BY <1>2, AtWorks, TwoSides
  <1>4. Calm => /\ \A n \in DOMAIN chan[MO] : chan[MO][n].cp # "DATA"
                /\ ~Answers(chan[MT])
    BY <1>1, TwoSides DEF UnderWay, Answers, Answer
  <1>5. t.prims = {} /\ t.reps = <<>>
    BY <1>3 DEF Works, Idle
  <1> HIDE DEF a, b
  <1>6. Result(t, o, a, b)
    BY <1>1, <1>3, CpTimerResult DEF Works
  <1>7. /\ t.cp_state = "WAIT_CP_ACK"
        /\ \/ /\ o.mm = <<m>> /\ o.cp_state = "WAIT_CP_ACK" /\ o.cp_retx = t.cp_retx + 1
              /\ o.rp_state = t.rp_state /\ o.prims = {} /\ o.reps = <<>>
           \/ /\ t.cp_retx = MaxRetr /\ o.mm = <<>> /\ Ended(o, a, b)
              /\ t.rp_state = "IDLE" => o.reps = <<>>
    <2> HIDE DEF o, m
    <2>1. /\ t.cp_state = "WAIT_CP_ACK"
          /\ \/ /\ o.mm = <<m>> /\ o.cp_state = "WAIT_CP_ACK" /\ o.cp_retx = t.cp_retx + 1
                /\ \A x \in {"cp_msg", "rp_state", "prims", "reps"} : o[x] = t[x]
             \/ /\ t.cp_retx = MaxRetr /\ o.mm = <<>> /\ Ended(o, a, b)
                /\ t.rp_state = "IDLE" => o.reps = <<>>
      BY <1>1, <1>3, CpTimerSends DEF o, m
    <2> QED
      BY <1>5, <2>1
  <1> HIDE DEF o
  <1>8. /\ IsTr(o) /\ o.inds = <<>> /\ o.reps \in Seq(RpMsgs) /\ ind + Len(o.inds) = ind
        /\ Len(Joined(rep[MT], o.reps)) = Len(rep[MT]) + Len(o.reps) /\ Len(rep[MT]) \in Nat
        /\ o.mm \in Seq(CpMsgs)
    BY <1>2, <1>3, <1>6, MtResult
  <1>9. m.cp = "DATA"
    BY DEF CpMsg
  <1> HIDE DEF m
  <1>10. CASE /\ Calm /\ (SendsData(tr[MO]) \/ Flies(chan[MT]))
              /\ Phase(conn[MT], tr[MT]) = "answered"
    <2>1. PICK p, ph, s, up, x, y, l :
             /\ p = Carried(conn[MT], chan[MO], o.mm) /\ ph = Phase(ConnAfter(o, conn[MT]), o)
             /\ s = SendsData(tr[MO]) /\ up = (conn[MO] = "up")
             /\ x = tr[MT].cp_retx /\ y = o.cp_retx /\ l = loss[MO]
      OBVIOUS
    <2>2. conn[MT] = "up" /\ t.rp_state = "IDLE" /\ o.reps = <<>>
      BY <1>7, <1>10, PhaseIs
    <2>3. Len(Joined(rep[MT], o.reps)) = Len(rep[MT])
      <3>1. Len(<<>>) = 0 /\ \A n \in Nat : n + 0 = n
        OBVIOUS
      <3> QED
        BY <1>8, <2>2, <3>1, Zenon
    <2>4. /\ Once(s, up, "answered", x, chan[MO], chan[MT], l, ind, Len(rep[MT]))
          /\ s \in BOOLEAN /\ chan[MO] \in Seq(CpMsgs) /\ chan[MT] \in Seq(CpMsgs)
          /\ l \in Nat /\ l < 3 /\ ind \in Nat /\ Len(rep[MT]) \in Nat
      <3>1. PICK ph0 : ph0 = Phase(conn[MT], tr[MT])
        OBVIOUS
      <3> QED
        BY <1>10, <2>1, <3>1, MtBefore
    <2>5. x \in Nat
      BY <1>10, <2>1, <2>4 DEF Once, Known
    <2>6. CASE o.mm = <<m>> /\ o.cp_state = "WAIT_CP_ACK" /\ o.cp_retx = t.cp_retx + 1
               /\ o.rp_state = t.rp_state /\ o.prims = {}
      <3>1. p = chan[MO] \o <<m>> /\ y = x + 1 /\ y \in Nat
        BY <2>1, <2>2, <2>5, <2>6 DEF Carried, Joined
      <3>2. ph = "answered"
        <4>1. ConnAfter(o, conn[MT]) = "up"
          BY <2>2, <2>6 DEF ConnAfter
        <4> QED
          BY <2>1, <2>2, <2>6, <4>1, PhaseIs
      <3>3. m \in CpMsgs
        <4>1. <<m>> \in Seq(CpMsgs)
          BY <1>8, <2>6
        <4>2. <<m>>[1] = m /\ 1 \in DOMAIN <<m>>
          OBVIOUS
        <4> QED
          BY <4>1, <4>2
      <3>4. Once(s, up, "answered", y, chan[MO] \o <<m>>, chan[MT], l, ind, Len(rep[MT]))
        BY <1>9, <2>4, <2>5, <3>1, <3>3, Reports
      <3>5. Once(SendsData(tr[MO]), conn[MO] = "up", ph, o.cp_retx, p, chan[MT], loss[MO],
                 ind, Len(rep[MT]))
        BY <2>1, <3>1, <3>2, <3>4
      <3> QED
        BY <1>1, <1>2, <1>8, <2>1, <2>3, <3>5, MtStep
    <2>7. CASE t.cp_retx = MaxRetr /\ o.mm = <<>> /\ Ended(o, a, b)
      <3>1. p = chan[MO]
        <4>1. \A u \in Seq(CpMsgs) : u \o <<>> = u
          OBVIOUS
        <4> QED
          BY <2>1, <2>2, <2>4, <2>7, <4>1 DEF Carried, Joined
      <3>2. ph = "none"
        <4>1. ConnAfter(o, conn[MT]) = "none"
          BY <2>7 DEF ConnAfter, Ended
        <4> QED
          BY <2>1, <4>1, PhaseIs
      <3>3. x = MaxRetr /\ ~Answers(chan[MT]) /\ \A n \in DOMAIN chan[MO] : chan[MO][n].cp # "DATA"
        BY <1>4, <1>10, <2>1, <2>7
      <3>4. Once(s, up, "none", y, chan[MO], chan[MT], l, ind, Len(rep[MT]))
        BY <2>4, <3>3, Ends
      <3>5. Once(SendsData(tr[MO]), conn[MO] = "up", ph, o.cp_retx, p, chan[MT], loss[MO],
                 ind, Len(rep[MT]))
        BY <2>1, <3>1, <3>2, <3>4
      <3> QED
        BY <1>1, <1>2, <1>8, <2>1, <2>3, <3>5, MtStep
    <2> QED
      BY <1>7, <2>6, <2>7
  <1>11. CASE ~(/\ Calm /\ (SendsData(tr[MO]) \/ Flies(chan[MT]))
                /\ Phase(conn[MT], tr[MT]) = "answered")
    <2>1. Phase(conn[MT], tr[MT]) \notin {"none", "told"}
      BY <1>2, <1>7, PhaseIs
    <2>2. Calm => /\ ~SendsData(tr[MO]) /\ ~Flies(chan[MT])
                  /\ \A n \in DOMAIN chan[MT] : Copy(chan[MT][n]) => n = 1
      BY <1>11, <2>1, MtBefore
    <2> QED
      BY <1>1, <1>2, <1>8, <2>2, MtQuiet
  <1> QED
    BY <1>10, <1>11

(* A message that belongs to no transaction: a CP-DATA makes one.           *)
LEMMA MtFirstOnce ==
    ASSUME Inv, OnceInv, chan[MT] # <<>>, conn[MT] = "none", Head(chan[MT]).cp = "DATA",
           UNCHANGED <<loss, fails, subs>>,
           Commit(MT, SmcRecv(New, "EST_IND", "DATA", Head(chan[MT]).rp), "up", Tail(chan[MT]))
    PROVE  OnceInv'
  <1> DEFINE n == Head(chan[MT])
             o == SmcRecv(New, "EST_IND", "DATA", n.rp)
             a == MayAck(MT, Ok)
             b == MayTell(MT, Ok)
             m == CpMsg("ACK", NoMsg)
             rest == Tail(chan[MT])
  <1>1. a \in BOOLEAN /\ b \in BOOLEAN /\ Destroys /\ n.rp \in Rps(b) /\ chan[MT] \in Seq(CpMsgs)
    <2>1. n \in Msgs(b)
      BY AtWork, HeadTail, TwoSides
    <2> QED
      BY <2>1, AtWork, Shaped, TwoSides DEF Msgs, CpMsgs, Rps, Inv, OnceInv
  <1>2. Commit(MT, o, "up", rest)
    OBVIOUS
  <1>3. Copy(n) <=> n.rp.kind = "DATA"
    BY DEF Copy
  <1>4. n = chan[MT][1]
    BY <1>1, Taken
  <1>5. ~Copy(n) => ~Flies(chan[MT])
    BY <1>4 DEF Flies
  <1>6. /\ Copy(chan[MT][1]) => Flies(chan[MT])
        /\ \A s \in BOOLEAN : \A up :
              Alone(s, up, chan[MT]) => Alone(s, up, rest) /\ ~Flies(rest)
    BY <1>1, TakenMsgs DEF Flies
  <1> HIDE DEF n, a, b, rest
  <1>7. /\ n.rp.kind = "DATA" =>
              /\ o.mm = <<m>> /\ o.prims = {} /\ Len(o.inds) = 1 /\ o.reps = <<>>
              /\ o.cp_state = "MM_ESTABLISHED" /\ o.rp_state = "WAIT_TO_TX_RP_ACK"
        /\ n.rp.kind # "DATA" => o.inds = <<>>
    BY <1>1, EstIndSends
  <1>8. Going(o, a, b) \/ Ended(o, a, b)
    BY <1>1, EstIndNew
  <1> HIDE DEF o
  <1>9. IsTr(o) /\ o.reps \in Seq(RpMsgs)
    <2>1. IsTr(o) /\ o.reps \in Seq(Rps(b)) /\ Rps(b) \subseteq RpMsgs
      BY <1>8 DEF Going, Talk, Ended, Out, Rps
    <2>2. \A S, T : S \subseteq T => \A s \in Seq(S) : s \in Seq(T)
      OBVIOUS
    <2> QED
      BY <2>1, <2>2
  <1>10. m \in CpMsgs
    BY DEF CpMsg, CpMsgs, RpMsgs, NoMsg
  <1> HIDE DEF m
  <1>11. CASE Copy(n)
    <2>1. PICK p, i, ph, s, up, x, y, l :
             /\ p = Carried("up", chan[MO], o.mm) /\ ph = Phase(ConnAfter(o, "up"), o)
             /\ i = ind + Len(o.inds)
             /\ s = SendsData(tr[MO]) /\ up = (conn[MO] = "up")
             /\ x = tr[MT].cp_retx /\ y = o.cp_retx /\ l = loss[MO]
      OBVIOUS
    <2>2. p = chan[MO] \o <<m>> /\ i = ind + 1
      BY <1>3, <1>7, <1>11, <2>1 DEF Carried, Joined
    <2>3. ph = "told"
      <3>1. ConnAfter(o, "up") = "up"
        BY <1>3, <1>7, <1>11 DEF ConnAfter
      <3> QED
        BY <1>3, <1>7, <1>11, <2>1, <3>1, PhaseIs
    <2>4. Len(Joined(rep[MT], o.reps)) = Len(rep[MT])
      <3>1. Len(<<>>) = 0 /\ \A k \in Nat : k + 0 = k
        OBVIOUS
      <3>2. Len(Joined(rep[MT], o.reps)) = Len(rep[MT]) + Len(o.reps) /\ Len(rep[MT]) \in Nat
        BY <1>9, JoinedLen
      <3>3. o.reps = <<>>
        BY <1>3, <1>7, <1>11
      <3> QED
        BY <3>1, <3>2, <3>3, Zenon
    <2>5. Calm => Once(s, up, "told", y, chan[MO] \o <<m>>, rest, l, ind + 1, Len(rep[MT]))
      <3> SUFFICES ASSUME Calm
          PROVE Once(s, up, "told", y, chan[MO] \o <<m>>, rest, l, ind + 1, Len(rep[MT]))
        OBVIOUS
      <3>1. PICK ph0 : ph0 = Phase(conn[MT], tr[MT])
        OBVIOUS
      <3>2. ph0 = "none"
        BY <3>1, PhaseIs
      <3>3. /\ Once(s, up, ph0, x, chan[MO], chan[MT], l, ind, Len(rep[MT]))
            /\ s \in BOOLEAN /\ chan[MO] \in Seq(CpMsgs)
            /\ l \in Nat /\ ind \in Nat /\ Len(rep[MT]) \in Nat
        BY <2>1, <3>1, MtBefore
      <3> QED
        BY <1>1, <1>10, <1>11, <3>2, <3>3, Arrives DEF n, rest
    <2>6. Calm => Once(SendsData(tr[MO]), conn[MO] = "up", ph, o.cp_retx, p, rest, loss[MO],
                       i, Len(rep[MT]))
      BY <2>1, <2>2, <2>3, <2>5
    <2> QED
      BY <1>2, <1>9, <2>1, <2>4, <2>6, MtStep
  <1>12. CASE ~Copy(n)
    <2>1. ASSUME Calm
          PROVE  /\ ~SendsData(tr[MO]) /\ ~Flies(rest)
                 /\ \A k \in DOMAIN rest : Copy(rest[k]) => k = 1
      <3>1. PICK s, up, ph, x : /\ s = SendsData(tr[MO]) /\ up = (conn[MO] = "up")
                                /\ ph = Phase(conn[MT], tr[MT]) /\ x = tr[MT].cp_retx
        OBVIOUS
      <3>2. Alone(s, up, chan[MT]) /\ s \in BOOLEAN
        BY <2>1, <3>1, MtBefore DEF Once
      <3>3. ~s
        BY <1>4, <1>12, <3>2 DEF Alone
      <3>4. Alone(s, up, rest) /\ ~Flies(rest)
        BY <1>6, <3>2
      <3> QED
        BY <3>1, <3>3, <3>4 DEF Alone
    <2> QED
      BY <1>2, <1>3, <1>7, <1>9, <1>12, <2>1, MtQuiet
  <1> QED
    BY <1>11, <1>12

(* What the terminator, with a transaction, is sent by the originator.      *)
LEMMA MtDeliverOnce ==
    ASSUME Inv, OnceInv, chan[MT] # <<>>, conn[MT] = "up", UNCHANGED <<loss, fails, subs>>,
           Commit(MT, SmcRecv(tr[MT], "DATA_IND", Head(chan[MT]).cp, Head(chan[MT]).rp),
                  "up", Tail(chan[MT]))
    PROVE  OnceInv'
  <1> DEFINE t == tr[MT]
             n == Head(chan[MT])
             o == SmcRecv(t, "DATA_IND", n.cp, n.rp)
             a == MayAck(MT, Ok)
             b == MayTell(MT, Ok)
             rest == Tail(chan[MT])
             ph0 == Phase(conn[MT], tr[MT])
  <1>1. conn[MT] # "none" /\ Commit(MT, o, "up", rest)
    OBVIOUS
  <1>2. Works(t, a, b) /\ a \in BOOLEAN /\ b \in BOOLEAN /\ Destroys
    BY <1>1, AtWorks, TwoSides
  <1>3. n.cp \in {"DATA", "ACK", "ERROR"} /\ n.rp \in Rps(b) /\ chan[MT] \in Seq(CpMsgs)
    <2>1. n \in Msgs(b)
      BY AtWork, HeadTail, TwoSides
    <2>2. chan[MT] \in Seq(CpMsgs)
      BY Shaped, TwoSides DEF OnceInv
    <2> QED
      BY <2>1, <2>2 DEF Msgs, CpMsgs, Rps
  <1>4. n = chan[MT][1] /\ (Flies(chan[MT]) <=> Copy(n))
    BY <1>3, Taken DEF Flies
  <1>5. \A s \in BOOLEAN : \A up : Alone(s, up, chan[MT]) => Alone(s, up, rest) /\ ~Flies(rest)
    BY <1>3, TakenMsgs
  <1>6. /\ ph0 = "told" <=> t.rp_state = "WAIT_TO_TX_RP_ACK" /\ t.cp_state = "MM_ESTABLISHED"
        /\ ph0 = "answered" <=> t.rp_state = "IDLE" /\ t.cp_state = "WAIT_CP_ACK"
        /\ ph0 # "none"
    BY PhaseIs
  <1>7. t.mm = <<>> /\ t.prims = {} /\ t.reps = <<>>
    BY <1>2 DEF Works, Idle
  <1> HIDE DEF a, b
  <1>8. Result(t, o, a, b)
    BY <1>2, <1>3, DataIndResult DEF Works
  <1>9. Copy(n) /\ ph0 = "told" => o = CpData(t, n.rp)
    BY <1>2, <1>3, <1>6, DataIndSends DEF Copy
  <1>10. Copy(n) /\ ph0 = "answered" => o = Unhandled(t)
    BY <1>2, <1>3, <1>6, DataIndSends DEF Copy
  <1> HIDE DEF o, rest
  <1>11. /\ IsTr(o) /\ o.inds = <<>> /\ o.reps \in Seq(RpMsgs) /\ ind + Len(o.inds) = ind
         /\ Len(Joined(rep[MT], o.reps)) = Len(rep[MT]) + Len(o.reps) /\ Len(rep[MT]) \in Nat
    BY <1>1, <1>2, <1>8, MtResult
  <1>12. o.reps = <<>> => Len(Joined(rep[MT], o.reps)) = Len(rep[MT])
    <2>1. Len(<<>>) = 0 /\ \A k \in Nat : k + 0 = k
      OBVIOUS
    <2> QED
      BY <1>11, <2>1, Zenon
  <1>13. PICK p, ph, s, up, x, y, l :
             /\ p = Carried("up", chan[MO], o.mm) /\ ph = Phase(ConnAfter(o, "up"), o)
             /\ s = SendsData(tr[MO]) /\ up = (conn[MO] = "up")
             /\ x = tr[MT].cp_retx /\ y = o.cp_retx /\ l = loss[MO]
    OBVIOUS
  <1>14. Calm => /\ Once(s, up, ph0, x, chan[MO], chan[MT], l, ind, Len(rep[MT]))
                 /\ s \in BOOLEAN /\ chan[MO] \in Seq(CpMsgs)
                 /\ l \in Nat /\ ind \in Nat /\ Len(rep[MT]) \in Nat
                 /\ s \/ Flies(chan[MT]) => ph0 \in {"none", "told", "answered"}
    BY <1>13, MtBefore
  <1> HIDE DEF ph0
  <1>15. CASE Copy(n) /\ ph0 = "told"
    <2> DEFINE m == CpMsg("ACK", NoMsg)
    <2>1. /\ o.mm = <<m>> /\ \A f \in TrFields \ {"mm"} : o[f] = t[f]
      BY <1>2, <1>3, <1>6, <1>9, <1>15, CpDataSends
    <2>2. m \in CpMsgs
      BY DEF CpMsg, CpMsgs, RpMsgs, NoMsg
    <2> HIDE DEF m
    <2>3. /\ o.rp_state = "WAIT_TO_TX_RP_ACK" /\ o.cp_state = "MM_ESTABLISHED"
          /\ o.prims = {} /\ o.reps = <<>>
      BY <1>6, <1>7, <1>15, <2>1 DEF TrFields
    <2>4. p = chan[MO] \o <<m>>
      BY <1>13, <2>1 DEF Carried, Joined
    <2>5. ph = "told"
      <3>1. ConnAfter(o, "up") = "up"
        BY <2>3 DEF ConnAfter
      <3> QED
        BY <1>13, <2>3, <3>1, PhaseIs
    <2>6. Calm => Once(s, up, "told", y, chan[MO] \o <<m>>, rest, l, ind, Len(rep[MT]))
      BY <1>3, <1>14, <1>15, <2>2, ArrivesAgain DEF rest
    <2>7. Calm => Once(SendsData(tr[MO]), conn[MO] = "up", ph, o.cp_retx, p, rest, loss[MO],
                       ind, Len(rep[MT]))
      BY <1>13, <2>4, <2>5, <2>6
    <2> QED
      BY <1>1, <1>11, <1>12, <1>13, <2>3, <2>7, MtStep
  <1>16. CASE Copy(n) /\ ph0 = "answered"
    <2> DEFINE m == CpMsg("ERROR", NoMsg)
    <2>1. o.mm = <<m>> /\ Ended(o, a, b) /\ o.reps = <<>>
      BY <1>2, <1>6, <1>10, <1>16, UnhandledSends
    <2>2. m \in CpMsgs /\ m.cp = "ERROR"
      BY DEF CpMsg, CpMsgs, RpMsgs, NoMsg
    <2> HIDE DEF m
    <2>3. p = chan[MO] \o <<m>>
      BY <1>13, <2>1 DEF Carried, Joined
    <2>4. ph = "none"
      <3>1. ConnAfter(o, "up") = "none"
        BY <2>1 DEF ConnAfter, Ended
      <3> QED
        BY <1>13, <3>1, PhaseIs
    <2>5. Calm => Once(s, up, "none", y, chan[MO] \o <<m>>, rest, l, ind, Len(rep[MT]))
      BY <1>3, <1>14, <1>16, <2>2, ArrivesLate DEF rest, n
    <2>6. Calm => Once(SendsData(tr[MO]), conn[MO] = "up", ph, o.cp_retx, p, rest, loss[MO],
                       ind, Len(rep[MT]))
      BY <1>13, <2>3, <2>4, <2>5
    <2> QED
      BY <1>1, <1>11, <1>12, <1>13, <2>1, <2>6, MtStep
  <1>17. CASE ~(Copy(n) /\ ph0 \in {"told", "answered"})
    <2>1. ASSUME Calm
          PROVE  /\ ~SendsData(tr[MO]) /\ ~Flies(rest)
                 /\ \A k \in DOMAIN rest : Copy(rest[k]) => k = 1
      <3>1. Alone(s, up, chan[MT]) /\ s \in BOOLEAN
        BY <1>14, <2>1 DEF Once
      <3>2. ~s
        <4>1. s => Copy(n)
          BY <1>4, <3>1 DEF Alone
        <4> QED
          BY <1>6, <1>14, <1>17, <2>1, <4>1 DEF ph0
      <3>3. Alone(s, up, rest) /\ ~Flies(rest)
        BY <1>5, <3>1
      <3> QED
        BY <1>13, <3>2, <3>3 DEF Alone
    <2> QED
      BY <1>1, <1>11, <2>1, MtQuiet
  <1> QED
    BY <1>15, <1>16, <1>17

(* A message is lost, or discarded by the MM layer.                         *)
LEMMA AstrayOnce ==
    ASSUME Inv, OnceInv, NEW e \in Sides, chan[e] # <<>>, chan' = [chan EXCEPT ![e] = Tail(@)],
           UNCHANGED <<env, tr, conn, rep, ind, fails, subs>>,
           \/ loss' = loss /\ (e = MT \/ conn[e] # "up")
           \/ loss' = [loss EXCEPT ![e] = @ + 1]
    PROVE  OnceInv'
  <1>1. chan = [y \in Sides |-> chan[y]] /\ loss = [y \in Sides |-> loss[y]] /\ MO \in Sides /\ MT \in Sides
    BY TwoSides DEF Inv, Shapes, OnceInv, Counts
  <1>2. /\ chan'[e] = Tail(chan[e]) /\ (e = MO => chan'[MT] = chan[MT]) /\ (e = MT => chan'[MO] = chan[MO])
    BY <1>1, TwoSides
  <1>3. Counts' /\ loss'[MO] \in {loss[MO], loss[MO] + 1} /\ loss[MO] \in Nat
        /\ (e = MT => loss'[MO] = loss[MO])
        /\ (e = MO => conn[MO] # "up" \/ loss'[MO] = loss[MO] + 1)
    <2>1. CASE loss' = loss /\ (e = MT \/ conn[e] # "up")
      BY <1>1, <2>1, TwoSides DEF OnceInv, Counts
    <2>2. CASE loss' = [loss EXCEPT ![e] = @ + 1]
      <3>1. \A y \in Sides : loss[y] \in Nat
        BY DEF OnceInv, Counts
      <3>2. \A y \in Sides : loss'[y] = IF y = e THEN loss[y] + 1 ELSE loss[y]
        BY <1>1, <2>2
      <3>3. loss' = [y \in Sides |-> loss'[y]] /\ \A y \in Sides : loss'[y] \in Nat
        <4>1. loss' = [y \in Sides |-> loss'[y]]
          BY <1>1, <2>2
        <4>2. \A k \in Nat : k + 1 \in Nat
          OBVIOUS
        <4> QED
          BY <3>1, <3>2, <4>1, <4>2
      <3>4. Counts'
        BY <3>3 DEF OnceInv, Counts
      <3> QED
        BY <1>1, <3>1, <3>2, <3>4, TwoSides
    <2> QED
      BY <2>1, <2>2
  <1>4. Calm' => Calm
    BY <1>3 DEF Calm
  <1>5. e = MO \/ e = MT
    BY DEF Sides
  <1>6. ASSUME Calm' PROVE Start' /\ OnceNow'
    <2>1. Start'
      <3>1. subs # 0 /\ tr[MO].cp_state # "MM_CONN_PENDING"
        BY <1>4, <1>5, <1>6 DEF OnceInv, Start
      <3> QED
        BY <3>1 DEF Start
    <2>2. PICK s, up, ph, x :
             /\ s = SendsData(tr[MO]) /\ up = (conn[MO] = "up")
             /\ ph = Phase(conn[MT], tr[MT]) /\ x = tr[MT].cp_retx
      OBVIOUS
    <2>3. /\ Once(s, up, ph, x, chan[MO], chan[MT], loss[MO], ind, Len(rep[MT]))
          /\ s \in BOOLEAN /\ chan[MO] \in Seq(CpMsgs) /\ chan[MT] \in Seq(CpMsgs)
      BY <1>4, <1>6, <2>2, MtBefore
    <2>4. Once(s, up, ph, x, chan'[MO], chan'[MT], loss'[MO], ind, Len(rep[MT]))
      <3>1. CASE e = MT
        BY <1>2, <1>3, <2>3, <3>1, GoesAstray
      <3>2. CASE e = MO
        <4>1. s => loss'[MO] = loss[MO] + 1
          BY <1>3, <2>2, <2>3, <3>2 DEF Once, Alone
        <4>2. loss'[MO] \in Nat
          BY <1>3
        <4> QED
          BY <1>2, <1>3, <2>3, <3>2, <4>1, <4>2, BackAstray
      <3> QED
        BY <1>5, <3>1, <3>2
    <2>5. OnceNow'
      BY <2>2, <2>4 DEF OnceNow, SendsData
    <2> QED
      BY <2>1, <2>5
  <1> QED
    BY <1>3, <1>4, <1>6 DEF OnceInv

LEMMA DeliverOnce ==
    ASSUME Inv, OnceInv, NEW e \in Sides, Deliver(e)
    PROVE  OnceInv'
  <1>1. chan[e] # <<>> /\ UNCHANGED <<loss, fails, subs>> /\ (e = MO \/ e = MT)
    BY DEF Deliver, Sides
  <1>2. CASE /\ conn[e] = "up"
             /\ Commit(e, SmcRecv(tr[e], "DATA_IND", Head(chan[e]).cp, Head(chan[e]).rp),
                       "up", Tail(chan[e]))
    BY <1>1, <1>2, MoDeliverOnce, MtDeliverOnce
  <1>3. CASE /\ conn[e] = "none" /\ e = MT /\ Head(chan[e]).cp = "DATA"
             /\ Commit(e, SmcRecv(IF tr[e].life = "live" THEN tr[e] ELSE New, "EST_IND",
                                  Head(chan[e]).cp, Head(chan[e]).rp), "up", Tail(chan[e]))
    <2>1. tr[e].life # "live"
      BY <1>3, AtWork, GoneIs
    <2> QED
      BY <1>1, <1>3, <2>1, MtFirstOnce
  <1>4. CASE conn[e] # "up" /\ chan' = [chan EXCEPT ![e] = Tail(@)] /\ UNCHANGED <<env, tr, conn, rep, ind>>
    BY <1>1, <1>4, AstrayOnce
  <1> QED
    BY <1>2, <1>3, <1>4 DEF Deliver

LEMMA LoseOnce ==
    ASSUME Inv, OnceInv, NEW e \in Sides, Lose(e)
    PROVE  OnceInv'
  BY AstrayOnce DEF Lose

(* MMSMS-REL-IND: the connection has failed.                                *)
LEMMA ConnFailOnce ==
    ASSUME OnceInv, NEW e \in Sides, ConnFail(e)
    PROVE  OnceInv'
  <1>1. fails' = fails + 1 /\ UNCHANGED <<loss, subs>>
    BY DEF ConnFail
  <1>2. Counts' /\ fails' # 0
    BY <1>1 DEF OnceInv, Counts
  <1> QED
    BY <1>2 DEF OnceInv, Calm

-----------------------------------------------------------------------------
(* The theorem *)

LEMMA OnceInit == Init => OnceInv
  <1> SUFFICES ASSUME Init PROVE OnceInv
    OBVIOUS
  <1>1. /\ tr[MO] = Gone /\ tr[MT] = Gone /\ conn[MO] = "none" /\ conn[MT] = "none"
        /\ chan[MO] = <<>> /\ chan[MT] = <<>> /\ rep[MT] = <<>> /\ ind = 0
    BY TwoSides DEF Init
  <1>2. Counts
    BY DEF Init, Counts
  <1>3. Start
    BY <1>1 DEF Start
  <1>4. OnceNow
    <2>1. SendsData(tr[MO]) = FALSE
      BY <1>1, GoneIs DEF SendsData
    <2>2. \A up, ph, x, p, l : Once(FALSE, up, ph, x, p, <<>>, l, 0, Len(<<>>))
      BY DEF Once, Alone, Known, Owed, Silent, Flies
    <2> QED
      BY <1>1, <2>1, <2>2 DEF OnceNow
  <1> QED
    BY <1>2, <1>3, <1>4 DEF OnceInv

LEMMA OnceNext == MaxRetr > 0 /\ Inv /\ OnceInv /\ [Next]_vars => OnceInv'
  <1> SUFFICES ASSUME MaxRetr > 0, Inv, OnceInv, [Next]_vars PROVE OnceInv'
    OBVIOUS
  <1>1. ASSUME NEW kind \in env.kinds, Submit(kind) PROVE OnceInv'
    BY <1>1, SubmitOnce
  <1>2. ASSUME NEW kind \in env.reports, Report(kind) PROVE OnceInv'
    BY <1>2, ReportOnce
  <1>3. CASE ConnConfirm
    BY <1>3, ConnConfirmOnce
  <1>4. ASSUME NEW e \in Sides, ConnFail(e) PROVE OnceInv'
    BY <1>4, ConnFailOnce
  <1>5. ASSUME NEW e \in Sides, Deliver(e) PROVE OnceInv'
    BY <1>5, DeliverOnce
  <1>6. ASSUME NEW e \in Sides, Lose(e) PROVE OnceInv'
    BY <1>6, LoseOnce
  <1>7. ASSUME NEW e \in Sides, CpTimeout(e) PROVE OnceInv'
    BY <1>7, MoCpTimeoutOnce, MtCpTimeoutOnce DEF Sides
  <1>8. ASSUME NEW e \in Sides, RpTimeout(e) PROVE OnceInv'
    BY <1>8, MoRpTimeoutOnce, MtRpTimeoutOnce DEF Sides
  <1>9. CASE UNCHANGED vars
    BY <1>9 DEF vars, OnceInv, Counts, Calm, Start, OnceNow
  <1> QED
    BY <1>1, <1>2, <1>3, <1>4, <1>5, <1>6, <1>7, <1>8, <1>9 DEF Next

LEMMA OnceInvariant == Destroys /\ MaxRetr > 0 /\ Spec => []OnceInv
  <1> SUFFICES ASSUME Destroys, MaxRetr > 0 PROVE Spec => []OnceInv
    OBVIOUS
  <1>1. Inv /\ OnceInv /\ [Next]_vars => OnceInv'
    BY OnceNext
  <1> QED
    BY <1>1, SmsInvariant, OnceInit, PTL DEF Spec

(* With a TC1* that exceeds the round trip, at least one repetition         *)
(* (MAX_SMS_RETRY is 2), fewer than three messages lost on the way back to  *)
(* the originator, any number lost on the way to the terminator, and an MM  *)
(* connection that does not fail, the upper layer of the terminator is      *)
(* given a message a second time only after it was told that the first time *)
(* failed: what TC1* of gsm0411_smc.c repeats does not outlive the          *)
(* transaction of the terminator and make a new one.                        *)
THEOREM DeliveredOnceHolds == Destroys /\ MaxRetr > 0 /\ Spec => []DeliveredOnce
  <1>1. OnceInv => DeliveredOnce
    BY DEF OnceInv, DeliveredOnce, Calm, OnceNow, Once
  <1> QED
    BY <1>1, OnceInvariant, PTL

=============================================================================

---------------------------- MODULE LapdDlProofs ----------------------------
(***************************************************************************)
(* Proofs about one LAPD datalink in an arbitrary environment (LapdDl),    *)
(* for every window, modulus, history, retransmission limit and set of     *)
(* messages: the timers run only where they are used, the command being    *)
(* repeated is in the history, an SABM is always guarded by T200, the      *)
(* contention resolution data ends with the establishment, repetitions are *)
(* bounded; I frames go out on an established link only, and L3 is told of *)
(* a state that is the state.                                              *)
(***************************************************************************)
EXTENDS LapdDl, LapdProofs, SequenceTheorems

(* What holds between any two steps of a handler.                           *)
Settled(d) ==
    /\ d.t203 => d.state = "MF_EST"
    /\ d.cont_res # 0 => d.state = "MF_EST" /\ d.mode = "NETWORK"
    /\ d.retrans_ctr \in Nat

(* In timer recovery T200 is off once N200 + 1 expiries were counted.       *)
Polling(d) ==
    d.state = "TIMER_RECOV" =>
        d.retrans_ctr <= N200 + 1 /\ (d.t200 # "off" => d.retrans_ctr <= N200)

Repeating(d) == d.state \in {"SABM_SENT", "DISC_SENT"} => d.retrans_ctr <= N200EstRel

(* The inductive invariant, of one datalink; k = 1 says that the command    *)
(* being repeated is in the history, which one frame can undo.              *)
DlInv(k, d) ==
    /\ IsDl(d) /\ d.state \in States
    /\ TimersUsed(d)
    /\ k = 1 => CommandStored(d)
    /\ d.state = "SABM_SENT" => d.t200 # "off"
    /\ Settled(d) /\ Polling(d) /\ Repeating(d)

(* What holds between the steps of a handler while the link is up; it is    *)
(* all that DlInv says of these states.                                     *)
OnLink(d) == IsDl(d) /\ d.state \in Connected /\ Settled(d) /\ Polling(d)

(* No link.                                                                 *)
Idle(d) == IsDl(d) /\ d.state = "IDLE" /\ d.t200 = "off" /\ Settled(d)

Kept(d, e) ==
    /\ e.mode = d.mode /\ e.cont_res = d.cont_res /\ e.retrans_ctr = d.retrans_ctr

(* e differs from d in nothing the invariant speaks of.                     *)
Same(d, e) ==
    /\ IsDl(e)
    /\ e.state = d.state /\ e.t200 = d.t200 /\ e.t203 = d.t203
    /\ e.v_send = d.v_send /\ e.tx_hist = d.tx_hist
    /\ Kept(d, e)

(* From d to e frames were sent, perhaps, T200 started and T203 stopped;    *)
(* nothing happens in timer recovery.                                       *)
Quiet(d, e) ==
    /\ IsDl(e) /\ e.state = d.state /\ (e.t203 => d.t203)
    /\ Kept(d, e)
    /\ d.state = "TIMER_RECOV" => e.t200 = d.t200

-----------------------------------------------------------------------------
(* Steps that leave alone what the invariant speaks of. *)

LEMMA SameUp ==
    ASSUME NEW d, IsDl(d), NEW p
    PROVE  Same(d, SendDlSimple(d, p)) /\ Same(d, MdlError(d, p))
                                        /\ Same(d, DataInd(d, p))
  BY DEF SendDlSimple, MdlError, DataInd, Same, IsDl, Fields, Kept

LEMMA SamePh ==
    ASSUME NEW d, IsDl(d), NEW frame
    PROVE  Same(d, SendPh(d, frame))
  BY DlAssumption DEF SendPh, Same, IsDl, Fields, Kept

LEMMA SameFrames ==
    ASSUME NEW d, IsDl(d), NEW f, NEW x, NEW y
    PROVE  /\ Same(d, SendUA(d, f, x)) /\ Same(d, SendDM(d, f))
           /\ Same(d, SendRR(d, x, y)) /\ Same(d, SendREJ(d, x))
           /\ Same(d, SendResend(d)) /\ Same(d, UdataReq(d, x))
           /\ Same(d, AnswerPoll(d, f))
  <1>1. \A frame : Same(d, SendPh(d, frame))
    BY SamePh
  <1>2. Same(d, d)
    BY DEF Same, Kept
  <1> QED
    BY <1>1, <1>2 DEF SendUA, SendDM, SendRR, SendREJ, SendResend, UdataReq, AnswerPoll

LEMMA SameBuffers ==
    ASSUME NEW d, IsDl(d), NEW f
    PROVE  /\ Same(d, FlushSend(d)) /\ Same(d, FlushTxQueue(d))
           /\ Same(d, LoadBuffer(d)) /\ Same(d, UpdatePendingFrames(d))
           /\ Same(d, Reassemble(d, f)) /\ Same(d, ForgetBuffer(d, f))
  <1>1. Same(d, FlushSend(d)) /\ Same(d, FlushTxQueue(d))
    BY DEF FlushSend, FlushTxQueue, Same, IsDl, Fields, Kept
  <1>2. Same(d, LoadBuffer(d))
    BY DEF LoadBuffer, Same, IsDl, Fields, Kept
  <1>3. Same(d, UpdatePendingFrames(d))
    BY DEF UpdatePendingFrames, Same, IsDl, Fields, Kept
  <1>4. Same(d, ForgetBuffer(d, f))
    BY DEF ForgetBuffer, Same, IsDl, Fields, Kept
  <1>5. Same(d, Reassemble(d, f))
    <2> DEFINE buf == IF Len(d.rcv_buffer) + 1 > MaxF THEN d.rcv_buffer
                      ELSE Append(d.rcv_buffer, f.seg)
               partial == f.more \/ d.rcv_buffer # <<>>
               kept == [d EXCEPT !.rcv_buffer = IF partial THEN buf ELSE @]
    <2>1. Same(d, kept)
      <3> HIDE DEF buf, partial
      <3> QED
        BY DEF Same, IsDl, Fields, Kept
    <2> HIDE DEF kept
    <2>2. Same(kept, DataInd(kept, buf))
      BY <2>1, SameUp DEF Same
    <2> QED
      BY <2>1, <2>2 DEF Reassemble, kept, Same, Kept
  <1> QED
    BY <1>1, <1>2, <1>3, <1>4, <1>5

LEMMA SameInvariant ==
    ASSUME NEW k, NEW d, NEW e, Same(d, e)
    PROVE  /\ IsDl(e)
           /\ DlInv(k, d) => DlInv(k, e)
           /\ OnLink(d) => OnLink(e)
           /\ Idle(d) => Idle(e)
           /\ Settled(d) => Settled(e)
  BY DEF Same, DlInv, OnLink, Idle, Settled, TimersUsed, CommandStored, Polling, Kept, Repeating

LEMMA OnLinkOrIdle ==
    ASSUME NEW k, NEW d, OnLink(d) \/ Idle(d)
    PROVE  DlInv(k, d)
  BY
     DEF OnLink, Idle, DlInv, Settled, TimersUsed, CommandStored, Connected, States, Polling, Kept, Repeating

-----------------------------------------------------------------------------
(* Timers, states and the history. *)

LEMMA TimerSteps ==
    ASSUME NEW d, IsDl(d)
    PROVE  /\ IsDl(StartT200(d)) /\ IsDl(StopT200(d)) /\ IsDl(StopT203(d))
           /\ StartT200(d).state = d.state /\ StopT200(d).state = d.state
           /\ StopT203(d).state = d.state
           /\ StartT200(d).t203 = d.t203 /\ StopT200(d).t203 = d.t203
           /\ StopT203(d).t203 = FALSE
           /\ StartT200(d).t200 # "off" /\ StopT200(d).t200 = "off"
           /\ StopT203(d).t200 = d.t200
           /\ StartT200(d).v_send = d.v_send /\ StopT200(d).v_send = d.v_send
           /\ StartT200(d).tx_hist = d.tx_hist /\ StopT200(d).tx_hist = d.tx_hist
           /\ Kept(d, StartT200(d)) /\ Kept(d, StopT200(d)) /\ Kept(d, StopT203(d))
  BY DEF StartT200, StopT200, StopT203, IsDl, Fields, Kept

LEMMA StateSteps ==
    ASSUME NEW d, IsDl(d), NEW s
    PROVE  /\ IsDl(NewState(d, s)) /\ NewState(d, s).state = s
           /\ NewState(d, s).t200 = d.t200
           /\ NewState(d, s).v_send = d.v_send
           /\ NewState(d, s).tx_hist = d.tx_hist
  BY DEF NewState, IsDl, Fields

LEMMA StateSettles ==
    ASSUME NEW d, IsDl(d), Settled(d), NEW s
    PROVE  Settled(NewState(d, s))
  BY DEF NewState, IsDl, Fields, Settled

LEMMA StateKeeps ==
    ASSUME NEW d, IsDl(d), NEW s
    PROVE  NewState(d, s).mode = d.mode /\ NewState(d, s).retrans_ctr = d.retrans_ctr
  BY DEF NewState, IsDl, Fields

LEMMA EnterMfEst ==
    ASSUME NEW d, IsDl(d), Settled(d)
    PROVE  OnLink(NewState(d, "MF_EST"))
  <1> DEFINE n == NewState(d, "MF_EST")
  <1>1. IsDl(n) /\ n.state = "MF_EST"
    BY StateSteps
  <1>2. Settled(n)
    BY StateSettles
  <1> HIDE DEF n
  <1>3. OnLink(n)
    BY <1>1, <1>2 DEF OnLink, Polling, Connected
  <1> QED
    BY <1>3 DEF n

LEMMA StopOnLink ==
    ASSUME NEW d, OnLink(d)
    PROVE  OnLink(StopT200(d)) /\ StopT200(d).state = d.state
  BY TimerSteps DEF OnLink, Settled, Polling, Kept

LEMMA SettledSteps ==
    ASSUME NEW d, IsDl(d), Settled(d)
    PROVE  Settled(StartT200(d)) /\ Settled(StopT200(d)) /\ Settled(StopT203(d))
  BY TimerSteps DEF Settled, Kept

LEMMA FlushSteps ==
    ASSUME NEW d, IsDl(d)
    PROVE  /\ IsDl(FlushTx(d)) /\ IsDl(FlushHist(d))
           /\ FlushTx(d).state = d.state /\ FlushHist(d).state = d.state
           /\ FlushTx(d).t200 = d.t200 /\ FlushHist(d).t200 = d.t200
           /\ FlushTx(d).t203 = d.t203 /\ FlushHist(d).t203 = d.t203
           /\ Kept(d, FlushTx(d)) /\ Kept(d, FlushHist(d))
  BY DEF FlushTx, FlushHist, FlushTxQueue, IsDl, Fields, Kept

(* A command leaves the link in a state that satisfies the invariant.       *)
LEMMA CommandInvariant ==
    ASSUME NEW k, NEW d, IsDl(d), Settled(d), NEW s_u, NEW info,
           NEW s \in {"SABM_SENT", "DISC_SENT"}
    PROVE  DlInv(k, SendCommand(d, s_u, s, info))
  <1> DEFINE stored == [StoreHist(FlushHist(d), 0, HistEntry(info, 0, 0))
                          EXCEPT !.v_send = 0, !.peer_busy = FALSE, !.retrans_ctr = 0]
             n == NewState(stored, s)
             p == SendPh(n, UFrame(s_u, "cmd", 1, info))
             e == StartT200(p)
  <1>1. IsDl(stored) /\ stored.v_send = 0 /\ 0 \in DOMAIN stored.tx_hist
        /\ stored.state = d.state /\ stored.t203 = d.t203 /\ stored.retrans_ctr = 0
        /\ stored.mode = d.mode /\ stored.cont_res = d.cont_res
    BY DEF StoreHist, FlushHist, IsDl, Fields
  <1> HIDE DEF stored
  <1>2. Settled(stored)
    BY <1>1 DEF Settled
  <1>3. IsDl(n) /\ n.state = s /\ n.v_send = 0 /\ 0 \in DOMAIN n.tx_hist /\ Settled(n)
        /\ n.retrans_ctr = 0
    <2>1. IsDl(n) /\ n.state = s /\ n.v_send = stored.v_send /\ n.tx_hist = stored.tx_hist
      BY <1>1, StateSteps
    <2>2. Settled(n)
      BY <1>1, <1>2, StateSettles
    <2>3. n.retrans_ctr = 0
      BY <1>1, StateKeeps
    <2> QED
      BY <1>1, <2>1, <2>2, <2>3
  <1> HIDE DEF n
  <1>4. Same(n, p)
    BY <1>3, SamePh
  <1> HIDE DEF p
  <1>5. IsDl(p) /\ p.state = s /\ p.v_send = 0 /\ 0 \in DOMAIN p.tx_hist /\ Settled(p)
        /\ p.retrans_ctr = 0
    BY <1>3, <1>4 DEF Same, Settled, Kept
  <1>6. IsDl(e) /\ e.state = s /\ e.v_send = 0 /\ 0 \in DOMAIN e.tx_hist
        /\ Settled(e) /\ e.t200 # "off" /\ e.retrans_ctr = 0
    BY <1>5, TimerSteps DEF Settled, Kept
  <1> HIDE DEF e
  <1>7. DlInv(k, e)
    BY <1>6, ParamAssumption DEF DlInv, Settled, TimersUsed, CommandStored, States, Kept, Polling, Repeating
  <1> QED
    BY <1>7 DEF e, p, n, stored, SendCommand

-----------------------------------------------------------------------------
(* lapd_send_i() *)

LEMMA QuietTransmit ==
    ASSUME NEW d, IsDl(d), d.state # "TIMER_RECOV"
    PROVE  Quiet(d, TransmitHist(d))
  <1> DEFINE next == [d EXCEPT !.v_send = IncMod(@)]
             timed == IF next.t200 = "off" THEN StartT200(StopT203(next)) ELSE next
  <1>1. Quiet(d, next)
    BY DEF Quiet, IsDl, Fields, Kept
  <1> HIDE DEF next
  <1>2. Quiet(next, timed)
    <2>1. IsDl(StopT203(next)) /\ StopT203(next).t203 = FALSE
          /\ StopT203(next).state = next.state /\ Kept(next, StopT203(next))
      BY <1>1, TimerSteps DEF Quiet
    <2> DEFINE st == StopT203(next)
    <2> HIDE DEF st
    <2>2. Quiet(next, StartT200(st))
      <3>1. IsDl(StartT200(st)) /\ StartT200(st).state = st.state
            /\ StartT200(st).t203 = st.t203 /\ Kept(st, StartT200(st))
        BY <2>1, TimerSteps DEF st
      <3> QED
        BY <1>1, <2>1, <3>1 DEF Quiet, Kept, st
    <2> QED
      BY <1>1, <2>2 DEF Quiet, Kept, st
  <1> HIDE DEF timed
  <1>3. \A frame : Same(timed, SendPh(timed, frame))
    BY <1>2, SamePh DEF Quiet, Kept
  <1>4. \A frame : Quiet(d, SendPh(timed, frame))
    BY <1>1, <1>2, <1>3 DEF Quiet, Same, Kept
  <1> QED
    BY <1>4 DEF TransmitHist, next, timed

LEMMA QuietFrame ==
    ASSUME NEW d, IsDl(d)
    PROVE  Quiet(d, SendFrame(d))
  <1> DEFINE b == LoadBuffer(d)
             st == StoreNextSegment(b)
  <1>1. Quiet(d, d)
    BY DEF Quiet, Kept
  <1>2. Quiet(d, b)
    BY SameBuffers DEF Same, Quiet, Kept
  <1> HIDE DEF b
  <1>3. Quiet(b, st)
    BY <1>2 DEF StoreNextSegment, StoreHist, Quiet, IsDl, Fields, Kept
  <1> HIDE DEF st
  <1>4. MaySend(d) => d.state # "TIMER_RECOV" /\ st.state # "TIMER_RECOV" /\ IsDl(st)
    BY <1>2, <1>3 DEF MaySend, Quiet
  <1>5. MaySend(d) => Quiet(st, TransmitHist(st)) /\ Quiet(d, TransmitHist(d))
    BY <1>4, QuietTransmit
  <1>6. MaySend(d) => Quiet(d, TransmitHist(st))
    BY <1>2, <1>3, <1>4, <1>5 DEF Quiet, Kept
  <1> QED
    BY <1>1, <1>2, <1>5, <1>6 DEF SendFrame, b, st

(* By the least round that would not be quiet.                              *)
LEMMA QuietSendI ==
    ASSUME NEW d, IsDl(d)
    PROVE  Quiet(d, SendI(d))
  <1> DEFINE r == Rounds(d)
             T == {n \in Nat : n <= VRange /\ ~Quiet(d, r[n])}
  <1>0. VRange \in Nat
    BY ParamAssumption
  <1>1. \A n \in 0..VRange : r[n] = IF n = 0 THEN d ELSE SendFrame(r[n - 1])
    BY RoundsEquation, <1>0
  <1> HIDE DEF r
  <1>2. T = {}
    <2> SUFFICES ASSUME T # {} PROVE FALSE
      OBVIOUS
    <2>1. T \in SUBSET Nat
      OBVIOUS
    <2>2. PICK x \in T : \A y \in T : x <= y
      <3> HIDE DEF T
      <3> QED
        BY <2>1, LeastElement
    <2>3. x \in 0..VRange /\ ~Quiet(d, r[x])
      BY <2>2, <1>0
    <2>4. CASE x = 0
      BY <2>3, <2>4, <1>1 DEF Quiet, Kept
    <2>5. CASE x # 0
      <3>1. x - 1 \in Nat /\ x - 1 <= VRange /\ ~(x <= x - 1)
        BY <2>3, <2>5, <1>0
      <3>2. Quiet(d, r[x - 1])
        BY <3>1, <2>2
      <3>3. r[x] = SendFrame(r[x - 1])
        BY <2>3, <2>5, <1>1
      <3>4. Quiet(r[x - 1], r[x])
        BY <3>2, <3>3, QuietFrame DEF Quiet, Kept
      <3> QED
        BY <3>2, <3>4, <2>3 DEF Quiet, Kept
    <2> QED
      BY <2>4, <2>5
  <1>3. Quiet(d, r[VRange])
    BY <1>0, <1>2
  <1> QED
    BY <1>3, DlAssumption DEF SendI, r

LEMMA OnLinkSendI ==
    ASSUME NEW d, OnLink(d)
    PROVE  OnLink(SendI(d))
  BY QuietSendI DEF OnLink, Quiet, Settled, Polling, Kept

LEMMA OnLinkAcknowledge ==
    ASSUME NEW d, OnLink(d), NEW nr, NEW rej
    PROVE  OnLink(Acknowledge(d, nr, rej)) /\ Acknowledge(d, nr, rej).state = d.state
  <1> DEFINE freed == [d EXCEPT !.tx_hist =
                         [h \in DOMAIN d.tx_hist \ AckSlots(d, nr) |-> d.tx_hist[h]]]
             reset == d.state # "TIMER_RECOV" /\ (rej <=> nr = d.v_ack)
             stopped == IF reset THEN StopT200(freed) ELSE freed
             moved == IF reset /\ ~rej THEN RestartT200(stopped) ELSE stopped
             done == [moved EXCEPT !.v_ack = nr,
                        !.t203 = moved.t200 = "off" /\ T203On /\ d.state = "MF_EST"]
  <1>1. OnLink(freed) /\ freed.state = d.state
    BY DEF OnLink, IsDl, Fields, Settled, Polling, Kept
  <1>5. reset => d.state # "TIMER_RECOV"
    OBVIOUS
  <1> HIDE DEF freed, reset
  <1>2. OnLink(stopped) /\ stopped.state = d.state
    BY <1>1, StopOnLink
  <1> HIDE DEF stopped
  <1>3. OnLink(moved) /\ moved.state = d.state
    <2>1. d.state # "TIMER_RECOV" => OnLink(StartT200(stopped))
      BY <1>2, TimerSteps DEF OnLink, Settled, Polling, Kept
    <2>2. StartT200(stopped).state = d.state
      BY <1>2, TimerSteps DEF OnLink
    <2> QED
      BY <1>2, <1>5, <2>1, <2>2 DEF RestartT200
  <1> HIDE DEF moved
  <1>4. OnLink(done) /\ done.state = d.state
    BY <1>3 DEF OnLink, IsDl, Fields, Settled, Polling, Kept
  <1> HIDE DEF done
  <1> QED
    BY <1>2, <1>4 DEF Acknowledge, done, moved, stopped, reset, freed

-----------------------------------------------------------------------------
(* L3 -> L2 *)

LEMMA GoIdle ==
    ASSUME NEW d, IsDl(d), Settled(d), d.t200 = "off"
    PROVE  Idle(NewState(d, "IDLE"))
  <1>1. IsDl(NewState(d, "IDLE")) /\ NewState(d, "IDLE").state = "IDLE"
        /\ NewState(d, "IDLE").t200 = d.t200 /\ Settled(NewState(d, "IDLE"))
    <2>1. Settled(NewState(d, "IDLE"))
      BY StateSettles
    <2> QED
      BY <2>1, StateSteps
  <1> QED
    BY <1>1 DEF Idle

(* The flushes and the end of T200 before a release.                        *)
LEMMA Flushed ==
    ASSUME NEW d, IsDl(d), Settled(d)
    PROVE  /\ IsDl(FlushSend(FlushTx(d))) /\ Settled(FlushSend(FlushTx(d)))
           /\ FlushSend(FlushTx(d)).state = d.state
           /\ FlushSend(FlushTx(d)).t200 = d.t200
           /\ IsDl(StopT200(d)) /\ Settled(StopT200(d))
           /\ StopT200(d).t200 = "off" /\ StopT200(d).state = d.state
  <1>1. IsDl(FlushTx(d)) /\ Settled(FlushTx(d)) /\ FlushTx(d).t200 = d.t200
        /\ FlushTx(d).state = d.state
    BY FlushSteps DEF Settled, Kept
  <1>2. Same(FlushTx(d), FlushSend(FlushTx(d)))
    BY <1>1, SameBuffers
  <1>3. IsDl(StopT200(d)) /\ Settled(StopT200(d)) /\ StopT200(d).t200 = "off"
        /\ StopT200(d).state = d.state
    BY TimerSteps DEF Settled, Kept
  <1> QED
    BY <1>1, <1>2, <1>3 DEF Same, Settled, Kept

LEMMA EstReqInvariant ==
    ASSUME NEW k, NEW d, IsDl(d), Settled(d), NEW info
    PROVE  DlInv(k, EstReq(d, info))
  <1> DEFINE e == [FlushSend(d) EXCEPT !.rcv_buffer = <<>>]
  <1>1. IsDl(e) /\ Settled(e)
    BY DEF FlushSend, IsDl, Fields, Settled, Kept
  <1> HIDE DEF e
  <1>2. DlInv(k, SendCommand(e, "SABM", "SABM_SENT", info))
    BY <1>1, CommandInvariant
  <1> QED
    BY <1>2 DEF EstReq, e

LEMMA ResReqInvariant ==
    ASSUME NEW k, NEW d, IsDl(d), Settled(d), NEW msg
    PROVE  DlInv(k, ResReq(d, msg))
  <1> DEFINE e == [d EXCEPT !.send_buffer = msg, !.send_out = 0, !.rcv_buffer = <<>>]
  <1>1. IsDl(e) /\ Settled(e)
    BY DEF IsDl, Fields, Settled, Kept
  <1> HIDE DEF e
  <1>2. DlInv(k, SendCommand(e, "SABM", "SABM_SENT", 0))
    BY <1>1, CommandInvariant
  <1> QED
    BY <1>2 DEF ResReq, e

LEMMA DataReqInvariant ==
    ASSUME NEW k, NEW d, OnLink(d), NEW m
    PROVE  DlInv(k, DataReq(d, m))
  <1> DEFINE e == [d EXCEPT !.send_queue = Append(@, m)]
  <1>1. OnLink(e)
    BY DEF OnLink, IsDl, Fields, Settled, Polling, Kept
  <1> HIDE DEF e
  <1> QED
    BY <1>1, OnLinkSendI, OnLinkOrIdle DEF DataReq, e

LEMMA SuspReqInvariant ==
    ASSUME NEW k, NEW d, OnLink(d)
    PROVE  DlInv(k, SuspReq(d))
  <1> DEFINE back == [d EXCEPT !.send_queue = d.send_buffer \o @, !.send_buffer = <<>>]
             fl == FlushTx(back)
             st == StopT200(fl)
             e == StopT203(st)
  <1>1. OnLink(back)
    BY DEF OnLink, IsDl, Fields, Settled, Polling
  <1> HIDE DEF back
  <1>2. OnLink(fl)
    BY <1>1, FlushSteps DEF OnLink, Settled, Polling, Kept
  <1> HIDE DEF fl
  <1>3. OnLink(st)
    BY <1>2, StopOnLink
  <1> HIDE DEF st
  <1>4. OnLink(e)
    BY <1>3, TimerSteps DEF OnLink, Settled, Polling, Kept
  <1> HIDE DEF e
  <1>5. OnLink(SendDlSimple(e, "SUSP_CNF"))
    BY <1>4, SameUp, SameInvariant DEF OnLink
  <1> QED
    BY <1>5, OnLinkOrIdle DEF SuspReq, e, st, fl, back

LEMMA RelReqInvariant ==
    ASSUME NEW k, NEW d, DlInv(k, d)
    PROVE  /\ DlInv(k, RelReq(d))
           /\ DlInv(k, RelReqLocal(d))
  <1> DEFINE stopped == StopT200(d)
             idle == NewState(stopped, "IDLE")
             e == FlushSend(FlushTx(idle))
  <1>1. IsDl(d) /\ Settled(d)
    BY DEF DlInv, TimersUsed, Settled, Kept, Polling, Repeating
  <1>2. DlInv(k, RelReq(d))
    BY <1>1, CommandInvariant DEF RelReq
  <1>3. IsDl(stopped) /\ Settled(stopped) /\ stopped.t200 = "off"
    BY <1>1, Flushed
  <1> HIDE DEF stopped
  <1>4. Idle(idle)
    BY <1>3, GoIdle
  <1> HIDE DEF idle
  <1>5. Idle(e)
    BY <1>4, Flushed DEF Idle
  <1> HIDE DEF e
  <1>6. Idle(SendDlSimple(e, "REL_CNF"))
    BY <1>5, SameUp, SameInvariant DEF Idle
  <1> QED
    BY <1>2, <1>6, OnLinkOrIdle DEF RelReqLocal, e, idle, stopped

LEMMA RecvDlsapInvariant ==
    ASSUME NEW k, NEW d, DlInv(k, d), NEW p \in Primitives
    PROVE  DlInv(k, RecvDlsap(d, p))
  <1>1. IsDl(d) /\ Settled(d) /\ (d.state \in Connected => OnLink(d))
    BY DEF DlInv, TimersUsed, Settled, OnLink, Polling, Kept, Repeating
  <1>2. \A x : DlInv(k, UdataReq(d, x))
    BY <1>1, SameFrames, SameInvariant
  <1>3. \A x : DlInv(k, EstReq(d, x)) /\ DlInv(k, ResReq(d, x))
    BY <1>1, EstReqInvariant, ResReqInvariant
  <1>4. d.state \in Connected => (\A x : DlInv(k, DataReq(d, x))) /\ DlInv(k, SuspReq(d))
    BY <1>1, DataReqInvariant, SuspReqInvariant
  <1>5. DlInv(k, RelReqIdle(d))
    BY <1>1, SameUp, SameInvariant DEF RelReqIdle
  <1>6. DlInv(k, RelReq(d)) /\ DlInv(k, RelReqLocal(d))
    BY RelReqInvariant
  <1> QED
    BY <1>2, <1>3, <1>4, <1>5, <1>6 DEF RecvDlsap

-----------------------------------------------------------------------------
(* Timers *)

LEMMA T200CommandInvariant ==
    ASSUME NEW k, NEW d, IsDl(d), Settled(d), d.t200 = "off",
           d.state \in {"SABM_SENT", "DISC_SENT"},
           k = 1 => d.v_send = 0 /\ 0 \in DOMAIN d.tx_hist
    PROVE  DlInv(k, T200Command(d))
  <1> DEFINE c == [d EXCEPT !.retrans_ctr = @ + 1]
             sent == SendResend(c)
             e == StartT200(sent)
             f == FlushSend(FlushTx(c))
             idle == NewState(f, "IDLE")
  <1>1. /\ IsDl(c) /\ Settled(c) /\ c.t200 = "off" /\ c.state = d.state
        /\ (k = 1 => c.v_send = 0 /\ 0 \in DOMAIN c.tx_hist)
    <2>1. d.retrans_ctr + 1 \in Nat
      BY DEF Settled
    <2> QED
      BY <2>1 DEF IsDl, Fields, Settled
  <1> HIDE DEF c
  <1>2. MayRepeat(c) => DlInv(k, e)
    <2> SUFFICES ASSUME MayRepeat(c) PROVE DlInv(k, e)
      OBVIOUS
    <2>1. Same(c, sent)
      BY <1>1, SameFrames
    <2> HIDE DEF sent
    <2>2. IsDl(sent) /\ Settled(sent) /\ sent.state = d.state
          /\ (k = 1 => sent.v_send = 0 /\ 0 \in DOMAIN sent.tx_hist)
          /\ sent.retrans_ctr = c.retrans_ctr
      BY <1>1, <2>1 DEF Same, Settled, Kept
    <2>3. IsDl(e) /\ e.state = d.state /\ e.t200 # "off"
          /\ (k = 1 => e.v_send = 0 /\ 0 \in DOMAIN e.tx_hist)
          /\ e.retrans_ctr = c.retrans_ctr
      BY <2>2, TimerSteps DEF Kept
    <2>4. Settled(e)
      BY <2>2, SettledSteps
    <2>5. c.retrans_ctr <= N200EstRel
      BY <1>1, ParamAssumption DEF MayRepeat, Settled
    <2> HIDE DEF e
    <2> QED
      BY <2>3, <2>4, <2>5 DEF DlInv, Settled, TimersUsed, CommandStored, States, Polling, Repeating
  <1>3. Idle(idle)
    <2>1. IsDl(f) /\ Settled(f) /\ f.t200 = "off"
      BY <1>1, Flushed
    <2> HIDE DEF f
    <2> QED
      BY <2>1, GoIdle
  <1> HIDE DEF idle
  <1>4. \A x : Idle(MdlError(idle, x))
    BY <1>3, SameUp, SameInvariant DEF Idle
  <1>5. \A x, y : DlInv(k, SendDlSimple(MdlError(idle, x), y))
    <2> TAKE x, y
    <2> DEFINE m == MdlError(idle, x)
    <2>1. Idle(m)
      BY <1>4
    <2> HIDE DEF m
    <2>2. Idle(SendDlSimple(m, y))
      BY <2>1, SameUp, SameInvariant DEF Idle
    <2> QED
      BY <2>2, OnLinkOrIdle DEF m
  <1> QED
    BY <1>2, <1>5 DEF T200Command, e, sent, idle, f, c

LEMMA T200RecoveryInvariant ==
    ASSUME NEW k, NEW d, OnLink(d), d.t200 = "off",
           d.state = "TIMER_RECOV" => d.retrans_ctr <= N200
    PROVE  DlInv(k, T200Recovery(d))
  <1> DEFINE n == NewState(d, "TIMER_RECOV")
             c == [n EXCEPT !.retrans_ctr = IF d.state = "MF_EST" THEN 1 ELSE @ + 1]
             vs == SubMod(c.v_send, 1)
             poll == IF Slot(vs) \in DOMAIN c.tx_hist
                     THEN LET e == c.tx_hist[Slot(vs)]
                          IN  SendPh(c, IFrame(vs, c.v_recv, 1, e.seg, e.more))
                     ELSE IF c.seq_err_cond = 0 THEN SendRR(c, 1, "cmd") ELSE c
             failed == MdlError(c, "T200_EXPIRED")
  <1>1. IsDl(n) /\ n.state = "TIMER_RECOV" /\ n.t200 = "off" /\ Settled(n)
        /\ n.retrans_ctr = d.retrans_ctr
    <2>1. IsDl(d) /\ Settled(d)
      BY DEF OnLink
    <2>2. Settled(n) /\ n.retrans_ctr = d.retrans_ctr
      BY <2>1, StateSettles, StateKeeps
    <2> QED
      BY <2>1, <2>2, StateSteps
  <1> HIDE DEF n
  <1>2. OnLink(c)
    <2> DEFINE ctr == IF d.state = "MF_EST" THEN 1 ELSE n.retrans_ctr + 1
    <2>1. ctr \in Nat /\ ctr <= N200 + 1
      <3>1. d.state \in {"MF_EST", "TIMER_RECOV"} /\ d.retrans_ctr \in Nat
        BY DEF OnLink, Settled, Connected
      <3> QED
        BY <1>1, <3>1, ParamAssumption
    <2>2. c = [n EXCEPT !.retrans_ctr = ctr]
      BY <1>1 DEF IsDl, Fields
    <2> HIDE DEF ctr, c
    <2>3. IsDl(c) /\ c.state = "TIMER_RECOV" /\ c.t200 = "off" /\ c.retrans_ctr = ctr
          /\ c.t203 = n.t203 /\ c.cont_res = n.cont_res /\ c.mode = n.mode
      BY <1>1, <2>2 DEF IsDl, Fields
    <2> QED
      BY <1>1, <2>1, <2>3 DEF OnLink, Settled, Polling, Connected
  <1> HIDE DEF c
  <1>3. OnLink(failed)
    BY <1>2, SameUp, SameInvariant DEF OnLink
  <1> HIDE DEF failed
  <1>4. DlInv(k, EstReq(failed, 0))
    BY <1>3, EstReqInvariant DEF OnLink
  <1>5. OnLink(poll) /\ poll.retrans_ctr = c.retrans_ctr
    <2>1. \A x : Same(c, SendPh(c, x))
      BY <1>2, SamePh DEF OnLink
    <2>2. \A x : OnLink(SendPh(c, x)) /\ SendPh(c, x).retrans_ctr = c.retrans_ctr
      BY <1>2, <2>1, SameInvariant DEF Same, Kept
    <2> QED
      BY <1>2, <2>2 DEF SendRR
  <1> HIDE DEF poll
  <1>6. c.retrans_ctr <= N200 => OnLink(StartT200(poll))
    BY <1>5, TimerSteps DEF OnLink, Settled, Polling, Kept
  <1>7. DlInv(k, failed) /\ (c.retrans_ctr <= N200 => DlInv(k, StartT200(poll)))
    BY <1>3, <1>6, OnLinkOrIdle
  <1> QED
    BY <1>4, <1>7 DEF T200Recovery, poll, failed, vs, c, n

LEMMA T200Invariant ==
    ASSUME NEW k, NEW d, DlInv(k, d), d.t200 # "off"
    PROVE  DlInv(k, T200Cb(d))
  <1> DEFINE s == StopT200(d)
  <1>1. IsDl(s) /\ Settled(s) /\ s.t200 = "off" /\ s.state = d.state
        /\ s.v_send = d.v_send /\ s.tx_hist = d.tx_hist /\ Kept(d, s) /\ s.t203 = d.t203
    <2>1. IsDl(d) /\ Settled(d)
      BY DEF DlInv
    <2> QED
      BY <2>1, TimerSteps, SettledSteps
  <1> HIDE DEF s
  <1>2. CASE d.state \in {"SABM_SENT", "DISC_SENT"}
    <2>1. k = 1 => d.v_send = 0 /\ 0 \in DOMAIN d.tx_hist
      BY <1>2 DEF DlInv, CommandStored
    <2>2. DlInv(k, T200Command(s))
      BY <1>1, <1>2, <2>1, T200CommandInvariant
    <2> QED
      BY <2>2, <1>2 DEF T200Cb, s, Connected
  <1>3. CASE d.state \in Connected
    <2>1. OnLink(s) /\ (s.state = "TIMER_RECOV" => s.retrans_ctr <= N200)
      BY <1>1, <1>3 DEF OnLink, DlInv, Polling, Kept
    <2>2. DlInv(k, T200Recovery(s))
      BY <1>1, <2>1, T200RecoveryInvariant
    <2> QED
      BY <2>2, <1>3 DEF T200Cb, s, Connected
  <1>4. CASE d.state \notin {"SABM_SENT", "DISC_SENT"} \cup Connected
    <2>1. DlInv(k, s)
      BY <1>1, <1>4
         DEF DlInv, TimersUsed, CommandStored, Kept, Polling, Repeating, Connected
    <2> QED
      BY <2>1, <1>4 DEF T200Cb, s
  <1> QED
    BY <1>2, <1>3, <1>4

LEMMA T203Invariant ==
    ASSUME NEW k, NEW d, DlInv(k, d)
    PROVE  DlInv(k, T203Cb(d))
  <1> DEFINE s == StopT203(d)
             n == NewState(s, "TIMER_RECOV")
             c == [n EXCEPT !.retrans_ctr = 0]
             sent == SendRR(c, 1, "cmd")
  <1>1. IsDl(s) /\ s.t203 = FALSE /\ s.state = d.state /\ s.t200 = d.t200
        /\ s.v_send = d.v_send /\ s.tx_hist = d.tx_hist /\ Kept(d, s)
    BY DEF DlInv, StopT203, IsDl, Fields, Kept
  <1> HIDE DEF s
  <1>2. DlInv(k, s) /\ Settled(s)
    BY <1>1 DEF DlInv, TimersUsed, CommandStored, Settled, Polling, Repeating, Kept
  <1>3. IsDl(n) /\ n.state = "TIMER_RECOV" /\ Settled(n)
    <2>1. Settled(n)
      BY <1>1, <1>2, StateSettles
    <2> QED
      BY <1>1, <2>1, StateSteps
  <1> HIDE DEF n
  <1>4. OnLink(c) /\ c.retrans_ctr = 0
    <2>1. IsDl(c) /\ c.state = "TIMER_RECOV" /\ c.retrans_ctr = 0
          /\ c.t203 = n.t203 /\ c.cont_res = n.cont_res /\ c.mode = n.mode
      BY <1>3 DEF IsDl, Fields
    <2> HIDE DEF c
    <2>2. 0 <= N200 /\ 0 <= N200 + 1
      BY ParamAssumption
    <2> QED
      BY <1>3, <2>1, <2>2 DEF OnLink, Settled, Polling, Connected
  <1> HIDE DEF c
  <1>5. OnLink(sent) /\ sent.retrans_ctr = 0
    <2>1. Same(c, sent)
      BY <1>4, SameFrames DEF OnLink
    <2> QED
      BY <1>4, <2>1, SameInvariant DEF Same, Kept
  <1> HIDE DEF sent
  <1>6. OnLink(StartT200(sent))
    <2>1. 0 <= N200 /\ 0 <= N200 + 1
      BY ParamAssumption
    <2> QED
      BY <1>5, <2>1, TimerSteps DEF OnLink, Settled, Polling, Kept
  <1>7. DlInv(k, StartT200(sent))
    BY <1>6, OnLinkOrIdle
  <1> QED
    BY <1>2, <1>7 DEF T203Cb, sent, c, n, s

LEMMA ResetInvariant ==
    ASSUME NEW k, NEW d, DlInv(k, d)
    PROVE  DlInv(k, DlReset(d)) /\ DlInv(k, DlExit(d))
  <1> DEFINE n == NewState(d, "IDLE")
             f == FlushSend(FlushTx(n))
             b == [f EXCEPT !.rcv_buffer = <<>>]
             r == StopT203(StopT200(b))
             x == NewState(r, "NULL")
  <1>1. IsDl(n) /\ n.state = "IDLE" /\ Settled(n)
    <2>1. IsDl(d) /\ Settled(d)
      BY DEF DlInv
    <2>2. Settled(n)
      BY <2>1, StateSettles
    <2> QED
      BY <2>1, <2>2, StateSteps
  <1> HIDE DEF n
  <1>2. IsDl(f) /\ f.state = "IDLE" /\ Settled(f)
    BY <1>1, Flushed
  <1> HIDE DEF f
  <1>3. IsDl(b) /\ b.state = "IDLE" /\ Settled(b)
    BY <1>2 DEF IsDl, Fields, Settled
  <1> HIDE DEF b
  <1> DEFINE h == StopT200(b)
  <1>4. IsDl(h) /\ h.state = "IDLE" /\ h.t200 = "off" /\ Settled(h)
    BY <1>3, TimerSteps, SettledSteps
  <1> HIDE DEF h
  <1>5. IsDl(r) /\ r.state = "IDLE" /\ r.t200 = "off" /\ r.t203 = FALSE /\ Settled(r)
    <2>1. r = StopT203(h)
      BY DEF h
    <2> HIDE DEF r
    <2> QED
      BY <1>4, <2>1, TimerSteps, SettledSteps
  <1> HIDE DEF r
  <1>6. IsDl(x) /\ x.state = "NULL" /\ x.t200 = "off" /\ Settled(x)
    <2>1. Settled(x)
      BY <1>5, StateSettles
    <2> QED
      BY <1>5, <2>1, StateSteps
  <1> HIDE DEF x
  <1>7. DlInv(k, r) /\ DlInv(k, x)
    BY <1>5, <1>6 DEF DlInv, TimersUsed, CommandStored, States, Settled, Polling, Repeating
  <1> QED
    BY <1>7 DEF DlExit, DlReset, x, r, b, f, n

-----------------------------------------------------------------------------
(* L1 -> L2: U frames *)

LEMMA InvSteps ==
    ASSUME NEW k, NEW d, DlInv(k, d), NEW f, NEW x, NEW y
    PROVE  /\ DlInv(k, SendDlSimple(d, x)) /\ DlInv(k, MdlError(d, x))
           /\ DlInv(k, SendUA(d, f, x)) /\ DlInv(k, SendDM(d, f))
  <1>1. IsDl(d)
    BY DEF DlInv
  <1>2. /\ Same(d, SendDlSimple(d, x)) /\ Same(d, MdlError(d, x))
        /\ Same(d, SendUA(d, f, x)) /\ Same(d, SendDM(d, f))
    BY <1>1, SameUp, SameFrames
  <1> QED
    BY <1>2, SameInvariant

LEMMA LinkSteps ==
    ASSUME NEW d, OnLink(d), NEW f, NEW x, NEW y
    PROVE  /\ OnLink(SendDlSimple(d, x)) /\ OnLink(MdlError(d, x))
           /\ OnLink(SendRR(d, x, y)) /\ OnLink(SendREJ(d, x))
           /\ OnLink(AnswerPoll(d, f)) /\ OnLink(StopT200(d)) /\ OnLink(FlushTxQueue(d))
           /\ OnLink(UpdatePendingFrames(d)) /\ OnLink(Reassemble(d, f))
  <1>1. IsDl(d)
    BY DEF OnLink
  <1>2. /\ Same(d, SendDlSimple(d, x)) /\ Same(d, MdlError(d, x))
        /\ Same(d, SendRR(d, x, y)) /\ Same(d, SendREJ(d, x))
        /\ Same(d, AnswerPoll(d, f)) /\ Same(d, FlushTxQueue(d))
        /\ Same(d, UpdatePendingFrames(d)) /\ Same(d, Reassemble(d, f))
    BY <1>1, SameUp, SameFrames, SameBuffers
  <1>3. OnLink(StopT200(d))
    BY <1>1, TimerSteps DEF OnLink, Settled, Polling, Kept
  <1> QED
    BY <1>2, <1>3, SameInvariant

(* The answer and the indication of a release.                              *)
LEMMA Released ==
    ASSUME NEW k, NEW d, IsDl(d), Settled(d), NEW prim
    PROVE  DlInv(k, SendDlSimple(NewState(StopT200(d), "IDLE"), prim))
  <1> DEFINE s == StopT200(d)
             n == NewState(s, "IDLE")
  <1>1. IsDl(s) /\ Settled(s) /\ s.t200 = "off"
    BY Flushed
  <1> HIDE DEF s
  <1>2. Idle(n)
    BY <1>1, GoIdle
  <1> HIDE DEF n
  <1>3. DlInv(k, n)
    BY <1>2, OnLinkOrIdle
  <1> QED
    BY <1>3, InvSteps DEF n, s

(* The same with the buffers flushed in between.                            *)
LEMMA FlushedAndReleased ==
    ASSUME NEW k, NEW d, IsDl(d), Settled(d), NEW prim
    PROVE  DlInv(k, SendDlSimple(NewState(FlushSend(FlushTx(StopT200(d))), "IDLE"), prim))
  <1> DEFINE s == StopT200(d)
             f == FlushSend(FlushTx(s))
             n == NewState(f, "IDLE")
  <1>1. IsDl(s) /\ Settled(s) /\ s.t200 = "off"
    BY Flushed
  <1> HIDE DEF s
  <1>2. IsDl(f) /\ Settled(f) /\ f.t200 = "off"
    BY <1>1, Flushed
  <1> HIDE DEF f
  <1>3. Idle(n)
    BY <1>2, GoIdle
  <1> HIDE DEF n
  <1>4. DlInv(k, n)
    BY <1>3, OnLinkOrIdle
  <1> QED
    BY <1>4, InvSteps DEF n, f, s

LEMMA EstablishOnLink ==
    ASSUME NEW d, IsDl(d), Settled(d)
    PROVE  /\ OnLink(Establish(d))
           /\ Establish(d).mode = d.mode /\ Establish(d).state = "MF_EST"
  <1> DEFINE e == FlushHist([d EXCEPT !.v_send = 0, !.v_recv = 0, !.v_ack = 0])
             n == NewState(e, "MF_EST")
  <1>1. IsDl(e) /\ Settled(e) /\ e.mode = d.mode
    BY DEF FlushHist, IsDl, Fields, Settled, Kept
  <1> HIDE DEF e
  <1>2. OnLink(n)
    BY <1>1, EnterMfEst
  <1>3. n.mode = d.mode
    BY <1>1, StateKeeps
  <1>4. n.state = "MF_EST"
    BY <1>1, StateSteps
  <1> QED
    BY <1>2, <1>3, <1>4 DEF Establish, e

LEMMA SABMCommandInvariant ==
    ASSUME NEW k, NEW d, DlInv(k, d), NEW f
    PROVE  DlInv(k, RxSABMCommand(d, f))
  <1>0. IsDl(d) /\ Settled(d)
    BY DEF DlInv, TimersUsed, Settled, Kept, Polling, Repeating
  <1>1. DlInv(k, SendDM(MdlError(d, "SABM_INFO_NOTALL"), f))
    <2> DEFINE m == MdlError(d, "SABM_INFO_NOTALL")
    <2>1. DlInv(k, m)
      BY InvSteps
    <2> HIDE DEF m
    <2> QED
      BY <2>1, InvSteps DEF m
  <1>2. DlInv(k, MdlError(d, "SABM_MF")) /\ DlInv(k, SendUA(d, f, f.info))
    BY InvSteps
  <1>3. d.state = "DISC_SENT" => DlInv(k, SendDlSimple(StopT200(SendDM(d, f)), "EST_IND"))
    <2> DEFINE m == SendDM(d, f)
               s == StopT200(m)
    <2> SUFFICES ASSUME d.state = "DISC_SENT" PROVE DlInv(k, SendDlSimple(s, "EST_IND"))
      OBVIOUS
    <2>1. DlInv(k, m) /\ m.state = "DISC_SENT"
      BY <1>0, InvSteps, SameFrames DEF Same, Kept
    <2> HIDE DEF m
    <2>2. IsDl(s) /\ s.state = "DISC_SENT" /\ s.t200 = "off" /\ s.t203 = m.t203
          /\ s.v_send = m.v_send /\ s.tx_hist = m.tx_hist /\ Kept(m, s)
      BY <2>1, TimerSteps DEF DlInv
    <2> HIDE DEF s
    <2>3. DlInv(k, s)
      BY <2>1, <2>2
         DEF DlInv, TimersUsed, CommandStored, Settled, Polling, Repeating, Kept
    <2> QED
      BY <2>3, InvSteps
  <1>4. DlInv(k, SendUA(IF 0 \in DOMAIN d.tx_hist /\ d.tx_hist[0].info # 0
                     THEN MdlError(d, "SABM_INFO_NOTALL") ELSE d, f, f.info))
    <2> DEFINE m == IF 0 \in DOMAIN d.tx_hist /\ d.tx_hist[0].info # 0
                    THEN MdlError(d, "SABM_INFO_NOTALL") ELSE d
    <2>1. DlInv(k, m)
      BY InvSteps
    <2> HIDE DEF m
    <2>2. DlInv(k, SendUA(m, f, f.info))
      BY <2>1, InvSteps
    <2> QED
      BY <2>2 DEF m
  <1> DEFINE stopped == IF d.state = "TIMER_RECOV" THEN StopT200(d) ELSE d
             ua == SendUA(stopped, f, f.info)
             est == Establish(ua)
             kept == [est EXCEPT !.cont_res =
                        IF d.mode = "NETWORK" /\ f.info # 0 THEN f.info ELSE @]
  <1>5. IsDl(stopped) /\ Settled(stopped) /\ stopped.mode = d.mode
    BY <1>0, TimerSteps, SettledSteps DEF Kept
  <1> HIDE DEF stopped
  <1>6. IsDl(ua) /\ Settled(ua) /\ ua.mode = d.mode
    <2>1. Same(stopped, ua)
      BY <1>5, SameFrames
    <2> HIDE DEF ua
    <2> QED
      BY <1>5, <2>1, SameInvariant DEF Same, Kept
  <1> HIDE DEF ua
  <1>7. OnLink(est) /\ est.mode = d.mode /\ est.state = "MF_EST"
    BY <1>6, EstablishOnLink
  <1> HIDE DEF est
  <1>8. OnLink(kept)
    BY <1>7 DEF OnLink, IsDl, Fields, Settled, Polling, Kept
  <1> HIDE DEF kept
  <1>9. DlInv(k, SendDlSimple(kept, "EST_IND"))
    BY <1>8, OnLinkOrIdle, InvSteps
  <1>10. DlInv(k, SendDlSimple([Establish(SendUA(IF d.state = "TIMER_RECOV"
                                                THEN StopT200(d) ELSE d, f, f.info))
                        EXCEPT !.cont_res =
                          IF d.mode = "NETWORK" /\ f.info # 0 THEN f.info ELSE @],
                        "EST_IND"))
    BY <1>9 DEF kept, est, ua, stopped
  <1> QED
    BY <1>1, <1>2, <1>3, <1>4, <1>10 DEF RxSABMCommand

LEMMA SABMInvariant ==
    ASSUME NEW k, NEW d, DlInv(k, d), NEW f
    PROVE  DlInv(k, RxSABM(d, f))
  <1> DEFINE c == [d EXCEPT !.seq_err_cond = 0]
  <1>1. DlInv(k, c)
    <2>1. Same(d, c)
      BY DEF DlInv, Same, IsDl, Fields, Kept
    <2> HIDE DEF c
    <2> QED
      BY <2>1, SameInvariant
  <1> HIDE DEF c
  <1>2. (\A x : DlInv(k, MdlError(c, x))) /\ DlInv(k, RxSABMCommand(c, f))
    BY <1>1, InvSteps, SABMCommandInvariant
  <1> QED
    BY <1>2 DEF RxSABM, c

LEMMA DMInvariant ==
    ASSUME NEW k, NEW d, DlInv(k, d), NEW f
    PROVE  DlInv(k, RxDM(d, f))
  <1>1. IsDl(d) /\ Settled(d)
    BY DEF DlInv, TimersUsed, Settled, Kept, Polling, Repeating
  <1>2. \A x : DlInv(k, MdlError(d, x))
    BY InvSteps
  <1>3. \A x : DlInv(k, SendDlSimple(NewState(StopT200(d), "IDLE"), x))
    BY <1>1, Released
  <1>4. \A x : DlInv(k, SendDlSimple(NewState(FlushSend(FlushTx(StopT200(d))), "IDLE"), x))
    BY <1>1, FlushedAndReleased
  <1> QED
    BY <1>2, <1>3, <1>4 DEF RxDM

LEMMA UIInvariant ==
    ASSUME NEW k, NEW d, DlInv(k, d), NEW f
    PROVE  DlInv(k, RxUI(d, f))
  <1> DEFINE e == [d EXCEPT !.up = Append(@, [prim |-> "UNIT_DATA_IND", info |-> f.info])]
  <1>1. Same(d, e)
    BY DEF DlInv, Same, IsDl, Fields, Kept
  <1> HIDE DEF e
  <1>2. DlInv(k, e) /\ \A x : DlInv(k, MdlError(d, x))
    BY <1>1, SameInvariant, InvSteps
  <1> QED
    BY <1>2 DEF RxUI, e

(* A DISC that is refused leaves the state with an empty history.           *)
LEMMA DISCInvariant ==
    ASSUME NEW k, NEW d, DlInv(k, d), NEW f,
           k = 1 => f.cr # "resp" /\ f.info = 0
    PROVE  DlInv(k, RxDISC(d, f))
  <1> DEFINE fl == FlushSend(FlushTx(d))
             c == [fl EXCEPT !.seq_err_cond = 0]
             dm == SendDM(c, f)
             ua == SendUA(c, f, 0)
  <1>0. IsDl(d) /\ Settled(d)
    BY DEF DlInv
  <1>1. IsDl(fl) /\ Settled(fl) /\ fl.state = d.state /\ fl.t200 = d.t200
        /\ fl.t203 = d.t203 /\ Kept(d, fl)
    <2>1. IsDl(fl) /\ Settled(fl) /\ fl.state = d.state /\ fl.t200 = d.t200
      BY <1>0, Flushed
    <2>2. fl.t203 = d.t203 /\ Kept(d, fl)
      BY <1>0 DEF FlushSend, FlushTx, FlushHist, FlushTxQueue, IsDl, Fields, Kept
    <2> QED
      BY <2>1, <2>2
  <1> HIDE DEF fl
  <1>2. IsDl(c) /\ Settled(c) /\ c.state = d.state /\ c.t200 = d.t200
        /\ c.t203 = d.t203 /\ Kept(d, c)
    BY <1>1 DEF IsDl, Fields, Settled, Kept
  <1> HIDE DEF c
  <1>3. Same(c, dm) /\ Same(c, ua)
    BY <1>2, SameFrames
  <1> HIDE DEF dm, ua
  <1>4. IsDl(dm) /\ Settled(dm) /\ IsDl(ua) /\ Settled(ua)
    BY <1>2, <1>3, SameInvariant
  <1>5. \A x : /\ DlInv(k, SendDlSimple(NewState(StopT200(dm), "IDLE"), x))
               /\ DlInv(k, SendDlSimple(NewState(StopT200(ua), "IDLE"), x))
    BY <1>4, Released
  <1>6. k # 1 \/ d.state \in {"IDLE", "NULL"} => DlInv(k, c)
    BY <1>2 DEF DlInv, TimersUsed, Settled, CommandStored, Kept, Polling, Repeating
  <1>7. d.state \in {"IDLE", "NULL"} => DlInv(k, dm) /\ DlInv(k, ua)
    BY <1>6, <1>3, SameInvariant
  <1>8. k # 1 => \A x : DlInv(k, MdlError(c, x))
    BY <1>6, InvSteps
  <1>9. d.state \in States
    BY DEF DlInv
  <1>10. DlInv(k, RxDISCCommand(c, f))
    BY <1>2, <1>5, <1>7, <1>9 DEF RxDISCCommand, dm, ua, States, Connected
  <1> QED
    BY <1>8, <1>10 DEF RxDISC, c, fl

LEMMA UAInvariant ==
    ASSUME NEW k, NEW d, DlInv(k, d), NEW f
    PROVE  DlInv(k, RxUA(d, f))
  <1>1. IsDl(d) /\ Settled(d)
    BY DEF DlInv, TimersUsed, Settled, Kept, Polling, Repeating
  <1>2. \A x : DlInv(k, MdlError(d, x))
    BY InvSteps
  <1>3. \A x : DlInv(k, SendDlSimple(NewState(FlushSend(FlushTx(StopT200(d))), "IDLE"), x))
    BY <1>1, FlushedAndReleased
  <1>4. DlInv(k, SendDlSimple(SendI(Establish(StopT200(d))), "EST_CNF"))
    <2> DEFINE s == StopT200(d)
               est == Establish(s)
               sent == SendI(est)
    <2>1. IsDl(s) /\ Settled(s)
      BY <1>1, Flushed
    <2> HIDE DEF s
    <2>2. OnLink(est)
      BY <2>1, EstablishOnLink
    <2> HIDE DEF est
    <2>3. DlInv(k, sent)
      BY <2>2, OnLinkSendI, OnLinkOrIdle
    <2> HIDE DEF sent
    <2> QED
      BY <2>3, InvSteps DEF sent, est, s
  <1> QED
    BY <1>2, <1>3, <1>4 DEF RxUA, RxUAFinal

LEMMA FRMRInvariant ==
    ASSUME NEW k, NEW d, DlInv(k, d)
    PROVE  DlInv(k, RxFRMR(d))
  <1> DEFINE m == MdlError(d, "FRMR")
  <1>1. DlInv(k, m)
    BY InvSteps
  <1> HIDE DEF m
  <1>2. DlInv(k, EstReq(m, 0))
    BY <1>1, EstReqInvariant DEF DlInv, TimersUsed, Settled, Kept, Polling, Repeating
  <1> QED
    BY <1>1, <1>2 DEF RxFRMR, m

LEMMA UFrameInvariant ==
    ASSUME NEW k, NEW d, DlInv(k, d), NEW f \in UFrames, k = 1 => f \notin RefusedDISCs
    PROVE  DlInv(k, RxU(d, f))
  <1>1. /\ f.s_u \in {"SABM", "DISC", "UI", "UA", "DM", "FRMR"}
        /\ k = 1 /\ f.s_u = "DISC" => f.cr # "resp" /\ f.info = 0
    BY DEF UFrames, RefusedDISCs
  <1>2. /\ DlInv(k, RxSABM(d, f)) /\ DlInv(k, RxDM(d, f)) /\ DlInv(k, RxUI(d, f))
        /\ DlInv(k, RxUA(d, f)) /\ DlInv(k, RxFRMR(d))
    BY SABMInvariant, DMInvariant, UIInvariant, UAInvariant, FRMRInvariant
  <1>3. f.s_u = "DISC" => DlInv(k, RxDISC(d, f))
    BY <1>1, DISCInvariant
  <1> QED
    BY <1>1, <1>2, <1>3 DEF RxU

-----------------------------------------------------------------------------
(* L1 -> L2: S frames *)

LEMMA RROnLink ==
    ASSUME NEW d, OnLink(d), NEW f
    PROVE  OnLink(RxRR(d, f))
  <1> DEFINE a == Acknowledge(d, f.nr, FALSE)
             b == [a EXCEPT !.v_send = f.nr]
             s == StopT200(b)
             e == IF Final(d, f) THEN NewState(s, "MF_EST") ELSE AnswerPoll(a, f)
  <1>1. OnLink(a)
    BY OnLinkAcknowledge
  <1> HIDE DEF a
  <1>2. OnLink(b)
    BY <1>1 DEF OnLink, IsDl, Fields, Settled, Polling, Kept
  <1> HIDE DEF b
  <1>3. OnLink(s)
    BY <1>2, LinkSteps
  <1> HIDE DEF s
  <1>4. OnLink(NewState(s, "MF_EST"))
    BY <1>3, EnterMfEst DEF OnLink
  <1>5. OnLink(e)
    BY <1>1, <1>4, LinkSteps
  <1> HIDE DEF e
  <1> QED
    BY <1>5, OnLinkSendI DEF RxRR, e, s, b, a

LEMMA RNROnLink ==
    ASSUME NEW d, OnLink(d), NEW f
    PROVE  OnLink(RxRNR(d, f))
  <1> DEFINE b == Acknowledge(d, f.nr, FALSE)
             busy == [b EXCEPT !.peer_busy = TRUE]
             fl == FlushTxQueue(busy)
             a == StopT200(fl)
             n == NewState(a, "MF_EST")
             back == [n EXCEPT !.v_send = f.nr]
             e == IF Final(d, f) THEN back
                  ELSE IF f.cr = "cmd" /\ f.pf = 1 THEN SendRR(a, 1, "resp") ELSE a
  <1>1. OnLink(b)
    BY OnLinkAcknowledge
  <1> HIDE DEF b
  <1>2. OnLink(busy)
    BY <1>1 DEF OnLink, IsDl, Fields, Settled, Polling, Kept
  <1> HIDE DEF busy
  <1>3. OnLink(fl)
    BY <1>2, LinkSteps
  <1> HIDE DEF fl
  <1>4. OnLink(a)
    BY <1>3, LinkSteps
  <1> HIDE DEF a
  <1>5. OnLink(n)
    BY <1>4, EnterMfEst DEF OnLink
  <1> HIDE DEF n
  <1>6. OnLink(back)
    BY <1>5 DEF OnLink, IsDl, Fields, Settled, Polling, Kept
  <1> HIDE DEF back
  <1>7. OnLink(e)
    BY <1>4, <1>6, LinkSteps
  <1> HIDE DEF e
  <1> QED
    BY <1>7, OnLinkSendI DEF RxRNR, e, back, n, a, fl, busy, b

LEMMA REJOnLink ==
    ASSUME NEW d, OnLink(d), NEW f
    PROVE  OnLink(RxREJ(d, f))
  <1> DEFINE b == Acknowledge(d, f.nr, TRUE)
             fl == FlushTxQueue(b)
             a == GoBack(b, f.nr)
             s == IF d.state # "TIMER_RECOV" THEN StopT200(a) ELSE a
             answered == AnswerPoll(s, f)
             final == NewState(StopT200(a), "MF_EST")
             e == IF Final(d, f) THEN final
                  ELSE IF d.state # "TIMER_RECOV" /\ f.cr = "resp" /\ f.pf = 1
                  THEN MdlError(answered, "UNSOL_SPRV_RESP") ELSE answered
  <1>1. OnLink(b)
    BY OnLinkAcknowledge
  <1> HIDE DEF b
  <1>2. OnLink(fl)
    BY <1>1, LinkSteps
  <1>3. OnLink(a)
    <2>1. a = [fl EXCEPT !.peer_busy = FALSE, !.v_send = f.nr, !.v_ack = f.nr]
      BY DEF GoBack
    <2> HIDE DEF fl, a
    <2> QED
      BY <1>2, <2>1 DEF OnLink, IsDl, Fields, Settled, Polling, Kept
  <1> HIDE DEF a
  <1>4. OnLink(StopT200(a)) /\ OnLink(s)
    BY <1>3, LinkSteps
  <1> HIDE DEF s
  <1>5. OnLink(final)
    BY <1>4, EnterMfEst DEF OnLink
  <1> HIDE DEF final
  <1>6. OnLink(answered)
    BY <1>4, LinkSteps
  <1> HIDE DEF answered
  <1>7. OnLink(e)
    BY <1>5, <1>6, LinkSteps
  <1> HIDE DEF e
  <1>8. OnLink(SendI(e))
    BY <1>7, OnLinkSendI
  <1> QED
    BY <1>8 DEF RxREJ, e, final, answered, s, a, b

LEMMA SFrameInvariant ==
    ASSUME NEW k, NEW d, DlInv(k, d), d.state # "NULL", NEW f \in SFrames
    PROVE  DlInv(k, RxS(d, f))
  <1> DEFINE c == IF f.cr = "resp" /\ f.pf = 1 /\ d.state # "TIMER_RECOV"
                  THEN MdlError(d, "UNSOL_SPRV_RESP") ELSE d
  <1>1. DlInv(k, c) /\ c.state = d.state
    BY InvSteps, SameUp DEF DlInv, Same, Kept
  <1> HIDE DEF c
  <1>2. DlInv(k, SendDM(c, f))
    BY <1>1, InvSteps
  <1>3. d.state \in Connected => OnLink(c)
    BY <1>1 DEF DlInv, OnLink, TimersUsed, Settled, Polling, Kept, Repeating
  <1>4. d.state \in Connected => DlInv(k, RxRR(c, f)) /\ DlInv(k, RxRNR(c, f)) /\ DlInv(k, RxREJ(c, f))
    BY <1>3, RROnLink, RNROnLink, REJOnLink, OnLinkOrIdle
  <1>5. f.s_u \in {"RR", "RNR", "REJ"}
    BY DEF SFrames
  <1>6. d.state \in {"IDLE", "SABM_SENT", "DISC_SENT"} \cup Connected
    BY DEF DlInv, States, Connected
  <1> QED
    BY <1>1, <1>2, <1>4, <1>5, <1>6 DEF RxS, c, Connected

-----------------------------------------------------------------------------
(* L1 -> L2: I frames *)

LEMMA OutOfSequenceOnLink ==
    ASSUME NEW d, OnLink(d), NEW f
    PROVE  OnLink(RxIOutOfSequence(d, f))
  <1> DEFINE one == [d EXCEPT !.seq_err_cond = 1]
             two == [d EXCEPT !.seq_err_cond = 2]
             rej == IF d.seq_err_cond # 1 \/ ~Drop2ndRej THEN SendREJ(one, f.pf) ELSE two
             a == Acknowledge(rej, f.nr, FALSE)
             e == IF NrSequenceError(rej, f.nr) THEN MdlError(a, "SEQ_ERR") ELSE a
  <1>1. OnLink(one) /\ OnLink(two)
    BY DEF OnLink, IsDl, Fields, Settled, Polling, Kept
  <1> HIDE DEF one, two
  <1>2. OnLink(rej)
    BY <1>1, LinkSteps
  <1> HIDE DEF rej
  <1>3. OnLink(a)
    BY <1>2, OnLinkAcknowledge
  <1> HIDE DEF a
  <1>4. OnLink(e)
    BY <1>3, LinkSteps
  <1> HIDE DEF e
  <1> QED
    BY <1>4, OnLinkSendI DEF RxIOutOfSequence, e, a, rej, one, two

LEMMA AnswerOnLink ==
    ASSUME NEW d, OnLink(d), NEW f, NEW inQueue
    PROVE  OnLink(RxIAnswer(d, f, inQueue))
  <1> DEFINE s == SendI(d)
             rr == SendRR(d, 1, "resp")
  <1>1. OnLink(s)
    BY OnLinkSendI
  <1> HIDE DEF s
  <1>2. OnLink(SendRR(s, 0, "resp")) /\ OnLink(rr)
    BY <1>1, LinkSteps
  <1> HIDE DEF rr
  <1>3. OnLink(SendI(rr))
    BY <1>2, OnLinkSendI
  <1> QED
    BY <1>1, <1>2, <1>3 DEF RxIAnswer, s, rr

LEMMA InSequenceInvariant ==
    ASSUME NEW k, NEW d, OnLink(d), NEW f, NEW react, react.prim \in {"none", "exit"}
    PROVE  DlInv(k, RxIInSequence(d, f, react))
  <1> DEFINE c == [d EXCEPT !.seq_err_cond = 0, !.v_recv = IncMod(@)]
             r == UpdatePendingFrames(c)
             a == Acknowledge(r, f.nr, FALSE)
             delivered == Reassemble(a, f)
             reacted == CASE f.more \/ react.prim = "none" -> delivered
                          [] ~f.more /\ react.prim = "exit" -> DlExit(delivered)
                          [] OTHER -> RecvDlsap(delivered, react)
             back == ForgetBuffer(reacted, f)
             e == IF NrSequenceError(r, f.nr) THEN MdlError(back, "SEQ_ERR") ELSE back
  <1>1. OnLink(c)
    BY DEF OnLink, IsDl, Fields, Settled, Polling, Kept
  <1> HIDE DEF c
  <1>2. OnLink(r)
    BY <1>1, LinkSteps
  <1> HIDE DEF r
  <1>3. OnLink(a)
    BY <1>2, OnLinkAcknowledge
  <1> HIDE DEF a
  <1>4. OnLink(delivered) /\ DlInv(k, delivered)
    BY <1>3, LinkSteps, OnLinkOrIdle
  <1>5. DlInv(k, DlExit(delivered)) /\ DlExit(delivered).state = "NULL"
    <2> HIDE DEF delivered
    <2>1. DlInv(k, DlExit(delivered))
      BY <1>4, ResetInvariant
    <2>2. IsDl(DlReset(delivered))
      BY <1>4, ResetInvariant DEF DlInv
    <2>3. NewState(DlReset(delivered), "NULL").state = "NULL"
      BY <2>2, StateSteps
    <2> QED
      BY <2>1, <2>3 DEF DlExit
  <1> HIDE DEF delivered
  <1>6. OnLink(reacted) \/ (DlInv(k, reacted) /\ reacted.state = "NULL")
    BY <1>4, <1>5
  <1> HIDE DEF reacted
  <1>10. OnLink(back) \/ (DlInv(k, back) /\ back.state = "NULL")
    <2>1. Same(reacted, back)
      BY <1>6, SameBuffers DEF OnLink, DlInv
    <2> QED
      BY <1>6, <2>1, SameInvariant DEF Same
  <1> HIDE DEF back
  <1>7. back.state # "NULL" => OnLink(e)
    BY <1>10, LinkSteps
  <1> HIDE DEF e
  <1>8. back.state # "NULL" => DlInv(k, RxIAnswer(e, f, IFrameInQueue(r)))
    BY <1>7, AnswerOnLink, OnLinkOrIdle
  <1>9. back.state = "NULL" => DlInv(k, back)
    BY <1>10, OnLinkOrIdle
  <1> QED
    BY <1>8, <1>9 DEF RxIInSequence, e, back, reacted, delivered, a, r, c

LEMMA IFrameInvariant ==
    ASSUME NEW k, NEW d, DlInv(k, d), d.state # "NULL", NEW f \in IFrames,
           NEW react, react.prim \in {"none", "exit"}
    PROVE  DlInv(k, RxI(d, f, react))
  <1>1. f.cr \in {"cmd", "resp"}
        /\ DlInv(k, MdlError(d, "FRM_UNIMPL")) /\ DlInv(k, MdlError(d, "IFRM_INC_LEN"))
    BY InvSteps DEF IFrames, CmdResp
  <1>2. d.state \in {"IDLE", "SABM_SENT", "DISC_SENT"} \cup Connected
    BY DEF DlInv, States, Connected
  <1>3. DlInv(k, SendDM(d, f))
    BY InvSteps
  <1>4. d.state \in Connected =>
          DlInv(k, RxIInSequence(d, f, react)) /\ DlInv(k, RxIOutOfSequence(d, f))
    <2> SUFFICES ASSUME d.state \in Connected
                 PROVE  DlInv(k, RxIInSequence(d, f, react)) /\ DlInv(k, RxIOutOfSequence(d, f))
      OBVIOUS
    <2>1. OnLink(d)
      BY DEF DlInv, OnLink, TimersUsed, Settled, Polling, Kept, Repeating
    <2> QED
      BY <2>1, InSequenceInvariant, OutOfSequenceOnLink, OnLinkOrIdle
  <1> QED
    BY <1>1, <1>2, <1>3, <1>4 DEF RxI, Connected

-----------------------------------------------------------------------------
(* The specification *)

LEMMA Initially == Init => DlInv(0, dl)
  <1> SUFFICES ASSUME dl = DlInit(Mode) PROVE DlInv(0, dl)
    BY DEF Init
  <1>1. IsDl(dl) /\ dl.state = "IDLE" /\ dl.t200 = "off" /\ dl.t203 = FALSE
        /\ dl.cont_res = 0 /\ dl.retrans_ctr = 0
    BY DEF DlInit, IsDl, Fields
  <1> QED
    BY <1>1 DEF DlInv, TimersUsed, CommandStored, States, Settled, Polling, Repeating

LEMMA NowInvariant ==
    ASSUME NEW k, DlInv(k, dl)
    PROVE  DlInv(k, Now) /\ Now.state = dl.state
  <1>1. Same(dl, Now)
    BY DEF Now, DlInv, Same, IsDl, Fields, Kept
  <1> QED
    BY <1>1, SameInvariant DEF Same, Kept

(* Every step, of L3, of L1 or of a timer, keeps the invariant, and the     *)
(* command unless the step is a DISC that is refused.                       *)
LEMMA StepInvariant ==
    ASSUME NEW k \in {0, 1}, DlInv(k, dl), [Next]_vars,
           k = 1 => ~\E f \in RefusedDISCs : Receive(f)
    PROVE  DlInv(k, dl')
  <1>0. DlInv(k, Now) /\ Now.state = dl.state /\ DlInv(k, DlExit(Now))
    <2>1. DlInv(k, Now) /\ Now.state = dl.state
      BY NowInvariant
    <2> QED
      BY <2>1, ResetInvariant
  <1> USE <1>0
  <1>1. CASE \E p \in Primitives : Request(p)
    BY <1>1, RecvDlsapInvariant DEF Request
  <1>2. CASE \E f \in UFrames \cup SFrames \cup IFrames : Receive(f)
    <2> DEFINE none == [prim |-> "none"]
    <2>1. PICK f \in UFrames \cup SFrames \cup IFrames : Receive(f)
      BY <1>2
    <2>2. dl.state # "NULL" /\ (dl' = PhDataInd(Now, f, none) \/ dl' = DlExit(Now))
      BY <2>1 DEF Receive
    <2>3. none.prim \in {"none", "exit"}
      OBVIOUS
    <2> HIDE DEF none
    <2>4. CASE f \in UFrames
      <3>1. f.format = "U"
        BY <2>4 DEF UFrames
      <3>2. DlInv(k, RxU(Now, f))
        BY <2>1, <2>4, UFrameInvariant
      <3> QED
        BY <2>2, <3>1, <3>2 DEF PhDataInd
    <2>5. CASE f \in SFrames
      <3>1. f.format = "S"
        BY <2>5 DEF SFrames
      <3>2. DlInv(k, RxS(Now, f))
        BY <2>2, <2>5, SFrameInvariant
      <3> QED
        BY <2>2, <3>1, <3>2 DEF PhDataInd
    <2>6. CASE f \in IFrames
      <3>1. f.format = "I"
        BY <2>6 DEF IFrames
      <3>2. DlInv(k, RxI(Now, f, none))
        BY <2>2, <2>3, <2>6, IFrameInvariant
      <3> QED
        BY <2>2, <3>1, <3>2 DEF PhDataInd
    <2> QED
      BY <2>1, <2>4, <2>5, <2>6
  <1>3. CASE \E f \in IFrames : ReceiveAndExit(f)
    <2> DEFINE exit == [prim |-> "exit"]
    <2>1. PICK f \in IFrames : ReceiveAndExit(f)
      BY <1>3
    <2>2. dl.state # "NULL" /\ dl' = PhDataInd(Now, f, exit)
      BY <2>1 DEF ReceiveAndExit
    <2>3. exit.prim \in {"none", "exit"}
      OBVIOUS
    <2> HIDE DEF exit
    <2>4. DlInv(k, RxI(Now, f, exit))
      BY <2>2, <2>3, IFrameInvariant
    <2>5. f.format = "I"
      BY DEF IFrames
    <2> QED
      BY <2>2, <2>4, <2>5 DEF PhDataInd
  <1>4. CASE T200Expiry
    <2>1. Now.t200 # "off"
      BY <1>4 DEF T200Expiry, Now, DlInv, IsDl, Fields
    <2>2. DlInv(k, T200Cb(Now))
      BY <2>1, T200Invariant
    <2> QED
      BY <1>4, <2>2 DEF T200Expiry
  <1>5. CASE T203Expiry
    BY <1>5, T203Invariant DEF T203Expiry
  <1>6. CASE Reset \/ Exit
    BY <1>6, ResetInvariant DEF Reset, Exit
  <1>7. CASE UNCHANGED vars
    BY <1>7 DEF vars
  <1>8. CASE \E c \in MalformedCauses : ReceiveMalformed(c)
    BY <1>8, InvSteps DEF ReceiveMalformed
  <1> QED
    BY <1>1, <1>2, <1>3, <1>4, <1>5, <1>6, <1>7, <1>8 DEF Next

(* Whatever L3 asks and whatever frames L1 delivers, every state of the     *)
(* datalink satisfies the invariant.                                        *)
THEOREM DatalinkInvariant == Spec => []DlInv(0, dl)
  <1>1. DlInv(0, dl) /\ [Next]_vars => DlInv(0, dl)'
    BY StepInvariant
  <1> QED
    BY <1>1, Initially, PTL DEF Spec

(* T203 runs in MF_EST only, T200 neither in IDLE nor in NULL: the          *)
(* unexpected-state branches of lapd_t203_cb() and lapd_t200_cb() are dead. *)
THEOREM TimersMatchStateHolds == Spec => []TimersMatchState
  <1>1. DlInv(0, dl) => TimersMatchState
    BY DEF DlInv, TimersMatchState
  <1> QED
    BY <1>1, DatalinkInvariant, PTL

(* For every size of the history and the window, and whatever L3 asks and   *)
(* L1 delivers, the command that lapd_send_resend() and lapd_rx_u_ua() read *)
(* untested is lost in one way only: in lapd_rx_u_disc(), which flushes the *)
(* history before it refuses the DISC.                                      *)
THEOREM ResendIndexHolds == Spec => ResendIndex
  <1> DEFINE refused == \E f \in RefusedDISCs : Receive(f)
  <1>1. DlInv(0, dl) /\ [Next]_vars =>
          [CommandStored(dl) => CommandStored(dl)' \/ refused]_vars
    <2> SUFFICES ASSUME DlInv(0, dl), [Next]_vars, CommandStored(dl), ~refused
                 PROVE  CommandStored(dl)'
      OBVIOUS
    <2>1. DlInv(1, dl)
      BY DEF DlInv
    <2>2. DlInv(1, dl')
      BY <2>1, StepInvariant
    <2> QED
      BY <2>2 DEF DlInv
  <1> QED
    BY <1>1, DatalinkInvariant, PTL DEF Spec, ResendIndex

(* T200 guards an SABM for as long as it is awaited: a datalink cannot hang *)
(* in SABM_SENT, whatever the peer sends.                                   *)
THEOREM SabmGuardedHolds == Spec => []SabmGuarded
  <1>1. DlInv(0, dl) => SabmGuarded
    BY DEF DlInv, SabmGuarded
  <1> QED
    BY <1>1, DatalinkInvariant, PTL

(* The contention resolution data of the network side is gone as soon as    *)
(* multiple frame operation is left, and the user side never has any:       *)
(* lapd_rx_u_sabm() compares it with an SABM of this establishment only.    *)
THEOREM ContentionEndsHolds == Spec => []ContentionEnds
  <1>1. DlInv(0, dl) => ContentionEnds
    BY DEF DlInv, Settled, ContentionEnds
  <1> QED
    BY <1>1, DatalinkInvariant, PTL

(* N200 bounds the repetitions of a command and of a poll, whatever the     *)
(* peer answers in between: retrans_ctr is never above the limit while      *)
(* T200 may still repeat.                                                   *)
THEOREM RetransmissionsBoundedHolds == Spec => []RetransmissionsBounded
  <1>1. DlInv(0, dl) => RetransmissionsBounded
    BY DEF DlInv, Polling, Repeating, RetransmissionsBounded
  <1> QED
    BY <1>1, DatalinkInvariant, PTL

-----------------------------------------------------------------------------
(* What one datalink sends and tells.  The invariant gives the state that a *)
(* handler starts in; these proofs follow the outputs of the handler to its *)
(* end.                                                                     *)

(* The primitives that tell L3 the state of the link.                       *)
LinkPrims == {"EST_CNF", "EST_IND", "REL_IND", "REL_CNF"}

IsSeq(s) == \E S : s \in Seq(S)
Values(s) == {s[n] : n \in DOMAIN s}

(* So far no handler of this step has sent an I frame nor told L3 of the    *)
(* link.                                                                    *)
Silent(d) ==
    /\ IsDl(d) /\ IsSeq(d.ph) /\ IsSeq(d.up)
    /\ \A f \in Values(d.ph) : f.format # "I"
    /\ \A u \in Values(d.up) : u.prim \notin LinkPrims

(* I frames may have been sent, by lapd_send_i() only.                      *)
Sending(d) ==
    /\ IsDl(d) /\ IsSeq(d.ph) /\ IsSeq(d.up)
    /\ \A f \in Values(d.ph) : f.format = "I" => d.state = "MF_EST" /\ ~d.peer_busy
    /\ \A u \in Values(d.up) : u.prim \notin LinkPrims

(* What the two properties say, of one datalink.                            *)
Honest(d) ==
    /\ \A f \in Values(d.ph) : f.format = "I" =>
          /\ d.state \in Connected
          /\ d.peer_busy \/ d.state = "TIMER_RECOV" => f.pf = 1
    /\ \A u \in Values(d.up) :
          /\ u.prim = "EST_CNF" => d.state = "MF_EST"
          /\ u.prim = "EST_IND" => d.state \in {"MF_EST", "DISC_SENT"}
          /\ u.prim \in {"REL_IND", "REL_CNF"} => d.state = "IDLE"

LEMMA Appended ==
    ASSUME NEW s, IsSeq(s), NEW x
    PROVE  IsSeq(Append(s, x)) /\ Values(Append(s, x)) = Values(s) \cup {x}
  <1>1. PICK S : s \in Seq(S)
    BY DEF IsSeq
  <1>2. s \in Seq(S \cup {x})
    BY <1>1
  <1> DEFINE t == Append(s, x)
  <1>3. t \in Seq(S \cup {x})
    BY <1>2
  <1>4. /\ Len(s) \in Nat /\ DOMAIN s = 1..Len(s) /\ DOMAIN t = 1..(Len(s) + 1)
        /\ \A n \in 1..Len(s) : t[n] = s[n]
        /\ t[Len(s) + 1] = x
    BY <1>2
  <1> HIDE DEF t
  <1>5. Values(t) = Values(s) \cup {x}
    <2>1. \A n \in DOMAIN t : n \in DOMAIN s \/ n = Len(s) + 1
      BY <1>4
    <2>2. \A n \in DOMAIN s : n \in DOMAIN t
      BY <1>4
    <2>3. Len(s) + 1 \in DOMAIN t
      BY <1>4
    <2> QED
      BY <1>4, <2>1, <2>2, <2>3 DEF Values
  <1> QED
    BY <1>3, <1>5 DEF IsSeq, t

-----------------------------------------------------------------------------
(* Steps that send no I frame and tell nothing of the link. *)

LEMMA SilentTimers ==
    ASSUME NEW d, Silent(d), NEW s
    PROVE  /\ Silent(StartT200(d)) /\ Silent(StopT200(d)) /\ Silent(StopT203(d))
           /\ Silent(NewState(d, s))
  <1>1. IsDl(StartT200(d)) /\ IsDl(StopT200(d)) /\ IsDl(StopT203(d)) /\ IsDl(NewState(d, s))
    BY TimerSteps, StateSteps DEF Silent
  <1>2. /\ StartT200(d).ph = d.ph /\ StopT200(d).ph = d.ph /\ StopT203(d).ph = d.ph
        /\ StartT200(d).up = d.up /\ StopT200(d).up = d.up /\ StopT203(d).up = d.up
        /\ NewState(d, s).ph = d.ph /\ NewState(d, s).up = d.up
    BY DEF Silent, IsDl, Fields, StartT200, StopT200, StopT203, NewState
  <1> QED
    BY <1>1, <1>2 DEF Silent

LEMMA SilentFlush ==
    ASSUME NEW d, Silent(d)
    PROVE  /\ Silent(FlushSend(d)) /\ Silent(FlushHist(d))
           /\ Silent(FlushTxQueue(d)) /\ Silent(FlushTx(d))
  <1>1. /\ IsDl(FlushSend(d)) /\ IsDl(FlushHist(d)) /\ IsDl(FlushTxQueue(d)) /\ IsDl(FlushTx(d))
    BY DEF Silent, IsDl, Fields, FlushSend, FlushHist, FlushTxQueue, FlushTx
  <1>2. /\ FlushSend(d).ph = d.ph /\ FlushHist(d).ph = d.ph
        /\ FlushTxQueue(d).ph = d.ph /\ FlushTx(d).ph = d.ph
        /\ FlushSend(d).up = d.up /\ FlushHist(d).up = d.up
        /\ FlushTxQueue(d).up = d.up /\ FlushTx(d).up = d.up
    BY DEF Silent, IsDl, Fields, FlushSend, FlushHist, FlushTxQueue, FlushTx
  <1> QED
    BY <1>1, <1>2 DEF Silent

LEMMA SilentPh ==
    ASSUME NEW d, Silent(d), NEW frame, frame.format # "I"
    PROVE  Silent(SendPh(d, frame))
  <1> DEFINE e == SendPh(d, frame)
  <1>1. IsDl(e) /\ e.ph = Append(d.ph, frame) /\ e.up = d.up
    BY DlAssumption DEF SendPh, Silent, IsDl, Fields
  <1> HIDE DEF e
  <1>2. Silent(e)
    BY <1>1, Appended DEF Silent
  <1> QED
    BY <1>2 DEF e

LEMMA SilentFrames ==
    ASSUME NEW d, Silent(d), NEW f, NEW x, NEW y
    PROVE  /\ Silent(SendUA(d, f, x)) /\ Silent(SendDM(d, f))
           /\ Silent(SendRR(d, x, y)) /\ Silent(SendREJ(d, x))
           /\ Silent(SendResend(d)) /\ Silent(UdataReq(d, x))
           /\ Silent(AnswerPoll(d, f))
  <1>1. \A a, b, c, i : Silent(SendPh(d, UFrame(a, b, c, i)))
    BY SilentPh DEF UFrame
  <1>2. \A a, b, c, i : Silent(SendPh(d, SFrame(a, b, c, i)))
    BY SilentPh DEF SFrame
  <1> QED
    BY <1>1, <1>2 DEF SendUA, SendDM, SendRR, SendREJ, SendResend, UdataReq, AnswerPoll

LEMMA SilentUp ==
    ASSUME NEW d, Silent(d), NEW x
    PROVE  /\ Silent(MdlError(d, x)) /\ Silent(DataInd(d, x))
           /\ Silent(SendDlSimple(d, "SUSP_CNF"))
           /\ Silent([d EXCEPT !.up = Append(@, [prim |-> "UNIT_DATA_IND", info |-> x])])
  <1>1. ASSUME NEW u, u.prim \notin LinkPrims
        PROVE  Silent([d EXCEPT !.up = Append(@, u)])
    <2> DEFINE e == [d EXCEPT !.up = Append(@, u)]
    <2>1. IsDl(e) /\ e.up = Append(d.up, u) /\ e.ph = d.ph
      BY DEF Silent, IsDl, Fields
    <2> HIDE DEF e
    <2>2. Silent(e)
      BY <1>1, <2>1, Appended DEF Silent
    <2> QED
      BY <2>2 DEF e
  <1>2. Silent(MdlError(d, x))
    <2>1. [prim |-> "MDL_ERROR", cause |-> x].prim \notin LinkPrims
      BY DEF LinkPrims
    <2> QED
      BY <1>1, <2>1 DEF MdlError
  <1>3. Silent(DataInd(d, x))
    <2>1. [prim |-> "DATA_IND", data |-> x].prim \notin LinkPrims
      BY DEF LinkPrims
    <2> QED
      BY <1>1, <2>1 DEF DataInd
  <1>4. Silent(SendDlSimple(d, "SUSP_CNF"))
    <2>1. [prim |-> "SUSP_CNF"].prim \notin LinkPrims
      BY DEF LinkPrims
    <2> QED
      BY <1>1, <2>1 DEF SendDlSimple
  <1>5. Silent([d EXCEPT !.up = Append(@, [prim |-> "UNIT_DATA_IND", info |-> x])])
    <2>1. [prim |-> "UNIT_DATA_IND", info |-> x].prim \notin LinkPrims
      BY DEF LinkPrims
    <2> QED
      BY <1>1, <2>1
  <1> QED
    BY <1>2, <1>3, <1>4, <1>5

LEMMA SilentAcknowledge ==
    ASSUME NEW d, Silent(d), NEW nr, NEW rej
    PROVE  Silent(Acknowledge(d, nr, rej))
  <1> DEFINE freed == [d EXCEPT !.tx_hist =
                         [h \in DOMAIN d.tx_hist \ AckSlots(d, nr) |-> d.tx_hist[h]]]
             reset == d.state # "TIMER_RECOV" /\ (rej <=> nr = d.v_ack)
             stopped == IF reset THEN StopT200(freed) ELSE freed
             moved == IF reset /\ ~rej THEN RestartT200(stopped) ELSE stopped
             done == [moved EXCEPT !.v_ack = nr,
                        !.t203 = moved.t200 = "off" /\ T203On /\ d.state = "MF_EST"]
  <1>1. Silent(freed)
    BY DEF Silent, IsDl, Fields
  <1> HIDE DEF freed, reset
  <1>2. Silent(stopped)
    BY <1>1, SilentTimers
  <1> HIDE DEF stopped
  <1>3. Silent(moved)
    BY <1>2, SilentTimers DEF RestartT200
  <1> HIDE DEF moved
  <1>4. Silent(done)
    BY <1>3 DEF Silent, IsDl, Fields
  <1> HIDE DEF done
  <1> QED
    BY <1>2, <1>4 DEF Acknowledge, done, moved, stopped, reset, freed

LEMMA SilentReassemble ==
    ASSUME NEW d, Silent(d), NEW f
    PROVE  Silent(Reassemble(d, f)) /\ Silent(ForgetBuffer(d, f))
  <1> DEFINE buf == IF Len(d.rcv_buffer) + 1 > MaxF THEN d.rcv_buffer
                    ELSE Append(d.rcv_buffer, f.seg)
             partial == f.more \/ d.rcv_buffer # <<>>
             kept == [d EXCEPT !.rcv_buffer = IF partial THEN buf ELSE @]
  <1>1. Silent(kept)
    <2> HIDE DEF buf, partial
    <2> QED
      BY DEF Silent, IsDl, Fields
  <1> HIDE DEF kept
  <1>2. Silent(DataInd(kept, buf))
    BY <1>1, SilentUp
  <1>3. Silent(ForgetBuffer(d, f))
    BY DEF ForgetBuffer, Silent, IsDl, Fields
  <1> QED
    BY <1>1, <1>2, <1>3 DEF Reassemble, kept

LEMMA SilentCommand ==
    ASSUME NEW d, Silent(d), NEW s_u, NEW s, NEW info
    PROVE  Silent(SendCommand(d, s_u, s, info))
  <1> DEFINE stored == [StoreHist(FlushHist(d), 0, HistEntry(info, 0, 0))
                          EXCEPT !.v_send = 0, !.peer_busy = FALSE, !.retrans_ctr = 0]
             n == NewState(stored, s)
             p == SendPh(n, UFrame(s_u, "cmd", 1, info))
  <1>1. Silent(stored)
    BY DEF Silent, StoreHist, FlushHist, IsDl, Fields
  <1> HIDE DEF stored
  <1>2. Silent(n)
    BY <1>1, SilentTimers
  <1> HIDE DEF n
  <1>3. Silent(p)
    BY <1>2, SilentPh DEF UFrame
  <1> HIDE DEF p
  <1>4. Silent(StartT200(p))
    BY <1>3, SilentTimers
  <1> QED
    BY <1>4 DEF SendCommand, p, n, stored

LEMMA SilentRequests ==
    ASSUME NEW d, Silent(d), NEW x
    PROVE  Silent(EstReq(d, x)) /\ Silent(ResReq(d, x)) /\ Silent(RelReq(d))
  <1> DEFINE e == [FlushSend(d) EXCEPT !.rcv_buffer = <<>>]
             r == [d EXCEPT !.send_buffer = x, !.send_out = 0, !.rcv_buffer = <<>>]
  <1>1. Silent(e) /\ Silent(r)
    BY DEF Silent, FlushSend, IsDl, Fields
  <1> HIDE DEF e, r
  <1>2. \A u, s, i : Silent(SendCommand(e, u, s, i)) /\ Silent(SendCommand(r, u, s, i))
                      /\ Silent(SendCommand(d, u, s, i))
    BY <1>1, SilentCommand
  <1> QED
    BY <1>2 DEF EstReq, ResReq, RelReq, e, r

LEMMA SilentExit ==
    ASSUME NEW d, Silent(d)
    PROVE  Silent(DlReset(d)) /\ Silent(DlExit(d))
  <1> DEFINE n == NewState(d, "IDLE")
             f == FlushTx(n)
             g == FlushSend(f)
             b == [g EXCEPT !.rcv_buffer = <<>>]
             s == StopT200(b)
             r == StopT203(s)
  <1>1. Silent(n)
    BY SilentTimers
  <1> HIDE DEF n
  <1>2. Silent(f)
    BY <1>1, SilentFlush
  <1> HIDE DEF f
  <1>3. Silent(g)
    BY <1>2, SilentFlush
  <1> HIDE DEF g
  <1>4. Silent(b)
    BY <1>3 DEF Silent, IsDl, Fields
  <1> HIDE DEF b
  <1>5. Silent(s)
    BY <1>4, SilentTimers
  <1> HIDE DEF s
  <1>6. Silent(r)
    BY <1>5, SilentTimers
  <1> HIDE DEF r
  <1>7. Silent(NewState(r, "NULL"))
    BY <1>6, SilentTimers
  <1> QED
    BY <1>6, <1>7 DEF DlExit, DlReset, r, s, b, g, f, n

-----------------------------------------------------------------------------
(* lapd_send_i() *)

LEMMA SilentIsSending ==
    ASSUME NEW d, Silent(d)
    PROVE  Sending(d)
  BY DEF Silent, Sending

(* Where lapd_send_i() is called the link is up; it sends nothing in timer  *)
(* recovery and nothing to a busy peer.                                     *)
Up(d) == Sending(d) /\ d.state \in Connected

LEMMA UpTransmit ==
    ASSUME NEW d, Up(d), MaySend(d)
    PROVE  Up(TransmitHist(d)) /\ TransmitHist(d).state = d.state
  <1> DEFINE next == [d EXCEPT !.v_send = IncMod(@)]
             timed == IF next.t200 = "off" THEN StartT200(StopT203(next)) ELSE next
             frame == IFrame(d.v_send, d.v_recv, 0, d.tx_hist[Slot(d.v_send)].seg,
                             d.tx_hist[Slot(d.v_send)].more)
             e == SendPh(timed, frame)
  <1>1. IsDl(next) /\ next.state = d.state /\ next.peer_busy = d.peer_busy
        /\ next.ph = d.ph /\ next.up = d.up
    BY DEF Up, Sending, IsDl, Fields
  <1> HIDE DEF next
  <1>2. IsDl(timed) /\ timed.state = d.state /\ timed.peer_busy = d.peer_busy
        /\ timed.ph = d.ph /\ timed.up = d.up
    BY <1>1 DEF StartT200, StopT203, IsDl, Fields
  <1> HIDE DEF timed, frame
  <1>3. IsDl(e) /\ e.state = d.state /\ e.peer_busy = d.peer_busy
        /\ e.ph = Append(d.ph, frame) /\ e.up = d.up
    BY <1>2, DlAssumption DEF SendPh, IsDl, Fields
  <1> HIDE DEF e
  <1>4. d.state = "MF_EST" /\ ~d.peer_busy
    BY DEF Up, MaySend, Connected
  <1>5. IsSeq(e.ph) /\ Values(e.ph) = Values(d.ph) \cup {frame}
    BY <1>3, Appended DEF Up, Sending
  <1>6. Up(e) /\ e.state = d.state
    BY <1>3, <1>4, <1>5 DEF Up, Sending
  <1> QED
    BY <1>6 DEF TransmitHist, e, frame, timed, next

LEMMA UpFrame ==
    ASSUME NEW d, Up(d)
    PROVE  Up(SendFrame(d)) /\ SendFrame(d).state = d.state
  <1> DEFINE b == LoadBuffer(d)
             st == StoreNextSegment(b)
  <1>1. Up(b) /\ b.state = d.state /\ b.peer_busy = d.peer_busy
        /\ b.v_send = d.v_send /\ b.v_ack = d.v_ack
    BY DEF LoadBuffer, Up, Sending, IsDl, Fields
  <1> HIDE DEF b
  <1>2. Up(st) /\ st.state = d.state /\ st.peer_busy = d.peer_busy
        /\ st.v_send = d.v_send /\ st.v_ack = d.v_ack
    BY <1>1 DEF StoreNextSegment, StoreHist, Up, Sending, IsDl, Fields
  <1> HIDE DEF st
  <1>3. MaySend(d) => MaySend(st)
    BY <1>2 DEF MaySend
  <1>4. MaySend(d) => Up(TransmitHist(d)) /\ TransmitHist(d).state = d.state
                      /\ Up(TransmitHist(st)) /\ TransmitHist(st).state = d.state
    BY <1>2, <1>3, UpTransmit
  <1> QED
    BY <1>1, <1>4 DEF SendFrame, b, st

(* By the least round after which it would not hold.                        *)
LEMMA UpSendI ==
    ASSUME NEW d, Up(d)
    PROVE  Up(SendI(d)) /\ SendI(d).state = d.state
  <1> DEFINE r == Rounds(d)
             Good(e) == Up(e) /\ e.state = d.state
             T == {n \in Nat : n <= VRange /\ ~Good(r[n])}
  <1>0. VRange \in Nat
    BY ParamAssumption
  <1>1. \A n \in 0..VRange : r[n] = IF n = 0 THEN d ELSE SendFrame(r[n - 1])
    BY RoundsEquation, <1>0
  <1> HIDE DEF r
  <1>2. T = {}
    <2> SUFFICES ASSUME T # {} PROVE FALSE
      OBVIOUS
    <2>1. T \in SUBSET Nat
      OBVIOUS
    <2>2. PICK x \in T : \A y \in T : x <= y
      <3> HIDE DEF T
      <3> QED
        BY <2>1, LeastElement
    <2>3. x \in 0..VRange /\ ~Good(r[x])
      BY <2>2, <1>0
    <2>4. CASE x = 0
      BY <2>3, <2>4, <1>1
    <2>5. CASE x # 0
      <3>1. x - 1 \in Nat /\ x - 1 <= VRange /\ ~(x <= x - 1)
        BY <2>3, <2>5, <1>0
      <3>2. Good(r[x - 1])
        BY <3>1, <2>2
      <3>3. r[x] = SendFrame(r[x - 1])
        BY <2>3, <2>5, <1>1
      <3>4. Good(r[x])
        BY <3>2, <3>3, UpFrame
      <3> QED
        BY <3>4, <2>3
    <2> QED
      BY <2>4, <2>5
  <1>3. Good(r[VRange])
    BY <1>0, <1>2
  <1> QED
    BY <1>3, DlAssumption DEF SendI, r

LEMMA SilentSendI ==
    ASSUME NEW d, Silent(d), d.state \in Connected
    PROVE  Up(SendI(d)) /\ SendI(d).state = d.state
  BY SilentIsSending, UpSendI DEF Up

-----------------------------------------------------------------------------
(* How handlers end. *)

LEMMA SendingIsHonest ==
    ASSUME NEW d, Sending(d)
    PROVE  Honest(d)
  BY DEF Sending, Honest, Connected, LinkPrims

LEMMA SilentIsHonest ==
    ASSUME NEW d, Silent(d)
    PROVE  Honest(d)
  BY SilentIsSending, SendingIsHonest

(* The last call of a handler tells L3 the state.                           *)
LEMMA ToldHonestly ==
    ASSUME NEW d, Sending(d), NEW p \in LinkPrims,
           p = "EST_CNF" => d.state = "MF_EST",
           p = "EST_IND" => d.state \in {"MF_EST", "DISC_SENT"},
           p \in {"REL_IND", "REL_CNF"} => d.state = "IDLE"
    PROVE  Honest(SendDlSimple(d, p))
  <1> DEFINE u == [prim |-> p]
             e == SendDlSimple(d, p)
  <1>1. e.ph = d.ph /\ e.up = Append(d.up, u)
        /\ e.state = d.state /\ e.peer_busy = d.peer_busy
    BY DEF SendDlSimple, Sending, IsDl, Fields
  <1>2. u.prim = p
    OBVIOUS
  <1> HIDE DEF e, u
  <1>3. Values(e.up) = Values(d.up) \cup {u}
    BY <1>1, Appended DEF Sending
  <1>4. \A x \in Values(e.up) :
          /\ x.prim = "EST_CNF" => e.state = "MF_EST"
          /\ x.prim = "EST_IND" => e.state \in {"MF_EST", "DISC_SENT"}
          /\ x.prim \in {"REL_IND", "REL_CNF"} => e.state = "IDLE"
    BY <1>1, <1>2, <1>3 DEF Sending, LinkPrims
  <1>5. Honest(e)
    BY <1>1, <1>4 DEF Sending, Honest, Connected
  <1> QED
    BY <1>5 DEF e

LEMMA ReleaseTold ==
    ASSUME NEW d, Silent(d), NEW p \in {"REL_IND", "REL_CNF"}
    PROVE  Honest(SendDlSimple(NewState(d, "IDLE"), p))
  <1> DEFINE n == NewState(d, "IDLE")
  <1>1. Silent(n)
    BY SilentTimers
  <1>2. n.state = "IDLE"
    BY StateSteps DEF Silent
  <1> HIDE DEF n
  <1>3. Honest(SendDlSimple(n, p))
    BY <1>1, <1>2, SilentIsSending, ToldHonestly DEF LinkPrims
  <1> QED
    BY <1>3 DEF n

-----------------------------------------------------------------------------
(* L3 -> L2 and timers *)

LEMMA RecvDlsapHonest ==
    ASSUME NEW d, Silent(d), NEW p
    PROVE  Honest(RecvDlsap(d, p))
  <1>1. \A x : Honest(UdataReq(d, x)) /\ Honest(EstReq(d, x)) /\ Honest(ResReq(d, x))
               /\ Honest(RelReq(d)) /\ Honest(d)
    BY SilentFrames, SilentRequests, SilentIsHonest
  <1>2. ASSUME d.state \in Connected, NEW m PROVE Honest(DataReq(d, m))
    <2> DEFINE e == [d EXCEPT !.send_queue = Append(@, m)]
    <2>1. Silent(e) /\ e.state = d.state
      BY DEF Silent, IsDl, Fields
    <2> HIDE DEF e
    <2>2. Honest(SendI(e))
      BY <1>2, <2>1, SilentSendI, SendingIsHonest DEF Up
    <2> QED
      BY <2>2 DEF DataReq, e
  <1>3. Honest(SuspReq(d))
    <2> DEFINE back == [d EXCEPT !.send_queue = d.send_buffer \o @, !.send_buffer = <<>>]
               fl == FlushTx(back)
               st == StopT200(fl)
               e == StopT203(st)
    <2>1. Silent(back)
      BY DEF Silent, IsDl, Fields
    <2> HIDE DEF back
    <2>2. Silent(fl)
      BY <2>1, SilentFlush
    <2> HIDE DEF fl
    <2>3. Silent(st)
      BY <2>2, SilentTimers
    <2> HIDE DEF st
    <2>4. Silent(e)
      BY <2>3, SilentTimers
    <2> HIDE DEF e
    <2>5. Honest(SendDlSimple(e, "SUSP_CNF"))
      BY <2>4, SilentUp, SilentIsHonest
    <2> QED
      BY <2>5 DEF SuspReq, e, st, fl, back
  <1>4. Honest(RelReqLocal(d))
    <2> DEFINE s == StopT200(d)
               n == NewState(s, "IDLE")
               fl == FlushTx(n)
               e == FlushSend(fl)
    <2>1. Silent(s)
      BY SilentTimers
    <2> HIDE DEF s
    <2>2. Silent(n) /\ n.state = "IDLE"
      <3>1. Silent(n)
        BY <2>1, SilentTimers
      <3> QED
        BY <3>1, <2>1, StateSteps DEF Silent
    <2> HIDE DEF n
    <2>3. Silent(fl) /\ fl.state = "IDLE"
      BY <2>2, SilentFlush, FlushSteps DEF Silent
    <2> HIDE DEF fl
    <2>4. Silent(e) /\ e.state = "IDLE"
      <3>1. Same(fl, e)
        BY <2>3, SameBuffers DEF Silent
      <3> QED
        BY <2>3, <3>1, SilentFlush DEF Same
    <2> HIDE DEF e
    <2>5. Honest(SendDlSimple(e, "REL_CNF"))
      BY <2>4, SilentIsSending, ToldHonestly DEF LinkPrims
    <2> QED
      BY <2>5 DEF RelReqLocal, e, fl, n, s
  <1>5. d.state = "IDLE" => Honest(RelReqIdle(d))
    BY SilentIsSending, ToldHonestly DEF LinkPrims, RelReqIdle
  <1> QED
    BY <1>1, <1>2, <1>3, <1>4, <1>5 DEF RecvDlsap

LEMMA T200CommandHonest ==
    ASSUME NEW d, Silent(d)
    PROVE  Honest(T200Command(d))
  <1> DEFINE c == [d EXCEPT !.retrans_ctr = @ + 1]
             sent == SendResend(c)
             g == FlushTx(c)
             f == FlushSend(g)
             idle == NewState(f, "IDLE")
             m == MdlError(idle, "T200_EXPIRED")
  <1>1. Silent(c)
    BY DEF Silent, IsDl, Fields
  <1> HIDE DEF c
  <1>2. Silent(sent)
    BY <1>1, SilentFrames
  <1> HIDE DEF sent
  <1>3. Honest(StartT200(sent))
    BY <1>2, SilentTimers, SilentIsHonest
  <1>4. Silent(g)
    BY <1>1, SilentFlush
  <1> HIDE DEF g
  <1>5. Silent(f)
    BY <1>4, SilentFlush
  <1> HIDE DEF f
  <1>6. Silent(idle) /\ idle.state = "IDLE"
    <2>1. Silent(idle)
      BY <1>5, SilentTimers
    <2> QED
      BY <2>1, <1>5, StateSteps DEF Silent
  <1> HIDE DEF idle
  <1>7. Silent(m) /\ m.state = "IDLE"
    <2>1. Same(idle, m)
      BY <1>6, SameUp DEF Silent
    <2> QED
      BY <2>1, <1>6, SilentUp DEF Same
  <1> HIDE DEF m
  <1>8. Honest(SendDlSimple(m, "REL_IND")) /\ Honest(SendDlSimple(m, "REL_CNF"))
    BY <1>7, SilentIsSending, ToldHonestly DEF LinkPrims
  <1> QED
    BY <1>3, <1>8 DEF T200Command, m, idle, f, g, sent, c

(* The frame repeated in timer recovery is a poll.                          *)
LEMMA T200RecoveryHonest ==
    ASSUME NEW d, Silent(d)
    PROVE  Honest(T200Recovery(d))
  <1> DEFINE n == NewState(d, "TIMER_RECOV")
             c == [n EXCEPT !.retrans_ctr = IF d.state = "MF_EST" THEN 1 ELSE @ + 1]
             vs == SubMod(c.v_send, 1)
             frame == IFrame(vs, c.v_recv, 1, c.tx_hist[Slot(vs)].seg,
                             c.tx_hist[Slot(vs)].more)
             p == SendPh(c, frame)
             rr == IF c.seq_err_cond = 0 THEN SendRR(c, 1, "cmd") ELSE c
             failed == MdlError(c, "T200_EXPIRED")
  <1>1. Silent(n) /\ n.state = "TIMER_RECOV"
    <2>1. Silent(n)
      BY SilentTimers
    <2> QED
      BY <2>1, StateSteps DEF Silent
  <1> HIDE DEF n
  <1>2. Silent(c) /\ c.state = "TIMER_RECOV"
    BY <1>1 DEF Silent, IsDl, Fields
  <1>3. frame.format = "I" /\ frame.pf = 1
    BY DEF IFrame
  <1> HIDE DEF c, frame
  <1>4. Honest(StartT200(p))
    <2>1. IsDl(p) /\ p.ph = Append(c.ph, frame) /\ p.up = c.up /\ p.state = "TIMER_RECOV"
      BY <1>2, DlAssumption DEF SendPh, Silent, IsDl, Fields
    <2> HIDE DEF p
    <2> DEFINE e == StartT200(p)
    <2>2. e.ph = Append(c.ph, frame) /\ e.up = c.up /\ e.state = "TIMER_RECOV"
      BY <2>1 DEF StartT200, IsDl, Fields
    <2> HIDE DEF e
    <2>3. Values(e.ph) = Values(c.ph) \cup {frame}
      BY <1>2, <2>2, Appended DEF Silent
    <2>4. Honest(e)
      BY <1>2, <1>3, <2>2, <2>3 DEF Silent, Honest, Connected, LinkPrims
    <2> QED
      BY <2>4 DEF e
  <1>5. Silent(rr)
    BY <1>2, SilentFrames
  <1> HIDE DEF rr
  <1>6. Honest(StartT200(rr))
    BY <1>5, SilentTimers, SilentIsHonest
  <1>7. Silent(failed)
    BY <1>2, SilentUp
  <1> HIDE DEF failed
  <1>8. Honest(failed) /\ Honest(EstReq(failed, 0))
    BY <1>7, SilentRequests, SilentIsHonest
  <1> QED
    BY <1>4, <1>6, <1>8 DEF T200Recovery, failed, rr, p, frame, vs, c, n

LEMMA TimersHonest ==
    ASSUME NEW d, Silent(d)
    PROVE  Honest(T200Cb(d)) /\ Honest(T203Cb(d))
  <1> DEFINE s == StopT200(d)
             t == StopT203(d)
             n == NewState(t, "TIMER_RECOV")
             c == [n EXCEPT !.retrans_ctr = 0]
             sent == SendRR(c, 1, "cmd")
  <1>1. Silent(s) /\ Silent(t)
    BY SilentTimers
  <1> HIDE DEF s, t
  <1>2. Honest(T200Command(s)) /\ Honest(T200Recovery(s)) /\ Honest(s) /\ Honest(t)
    BY <1>1, T200CommandHonest, T200RecoveryHonest, SilentIsHonest
  <1>3. Silent(n)
    BY <1>1, SilentTimers
  <1> HIDE DEF n
  <1>4. Silent(c)
    BY <1>3 DEF Silent, IsDl, Fields
  <1> HIDE DEF c
  <1>5. Silent(sent)
    BY <1>4, SilentFrames
  <1> HIDE DEF sent
  <1>6. Honest(StartT200(sent))
    BY <1>5, SilentTimers, SilentIsHonest
  <1> QED
    BY <1>2, <1>6 DEF T200Cb, T203Cb, sent, c, n, t, s

-----------------------------------------------------------------------------
(* L1 -> L2: U frames *)

LEMMA SilentEstablish ==
    ASSUME NEW d, Silent(d)
    PROVE  Silent(Establish(d)) /\ Establish(d).state = "MF_EST"
  <1> DEFINE e == FlushHist([d EXCEPT !.v_send = 0, !.v_recv = 0, !.v_ack = 0])
  <1>1. Silent(e)
    BY DEF FlushHist, Silent, IsDl, Fields
  <1> HIDE DEF e
  <1>2. Silent(NewState(e, "MF_EST"))
    BY <1>1, SilentTimers
  <1>3. NewState(e, "MF_EST").state = "MF_EST"
    BY <1>1, StateSteps DEF Silent
  <1> QED
    BY <1>2, <1>3 DEF Establish, e

LEMMA SABMCommandHonest ==
    ASSUME NEW d, Silent(d), NEW f
    PROVE  Honest(RxSABMCommand(d, f))
  <1>1. Silent(MdlError(d, "SABM_INFO_NOTALL")) /\ Honest(MdlError(d, "SABM_MF"))
    BY SilentUp, SilentIsHonest
  <1>2. Honest(SendDM(MdlError(d, "SABM_INFO_NOTALL"), f))
    <2> DEFINE m == MdlError(d, "SABM_INFO_NOTALL")
    <2>1. Silent(m)
      BY <1>1
    <2> HIDE DEF m
    <2>2. Honest(SendDM(m, f))
      BY <2>1, SilentFrames, SilentIsHonest
    <2> QED
      BY <2>2 DEF m
  <1>3. Honest(d) /\ Honest(SendUA(d, f, f.info))
    BY SilentFrames, SilentIsHonest
  <1>4. d.state = "DISC_SENT" => Honest(SendDlSimple(StopT200(SendDM(d, f)), "EST_IND"))
    <2> DEFINE m == SendDM(d, f)
               s == StopT200(m)
    <2>1. Silent(m) /\ m.state = d.state
      <3>1. Same(d, m)
        BY SameFrames DEF Silent
      <3> QED
        BY <3>1, SilentFrames DEF Same
    <2> HIDE DEF m
    <2>2. Silent(s) /\ s.state = d.state
      <3>1. Silent(s)
        BY <2>1, SilentTimers
      <3> QED
        BY <2>1, <3>1, TimerSteps DEF Silent
    <2> HIDE DEF s
    <2>3. d.state = "DISC_SENT" => Honest(SendDlSimple(s, "EST_IND"))
      BY <2>2, SilentIsSending, ToldHonestly DEF LinkPrims
    <2> QED
      BY <2>3 DEF s, m
  <1>5. Honest(SendUA(IF 0 \in DOMAIN d.tx_hist /\ d.tx_hist[0].info # 0
                      THEN MdlError(d, "SABM_INFO_NOTALL") ELSE d, f, f.info))
    <2> DEFINE m == IF 0 \in DOMAIN d.tx_hist /\ d.tx_hist[0].info # 0
                    THEN MdlError(d, "SABM_INFO_NOTALL") ELSE d
    <2>1. Silent(m)
      BY <1>1
    <2> HIDE DEF m
    <2>2. Honest(SendUA(m, f, f.info))
      BY <2>1, SilentFrames, SilentIsHonest
    <2> QED
      BY <2>2 DEF m
  <1> DEFINE stopped == IF d.state = "TIMER_RECOV" THEN StopT200(d) ELSE d
             ua == SendUA(stopped, f, f.info)
             est == Establish(ua)
             cr == IF d.mode = "NETWORK" /\ f.info # 0 THEN f.info ELSE est.cont_res
             kept == [est EXCEPT !.cont_res = cr]
  <1>6. Silent(stopped)
    BY SilentTimers
  <1> HIDE DEF stopped
  <1>7. Silent(ua)
    BY <1>6, SilentFrames
  <1> HIDE DEF ua
  <1>8. Silent(est) /\ est.state = "MF_EST"
    BY <1>7, SilentEstablish
  <1> HIDE DEF est, cr
  <1>9. Silent(kept) /\ kept.state = "MF_EST"
    BY <1>8 DEF Silent, IsDl, Fields
  <1> HIDE DEF kept
  <1>10. Honest(SendDlSimple(kept, "EST_IND"))
    BY <1>9, SilentIsSending, ToldHonestly DEF LinkPrims
  <1>11. kept = [est EXCEPT !.cont_res =
                   IF d.mode = "NETWORK" /\ f.info # 0 THEN f.info ELSE @]
    BY <1>8 DEF kept, cr, Silent, IsDl, Fields
  <1>12. Honest(SendDlSimple([Establish(SendUA(IF d.state = "TIMER_RECOV"
                                                THEN StopT200(d) ELSE d, f, f.info))
                        EXCEPT !.cont_res =
                          IF d.mode = "NETWORK" /\ f.info # 0 THEN f.info ELSE @],
                        "EST_IND"))
    BY <1>10, <1>11 DEF est, ua, stopped
  <1> QED
    BY <1>2, <1>1, <1>3, <1>4, <1>5, <1>12 DEF RxSABMCommand

LEMMA SABMHonest ==
    ASSUME NEW d, Silent(d), NEW f
    PROVE  Honest(RxSABM(d, f))
  <1> DEFINE c == [d EXCEPT !.seq_err_cond = 0]
  <1>1. Silent(c)
    BY DEF Silent, IsDl, Fields
  <1> HIDE DEF c
  <1>2. (\A x : Honest(MdlError(c, x))) /\ Honest(RxSABMCommand(c, f))
    BY <1>1, SilentUp, SilentIsHonest, SABMCommandHonest
  <1> QED
    BY <1>2 DEF RxSABM, c

(* T200 is stopped, the buffers flushed or not, the release told.           *)
LEMMA ReleasedHonestly ==
    ASSUME NEW d, Silent(d), NEW p \in {"REL_IND", "REL_CNF"}
    PROVE  /\ Honest(SendDlSimple(NewState(StopT200(d), "IDLE"), p))
           /\ Honest(SendDlSimple(NewState(FlushSend(FlushTx(StopT200(d))), "IDLE"), p))
  <1> DEFINE s == StopT200(d)
             g == FlushTx(s)
             f == FlushSend(g)
  <1>1. Silent(s)
    BY SilentTimers
  <1> HIDE DEF s
  <1>2. Silent(g)
    BY <1>1, SilentFlush
  <1> HIDE DEF g
  <1>3. Silent(f)
    BY <1>2, SilentFlush
  <1> HIDE DEF f
  <1>4. /\ Honest(SendDlSimple(NewState(s, "IDLE"), p))
        /\ Honest(SendDlSimple(NewState(f, "IDLE"), p))
    BY <1>1, <1>3, ReleaseTold
  <1> QED
    BY <1>4 DEF f, g, s

LEMMA DMHonest ==
    ASSUME NEW d, Silent(d), NEW f
    PROVE  Honest(RxDM(d, f))
  <1>1. Honest(d) /\ \A x : Honest(MdlError(d, x))
    BY SilentUp, SilentIsHonest
  <1>2. /\ Honest(SendDlSimple(NewState(StopT200(d), "IDLE"), "REL_IND"))
        /\ Honest(SendDlSimple(NewState(FlushSend(FlushTx(StopT200(d))), "IDLE"), "REL_CNF"))
    BY ReleasedHonestly
  <1> QED
    BY <1>1, <1>2 DEF RxDM

LEMMA UIHonest ==
    ASSUME NEW d, Silent(d), NEW f
    PROVE  Honest(RxUI(d, f))
  BY SilentUp, SilentIsHonest DEF RxUI

LEMMA DISCHonest ==
    ASSUME NEW d, Silent(d), NEW f
    PROVE  Honest(RxDISC(d, f))
  <1> DEFINE g == FlushTx(d)
             fl == FlushSend(g)
             c == [fl EXCEPT !.seq_err_cond = 0]
             dm == SendDM(c, f)
             ua == SendUA(c, f, 0)
  <1>1. Silent(g)
    BY SilentFlush
  <1> HIDE DEF g
  <1>2. Silent(fl)
    BY <1>1, SilentFlush
  <1> HIDE DEF fl
  <1>3. Silent(c)
    BY <1>2 DEF Silent, IsDl, Fields
  <1> HIDE DEF c
  <1>4. Silent(dm) /\ Silent(ua) /\ \A x : Honest(MdlError(c, x))
    BY <1>3, SilentFrames, SilentUp, SilentIsHonest
  <1> HIDE DEF dm, ua
  <1>5. /\ Honest(SendDlSimple(NewState(StopT200(dm), "IDLE"), "REL_IND"))
        /\ Honest(SendDlSimple(NewState(StopT200(ua), "IDLE"), "REL_IND"))
        /\ Honest(SendDlSimple(NewState(StopT200(ua), "IDLE"), "REL_CNF"))
    BY <1>4, ReleasedHonestly
  <1>6. Honest(dm) /\ Honest(ua)
    BY <1>4, SilentIsHonest
  <1> QED
    BY <1>4, <1>5, <1>6 DEF RxDISC, RxDISCCommand, ua, dm, c, fl, g

LEMMA UAHonest ==
    ASSUME NEW d, Silent(d), NEW f
    PROVE  Honest(RxUA(d, f))
  <1>1. Honest(d) /\ \A x : Honest(MdlError(d, x))
    BY SilentUp, SilentIsHonest
  <1>2. /\ Honest(SendDlSimple(NewState(FlushSend(FlushTx(StopT200(d))), "IDLE"), "REL_IND"))
        /\ Honest(SendDlSimple(NewState(FlushSend(FlushTx(StopT200(d))), "IDLE"), "REL_CNF"))
    BY ReleasedHonestly
  <1>3. Honest(SendDlSimple(SendI(Establish(StopT200(d))), "EST_CNF"))
    <2> DEFINE s == StopT200(d)
               est == Establish(s)
               sent == SendI(est)
    <2>1. Silent(s)
      BY SilentTimers
    <2> HIDE DEF s
    <2>2. Silent(est) /\ est.state = "MF_EST"
      BY <2>1, SilentEstablish
    <2> HIDE DEF est
    <2>3. Sending(sent) /\ sent.state = "MF_EST"
      BY <2>2, SilentSendI DEF Up, Connected
    <2> HIDE DEF sent
    <2>4. Honest(SendDlSimple(sent, "EST_CNF"))
      BY <2>3, ToldHonestly DEF LinkPrims
    <2> QED
      BY <2>4 DEF sent, est, s
  <1> QED
    BY <1>1, <1>2, <1>3 DEF RxUA, RxUAFinal

LEMMA UFrameHonest ==
    ASSUME NEW d, Silent(d), NEW f \in UFrames
    PROVE  Honest(RxU(d, f))
  <1>1. f.s_u \in {"SABM", "DISC", "UI", "UA", "DM", "FRMR"}
    BY DEF UFrames
  <1>2. /\ Honest(RxSABM(d, f)) /\ Honest(RxDM(d, f)) /\ Honest(RxUI(d, f))
        /\ Honest(RxUA(d, f)) /\ Honest(RxDISC(d, f))
    BY SABMHonest, DMHonest, UIHonest, UAHonest, DISCHonest
  <1>3. Honest(RxFRMR(d))
    <2> DEFINE m == MdlError(d, "FRMR")
    <2>1. Silent(m)
      BY SilentUp
    <2> HIDE DEF m
    <2>2. Honest(m) /\ Honest(EstReq(m, 0))
      BY <2>1, SilentRequests, SilentIsHonest
    <2> QED
      BY <2>2 DEF RxFRMR, m
  <1> QED
    BY <1>1, <1>2, <1>3 DEF RxU

-----------------------------------------------------------------------------
(* L1 -> L2: S and I frames.  That the link is up is what LapdDlProofs      *)
(* says of the same steps.                                                  *)

LEMMA RRHonest ==
    ASSUME NEW d, Silent(d), OnLink(d), NEW f
    PROVE  Honest(RxRR(d, f))
  <1> DEFINE a == Acknowledge(d, f.nr, FALSE)
             b == [a EXCEPT !.v_send = f.nr]
             s == StopT200(b)
             n == NewState(s, "MF_EST")
             ans == AnswerPoll(a, f)
             e == IF Final(d, f) THEN n ELSE ans
  <1>1. Silent(a) /\ OnLink(a)
    BY SilentAcknowledge, OnLinkAcknowledge
  <1> HIDE DEF a
  <1>2. Silent(b)
    BY <1>1 DEF Silent, IsDl, Fields
  <1> HIDE DEF b
  <1>3. Silent(s)
    BY <1>2, SilentTimers
  <1> HIDE DEF s
  <1>4. Silent(n)
    BY <1>3, SilentTimers
  <1>5. n.state = "MF_EST"
    BY <1>3, StateSteps DEF Silent
  <1> HIDE DEF n
  <1>6. Silent(ans) /\ ans.state \in Connected
    BY <1>1, SilentFrames, LinkSteps DEF OnLink
  <1> HIDE DEF ans
  <1>7. Silent(e) /\ e.state \in Connected
    BY <1>4, <1>5, <1>6 DEF Connected
  <1> HIDE DEF e
  <1>8. Honest(SendI(e))
    BY <1>7, SilentSendI, SendingIsHonest DEF Up
  <1> QED
    BY <1>8 DEF RxRR, e, ans, n, s, b, a

LEMMA RNRHonest ==
    ASSUME NEW d, Silent(d), OnLink(d), NEW f
    PROVE  Honest(RxRNR(d, f))
  <1> DEFINE b == Acknowledge(d, f.nr, FALSE)
             busy == [b EXCEPT !.peer_busy = TRUE]
             fl == FlushTxQueue(busy)
             a == StopT200(fl)
             n == NewState(a, "MF_EST")
             back == [n EXCEPT !.v_send = f.nr]
             rr == SendRR(a, 1, "resp")
             e == IF Final(d, f) THEN back
                  ELSE IF f.cr = "cmd" /\ f.pf = 1 THEN rr ELSE a
  <1>1. Silent(b) /\ OnLink(b)
    BY SilentAcknowledge, OnLinkAcknowledge
  <1> HIDE DEF b
  <1>2. Silent(busy) /\ busy.state \in Connected
    BY <1>1 DEF Silent, OnLink, IsDl, Fields
  <1> HIDE DEF busy
  <1>3. Silent(fl) /\ fl.state \in Connected
    <2>1. Same(busy, fl)
      BY <1>2, SameBuffers DEF Silent
    <2> QED
      BY <1>2, <2>1, SilentFlush DEF Same
  <1> HIDE DEF fl
  <1>4. Silent(a) /\ a.state \in Connected
    <2>1. a.state = fl.state
      BY <1>3, TimerSteps DEF Silent
    <2> QED
      BY <1>3, <2>1, SilentTimers
  <1> HIDE DEF a
  <1>5. Silent(n)
    BY <1>4, SilentTimers
  <1>6. n.state = "MF_EST"
    BY <1>4, StateSteps DEF Silent
  <1> HIDE DEF n
  <1>7. Silent(back) /\ back.state \in Connected
    BY <1>5, <1>6 DEF Silent, IsDl, Fields, Connected
  <1> HIDE DEF back
  <1>8. Silent(rr) /\ rr.state \in Connected
    <2>1. Same(a, rr)
      BY <1>4, SameFrames DEF Silent
    <2> QED
      BY <1>4, <2>1, SilentFrames DEF Same
  <1> HIDE DEF rr
  <1>9. Silent(e) /\ e.state \in Connected
    BY <1>4, <1>7, <1>8
  <1> HIDE DEF e
  <1>10. Honest(SendI(e))
    BY <1>9, SilentSendI, SendingIsHonest DEF Up
  <1> QED
    BY <1>10 DEF RxRNR, e, rr, back, n, a, fl, busy, b

LEMMA REJHonest ==
    ASSUME NEW d, Silent(d), OnLink(d), NEW f
    PROVE  Honest(RxREJ(d, f))
  <1> DEFINE b == Acknowledge(d, f.nr, TRUE)
             fl == FlushTxQueue(b)
             a == GoBack(b, f.nr)
             st == StopT200(a)
             s == IF d.state # "TIMER_RECOV" THEN st ELSE a
             answered == AnswerPoll(s, f)
             final == NewState(st, "MF_EST")
             told == MdlError(answered, "UNSOL_SPRV_RESP")
             e == IF Final(d, f) THEN final
                  ELSE IF d.state # "TIMER_RECOV" /\ f.cr = "resp" /\ f.pf = 1
                  THEN told ELSE answered
  <1>1. Silent(b) /\ OnLink(b)
    BY SilentAcknowledge, OnLinkAcknowledge
  <1> HIDE DEF b
  <1>2. Silent(fl) /\ OnLink(fl)
    BY <1>1, LinkSteps, SilentFlush
  <1>3. Silent(a) /\ OnLink(a)
    <2>1. a = [fl EXCEPT !.peer_busy = FALSE, !.v_send = f.nr, !.v_ack = f.nr]
      BY DEF GoBack
    <2> HIDE DEF fl, a
    <2> QED
      BY <1>2, <2>1 DEF Silent, OnLink, IsDl, Fields, Settled, Polling
  <1> HIDE DEF a
  <1>4. Silent(st) /\ OnLink(st)
    BY <1>3, LinkSteps, SilentTimers
  <1> HIDE DEF st
  <1>5. Silent(s) /\ OnLink(s)
    BY <1>3, <1>4
  <1> HIDE DEF s
  <1>6. Silent(answered) /\ OnLink(answered)
    BY <1>5, LinkSteps, SilentFrames
  <1> HIDE DEF answered
  <1>7. Silent(told) /\ OnLink(told)
    BY <1>6, LinkSteps, SilentUp
  <1> HIDE DEF told
  <1>8. Silent(final)
    BY <1>4, SilentTimers
  <1>9. final.state = "MF_EST"
    BY <1>4, StateSteps DEF Silent
  <1> HIDE DEF final
  <1>10. Silent(e) /\ e.state \in Connected
    BY <1>6, <1>7, <1>8, <1>9 DEF OnLink, Connected
  <1> HIDE DEF e
  <1>11. Honest(SendI(e))
    BY <1>10, SilentSendI, SendingIsHonest DEF Up
  <1> QED
    BY <1>11 DEF RxREJ, e, told, final, answered, s, st, a, b

LEMMA SFrameHonest ==
    ASSUME NEW d, Silent(d), DlInv(0, d), d.state # "NULL", NEW f \in SFrames
    PROVE  Honest(RxS(d, f))
  <1> DEFINE c == IF f.cr = "resp" /\ f.pf = 1 /\ d.state # "TIMER_RECOV"
                  THEN MdlError(d, "UNSOL_SPRV_RESP") ELSE d
  <1>1. Silent(c) /\ DlInv(0, c) /\ c.state = d.state
    <2>1. \A x : Silent(MdlError(d, x)) /\ DlInv(0, MdlError(d, x))
      BY InvSteps, SilentUp
    <2>2. \A x : MdlError(d, x).state = d.state
      BY SameUp DEF Silent, Same
    <2> QED
      BY <2>1, <2>2
  <1> HIDE DEF c
  <1>2. Honest(c) /\ Honest(SendDM(c, f))
    BY <1>1, SilentFrames, SilentIsHonest
  <1>3. d.state \in Connected => OnLink(c)
    BY <1>1 DEF DlInv, OnLink
  <1>4. d.state \in Connected =>
          Honest(RxRR(c, f)) /\ Honest(RxRNR(c, f)) /\ Honest(RxREJ(c, f))
    BY <1>1, <1>3, RRHonest, RNRHonest, REJHonest
  <1>5. f.s_u \in {"RR", "RNR", "REJ"}
    BY DEF SFrames
  <1>6. d.state \in {"IDLE", "SABM_SENT", "DISC_SENT"} \cup Connected
    BY DEF DlInv, States, Connected
  <1> QED
    BY <1>2, <1>4, <1>5, <1>6 DEF RxS, c, Connected

LEMMA OutOfSequenceHonest ==
    ASSUME NEW d, Silent(d), OnLink(d), NEW f
    PROVE  Honest(RxIOutOfSequence(d, f))
  <1> DEFINE one == [d EXCEPT !.seq_err_cond = 1]
             two == [d EXCEPT !.seq_err_cond = 2]
             rej == IF d.seq_err_cond # 1 \/ ~Drop2ndRej THEN SendREJ(one, f.pf) ELSE two
             a == Acknowledge(rej, f.nr, FALSE)
             m == MdlError(a, "SEQ_ERR")
             e == IF NrSequenceError(rej, f.nr) THEN m ELSE a
  <1>1. OnLink(one) /\ OnLink(two)
    BY DEF OnLink, IsDl, Fields, Settled, Polling
  <1>2. Silent(one) /\ Silent(two)
    BY DEF Silent, IsDl, Fields
  <1> HIDE DEF one, two
  <1>3. Silent(rej) /\ OnLink(rej)
    BY <1>1, <1>2, LinkSteps, SilentFrames
  <1> HIDE DEF rej
  <1>4. Silent(a) /\ OnLink(a)
    BY <1>3, OnLinkAcknowledge, SilentAcknowledge
  <1> HIDE DEF a
  <1>5. Silent(m) /\ OnLink(m)
    BY <1>4, LinkSteps, SilentUp
  <1> HIDE DEF m
  <1>6. Silent(e) /\ e.state \in Connected
    BY <1>4, <1>5 DEF OnLink
  <1> HIDE DEF e
  <1>7. Honest(SendI(e))
    BY <1>6, SilentSendI, SendingIsHonest DEF Up
  <1> QED
    BY <1>7 DEF RxIOutOfSequence, e, m, a, rej, one, two

LEMMA AnswerHonest ==
    ASSUME NEW d, Silent(d), OnLink(d), NEW f, NEW inQueue
    PROVE  Honest(RxIAnswer(d, f, inQueue))
  <1> DEFINE s == SendI(d)
             rr == SendRR(d, 1, "resp")
             ans == SendRR(s, 0, "resp")
  <1>1. Sending(s)
    BY SilentSendI DEF Up, OnLink
  <1> HIDE DEF s
  <1>2. Silent(rr) /\ OnLink(rr)
    BY SilentFrames, LinkSteps
  <1> HIDE DEF rr
  <1>3. Honest(SendI(rr))
    BY <1>2, SilentSendI, SendingIsHonest DEF Up, OnLink
  <1>4. Sending(ans)
    <2> DEFINE frame == SFrame("RR", "resp", 0, s.v_recv)
    <2>1. frame.format # "I"
      BY DEF SFrame
    <2>2. IsDl(ans) /\ ans.ph = Append(s.ph, frame) /\ ans.up = s.up
          /\ ans.state = s.state /\ ans.peer_busy = s.peer_busy
      BY <1>1, DlAssumption DEF SendRR, SendPh, Sending, IsDl, Fields
    <2> HIDE DEF frame, ans
    <2>3. IsSeq(ans.ph) /\ Values(ans.ph) = Values(s.ph) \cup {frame}
      BY <1>1, <2>2, Appended DEF Sending
    <2> QED
      BY <1>1, <2>1, <2>2, <2>3 DEF Sending
  <1> HIDE DEF ans
  <1>5. Honest(s) /\ Honest(ans)
    BY <1>1, <1>4, SendingIsHonest
  <1> QED
    BY <1>3, <1>5 DEF RxIAnswer, ans, rr, s

LEMMA InSequenceHonest ==
    ASSUME NEW d, Silent(d), OnLink(d), NEW f, NEW react, react.prim \in {"none", "exit"}
    PROVE  Honest(RxIInSequence(d, f, react))
  <1> DEFINE c == [d EXCEPT !.seq_err_cond = 0, !.v_recv = IncMod(@)]
             r == UpdatePendingFrames(c)
             a == Acknowledge(r, f.nr, FALSE)
             delivered == Reassemble(a, f)
             exited == DlExit(delivered)
             reacted == CASE f.more \/ react.prim = "none" -> delivered
                          [] ~f.more /\ react.prim = "exit" -> exited
                          [] OTHER -> RecvDlsap(delivered, react)
             back == ForgetBuffer(reacted, f)
             m == MdlError(back, "SEQ_ERR")
             e == IF NrSequenceError(r, f.nr) THEN m ELSE back
  <1>1. Silent(c)
    BY DEF Silent, IsDl, Fields
  <1>2. OnLink(c)
    BY DEF OnLink, IsDl, Fields, Settled, Polling
  <1> HIDE DEF c
  <1>3. Silent(r) /\ OnLink(r)
    <2>1. Silent(r)
      BY <1>1 DEF UpdatePendingFrames, Silent, IsDl, Fields
    <2> QED
      BY <1>2, <2>1, LinkSteps
  <1> HIDE DEF r
  <1>4. Silent(a) /\ OnLink(a)
    BY <1>3, OnLinkAcknowledge, SilentAcknowledge
  <1> HIDE DEF a
  <1>5. Silent(delivered) /\ OnLink(delivered)
    BY <1>4, LinkSteps, SilentReassemble
  <1> HIDE DEF delivered
  <1>6. Silent(exited) /\ exited.state = "NULL"
    <2>1. Silent(DlReset(delivered)) /\ Silent(exited)
      BY <1>5, SilentExit
    <2>2. NewState(DlReset(delivered), "NULL").state = "NULL"
      BY <2>1, StateSteps DEF Silent
    <2> QED
      BY <2>1, <2>2 DEF DlExit
  <1> HIDE DEF exited
  <1>12. Silent(reacted) /\ (reacted.state # "NULL" => OnLink(reacted))
    BY <1>5, <1>6
  <1> HIDE DEF reacted
  <1>7. Silent(back) /\ (back.state # "NULL" => OnLink(back))
    <2>1. Silent(back) /\ Same(reacted, back)
      BY <1>12, SilentReassemble, SameBuffers DEF Silent
    <2> HIDE DEF back
    <2> QED
      BY <1>12, <2>1, SameInvariant DEF Same
  <1> HIDE DEF back
  <1>8. Silent(m) /\ (back.state # "NULL" => OnLink(m))
    BY <1>7, LinkSteps, SilentUp
  <1> HIDE DEF m
  <1>9. back.state # "NULL" => Silent(e) /\ OnLink(e)
    BY <1>7, <1>8
  <1> HIDE DEF e
  <1>10. back.state # "NULL" => Honest(RxIAnswer(e, f, IFrameInQueue(r)))
    BY <1>9, AnswerHonest
  <1>11. Honest(back)
    BY <1>7, SilentIsHonest
  <1> QED
    BY <1>10, <1>11 DEF RxIInSequence, e, m, back, reacted, exited, delivered, a, r, c

LEMMA IFrameHonest ==
    ASSUME NEW d, Silent(d), DlInv(0, d), d.state # "NULL", NEW f \in IFrames,
           NEW react, react.prim \in {"none", "exit"}
    PROVE  Honest(RxI(d, f, react))
  <1>1. f.cr \in {"cmd", "resp"}
        /\ Honest(MdlError(d, "FRM_UNIMPL")) /\ Honest(MdlError(d, "IFRM_INC_LEN"))
    BY SilentUp, SilentIsHonest DEF IFrames, CmdResp
  <1>2. d.state \in {"IDLE", "SABM_SENT", "DISC_SENT"} \cup Connected
    BY DEF DlInv, States, Connected
  <1>3. Honest(d) /\ Honest(SendDM(d, f))
    BY SilentFrames, SilentIsHonest
  <1>4. d.state \in Connected => OnLink(d)
    BY DEF DlInv, OnLink
  <1>5. d.state \in Connected =>
          Honest(RxIInSequence(d, f, react)) /\ Honest(RxIOutOfSequence(d, f))
    BY <1>4, InSequenceHonest, OutOfSequenceHonest
  <1> QED
    BY <1>1, <1>2, <1>3, <1>5 DEF RxI, Connected

-----------------------------------------------------------------------------
(* The specification *)

LEMMA InitiallyHonest == Init => Honest(dl)
  <1> SUFFICES ASSUME dl = DlInit(Mode) PROVE Honest(dl)
    BY DEF Init
  <1>1. dl.ph = <<>> /\ dl.up = <<>>
    BY DEF DlInit
  <1> QED
    BY <1>1 DEF Honest, Values

(* The outputs of the step before are taken away.                           *)
LEMMA NowSilent ==
    ASSUME DlInv(0, dl)
    PROVE  Silent(Now) /\ DlInv(0, Now) /\ Now.state = dl.state
  <1>1. IsDl(Now) /\ Now.ph = <<>> /\ Now.up = <<>>
    BY DEF Now, DlInv, IsDl, Fields
  <1>2. IsSeq(<<>>) /\ Values(<<>>) = {}
    <2>1. <<>> \in Seq({})
      OBVIOUS
    <2> QED
      BY <2>1 DEF IsSeq, Values
  <1> QED
    BY <1>1, <1>2, NowInvariant DEF Silent

(* Every step ends honestly.                                                *)
LEMMA StepHonest == DlInv(0, dl) /\ Honest(dl) /\ [Next]_vars => Honest(dl)'
  <1> SUFFICES ASSUME DlInv(0, dl), Honest(dl), [Next]_vars PROVE Honest(dl')
    BY DEF Honest, Values
  <1>0. Silent(Now) /\ DlInv(0, Now) /\ Now.state = dl.state
        /\ Honest(DlReset(Now)) /\ Honest(DlExit(Now))
    <2>1. Silent(Now) /\ DlInv(0, Now) /\ Now.state = dl.state
      BY NowSilent
    <2> QED
      BY <2>1, SilentExit, SilentIsHonest
  <1> USE <1>0
  <1>1. CASE \E p \in Primitives : Request(p)
    BY <1>1, RecvDlsapHonest DEF Request
  <1>2. CASE \E f \in UFrames \cup SFrames \cup IFrames : Receive(f)
    <2> DEFINE none == [prim |-> "none"]
    <2>1. PICK f \in UFrames \cup SFrames \cup IFrames : Receive(f)
      BY <1>2
    <2>2. dl.state # "NULL" /\ (dl' = PhDataInd(Now, f, none) \/ dl' = DlExit(Now))
      BY <2>1 DEF Receive
    <2>3. none.prim \in {"none", "exit"}
      OBVIOUS
    <2> HIDE DEF none
    <2>4. CASE f \in UFrames
      <3>1. f.format = "U"
        BY <2>4 DEF UFrames
      <3>2. Honest(RxU(Now, f))
        BY <2>4, UFrameHonest
      <3> QED
        BY <2>2, <3>1, <3>2 DEF PhDataInd
    <2>5. CASE f \in SFrames
      <3>1. f.format = "S"
        BY <2>5 DEF SFrames
      <3>2. Honest(RxS(Now, f))
        BY <2>2, <2>5, SFrameHonest
      <3> QED
        BY <2>2, <3>1, <3>2 DEF PhDataInd
    <2>6. CASE f \in IFrames
      <3>1. f.format = "I"
        BY <2>6 DEF IFrames
      <3>2. Honest(RxI(Now, f, none))
        BY <2>2, <2>3, <2>6, IFrameHonest
      <3> QED
        BY <2>2, <3>1, <3>2 DEF PhDataInd
    <2> QED
      BY <2>1, <2>4, <2>5, <2>6
  <1>3. CASE \E f \in IFrames : ReceiveAndExit(f)
    <2> DEFINE exit == [prim |-> "exit"]
    <2>1. PICK f \in IFrames : ReceiveAndExit(f)
      BY <1>3
    <2>2. dl.state # "NULL" /\ dl' = PhDataInd(Now, f, exit)
      BY <2>1 DEF ReceiveAndExit
    <2>3. exit.prim \in {"none", "exit"}
      OBVIOUS
    <2> HIDE DEF exit
    <2>4. Honest(RxI(Now, f, exit))
      BY <2>2, <2>3, IFrameHonest
    <2>5. f.format = "I"
      BY DEF IFrames
    <2> QED
      BY <2>2, <2>4, <2>5 DEF PhDataInd
  <1>4. CASE T200Expiry \/ T203Expiry
    BY <1>4, TimersHonest DEF T200Expiry, T203Expiry
  <1>5. CASE Reset \/ Exit
    BY <1>5 DEF Reset, Exit
  <1>6. CASE UNCHANGED vars
    BY <1>6 DEF vars
  <1>7. CASE \E c \in MalformedCauses : ReceiveMalformed(c)
    BY <1>7, SilentUp, SilentIsHonest DEF ReceiveMalformed
  <1> QED
    BY <1>1, <1>2, <1>3, <1>4, <1>5, <1>6, <1>7 DEF Next

LEMMA AlwaysHonest == Spec => []Honest(dl)
  BY DatalinkInvariant, InitiallyHonest, StepHonest, PTL DEF Spec

(* Whatever L3 asks and L1 delivers, a step sends I frames only if it ends  *)
(* on an established link, and to a busy peer or in timer recovery only the *)
(* poll of lapd_t200_cb().                                                  *)
THEOREM NoStrayIFramesHolds == Spec => []NoStrayIFrames
  <1>1. Honest(dl) => NoStrayIFrames
    BY DEF Honest, Values, NoStrayIFrames, Sent
  <1> QED
    BY <1>1, AlwaysHonest, PTL

(* L3 is told EST_CNF, EST_IND, REL_IND and REL_CNF only if the handler     *)
(* that tells it leaves the link in that state; the SABM refused in         *)
(* DISC_SENT is the only exception, for every peer and every L3.            *)
THEOREM L3KnowsTheStateHolds == Spec => []L3KnowsTheState
  <1>1. Honest(dl) => L3KnowsTheState
    BY DEF Honest, Values, L3KnowsTheState, Told
  <1> QED
    BY <1>1, AlwaysHonest, PTL

=============================================================================

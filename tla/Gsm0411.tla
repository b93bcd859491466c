------------------------------- MODULE Gsm0411 -------------------------------
(***************************************************************************)
(* One side of the short message service on the radio interface: the       *)
(* control layer (CP, src/gsm/gsm0411_smc.c) below the relay layer (RP,    *)
(* src/gsm/gsm0411_smr.c), as operators from the transaction to the        *)
(* transaction.  A transaction is a record with the fields of struct       *)
(* gsm411_smc_inst and of struct gsm411_smr_inst, and what a handler gives *)
(* to mm_send(), the CP messages (mm) and the other primitives (prims),    *)
(* and to rl_recv(): messages (inds) and reports (reps).                   *)
(*                                                                         *)
(* life says that the transaction exists.  The notes on release of both    *)
(* files allow the MM layer to destroy it while it is given MMSMS-REL-REQ: *)
(* life is then "gone", and "used" once a handler goes on with it all the  *)
(* same.  fatal records that a handler took a branch which logs "This      *)
(* should never happen, please fix!".                                      *)
(***************************************************************************)
EXTENDS Naturals, Sequences

CONSTANTS
    MaxRetr,    \* MAX_SMS_RETRY
    Destroys    \* the MM layer destroys the transaction on MMSMS-REL-REQ

ASSUME SmsAssumption == MaxRetr \in Nat /\ Destroys \in BOOLEAN

CpStates == {"IDLE", "MM_CONN_PENDING", "WAIT_CP_ACK", "MM_ESTABLISHED"}
RpStates == {"IDLE", "WAIT_FOR_RP_ACK", "WAIT_TO_TX_RP_ACK"}

(* An RP message.  kind is DATA (also for RP-SMMA, which is handled alike), *)
(* ACK, ERROR, REVERSED (a type of the other direction) or UNKNOWN; NoMsg   *)
(* is a null pointer, and an empty message.                                 *)
RpKinds == {"DATA", "ACK", "ERROR", "REVERSED", "UNKNOWN"}
NoMsg == [kind |-> "none"]
Rp(kind) == [kind |-> kind]

(* gsm411_smc_init(), gsm411_smr_init(); and no transaction, as             *)
(* gsm411_smc_clear() and gsm411_smr_clear() leave it.                      *)
New == [life |-> "live", cp_state |-> "IDLE", cp_timer |-> FALSE, cp_msg |-> NoMsg,
        cp_rel |-> FALSE, cp_retx |-> 0, rp_state |-> "IDLE", rp_timer |-> FALSE,
        mm |-> <<>>, prims |-> {}, inds |-> <<>>, reps |-> <<>>, fatal |-> FALSE]
Gone == [New EXCEPT !.life = "gone"]

-----------------------------------------------------------------------------
(* What the handlers are made of *)

Used(d) == [d EXCEPT !.life = IF @ = "live" THEN @ ELSE "used"]
NewCpState(d, s) == [Used(d) EXCEPT !.cp_state = s]
FreeCpMsg(d) == [Used(d) EXCEPT !.cp_msg = NoMsg]
(* new_rp_state(): the timer is stopped when going idle.                    *)
NewRpState(d, s) ==
    [Used(d) EXCEPT !.rp_state = s, !.rp_timer = @ /\ s # "IDLE"]

MmSend(d, prim) == [Used(d) EXCEPT !.prims = @ \cup {prim}]
CpSend(d, cp, rp) == [Used(d) EXCEPT !.mm = Append(@, [cp |-> cp, rp |-> rp])]
RlDataInd(d, rp) == [Used(d) EXCEPT !.inds = Append(@, rp)]
RlReportInd(d, rp) == [Used(d) EXCEPT !.reps = Append(@, rp)]

(* MMSMS-REL-REQ.                                                           *)
MmRelReq(d) ==
    LET r == MmSend(d, "REL_REQ")
    IN  IF Destroys
        THEN [Gone EXCEPT !.life = IF r.life = "live" THEN "gone" ELSE "used",
                          !.mm = r.mm, !.prims = r.prims, !.inds = r.inds,
                          !.reps = r.reps, !.fatal = r.fatal]
        ELSE r

-----------------------------------------------------------------------------
(* gsm0411_smc.c: requests of the relay layer *)

EstReq(d, rp) ==
    LET e == [d EXCEPT !.fatal = @ \/ d.cp_msg # NoMsg, !.cp_msg = rp, !.cp_rel = FALSE]
    IN  MmSend(NewCpState(e, "MM_CONN_PENDING"), "EST_REQ")

(* gsm411_mmsms_send_msg(): TC1* is started.                                *)
SendMsg(d) ==
    LET e == [d EXCEPT !.cp_retx = IF d.cp_state # "WAIT_CP_ACK" THEN 0 ELSE @,
                       !.cp_timer = TRUE]
    IN  CpSend(NewCpState(e, "WAIT_CP_ACK"), "DATA", d.cp_msg)

DataReq(d, rp) ==
    SendMsg([d EXCEPT !.fatal = @ \/ d.cp_msg # NoMsg, !.cp_msg = rp])

(* A release is stored until the message that is under way is acknowledged; *)
(* the mutant drops it.                                                     *)
RelReqNotStored(d) ==
    IF d.cp_state # "MM_ESTABLISHED" THEN Used(d)
    ELSE MmRelReq(NewCpState(FreeCpMsg(d), "IDLE"))
RelReq(d) ==
    IF d.cp_state = "IDLE" THEN Used(d)
    ELSE IF d.cp_state # "MM_ESTABLISHED" THEN [Used(d) EXCEPT !.cp_rel = TRUE]
    ELSE MmRelReq(NewCpState(FreeCpMsg(d), "IDLE"))

AbortReq(d) ==
    MmRelReq(CpSend(NewCpState(FreeCpMsg(d), "IDLE"), "ERROR", NoMsg))

(* gsm411_smc_send(): smcdownstatelist; the rest is unhandled.              *)
SmcSend(d, prim, rp) ==
    CASE prim = "EST_REQ" /\ d.cp_state = "IDLE" -> EstReq(d, rp)
      [] prim = "REL_REQ" -> RelReq(d)
      [] prim = "DATA_REQ" /\ d.cp_state = "MM_ESTABLISHED" -> DataReq(d, rp)
      [] prim = "ABORT_REQ" /\ d.cp_state # "IDLE" -> AbortReq(d)
      [] OTHER -> Used(d)

-----------------------------------------------------------------------------
(* gsm0411_smr.c *)

SendRelease(d) == SmcSend(d, "REL_REQ", NoMsg)
SendRpError(d) == SmcSend(d, "DATA_REQ", Rp("ERROR"))

RlDataReq(d, rp) ==
    SmcSend(NewRpState([d EXCEPT !.rp_timer = TRUE], "WAIT_FOR_RP_ACK"), "EST_REQ", rp)
RlReportReq(d, rp) ==
    SendRelease(SmcSend(NewRpState(d, "IDLE"), "DATA_REQ", rp))

(* gsm411_smr_send(): smrdownstatelist.                                     *)
SmrSend(d, prim, rp) ==
    CASE prim = "DATA_REQ" /\ d.rp_state = "IDLE" -> RlDataReq(d, rp)
      [] prim = "REPORT_REQ" /\ d.rp_state = "WAIT_TO_TX_RP_ACK" -> RlReportReq(d, rp)
      [] OTHER -> Used(d)

(* gsm411_mnsms_est_ind(): a message of an unknown type is answered with    *)
(* RP-ERROR, without a release.                                             *)
MnEstInd(d, rp) ==
    CASE rp.kind = "DATA" ->
            RlDataInd(NewRpState([d EXCEPT !.rp_timer = TRUE], "WAIT_TO_TX_RP_ACK"), rp)
      [] rp.kind = "REVERSED" -> SendRelease(NewRpState(SendRpError(d), "IDLE"))
      [] OTHER -> NewRpState(SendRpError(d), "IDLE")

(* gsm411_mnsms_data_ind_tx(); a mutant releases first.                     *)
MnDataIndTxReleaseFirst(d, rp) ==
    IF rp.kind \in {"ACK", "ERROR"}
    THEN RlReportInd(SendRelease(NewRpState(d, "IDLE")), rp)
    ELSE SendRelease(NewRpState(SendRpError(d), "IDLE"))
MnDataIndTx(d, rp) ==
    IF rp.kind \in {"ACK", "ERROR"}
    THEN SendRelease(RlReportInd(NewRpState(d, "IDLE"), rp))
    ELSE SendRelease(NewRpState(SendRpError(d), "IDLE"))

(* gsm411_mnsms_error_ind_tx(); the mutant does not report.                 *)
MnErrorIndTxQuietly(d) == SendRelease(NewRpState(d, "IDLE"))
MnErrorIndTx(d) == SendRelease(RlReportInd(NewRpState(d, "IDLE"), NoMsg))
MnErrorIndRx(d) == RlReportInd(NewRpState(d, "IDLE"), NoMsg)

(* gsm411_smr_recv(): smrdatastatelist; the mutant takes data in any state. *)
SmrRecvAnyState(d, prim, rp) ==
    CASE prim \in {"EST_IND", "DATA_IND"} /\ d.rp_state # "WAIT_FOR_RP_ACK" -> MnEstInd(d, rp)
      [] prim = "DATA_IND" /\ d.rp_state = "WAIT_FOR_RP_ACK" -> MnDataIndTx(d, rp)
      [] prim = "ERROR_IND" /\ d.rp_state = "WAIT_FOR_RP_ACK" -> MnErrorIndTx(d)
      [] prim = "ERROR_IND" /\ d.rp_state = "WAIT_TO_TX_RP_ACK" -> MnErrorIndRx(d)
      [] OTHER -> Used(d)
SmrRecv(d, prim, rp) ==
    CASE prim = "EST_IND" /\ d.rp_state = "IDLE" -> MnEstInd(d, rp)
      [] prim = "DATA_IND" /\ d.rp_state = "WAIT_FOR_RP_ACK" -> MnDataIndTx(d, rp)
      [] prim = "ERROR_IND" /\ d.rp_state = "WAIT_FOR_RP_ACK" -> MnErrorIndTx(d)
      [] prim = "ERROR_IND" /\ d.rp_state = "WAIT_TO_TX_RP_ACK" -> MnErrorIndRx(d)
      [] OTHER -> Used(d)

(* rp_timer_expired() for TR1N and TR2N: the state is left as it is; the    *)
(* mutant does not abort.                                                   *)
RpTimerExpiredQuietly(d) == RlReportInd([d EXCEPT !.rp_timer = FALSE], NoMsg)
RpTimerExpired(d) ==
    SmcSend(RlReportInd([d EXCEPT !.rp_timer = FALSE], NoMsg), "ABORT_REQ", NoMsg)

-----------------------------------------------------------------------------
(* gsm0411_smc.c: TC1* and messages of the MM layer *)

EstCnf(d) == IF d.cp_msg = NoMsg THEN [Used(d) EXCEPT !.fatal = TRUE] ELSE SendMsg(d)

(* cp_timer_expired().                                                      *)
CpTimerExpired(d) ==
    LET e == [d EXCEPT !.cp_timer = FALSE]
    IN  IF d.cp_retx = MaxRetr
        THEN MmRelReq(FreeCpMsg(SmrRecv(NewCpState(e, "IDLE"), "ERROR_IND", NoMsg)))
        ELSE EstCnf([e EXCEPT !.cp_retx = @ + 1])

(* gsm411_mmsms_cp_ack(); in the mutant TC1* goes on.                       *)
CpAckKeepsTimer(d) ==
    LET e == NewCpState(FreeCpMsg(d), "MM_ESTABLISHED")
    IN  IF d.cp_rel THEN MmRelReq(NewCpState(e, "IDLE")) ELSE e
CpAck(d) ==
    LET e == [NewCpState(FreeCpMsg(d), "MM_ESTABLISHED") EXCEPT !.cp_timer = FALSE]
    IN  IF d.cp_rel THEN MmRelReq(NewCpState(e, "IDLE")) ELSE e

(* gsm411_mmsms_cp_data(): CP-ACK goes out before the message goes up.      *)
CpData(d, rp) ==
    LET first == d.cp_state = "IDLE"
        e == IF first THEN [NewCpState(d, "MM_ESTABLISHED") EXCEPT !.cp_rel = FALSE] ELSE d
    IN  SmrRecv(CpSend(e, "ACK", NoMsg), IF first THEN "EST_IND" ELSE "DATA_IND", rp)

(* gsm411_mmsms_cp_error().                                                 *)
CpError(d) ==
    MmRelReq(SmrRecv(NewCpState(FreeCpMsg(d), "IDLE"), "ERROR_IND", NoMsg))

(* gsm411_mmsms_rel_ind(): the MM connection is gone already.               *)
RelInd(d) == SmrRecv(NewCpState(FreeCpMsg(d), "IDLE"), "ERROR_IND", NoMsg)

(* The end of gsm411_smc_recv() for messages that no entry of the list      *)
(* handles: cp_msg and TC1* are left as they are.                           *)
Unhandled(d) ==
    MmRelReq(SmrRecv(CpSend(NewCpState(d, "IDLE"), "ERROR", NoMsg), "ERROR_IND", NoMsg))

(* gsm411_smc_recv(): smcdatastatelist.                                     *)
SmcRecv(d, prim, cp, rp) ==
    CASE prim = "EST_CNF" -> IF d.cp_state = "MM_CONN_PENDING" THEN EstCnf(d) ELSE Used(d)
      [] prim = "REL_IND" -> IF d.cp_state # "IDLE" THEN RelInd(d) ELSE Used(d)
      [] prim = "EST_IND" -> IF d.cp_state = "IDLE" THEN CpData(d, rp) ELSE Unhandled(d)
      [] prim = "DATA_IND" /\ cp = "ERROR" -> CpError(d)
      [] prim = "DATA_IND" /\ cp = "ACK" /\ d.cp_state = "WAIT_CP_ACK" -> CpAck(d)
      [] prim = "DATA_IND" /\ cp = "DATA" /\ d.cp_state = "MM_ESTABLISHED" -> CpData(d, rp)
      [] OTHER -> Unhandled(d)

=============================================================================

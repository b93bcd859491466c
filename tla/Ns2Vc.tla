-------------------------------- MODULE Ns2Vc --------------------------------
(***************************************************************************)
(* An NS entity (NSE) and its virtual connections (NS-VCs): the FSM of     *)
(* src/gb/gprs_ns2_vc_fsm.c and the bookkeeping of src/gb/gprs_ns2.c that  *)
(* depends on it, as operators from the entity to the entity.  An entity s *)
(* is a record: s.vc[v] has the fields of struct gprs_ns2_vc and of its    *)
(* FSM, s.nse those of struct gprs_ns2_nse; s.tx collects the PDUs that    *)
(* are transmitted, as <<v, pdu>>, s.ind what is given to the NS user of   *)
(* an NS-VC, and s.news what he is told of the entity.                     *)
(***************************************************************************)
EXTENDS Naturals, Sequences, FiniteSetsExt

CONSTANTS
    VcList,        \* all NS-VCs, in the order of nse->nsvc
    ResetRetries,  \* NS_TOUT_TNS_RESET_RETRIES
    BlockRetries,  \* NS_TOUT_TNS_BLOCK_RETRIES
    AliveRetries   \* NS_TOUT_TNS_ALIVE_RETRIES

Vcs == {VcList[n] : n \in DOMAIN VcList}

ASSUME Ns2Assumption ==
    /\ {ResetRetries, BlockRetries, AliveRetries} \subseteq Nat
    /\ VcList \in Seq(Vcs)

(* The FSM states; FREED is an NS-VC that is in no list any more.           *)
States == {"UNCONFIGURED", "RESET", "BLOCKED", "UNBLOCKED", "RECOVERING", "FREED"}

(* out_state_mask of ns2_vc_states.                                         *)
OutStates ==
    [UNCONFIGURED |-> {"RESET", "RECOVERING", "UNBLOCKED"},
     RESET        |-> {"RESET", "BLOCKED", "UNCONFIGURED"},
     BLOCKED      |-> {"RESET", "UNBLOCKED", "BLOCKED", "UNCONFIGURED"},
     UNBLOCKED    |-> {"RESET", "RECOVERING", "BLOCKED", "UNCONFIGURED"},
     RECOVERING   |-> {"RECOVERING", "UNBLOCKED", "UNCONFIGURED"}]

(* A PDU and the NS-VC whose NS-VCI it has (ALIVE, UNBLOCK and their        *)
(* answers have none: they belong to the one they are received over).       *)
Pdu(t, v) == [type |-> t, vc |-> v]

(* ns2_vc_alloc() and ns2_vc_fsm_alloc(): timer is the FSM's, overdue says  *)
(* that it runs to an old deadline, test is the timer of the test           *)
(* procedure, which is in the given mode.                                   *)
NewVc(initiator) ==
    [state |-> "UNCONFIGURED", timer |-> FALSE, overdue |-> FALSE, N |-> 0, initiator |-> initiator,
     initiate_block |-> FALSE, initiate_reset |-> FALSE, accept_unitdata |-> FALSE,
     om_blocked |-> FALSE, test |-> FALSE, mode |-> "none", tries |-> 0]

NewEntity(mode, initiator, weights) ==
    [mode |-> mode, weights |-> weights, vc |-> [v \in DOMAIN weights |-> NewVc(initiator)],
     nse |-> [alive |-> FALSE, first |-> TRUE, count |-> 0, data |-> 0, sig |-> 0],
     tx |-> <<>>, ind |-> <<>>, news |-> <<>>]

(* The member of a set of one.  The({F(x) : x \in {e}}) is F(e), with e     *)
(* evaluated once wherever F mentions it.                                   *)
The(S) == CHOOSE r \in S : TRUE

-----------------------------------------------------------------------------
(* gprs_ns2.c *)

Tx(s, v, t) == [s EXCEPT !.tx = Append(@, <<v, Pdu(t, v)>>)]

(* about is "ind" or "news".                                                *)
StatusInd(s, about, cause) ==
    [s EXCEPT ![about] = Append(@, [cause |-> cause, first |-> s.nse.first])]

Unblocked(s) == {v \in DOMAIN s.vc : s.vc[v].state = "UNBLOCKED"}

(* A walk of nse->nsvc that adds up the shares of the NS-VCs in up: the sum *)
(* after n members of the list.                                             *)
Sums(up, share) ==
    LET sum[n \in 0..Len(VcList)] ==
            IF n = 0 THEN 0
            ELSE sum[n - 1] + IF VcList[n] \in up THEN share[VcList[n]] ELSE 0
    IN  sum
Sum(up, share) == Sums(up, share)[Len(VcList)]

Alike == [v \in Vcs |-> 1]
Weights(s, of) == [v \in DOMAIN s.weights |-> s.weights[v][of]]

(* ns2_nse_data_sum(); a mutant adds to the old number of NS-VCs.           *)
DataSumAdds(s) ==
    [s EXCEPT !.nse.count = @ + Sum(Unblocked(s), Alike),
              !.nse.data = Sum(Unblocked(s), Weights(s, "data")),
              !.nse.sig = Sum(Unblocked(s), Weights(s, "sig"))]
DataSum(s) ==
    [s EXCEPT !.nse.count = Sum(Unblocked(s), Alike),
              !.nse.data = Sum(Unblocked(s), Weights(s, "data")),
              !.nse.sig = Sum(Unblocked(s), Weights(s, "sig"))]

(* ns2_nse_notify_unblocked(), without an SNS FSM; a mutant takes any       *)
(* blocked NS-VC for the end of the NSE.                                    *)
NotifiedAnyDown(t, unblocked) ==
    LET able == t.nse.data # 0 /\ t.nse.sig # 0
    IN  IF unblocked = t.nse.alive THEN t
        ELSE IF unblocked /\ able
        THEN [StatusInd([t EXCEPT !.nse.alive = TRUE], "news", "RECOVERY") EXCEPT !.nse.first = FALSE]
        ELSE IF t.nse.alive
        THEN StatusInd([t EXCEPT !.nse.alive = FALSE], "news", "FAILURE")
        ELSE t
Notified(t, unblocked) ==
    LET able == t.nse.data # 0 /\ t.nse.sig # 0
    IN  IF unblocked = t.nse.alive THEN t
        ELSE IF unblocked /\ able
        THEN [StatusInd([t EXCEPT !.nse.alive = TRUE], "news", "RECOVERY") EXCEPT !.nse.first = FALSE]
        ELSE IF t.nse.alive /\ ~able
        THEN StatusInd([t EXCEPT !.nse.alive = FALSE], "news", "FAILURE")
        ELSE t
NotifyUnblocked(s, unblocked) == The({Notified(t, unblocked) : t \in {DataSum(s)}})

(* The NS-VC that number selects, as a sequence of none or one: the first   *)
(* with which the sum exceeds it.                                           *)
Selected(up, share, number) ==
    LET sums == Sums(up, share)
        beyond == {n \in 1..Len(VcList) : number < sums[n]}
    IN  IF beyond = {} THEN <<>> ELSE <<VcList[Min(beyond)]>>

(* ns2_load_sharing_modulo(); n is a hash of BVCI and LSP.                  *)
LoadSharingModulo(s, n) ==
    IF s.nse.count = 0 THEN <<>> ELSE Selected(Unblocked(s), Alike, n % s.nse.count)

(* ns2_load_sharing_weight_modulo(): each NS-VC stands for as many numbers  *)
(* as its data weight.                                                      *)
LoadSharingWeightModulo(s, n) ==
    IF s.nse.count = 0 THEN <<>>
    ELSE Selected(Unblocked(s), Weights(s, "data"), n % s.nse.data)

LinkLayers == {"FR", "UDP"}

(* ns2_load_sharing(), for data.                                            *)
LoadSharing(s, n, ll) ==
    IF ll = "FR" THEN LoadSharingModulo(s, n) ELSE LoadSharingWeightModulo(s, n)

(* gprs_ns2_recv_prim(): NS-UNITDATA.request.                               *)
RecvPrim(s, n, ll) ==
    LET chosen == LoadSharing(s, n, ll)
    IN  IF ~s.nse.alive \/ chosen = <<>> THEN s ELSE Tx(s, chosen[1], "UNITDATA")

(* gprs_ns2_free_nsvc().                                                    *)
FreeNsvc(s, v) ==
    IF s.vc[v].state = "FREED" THEN s
    ELSE NotifyUnblocked([StatusInd(s, "ind", "VC_FAILURE") EXCEPT
                             !.vc[v] = [NewVc(@.initiator) EXCEPT !.state = "FREED"]], FALSE)

-----------------------------------------------------------------------------
(* gprs_ns2_vc_fsm.c: the test procedure *)

Tested(t, v) ==
    IF t.vc[v].test /\ t.vc[v].mode = "ALIVE" THEN t
    ELSE Tx([t EXCEPT !.vc[v].tries = 0, !.vc[v].mode = "ALIVE", !.vc[v].test = TRUE],
            v, "ALIVE")
StartTestProcedure(s, v) == The({Tested(t, v) : t \in {s}})

StopTestProcedure(s, v) == [s EXCEPT !.vc[v].test = FALSE]

RecvTestProcedure(s, v) ==
    IF s.vc[v].mode # "ALIVE" THEN s
    ELSE [s EXCEPT !.vc[v].mode = "TEST", !.vc[v].test = TRUE]

-----------------------------------------------------------------------------
(* The functions that are called on entering a state *)

ResetOnEnter(s, v, old) ==
    LET t == [s EXCEPT !.vc[v].N = IF old # "RESET" THEN 0 ELSE @,
                       !.vc[v].accept_unitdata = FALSE]
        u == IF t.vc[v].initiate_reset THEN Tx(t, v, "RESET") ELSE t
    IN  NotifyUnblocked(StopTestProcedure(u, v), FALSE)

BlockOrUnblock(u, v, old) ==
    IF u.vc[v].om_blocked
    THEN IF old = "RESET" THEN [u EXCEPT !.vc[v].timer = FALSE] ELSE Tx(u, v, "BLOCK")
    ELSE IF u.vc[v].initiate_block THEN Tx(u, v, "UNBLOCK") ELSE u
BlockedOnEnter(s, v, old) ==
    LET t == NotifyUnblocked([s EXCEPT !.vc[v].N = IF old # "BLOCKED" THEN 0 ELSE @], FALSE)
    IN  StartTestProcedure(The({BlockOrUnblock(u, v, old) : u \in {t}}), v)

UnblockedOnEnter(s, v) ==
    LET t == NotifyUnblocked([s EXCEPT !.vc[v].accept_unitdata = TRUE], TRUE)
    IN  StartTestProcedure(The({StatusInd(u, "ind", "VC_RECOVERY") : u \in {t}}), v)

(* ns2_st_alive_onenter().                                                  *)
RecoveringOnEnter(s, v, old) ==
    LET t == [s EXCEPT !.vc[v].mode = "TEST", !.vc[v].test = TRUE,
                       !.vc[v].N = IF old # "RECOVERING" THEN 0 ELSE @]
    IN  NotifyUnblocked(StartTestProcedure(t, v), FALSE)

OnEnter(s, v, old) ==
    LET new == s.vc[v].state
    IN  CASE new = "UNCONFIGURED" -> NotifyUnblocked(StopTestProcedure(s, v), FALSE)
          [] new = "RESET" -> ResetOnEnter(s, v, old)
          [] new = "BLOCKED" -> BlockedOnEnter(s, v, old)
          [] new = "UNBLOCKED" -> UnblockedOnEnter(s, v)
          [] new = "RECOVERING" -> RecoveringOnEnter(s, v, old)

(* osmo_fsm_inst_state_chg(): a transition that is not permitted changes    *)
(* nothing; timeout says that the timer is started.                         *)
Changed(t, v, new, timeout) ==
    LET old == t.vc[v].state
        there == [t EXCEPT !.vc[v].state = new, !.vc[v].timer = timeout,
                           !.vc[v].overdue = FALSE]
    IN  IF new \notin OutStates[old] THEN t
        ELSE The({OnEnter(u, v, old) : u \in {there}})
StateChg(s, v, new, timeout) == The({Changed(t, v, new, timeout) : t \in {s}})

-----------------------------------------------------------------------------
(* Timers *)

(* alive_timeout_handler(); the mutant forgets how often it tried.          *)
AliveTimeoutForgetful(s, v) ==
    Tx([s EXCEPT !.vc[v].mode = "ALIVE", !.vc[v].tries = 0], v, "ALIVE")
AliveTimeout(s, v) ==
    IF s.vc[v].mode = "TEST"
    THEN Tx([s EXCEPT !.vc[v].mode = "ALIVE", !.vc[v].tries = 0], v, "ALIVE")
    ELSE LET t == [s EXCEPT !.vc[v].tries = @ + 1]
         IN  IF t.vc[v].tries <= AliveRetries THEN Tx(t, v, "ALIVE")
             ELSE StateChg([t EXCEPT !.vc[v].test = FALSE], v,
                           IF s.mode = "BLOCKRESET" THEN "RESET" ELSE "RECOVERING", TRUE)

TimerReset(t, v) ==
    IF ~t.vc[v].initiate_reset THEN t
    ELSE StateChg([t EXCEPT !.vc[v].N = IF @ + 1 <= ResetRetries THEN @ + 1 ELSE 0],
                  v, "RESET", TRUE)

(* A mutant gives up on UNBLOCK as it does on BLOCK.                        *)
TimerBlockedGivesUp(t, v) ==
    LET u == [t EXCEPT !.vc[v].N = @ + 1]
    IN  IF ~t.vc[v].initiate_block THEN t
        ELSE IF u.vc[v].N <= BlockRetries THEN StateChg(u, v, "BLOCKED", TRUE)
        ELSE [u EXCEPT !.vc[v].accept_unitdata = FALSE]
TimerBlocked(t, v) ==
    LET u == [t EXCEPT !.vc[v].N = @ + 1]
    IN  IF ~t.vc[v].initiate_block THEN t
        ELSE IF u.vc[v].N <= BlockRetries THEN StateChg(u, v, "BLOCKED", TRUE)
        ELSE IF u.vc[v].om_blocked THEN [u EXCEPT !.vc[v].accept_unitdata = FALSE]
        ELSE StateChg(u, v, "RESET", TRUE)

TimerRecovering(t, v) ==
    IF ~t.vc[v].initiate_reset THEN t
    ELSE StateChg([t EXCEPT !.vc[v].N = IF @ + 1 <= AliveRetries THEN @ + 1 ELSE 0],
                  v, "RECOVERING", FALSE)

(* ns2_vc_fsm_timer_cb().                                                   *)
FsmTimer(s, v) ==
    LET t == [s EXCEPT !.vc[v].timer = FALSE, !.vc[v].overdue = FALSE]
    IN  CASE t.vc[v].state = "RESET" -> TimerReset(t, v)
          [] t.vc[v].state = "BLOCKED" -> TimerBlocked(t, v)
          [] t.vc[v].state = "RECOVERING" -> TimerRecovering(t, v)
          [] OTHER -> t

-----------------------------------------------------------------------------
(* The state actions *)

(* ns2_st_unconfigured(): GPRS_NS2_EV_REQ_START.                            *)
StUnconfigured(s, v) ==
    LET t == [s EXCEPT !.vc[v].initiate_reset = s.vc[v].initiator,
                       !.vc[v].initiate_block = s.vc[v].initiator,
                       !.vc[v].om_blocked = FALSE]
    IN  StateChg(t, v, IF s.mode = "BLOCKRESET" THEN "RESET" ELSE "RECOVERING", TRUE)

StReset(s, v, event) ==
    LET t == IF event = "RESET" THEN Tx(s, v, "RESET_ACK") ELSE s
    IN  IF s.vc[v].initiate_reset THEN StateChg(t, v, "BLOCKED", TRUE)
        ELSE IF event = "RESET" THEN StateChg(t, v, "BLOCKED", FALSE) ELSE t

(* ns2_st_blocked() of an NS-VC that is blocked by O&M, ...  (UNBLOCK adds  *)
(* the timer as it was last scheduled.)                                     *)
StOmBlocked(s, v, event) ==
    LET t == [s EXCEPT !.vc[v].accept_unitdata = FALSE]
    IN  CASE event \in {"BLOCK_ACK", "BLOCK_FOREIGN"} -> [t EXCEPT !.vc[v].timer = FALSE, !.vc[v].overdue = FALSE]
          [] event = "BLOCK" -> Tx([t EXCEPT !.vc[v].timer = FALSE, !.vc[v].overdue = FALSE], v, "BLOCK_ACK")
          [] event = "UNBLOCK" -> Tx([t EXCEPT !.vc[v].timer = TRUE, !.vc[v].overdue = TRUE], v, "BLOCK")
          [] OTHER -> s

(* ... and of one that is not.                                              *)
StJustBlocked(s, v, event) ==
    CASE event = "BLOCK" -> Tx(s, v, "BLOCK_ACK")
      [] event = "UNBLOCK" -> StateChg(Tx(s, v, "UNBLOCK_ACK"), v, "UNBLOCKED", FALSE)
      [] event = "UNBLOCK_ACK" /\ s.vc[v].initiate_block -> StateChg(s, v, "UNBLOCKED", FALSE)
      [] OTHER -> s

(* ns2_st_blocked(); the mutant does not know of O&M.                       *)
StBlockedWithoutOm(s, v, event) == StJustBlocked(s, v, event)
StBlocked(s, v, event) ==
    IF s.vc[v].om_blocked THEN StOmBlocked(s, v, event) ELSE StJustBlocked(s, v, event)

StUnblocked(s, v, event) ==
    CASE event = "UNBLOCK" -> Tx(s, v, "UNBLOCK_ACK")
      [] event \in {"BLOCK", "BLOCK_FOREIGN"} ->
            LET t == IF event = "BLOCK" THEN Tx(s, v, "BLOCK_ACK") ELSE s
            IN  StateChg([t EXCEPT !.vc[v].initiate_block = FALSE,
                                   !.vc[v].accept_unitdata = FALSE], v, "BLOCKED", FALSE)
      [] OTHER -> s

-----------------------------------------------------------------------------
(* ns2_vc_fsm_allstate_action() *)

OmReset(s, v) ==
    IF s.mode # "BLOCKRESET" \/ s.vc[v].state = "RESET" THEN s
    ELSE StateChg([s EXCEPT !.vc[v].initiate_reset = TRUE], v, "RESET", TRUE)

RxReset(s, v) ==
    IF s.mode # "BLOCKRESET" THEN s
    ELSE LET inReset == IF s.vc[v].state = "RESET" THEN s
                        ELSE StateChg([s EXCEPT !.vc[v].initiate_reset = FALSE], v, "RESET", TRUE)
         IN  The({StReset(t, v, "RESET") : t \in {inReset}})

RxAlive(s, v) ==
    IF s.vc[v].state \in {"UNCONFIGURED", "RESET"} THEN s ELSE Tx(s, v, "ALIVE_ACK")

RxAliveAck(s, v) ==
    IF s.vc[v].state = "RECOVERING" THEN StateChg(s, v, "UNBLOCKED", FALSE)
    ELSE RecvTestProcedure(s, v)

RxUnitdata(s, v) ==
    IF \/ s.vc[v].state \in {"RECOVERING", "UNBLOCKED"}
       \/ s.vc[v].state = "BLOCKED" /\ s.vc[v].accept_unitdata
    THEN [s EXCEPT !.ind = Append(@, [cause |-> "UNITDATA", first |-> FALSE])]
    ELSE IF s.vc[v].state = "BLOCKED" THEN Tx(s, v, "STATUS_BLOCKED") ELSE s

ForceUnconfigured(s, v) == StateChg(s, v, "UNCONFIGURED", FALSE)

(* ns2_vc_block() and ns2_vc_unblock() answer -EALREADY where they must.    *)
OmBlock(s, v) ==
    IF s.vc[v].om_blocked THEN s
    ELSE StateChg([s EXCEPT !.vc[v].initiate_block = TRUE, !.vc[v].om_blocked = TRUE],
                  v, "BLOCKED", TRUE)
OmUnblock(s, v) ==
    LET t == [s EXCEPT !.vc[v].om_blocked = FALSE]
    IN  IF s.vc[v].om_blocked /\ s.vc[v].state = "BLOCKED"
        THEN StateChg(t, v, "BLOCKED", TRUE) ELSE t

(* NS-STATUS with the causes "NS-VC blocked" and "NS-VC unknown".           *)
RxStatus(s, v, type) ==
    CASE type = "STATUS_BLOCKED" /\ s.vc[v].state # "BLOCKED" ->
            StateChg([s EXCEPT !.vc[v].initiate_block = FALSE,
                               !.vc[v].accept_unitdata = FALSE], v, "BLOCKED", TRUE)
      [] type = "STATUS_UNKNOWN" /\ s.vc[v].state \notin {"RESET", "UNCONFIGURED"} ->
            StateChg(s, v, "RESET", TRUE)
      [] OTHER -> s

-----------------------------------------------------------------------------
(* osmo_fsm_inst_dispatch(): events of all states, and the in_event_mask of *)
(* each state.                                                              *)
Dispatch(s, v, event) ==
    LET state == s.vc[v].state
    IN  CASE event = "RESET" -> RxReset(s, v)
          [] event = "ALIVE" -> RxAlive(s, v)
          [] event = "ALIVE_ACK" -> RxAliveAck(s, v)
          [] event = "UNITDATA" -> RxUnitdata(s, v)
          [] event \in {"STATUS_BLOCKED", "STATUS_UNKNOWN"} -> RxStatus(s, v, event)
          [] event = "RESET_ACK" /\ state = "RESET" -> StReset(s, v, event)
          [] event # "RESET_ACK" /\ state = "BLOCKED" -> StBlocked(s, v, event)
          [] event # "RESET_ACK" /\ state = "UNBLOCKED" -> StUnblocked(s, v, event)
          [] OTHER -> s

(* ns2_vc_rx(): well-formed PDUs of this NSE; those with the NS-VCI of      *)
(* another NS-VC are about that one, refused or ignored.                    *)
VcRx(s, v, p) ==
    IF p.vc = v THEN Dispatch(s, v, p.type)
    ELSE LET known == p.vc \in DOMAIN s.vc /\ s.vc[p.vc].state # "FREED"
         IN  CASE p.type = "RESET" -> Tx(s, v, "RESET_ACK")
               [] p.type = "BLOCK" /\ known ->
                    [Dispatch(s, p.vc, "BLOCK_FOREIGN") EXCEPT
                        !.tx = Append(@, <<v, Pdu("BLOCK_ACK", p.vc)>>)]
               [] p.type = "BLOCK" /\ ~known ->
                    [s EXCEPT !.tx = Append(@, <<v, Pdu("STATUS_UNKNOWN", p.vc)>>)]
               [] p.type \in {"STATUS_BLOCKED", "STATUS_UNKNOWN"} /\ known ->
                    Dispatch(s, p.vc, p.type)
               [] OTHER -> s

=============================================================================

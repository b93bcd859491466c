-------------------------------- MODULE Lapd --------------------------------
(***************************************************************************)
(* The handlers of one LAPD datalink (src/isdn/lapd_core.c), as operators  *)
(* from the datalink to the datalink.  A datalink is a record with the     *)
(* fields of struct lapd_datalink and two output fields: ph, the frames    *)
(* given to send_ph_data_req(), and up, the primitives given to            *)
(* send_dlsap(), both in the order of the calls.                           *)
(*                                                                         *)
(* An L3 message is a member of Msgs and consists of Segs[m] segments of   *)
(* N201 octets each; a segment is [m |-> m, i |-> i], and i = 0 an empty   *)
(* one.  The information field of a U frame is a value of its own: 0 is    *)
(* the empty one, Oversized one that is longer than N201 or has the M bit  *)
(* set.  Octets, addresses and the header layout are left out.             *)
(***************************************************************************)
EXTENDS Integers, Sequences, FiniteSets

CONSTANTS
    K,            \* dl->k: maximum number of unacknowledged frames
    VRange,       \* dl->v_range: range of sequence numbers
    HistRange,    \* dl->range_hist: slots of the history
    N200,         \* dl->n200
    N200EstRel,   \* dl->n200_est_rel
    Reestablish,  \* dl->reestablish
    T203On,       \* dl->t203_sec || dl->t203_usec
    Rts,          \* LAPD_F_RTS: L1 polls for frames
    Drop2ndRej,   \* LAPD_F_DROP_2ND_REJ
    Msgs,         \* the L3 messages
    Segs,         \* how many N201-sized segments each has
    MaxF          \* dl->maxf, in segments

(* What lapd_dl_init2() makes of the parameters: k below the modulus, and a *)
(* history that is a power of two, at least k + 1 and as small as possible. *)
ASSUME ParamAssumption ==
    /\ VRange \in Nat \ {0}
    /\ K \in 1..(VRange - 1)
    /\ N200 \in Nat /\ N200EstRel \in Nat
    /\ Reestablish \in BOOLEAN /\ T203On \in BOOLEAN
    /\ Rts \in BOOLEAN /\ Drop2ndRej \in BOOLEAN
    /\ Msgs \subseteq Nat \ {0} /\ Segs \in [Msgs -> Nat \ {0}]
    /\ MaxF \in Nat \ {0}
ASSUME HistAssumption ==
    /\ HistRange \in 2..VRange
    /\ K < HistRange /\ HistRange <= 2 * K
    /\ VRange % HistRange = 0

States == {"NULL", "IDLE", "SABM_SENT", "DISC_SENT", "MF_EST", "TIMER_RECOV"}
Connected == {"MF_EST", "TIMER_RECOV"}

-----------------------------------------------------------------------------
(* Sequence numbers: the masks of inc_mod(), add_mod() and sub_mod(), whose *)
(* modulus is a power of two.                                               *)
IncMod(x) == (x + 1) % VRange
AddMod(x, y) == (x + y) % VRange
SubMod(x, y) == (x - y) % VRange
Slot(x) == x % HistRange

(* Frames.  cr is the meaning of the C/R bit for the sender's mode.         *)
Oversized == -1
UFrame(s_u, cr, pf, info) ==
    [format |-> "U", s_u |-> s_u, cr |-> cr, pf |-> pf, info |-> info]
SFrame(s_u, cr, pf, nr) ==
    [format |-> "S", s_u |-> s_u, cr |-> cr, pf |-> pf, nr |-> nr]
IFrame(ns, nr, pf, seg, more) ==
    [format |-> "I", cr |-> "cmd", pf |-> pf, ns |-> ns, nr |-> nr,
     seg |-> seg, more |-> more]

(* send_dl_simple() and mdl_error().                                        *)
SendDlSimple(d, prim) == [d EXCEPT !.up = Append(@, [prim |-> prim])]
MdlError(d, cause) ==
    [d EXCEPT !.up = Append(@, [prim |-> "MDL_ERROR", cause |-> cause])]

(* dl->send_ph_data_req().  Without RTS the frame goes to L1.  With RTS it  *)
(* is LAPDm's tx_ph_data_enqueue() in polling mode: the queue holds one     *)
(* frame, an older one is overwritten, and then V(S) is set to V(A).        *)
SendPh(d, frame) ==
    IF ~Rts THEN [d EXCEPT !.ph = Append(@, frame)]
    ELSE [d EXCEPT !.tx_queue = <<frame>>,
                   !.v_send = IF d.tx_queue # <<>> THEN d.v_ack ELSE @]

FlushSend(d) == [d EXCEPT !.send_queue = <<>>, !.send_buffer = <<>>]
FlushHist(d) == [d EXCEPT !.tx_hist = <<>>]
FlushTxQueue(d) == [d EXCEPT !.tx_queue = <<>>]
FlushTx(d) == FlushHist(FlushTxQueue(d))

(* T200 is started at once, or in RTS mode pending until L1 polls; in the   *)
(* mutant RTS mode is forgotten.                                            *)
StartT200TimerOnly(d) == [d EXCEPT !.t200 = IF Rts THEN @ ELSE "running"]
StartT200(d) ==
    [d EXCEPT !.t200 = IF @ # "off" THEN @ ELSE IF Rts THEN "pending" ELSE "running"]
StopT200(d) == [d EXCEPT !.t200 = "off"]
StopT203(d) == [d EXCEPT !.t203 = FALSE]

(* Mutants of NewState: T203 keeps running, or the contention resolution    *)
(* data is kept, when multiple frame operation is left.                     *)
NewStateKeepsT203(d, s) ==
    [d EXCEPT !.state = s,
              !.t203 = @ \/ (T203On /\ s = "MF_EST" /\ d.state # "MF_EST"),
              !.cont_res = IF d.state = "MF_EST" /\ s # "MF_EST" THEN 0 ELSE @]
NewStateKeepsContRes(d, s) ==
    [d EXCEPT !.state = s,
              !.t203 = IF s = d.state THEN @ ELSE T203On /\ s = "MF_EST"]

(* lapd_dl_newstate(): T203 runs in MF_EST, cont_res lives in MF_EST.       *)
NewState(d, s) ==
    LET leave == d.state = "MF_EST" /\ s # "MF_EST"
        enter == d.state # "MF_EST" /\ s = "MF_EST"
    IN  [d EXCEPT !.state = s,
                  !.t203 = (@ /\ ~leave) \/ (T203On /\ enter),
                  !.cont_res = IF leave THEN 0 ELSE @]

(* lapd_dl_init2(), lapd_set_mode().                                        *)
DlInit(mode) ==
    [mode |-> mode, state |-> "IDLE", v_send |-> 0, v_ack |-> 0, v_recv |-> 0,
     seq_err_cond |-> 0, peer_busy |-> FALSE, retrans_ctr |-> 0,
     t200 |-> "off", t203 |-> FALSE, tx_queue |-> <<>>, tx_hist |-> <<>>,
     send_queue |-> <<>>, send_buffer |-> <<>>, send_out |-> 0,
     rcv_buffer |-> <<>>, cont_res |-> 0, ph |-> <<>>, up |-> <<>>]

(* lapd_dl_reset() and lapd_dl_exit().                                      *)
DlReset(d) ==
    StopT203(StopT200([FlushSend(FlushTx(NewState(d, "IDLE")))
                          EXCEPT !.rcv_buffer = <<>>]))
DlExit(d) == NewState(DlReset(d), "NULL")

SendUA(d, f, info) == SendPh(d, UFrame("UA", "resp", f.pf, info))
SendDM(d, f) == SendPh(d, UFrame("DM", "resp", f.pf, 0))
SendRR(d, pf, cr) == SendPh(d, SFrame("RR", cr, pf, d.v_recv))
SendREJ(d, pf) == SendPh(d, SFrame("REJ", "resp", pf, d.v_recv))

(* lapd_send_resend(): the command is taken from the slot of V(S).          *)
SendResend(d) ==
    SendPh(d, UFrame(IF d.state = "SABM_SENT" THEN "SABM" ELSE "DISC",
                     "cmd", 1, d.tx_hist[Slot(d.v_send)].info))

(* A history entry: a segment, or the information field of a command.       *)
HistEntry(info, m, i) ==
    [info |-> info, seg |-> [m |-> m, i |-> i], more |-> m \in Msgs /\ i < Segs[m]]

StoreHist(d, h, entry) ==
    [d EXCEPT !.tx_hist = [x \in DOMAIN d.tx_hist \cup {h} |->
                              IF x = h THEN entry ELSE d.tx_hist[x]]]

-----------------------------------------------------------------------------
(* lapd_send_i(): what follows the label next_frame, once.                  *)

(* Mutants of MaySend: timer recovery does not hold frames back; there is   *)
(* no window.                                                               *)
MaySendInRecovery(d) == ~d.peer_busy /\ d.v_send # AddMod(d.v_ack, K)
MaySendAlways(d) == ~d.peer_busy /\ d.state # "TIMER_RECOV"

MaySend(d) ==
    /\ ~d.peer_busy
    /\ d.state # "TIMER_RECOV"
    /\ d.v_send # AddMod(d.v_ack, K)

(* The part under next_message: a send-buffer that is completely sent is    *)
(* freed and the next message taken from the queue.                         *)
LoadBuffer(d) ==
    IF d.send_buffer # <<>> /\ d.send_out < Segs[d.send_buffer[1]] THEN d
    ELSE IF d.send_queue = <<>>
    THEN [d EXCEPT !.send_buffer = <<>>, !.send_out = 0]
    ELSE [d EXCEPT !.send_buffer = <<Head(d.send_queue)>>, !.send_out = 0,
                   !.send_queue = Tail(@)]

(* The next segment goes to the history slot of V(S).                       *)
StoreNextSegment(d) ==
    LET m == d.send_buffer[1]
        i == d.send_out + 1
    IN  [StoreHist(d, Slot(d.v_send), HistEntry(0, m, i)) EXCEPT !.send_out = i]

(* The frame of slot V(S) is sent, and T200 guards it unless it guards an   *)
(* earlier one; in the mutant T203 is stopped and T200 forgotten.           *)
TransmitHistUnguarded(d) ==
    LET e == d.tx_hist[Slot(d.v_send)]
    IN  SendPh([StopT203(d) EXCEPT !.v_send = IncMod(@)],
               IFrame(d.v_send, d.v_recv, 0, e.seg, e.more))

TransmitHist(d) ==
    LET e == d.tx_hist[Slot(d.v_send)]
        frame == IFrame(d.v_send, d.v_recv, 0, e.seg, e.more)
        next == [d EXCEPT !.v_send = IncMod(@)]
    IN  SendPh(IF next.t200 = "off" THEN StartT200(StopT203(next)) ELSE next, frame)

SendFrame(d) ==
    IF ~MaySend(d) THEN d
    ELSE IF Slot(d.v_send) \in DOMAIN d.tx_hist THEN TransmitHist(d)
    ELSE LET b == LoadBuffer(d)
         IN  IF b.send_buffer = <<>> THEN b ELSE TransmitHist(StoreNextSegment(b))

(* Without RTS the loop goes on until the window is full or the data is     *)
(* exhausted, after fewer than VRange rounds; with RTS it sends one frame,  *)
(* and only if none waits for L1.                                           *)
Rounds(d) ==
    LET round[n \in 0..VRange] == IF n = 0 THEN d ELSE SendFrame(round[n - 1])
    IN  round

SendI(d) ==
    IF ~Rts THEN Rounds(d)[VRange]
    ELSE IF d.tx_queue # <<>> THEN d ELSE SendFrame(d)

(* Its return code: 0 if at least one frame was sent.                       *)
SentSome(before, after) ==
    after.ph # before.ph \/ after.tx_queue # before.tx_queue

-----------------------------------------------------------------------------
(* L3 -> L2 *)

(* lapd_udata_req().  LAPDm never issues it: in RTS mode too its UI frames  *)
(* go past lapd_core.c, into a queue of their own.                          *)
UdataReq(d, info) == SendPh(d, UFrame("UI", "cmd", 0, info))

(* The common end of lapd_est_req(), lapd_res_req() and lapd_rel_req(): the *)
(* command is stored in slot 0, V(S) points to it, T200 guards the answer.  *)
SendCommandKeepsVs(d, s_u, s, info) ==   \* a mutant of SendCommand
    LET stored == [StoreHist(FlushHist(d), 0, HistEntry(info, 0, 0))
                      EXCEPT !.peer_busy = FALSE, !.retrans_ctr = 0]
    IN  StartT200(SendPh(NewState(stored, s), UFrame(s_u, "cmd", 1, info)))

SendCommand(d, s_u, s, info) ==
    LET stored == [StoreHist(FlushHist(d), 0, HistEntry(info, 0, 0))
                      EXCEPT !.v_send = 0, !.peer_busy = FALSE, !.retrans_ctr = 0]
    IN  StartT200(SendPh(NewState(stored, s), UFrame(s_u, "cmd", 1, info)))

EstReq(d, info) ==
    SendCommand([FlushSend(d) EXCEPT !.rcv_buffer = <<>>],
                "SABM", "SABM_SENT", info)

DataReq(d, m) == SendI([d EXCEPT !.send_queue = Append(@, m)])

(* lapd_susp_req(): no state change; the send-buffer goes back, even if all *)
(* of it was sent.                                                          *)
SuspReq(d) ==
    LET back == [d EXCEPT !.send_queue = d.send_buffer \o @, !.send_buffer = <<>>]
    IN  SendDlSimple(StopT203(StopT200(FlushTx(back))), "SUSP_CNF")

(* lapd_res_req(): msg is <<>> or the one message to be sent first.         *)
ResReq(d, msg) ==
    SendCommand([d EXCEPT !.send_buffer = msg, !.send_out = 0, !.rcv_buffer = <<>>],
                "SABM", "SABM_SENT", 0)

RelReq(d) ==
    IF d.state = "DISC_SENT" THEN d ELSE SendCommand(d, "DISC", "DISC_SENT", 0)

RelReqLocalEarly(d) ==   \* a mutant of RelReqLocal: told, but not released
    SendDlSimple(FlushSend(FlushTx(StopT200(d))), "REL_CNF")

RelReqLocal(d) ==
    SendDlSimple(FlushSend(FlushTx(NewState(StopT200(d), "IDLE"))), "REL_CNF")

RelReqIdle(d) == SendDlSimple(d, "REL_CNF")

(* l2downstatelist and lapd_recv_dlsap(): a primitive the state does not    *)
(* list is discarded.                                                       *)
RecvDlsap(d, p) ==
    CASE p.prim = "UNIT_DATA_REQ" -> UdataReq(d, p.info)
      [] p.prim = "EST_REQ" /\ d.state = "IDLE" -> EstReq(d, p.info)
      [] p.prim = "DATA_REQ" /\ d.state \in Connected -> DataReq(d, p.msg)
      [] p.prim = "SUSP_REQ" /\ d.state \in Connected -> SuspReq(d)
      [] p.prim = "RES_REQ" /\ d.state \in Connected -> ResReq(d, p.msg)
      [] p.prim = "RECON_REQ" /\ d.state \in Connected \cup {"IDLE"} -> ResReq(d, p.msg)
      [] p.prim = "REL_REQ" /\ d.state = "IDLE" -> RelReqIdle(d)
      [] p.prim = "REL_REQ" /\ d.state \notin {"IDLE", "NULL"} ->
            IF p.local THEN RelReqLocal(d) ELSE RelReq(d)
      [] OTHER -> d

-----------------------------------------------------------------------------
(* Timers *)

MayRepeatOnceMore(d) == d.retrans_ctr <= N200EstRel + 1   \* a mutant of MayRepeat
MayRepeat(d) == d.retrans_ctr < N200EstRel + 1

(* The SABM_SENT and DISC_SENT branches of lapd_t200_cb(); in the mutant    *)
(* T200 does not guard the repetition.                                      *)
T200CommandUnguarded(d) ==
    LET c == [d EXCEPT !.retrans_ctr = @ + 1]
        idle == NewState(FlushSend(FlushTx(c)), "IDLE")
    IN  IF MayRepeat(c) THEN SendResend(c) ELSE SendDlSimple(idle, "REL_IND")

T200Command(d) ==
    LET c == [d EXCEPT !.retrans_ctr = @ + 1]
        idle == NewState(FlushSend(FlushTx(c)), "IDLE")
    IN  IF MayRepeat(c) THEN StartT200(SendResend(c))
        ELSE SendDlSimple(MdlError(idle, "T200_EXPIRED"),
                          IF d.state = "SABM_SENT" THEN "REL_IND" ELSE "REL_CNF")

(* lapd_send_resend() reads the slot of V(S) without testing it.            *)
ResendReadsEmptySlot(d) ==
    /\ d.state \in {"SABM_SENT", "DISC_SENT"}
    /\ MayRepeat([d EXCEPT !.retrans_ctr = @ + 1])
    /\ Slot(d.v_send) \notin DOMAIN d.tx_hist

(* Its timer recovery branch: the frame before V(S) is repeated with P=1 if *)
(* it is still in the history, else an RR with P=1 is sent, which a         *)
(* sequence error condition suppresses.                                     *)
T200Recovery(d) ==
    LET c == [NewState(d, "TIMER_RECOV")
                 EXCEPT !.retrans_ctr = IF d.state = "MF_EST" THEN 1 ELSE @ + 1]
        vs == SubMod(c.v_send, 1)
        poll == IF Slot(vs) \in DOMAIN c.tx_hist
                THEN LET e == c.tx_hist[Slot(vs)]
                     IN  SendPh(c, IFrame(vs, c.v_recv, 1, e.seg, e.more))
                ELSE IF c.seq_err_cond = 0 THEN SendRR(c, 1, "cmd") ELSE c
        failed == MdlError(c, "T200_EXPIRED")
    IN  IF c.retrans_ctr <= N200 THEN StartT200(poll)
        ELSE IF Reestablish THEN EstReq(failed, 0) ELSE failed

T200Cb(d) ==
    CASE d.state \in {"SABM_SENT", "DISC_SENT"} -> T200Command(StopT200(d))
      [] d.state \in Connected -> T200Recovery(StopT200(d))
      [] OTHER -> StopT200(d)

T203Cb(d) ==
    IF d.state # "MF_EST" THEN StopT203(d)
    ELSE StartT200(SendRR([NewState(StopT203(d), "TIMER_RECOV")
                              EXCEPT !.retrans_ctr = 0], 1, "cmd"))

(* lapd_ph_rts_ind(), then the dequeueing by LAPDm's tx_dequeue_msgb().     *)
PhRtsInd(d) ==
    LET s == IF d.tx_queue = <<>> /\ d.state \in Connected THEN SendI(d) ELSE d
    IN  [s EXCEPT !.t200 = IF @ = "pending" THEN "running" ELSE @,
                  !.ph = @ \o s.tx_queue, !.tx_queue = <<>>]

-----------------------------------------------------------------------------
(* L1 -> L2 *)

(* 5.7.4: N(R) is valid iff (N(R)-V(A)) <= (V(S)-V(A)); not examined in     *)
(* timer recovery.                                                          *)
NrSequenceError(d, nr) ==
    /\ d.state # "TIMER_RECOV"
    /\ SubMod(nr, d.v_ack) > SubMod(d.v_send, d.v_ack)

(* The slots of the frames V(A) up to N(R) - 1; in the mutant up to N(R).   *)
AckSlotsOneMore(d, nr) ==
    {Slot(AddMod(d.v_ack, j)) : j \in 0..SubMod(nr, d.v_ack)}
AckSlots(d, nr) ==
    {Slot(AddMod(d.v_ack, j)) : j \in 0..(SubMod(nr, d.v_ack) - 1)}

(* T200 is restarted if the frame before V(S) is outstanding.               *)
RestartNever(d) == d   \* a mutant of RestartT200
RestartT200(d) ==
    IF Slot(SubMod(d.v_send, 1)) \in DOMAIN d.tx_hist THEN StartT200(d) ELSE d

(* lapd_acknowledge(): frees the acknowledged slots before it looks at the  *)
(* validity of N(R).                                                        *)
Acknowledge(d, nr, rej) ==
    LET freed == [d EXCEPT !.tx_hist =
                     [h \in DOMAIN d.tx_hist \ AckSlots(d, nr) |-> d.tx_hist[h]]]
        reset == d.state # "TIMER_RECOV" /\ (rej <=> nr = d.v_ack)
        stopped == IF reset THEN StopT200(freed) ELSE freed
        moved == IF reset /\ ~rej THEN RestartT200(stopped) ELSE stopped
    IN  IF NrSequenceError(d, nr) THEN stopped
        ELSE [moved EXCEPT !.v_ack = nr,
                           !.t203 = moved.t200 = "off" /\ T203On /\ d.state = "MF_EST"]

(* Set V(S), V(R) and V(A) to 0, clear the history, enter MF_EST.           *)
Establish(d) ==
    NewState(FlushHist([d EXCEPT !.v_send = 0, !.v_recv = 0, !.v_ack = 0]), "MF_EST")

(* lapd_rx_u_sabm(), after the checks of C/R and length.                    *)
RxSABMCommand(d, f) ==
    CASE d.state = "TIMER_RECOV" /\ f.info # 0 ->
            SendDM(MdlError(d, "SABM_INFO_NOTALL"), f)
      [] d.state = "MF_EST" /\ f.info # 0 /\ d.cont_res = 0 ->
            MdlError(d, "SABM_MF")
      [] d.state = "MF_EST" /\ f.info # 0 /\ d.cont_res # 0 ->
            IF d.mode = "NETWORK" /\ d.cont_res # f.info THEN d
            ELSE SendUA(d, f, f.info)
      [] d.state = "DISC_SENT" ->
            SendDlSimple(StopT200(SendDM(d, f)), "EST_IND")
      [] d.state = "SABM_SENT" ->
            SendUA(IF 0 \in DOMAIN d.tx_hist /\ d.tx_hist[0].info # 0
                   THEN MdlError(d, "SABM_INFO_NOTALL") ELSE d, f, f.info)
      [] OTHER ->
            LET stopped == IF d.state = "TIMER_RECOV" THEN StopT200(d) ELSE d
                est == Establish(SendUA(stopped, f, f.info))
            IN  SendDlSimple([est EXCEPT !.cont_res =
                                IF d.mode = "NETWORK" /\ f.info # 0 THEN f.info ELSE @],
                             "EST_IND")

RxSABM(d, f) ==
    LET c == [d EXCEPT !.seq_err_cond = 0]
    IN  IF f.cr = "resp" THEN MdlError(c, "FRM_UNIMPL")
        ELSE IF f.info = Oversized THEN MdlError(c, "UFRM_INC_PARAM")
        ELSE RxSABMCommand(c, f)

(* lapd_rx_u_dm(): a DM with F=0 is ignored in every state.                 *)
RxDM(d, f) ==
    CASE f.cr = "cmd" -> MdlError(d, "FRM_UNIMPL")
      [] f.cr = "resp" /\ f.pf = 0 -> d
      [] f.cr = "resp" /\ f.pf = 1 /\ d.state \in {"SABM_SENT", "TIMER_RECOV"} ->
            SendDlSimple(NewState(StopT200(d), "IDLE"), "REL_IND")
      [] f.cr = "resp" /\ f.pf = 1 /\ d.state = "MF_EST" ->
            MdlError(d, "UNSOL_DM_RESP")
      [] f.cr = "resp" /\ f.pf = 1 /\ d.state = "DISC_SENT" ->
            SendDlSimple(NewState(FlushSend(FlushTx(StopT200(d))), "IDLE"), "REL_CNF")
      [] OTHER -> d

(* lapd_rx_u_ui().                                                          *)
RxUI(d, f) ==
    IF f.cr = "resp" THEN MdlError(d, "FRM_UNIMPL")
    ELSE IF f.info = Oversized THEN MdlError(d, "UFRM_INC_PARAM")
    ELSE IF f.info = 0 THEN d
    ELSE [d EXCEPT !.up = Append(@, [prim |-> "UNIT_DATA_IND", info |-> f.info])]

(* lapd_rx_u_disc(), after the checks of C/R and length.                    *)
RxDISCCommand(d, f) ==
    LET idle(x) == NewState(StopT200(x), "IDLE")
    IN  CASE d.state = "IDLE" -> SendDM(d, f)
          [] d.state = "SABM_SENT" -> SendDlSimple(idle(SendDM(d, f)), "REL_IND")
          [] d.state \in Connected -> SendDlSimple(idle(SendUA(d, f, 0)), "REL_IND")
          [] d.state = "DISC_SENT" -> SendDlSimple(idle(SendUA(d, f, 0)), "REL_CNF")
          [] OTHER -> SendUA(d, f, 0)

(* The buffers are flushed before the checks: a DISC that is refused leaves *)
(* the state as it is and the history empty.                                *)
RxDISC(d, f) ==
    LET c == [FlushSend(FlushTx(d)) EXCEPT !.seq_err_cond = 0]
    IN  IF f.cr = "resp" THEN MdlError(c, "FRM_UNIMPL")
        ELSE IF f.info # 0 THEN MdlError(c, "UFRM_INC_PARAM")
        ELSE RxDISCCommand(c, f)

(* lapd_rx_u_ua(), of a response with F=1: in SABM_SENT it must repeat the  *)
(* information field of the SABM (contention resolution).                   *)
RxUAFinal(d, f) ==
    LET flushed == FlushSend(FlushTx(StopT200(d)))
    IN  CASE d.state \in Connected -> MdlError(d, "UNSOL_UA_RESP")
          [] d.state = "DISC_SENT" -> SendDlSimple(NewState(flushed, "IDLE"), "REL_CNF")
          [] d.state = "SABM_SENT" ->
                IF d.tx_hist[0].info \notin {0, f.info}
                THEN SendDlSimple(NewState(flushed, "IDLE"), "REL_IND")
                ELSE SendDlSimple(SendI(Establish(StopT200(d))), "EST_CNF")
          [] OTHER -> d

RxUA(d, f) ==
    IF f.cr = "cmd" THEN MdlError(d, "FRM_UNIMPL")
    ELSE IF f.info = Oversized THEN MdlError(d, "UFRM_INC_PARAM")
    ELSE IF f.pf = 0 THEN d
    ELSE RxUAFinal(d, f)

(* lapd_rx_u_frmr().                                                        *)
RxFRMR(d) ==
    IF Reestablish THEN EstReq(MdlError(d, "FRMR"), 0) ELSE MdlError(d, "FRMR")

(* lapd_rx_u().                                                             *)
RxU(d, f) ==
    CASE f.s_u = "SABM" -> RxSABM(d, f)
      [] f.s_u = "DM" -> RxDM(d, f)
      [] f.s_u = "UI" -> RxUI(d, f)
      [] f.s_u = "DISC" -> RxDISC(d, f)
      [] f.s_u = "UA" -> RxUA(d, f)
      [] f.s_u = "FRMR" -> RxFRMR(d)

(* 5.5.3.2: a poll is answered unless in sequence error condition, in which *)
(* the REJ was the answer.                                                  *)
AnswerPoll(d, f) ==
    IF f.cr = "cmd" /\ f.pf = 1 /\ d.seq_err_cond = 0 THEN SendRR(d, 1, "resp") ELSE d

(* The answer to a poll of ours; the mutant never recognises it.            *)
FinalNever(d, f) == FALSE
Final(d, f) == f.cr = "resp" /\ f.pf = 1 /\ d.state = "TIMER_RECOV"

RxRR(d, f) ==
    LET a == Acknowledge(d, f.nr, FALSE)
    IN  SendI(IF Final(d, f)
              THEN NewState(StopT200([a EXCEPT !.v_send = f.nr]), "MF_EST")
              ELSE AnswerPoll(a, f))

RxRNR(d, f) ==
    LET a == StopT200(FlushTxQueue([Acknowledge(d, f.nr, FALSE)
                                       EXCEPT !.peer_busy = TRUE]))
    IN  SendI(IF Final(d, f) THEN [NewState(a, "MF_EST") EXCEPT !.v_send = f.nr]
              ELSE IF f.cr = "cmd" /\ f.pf = 1 THEN SendRR(a, 1, "resp")
              ELSE a)

(* A REJ clears the busy condition and sets V(S) back.                      *)
GoBack(d, nr) ==
    [FlushTxQueue(d) EXCEPT !.peer_busy = FALSE, !.v_send = nr, !.v_ack = nr]

(* The three branches of a REJ.  In timer recovery only a final response    *)
(* stops T200 and leaves the state.                                         *)
RxREJ(d, f) ==
    LET a == GoBack(Acknowledge(d, f.nr, TRUE), f.nr)
        unsolicited == d.state # "TIMER_RECOV" /\ f.cr = "resp" /\ f.pf = 1
        answered == AnswerPoll(IF d.state # "TIMER_RECOV" THEN StopT200(a) ELSE a, f)
    IN  SendI(IF Final(d, f) THEN NewState(StopT200(a), "MF_EST")
              ELSE IF unsolicited THEN MdlError(answered, "UNSOL_SPRV_RESP")
              ELSE answered)

(* lapd_rx_s().                                                             *)
RxS(d, f) ==
    LET c == IF f.cr = "resp" /\ f.pf = 1 /\ d.state # "TIMER_RECOV"
             THEN MdlError(d, "UNSOL_SPRV_RESP") ELSE d
    IN  CASE d.state = "IDLE" -> IF f.pf = 1 THEN SendDM(c, f) ELSE c
          [] d.state \in {"SABM_SENT", "DISC_SENT"} -> c
          [] d.state \in Connected /\ f.s_u = "RR" -> RxRR(c, f)
          [] d.state \in Connected /\ f.s_u = "RNR" -> RxRNR(c, f)
          [] d.state \in Connected /\ f.s_u = "REJ" -> RxREJ(c, f)

(* An I frame out of sequence: REJ, but every second one in a row only      *)
(* recorded if LAPD_F_DROP_2ND_REJ is set; N(R) is used all the same.       *)
RxIOutOfSequence(d, f) ==
    LET rej == IF d.seq_err_cond # 1 \/ ~Drop2ndRej
               THEN SendREJ([d EXCEPT !.seq_err_cond = 1], f.pf)
               ELSE [d EXCEPT !.seq_err_cond = 2]
        a == Acknowledge(rej, f.nr, FALSE)
    IN  SendI(IF NrSequenceError(rej, f.nr) THEN MdlError(a, "SEQ_ERR") ELSE a)

(* LAPDm's update_pending_frames(): the frame waiting for L1 gets the new   *)
(* N(R).                                                                    *)
UpdatePendingFrames(d) ==
    [d EXCEPT !.tx_queue = [n \in DOMAIN @ |->
        IF @[n].format = "U" THEN @[n] ELSE [@[n] EXCEPT !.nr = d.v_recv]]]
IFrameInQueue(d) == \E n \in DOMAIN d.tx_queue : d.tx_queue[n].format = "I"

DataInd(d, data) == [d EXCEPT !.up = Append(@, [prim |-> "DATA_IND", data |-> data])]

(* A mutant of Reassemble: a last segment is taken for a whole message.     *)
ReassembleSingle(d, f) ==
    IF f.more THEN [d EXCEPT !.rcv_buffer = Append(@, f.seg)] ELSE DataInd(d, <<f.seg>>)

(* Reassembly: a segment that does not fit is dropped, the rest delivered.  *)
(* The buffer that L3 is given is the datalink's until L3 returns.          *)
Reassemble(d, f) ==
    LET buf == IF Len(d.rcv_buffer) + 1 > MaxF THEN d.rcv_buffer
               ELSE Append(d.rcv_buffer, f.seg)
        partial == f.more \/ d.rcv_buffer # <<>>
        kept == [d EXCEPT !.rcv_buffer = IF partial THEN buf ELSE @]
    IN  IF f.more THEN kept ELSE DataInd(kept, buf)

ForgetBuffer(d, f) == [d EXCEPT !.rcv_buffer = IF f.more THEN @ ELSE <<>>]

(* The rest of lapd_rx_i() after the data was delivered to L3.              *)
RxIAnswer(d, f, inQueue) ==
    LET s == SendI(d)
    IN  IF f.pf = 1 THEN SendI(SendRR(d, 1, "resp"))
        ELSE IF SentSome(d, s) \/ inQueue THEN s
        ELSE SendRR(s, 0, "resp")

(* An I frame in sequence.  L3 is called in-line with a completed message   *)
(* and may issue the primitive react of its own, or destroy the datalink.   *)
RxIInSequence(d, f, react) ==
    LET r == UpdatePendingFrames([d EXCEPT !.seq_err_cond = 0, !.v_recv = IncMod(@)])
        delivered == Reassemble(Acknowledge(r, f.nr, FALSE), f)
        reacted == CASE f.more \/ react.prim = "none" -> delivered
                     [] ~f.more /\ react.prim = "exit" -> DlExit(delivered)
                     [] OTHER -> RecvDlsap(delivered, react)
        back == ForgetBuffer(reacted, f)
    IN  IF back.state = "NULL" THEN back
        ELSE RxIAnswer(IF NrSequenceError(r, f.nr) THEN MdlError(back, "SEQ_ERR") ELSE back,
                       f, IFrameInQueue(r))

InSequenceAlways(d, f) == TRUE   \* a mutant of InSequence
InSequence(d, f) == f.ns = d.v_recv

(* lapd_rx_i().                                                             *)
RxI(d, f, react) ==
    IF f.cr = "resp" THEN MdlError(d, "FRM_UNIMPL")
    ELSE IF f.seg.i = 0 THEN MdlError(d, "IFRM_INC_LEN")
    ELSE CASE d.state = "IDLE" -> IF f.pf = 1 THEN SendDM(d, f) ELSE d
           [] d.state \in {"SABM_SENT", "DISC_SENT"} -> d
           [] d.state \in Connected ->
                 IF InSequence(d, f) THEN RxIInSequence(d, f, react)
                 ELSE RxIOutOfSequence(d, f)

(* lapd_ph_data_ind().                                                      *)
PhDataInd(d, f, react) ==
    CASE f.format = "U" -> RxU(d, f)
      [] f.format = "S" -> RxS(d, f)
      [] f.format = "I" -> RxI(d, f, react)

-----------------------------------------------------------------------------
(* What the handlers rely on in each other. *)

(* The command that lapd_send_resend() repeats and lapd_rx_u_ua() compares  *)
(* is there: while its answer is awaited V(S) points to slot 0 and the slot *)
(* is used.                                                                 *)
CommandStored(d) ==
    d.state \in {"SABM_SENT", "DISC_SENT"} => d.v_send = 0 /\ 0 \in DOMAIN d.tx_hist

(* T203 and T200 run only in states whose callbacks have a use for them     *)
(* ("T203 fired outside MF EST state", "T200 expired in unexpected ...").   *)
TimersUsed(d) ==
    /\ d.t203 => d.state = "MF_EST"
    /\ d.t200 # "off" => d.state \notin {"NULL", "IDLE"}

=============================================================================

------------------------------- MODULE LapdDl -------------------------------
(***************************************************************************)
(* One LAPD datalink (module Lapd) against everything it may meet: L3      *)
(* issues any primitive, L1 delivers any frame at all (of any kind, C/R    *)
(* and P/F bit, N(S) and N(R), information field too long or where there   *)
(* must be none), the timers expire whenever they run.  Unlike LapdLink    *)
(* this meets the frames that lapd_core.c handles but never sends; what L3 *)
(* may do in-line is only to destroy the datalink.                         *)
(***************************************************************************)
EXTENDS Lapd

CONSTANTS
    Mode,         \* dl->mode
    Infos,        \* information fields of U frames (0: none)
    QueueBound    \* messages in send_queue beyond which L3 adds none

(* Frames go to L1 at once; LapdLink has the mode in which L1 polls.        *)
ASSUME DlAssumption ==
    /\ ~Rts
    /\ Mode \in {"USER", "NETWORK"}
    /\ 0 \in Infos /\ Infos \subseteq Nat
    /\ QueueBound \in Nat

VARIABLE dl     \* ph and up hold what the last step sent

vars == dl

Seqs == 0..(VRange - 1)
CmdResp == {"cmd", "resp"}

(* Every frame there is; lapd_rx_u_dm() and lapd_rx_u_frmr() do not look at *)
(* the information field.                                                   *)
UFrames ==
    [format : {"U"}, s_u : {"SABM", "DISC", "UI", "UA"}, cr : CmdResp, pf : {0, 1},
     info : Infos \cup {Oversized}]
    \cup [format : {"U"}, s_u : {"DM", "FRMR"}, cr : CmdResp, pf : {0, 1}, info : {0}]
SFrames ==
    [format : {"S"}, s_u : {"RR", "RNR", "REJ"}, cr : CmdResp, pf : {0, 1}, nr : Seqs]
IFrames ==
    [format : {"I"}, cr : CmdResp, pf : {0, 1}, ns : Seqs, nr : Seqs,
     seg : {[m |-> 0, i |-> 1]}, more : BOOLEAN]

(* What L3 is told of a frame that is not looked into: an unknown U frame,  *)
(* an S frame with information, an I frame whose length or M bit is wrong.  *)
MalformedCauses == {"FRM_UNIMPL", "SFRM_INC_PARAM", "IFRM_INC_LEN", "IFRM_INC_MBITS"}

Primitives ==
    [prim : {"UNIT_DATA_REQ", "EST_REQ"}, info : Infos]
    \cup [prim : {"DATA_REQ"}, msg : Msgs]
    \cup [prim : {"SUSP_REQ"}]
    \cup [prim : {"RES_REQ", "RECON_REQ"}, msg : {<<>>} \cup {<<m>> : m \in Msgs}]
    \cup [prim : {"REL_REQ"}, local : BOOLEAN]

(* The datalink with the outputs of the step before taken away.             *)
Now == [dl EXCEPT !.ph = <<>>, !.up = <<>>]

Init == dl = DlInit(Mode)

Request(p) ==
    /\ p.prim \in {"DATA_REQ", "SUSP_REQ"} => Len(dl.send_queue) < QueueBound
    /\ dl.state # "NULL"
    /\ dl' = RecvDlsap(Now, p)

(* lapd_rx_u_ua() reads slot 0 without testing it, as lapd_send_resend()    *)
(* does the slot of V(S).  To read an empty slot ends the program, here as  *)
(* if it had destroyed the datalink.                                        *)
UAReadsEmptySlot(d, f) ==
    /\ f.format = "U" /\ f.s_u = "UA" /\ f.cr = "resp" /\ f.pf = 1 /\ f.info # Oversized
    /\ d.state = "SABM_SENT" /\ 0 \notin DOMAIN d.tx_hist

Receive(f) ==
    /\ dl.state # "NULL"
    /\ dl' = IF UAReadsEmptySlot(dl, f) THEN DlExit(Now)
             ELSE PhDataInd(Now, f, [prim |-> "none"])

ReceiveMalformed(cause) == dl.state # "NULL" /\ dl' = MdlError(Now, cause)

(* L3 destroys the datalink in-line when it is given a message.             *)
ReceiveAndExit(f) ==
    LET d == PhDataInd(Now, f, [prim |-> "exit"])
    IN  dl.state # "NULL" /\ d.state = "NULL" /\ dl' = d

T200Expiry ==
    /\ dl.t200 = "running"
    /\ dl' = IF ResendReadsEmptySlot(dl) THEN DlExit(Now) ELSE T200Cb(Now)
T203Expiry == dl.t203 /\ dl' = T203Cb(Now)
Reset == dl.state # "NULL" /\ dl' = DlReset(Now)
Exit == dl.state # "NULL" /\ dl' = DlExit(Now)

Next ==
    \/ \E p \in Primitives : Request(p)
    \/ \E f \in UFrames \cup SFrames \cup IFrames : Receive(f)
    \/ \E c \in MalformedCauses : ReceiveMalformed(c)
    \/ \E f \in IFrames : ReceiveAndExit(f)
    \/ T200Expiry
    \/ T203Expiry
    \/ Reset
    \/ Exit

Spec == Init /\ [][Next]_vars

-----------------------------------------------------------------------------

(* The command that lapd_send_resend() and lapd_rx_u_ua() read without      *)
(* testing for it is in the history, and no primitive of L3, no timer and   *)
(* no frame takes it away but one: a DISC that lapd_rx_u_disc() refuses, as *)
(* a response or for its information field, after it flushed the history.   *)
RefusedDISCs == {f \in UFrames : f.s_u = "DISC" /\ (f.cr = "resp" \/ f.info # 0)}
ResendIndex ==
    [][CommandStored(dl) => CommandStored(dl)' \/ \E f \in RefusedDISCs : Receive(f)]_vars

(* Neither timer runs in a state whose callback has no use for it.          *)
TimersMatchState == TimersUsed(dl)

Sent(kind) == {dl.ph[n] : n \in {k \in DOMAIN dl.ph : dl.ph[k].format = kind}}
Told(prims) == \E n \in DOMAIN dl.up : dl.up[n].prim \in prims

(* I frames are sent on an established link only; to a busy peer and in     *)
(* timer recovery only as a poll.                                           *)
NoStrayIFrames ==
    \A f \in Sent("I") :
        /\ dl.state \in Connected
        /\ dl.peer_busy \/ dl.state = "TIMER_RECOV" => f.pf = 1

(* What L3 is told of the link is what the state is when the handler ends:  *)
(* established, or idle.  The one exception in the code is an SABM that     *)
(* arrives in DISC_SENT: it is refused with DM, but indicated to L3.        *)
L3KnowsTheState ==
    /\ Told({"EST_CNF"}) => dl.state = "MF_EST"
    /\ Told({"EST_IND"}) => dl.state \in {"MF_EST", "DISC_SENT"}
    /\ Told({"REL_IND", "REL_CNF"}) => dl.state = "IDLE"

(* An SABM is not awaited for ever: T200 guards it until the state is left, *)
(* whatever the peer does.                                                  *)
SabmGuarded == dl.state = "SABM_SENT" => dl.t200 # "off"

(* The contention resolution data of the network side does not outlive the  *)
(* establishment it belongs to.                                             *)
ContentionEnds == dl.cont_res # 0 => dl.state = "MF_EST" /\ dl.mode = "NETWORK"

(* N200 bounds the number of times a command or a poll is repeated.         *)
RetransmissionsBounded ==
    /\ dl.state \in {"SABM_SENT", "DISC_SENT"} => dl.retrans_ctr <= N200EstRel
    /\ dl.state = "TIMER_RECOV" => dl.retrans_ctr <= N200 + 1

=============================================================================

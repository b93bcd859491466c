------------------------------- MODULE SmsLink -------------------------------
(***************************************************************************)
(* The two sides of a short message transaction (module Gsm0411): the      *)
(* originator submits a message, the terminator's upper layer reports on   *)
(* it.  Between them an MM connection carries CP messages in order and may *)
(* lose them, and may fail.  The MM layer is external: it confirms or      *)
(* fails a connection that is requested, makes a transaction for a CP-DATA *)
(* that belongs to none, discards other messages that belong to none, and  *)
(* destroys a transaction whose connection it reports as released.         *)
(***************************************************************************)
EXTENDS Gsm0411, FiniteSets

CONSTANTS
    MO,           \* the originator
    MT,           \* the terminator
    Environments  \* what happens around them, see SmsEnvAssumption

Sides == {MO, MT}
Peer(e) == IF e = MO THEN MT ELSE MO

(* An environment says which kinds of RP messages are submitted (kinds) and *)
(* used to report (reports), that TC1* exceeds the round trip (timely), and *)
(* bounds the messages submitted (subs), the messages lost on the way to a  *)
(* side (losses) and the failures of the MM connection (fails).             *)
ASSUME SmsEnvAssumption ==
    /\ MO # MT
    /\ \A env \in Environments :
        /\ DOMAIN env = {"kinds", "reports", "timely", "subs", "losses", "fails"}
        /\ env.kinds \subseteq RpKinds /\ env.reports \subseteq RpKinds
        /\ env.timely \in BOOLEAN
        /\ env.losses \in [Sides -> Nat]
        /\ {env.subs, env.fails} \subseteq Nat

VARIABLES
    env,    \* the environment of this behaviour
    tr,     \* tr[e]: the transaction of side e
    conn,   \* conn[e]: the MM connection as e's MM layer has it
    chan,   \* chan[e]: CP messages on their way to e
    loss,   \* loss[e]: messages lost on the way to e
    fails,  \* failures of the connection
    subs,   \* messages submitted
    rep,    \* rep[e]: the reports given to e's upper layer
    ind,    \* messages given to the terminator's upper layer
    acked   \* the terminator's upper layer reported success

vars == <<env, tr, conn, chan, loss, fails, subs, rep, ind, acked>>

Init ==
    /\ env \in Environments
    /\ tr = [e \in Sides |-> Gone]
    /\ conn = [e \in Sides |-> "none"]
    /\ chan = [e \in Sides |-> <<>>]
    /\ loss = [e \in Sides |-> 0]
    /\ rep = [e \in Sides |-> <<>>]
    /\ fails = 0 /\ subs = 0 /\ ind = 0 /\ acked = FALSE

-----------------------------------------------------------------------------

(* The outputs of a handler are taken by the MM layer, which had the        *)
(* connection in the state c, and by the upper layer; rest is what the      *)
(* channel to e holds by then.                                              *)
Commit(e, out, c, rest) == \E d \in {out} :
    /\ tr' = [tr EXCEPT ![e] = [d EXCEPT !.mm = <<>>, !.prims = {},
                                         !.inds = <<>>, !.reps = <<>>]]
    /\ conn' = [conn EXCEPT ![e] =
                   IF "REL_REQ" \in d.prims THEN "none"
                   ELSE IF "EST_REQ" \in d.prims THEN "pending" ELSE c]
    /\ chan' = [chan EXCEPT ![e] = rest,
                            ![Peer(e)] = IF c = "up" THEN @ \o d.mm ELSE @]
    /\ rep' = [rep EXCEPT ![e] = @ \o d.reps]
    /\ ind' = ind + Len(d.inds)
    /\ UNCHANGED env

(* SM-RL-DATA-REQ, with a new transaction if there is none.                 *)
Submit(kind) ==
    /\ subs < env.subs
    /\ tr[MO].rp_state = "IDLE" /\ tr[MO].cp_state = "IDLE"
    /\ subs' = subs + 1
    /\ Commit(MO, SmrSend(IF tr[MO].life = "live" THEN tr[MO] ELSE New, "DATA_REQ", Rp(kind)),
              conn[MO], chan[MO])
    /\ UNCHANGED <<loss, fails, acked>>

(* SM-RL-REPORT-REQ.                                                        *)
Report(kind) ==
    /\ tr[MT].rp_state = "WAIT_TO_TX_RP_ACK"
    /\ Commit(MT, SmrSend(tr[MT], "REPORT_REQ", Rp(kind)), conn[MT], chan[MT])
    /\ acked' = (acked \/ kind = "ACK")
    /\ UNCHANGED <<loss, fails, subs>>

ConnConfirm ==
    /\ conn[MO] = "pending"
    /\ Commit(MO, SmcRecv(tr[MO], "EST_CNF", "none", NoMsg), "up", chan[MO])
    /\ UNCHANGED <<loss, fails, subs, acked>>

(* MMSMS-REL-IND: the connection failed, or was never made.                 *)
ConnFail(e) ==
    LET d == SmcRecv(tr[e], "REL_IND", "none", NoMsg)
    IN  /\ conn[e] # "none" /\ fails < env.fails
        /\ fails' = fails + 1
        /\ Commit(e, IF Destroys
                     THEN [Gone EXCEPT !.inds = d.inds, !.reps = d.reps, !.fatal = d.fatal]
                     ELSE d, "none", chan[e])
        /\ UNCHANGED <<loss, subs, acked>>

Deliver(e) ==
    LET m == Head(chan[e])
    IN  /\ chan[e] # <<>>
        /\ \/ /\ conn[e] = "up"
              /\ Commit(e, SmcRecv(tr[e], "DATA_IND", m.cp, m.rp), "up", Tail(chan[e]))
           \/ /\ conn[e] = "none" /\ e = MT /\ m.cp = "DATA"
              /\ Commit(e, SmcRecv(IF tr[e].life = "live" THEN tr[e] ELSE New, "EST_IND", m.cp, m.rp),
                        "up", Tail(chan[e]))
           \/ /\ conn[e] # "up" /\ ~(conn[e] = "none" /\ e = MT /\ m.cp = "DATA")
              /\ chan' = [chan EXCEPT ![e] = Tail(@)]
              /\ UNCHANGED <<env, tr, conn, rep, ind>>
        /\ UNCHANGED <<loss, fails, subs, acked>>

Lose(e) ==
    /\ chan[e] # <<>> /\ loss[e] < env.losses[e]
    /\ chan' = [chan EXCEPT ![e] = Tail(@)]
    /\ loss' = [loss EXCEPT ![e] = @ + 1]
    /\ UNCHANGED <<env, tr, conn, rep, ind, fails, subs, acked>>

(* A CP-DATA of e, or an answer to it, is under way.                        *)
UnderWay(e) ==
    \/ \E n \in DOMAIN chan[Peer(e)] : chan[Peer(e)][n].cp = "DATA"
    \/ \E n \in DOMAIN chan[e] : chan[e][n].cp \in {"ACK", "ERROR"}

CpTimeout(e) ==
    /\ tr[e].cp_timer
    /\ env.timely => ~UnderWay(e)
    /\ Commit(e, CpTimerExpired(tr[e]), conn[e], chan[e])
    /\ UNCHANGED <<loss, fails, subs, acked>>

RpTimeout(e) ==
    /\ tr[e].rp_timer
    /\ Commit(e, RpTimerExpired(tr[e]), conn[e], chan[e])
    /\ UNCHANGED <<loss, fails, subs, acked>>

Next ==
    \/ \E kind \in env.kinds : Submit(kind)
    \/ \E kind \in env.reports : Report(kind)
    \/ ConnConfirm
    \/ \E e \in Sides : ConnFail(e) \/ Deliver(e) \/ Lose(e) \/ CpTimeout(e) \/ RpTimeout(e)

Spec == Init /\ [][Next]_vars

(* Messages arrive or are lost, and timers that run expire.                 *)
Fairness ==
    \A e \in Sides : WF_vars(Deliver(e)) /\ WF_vars(CpTimeout(e)) /\ WF_vars(RpTimeout(e))

FairSpec == Spec /\ Fairness

-----------------------------------------------------------------------------

(* "Sending this MUST be the last thing that is done": no handler of either *)
(* layer touches a transaction after its MMSMS-REL-REQ let it be destroyed, *)
(* however deep in the calls between the layers that was.                   *)
NoUseAfterDestroy == \A e \in Sides : tr[e].life # "used"

(* The branches that log "This should never happen, please fix!" are not    *)
(* taken: no stored message is overwritten, none is missing when it is to   *)
(* be sent.                                                                 *)
NeverHappens == \A e \in Sides : ~tr[e].fatal

(* The originator is told of success only if the terminator's upper layer   *)
(* was given the message and reported success; it is told once.             *)
HonestReport ==
    /\ Len(rep[MO]) <= subs
    /\ \A n \in DOMAIN rep[MO] : rep[MO][n].kind = "ACK" => ind > 0 /\ acked

(* The terminator's upper layer is given a message a second time only if it *)
(* was told that the first time failed (TR2N, or an error before it         *)
(* reported) -- with one submission, a TC1* longer than the round trip,     *)
(* fewer than three messages lost on the way back and no failure of the MM  *)
(* connection: a CP-DATA that TC1* repeats after the terminator's           *)
(* transaction has ended would make a new one.                              *)
DeliveredOnce ==
    subs <= 1 /\ env.timely /\ loss[MO] < 3 /\ fails = 0 => ind <= 1 + Len(rep[MT])

(* Every submission is reported on in the end.  (Answers of a type that the *)
(* relay layer does not know are dropped by it without a report.)           *)
EverySubmissionReported ==
    env.reports \subseteq {"ACK", "ERROR"} => (subs = 1 ~> rep[MO] # <<>>)

(* No transaction is left over, unless its first message was of an unknown  *)
(* type, in which case the relay layer answers without releasing.           *)
TransactionsEnd ==
    env.kinds \subseteq {"DATA", "REVERSED"} => \A e \in Sides : tr[e].life = "live" ~> tr[e].life = "gone"

=============================================================================

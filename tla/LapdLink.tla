------------------------------ MODULE LapdLink ------------------------------
(***************************************************************************)
(* Two LAPD datalinks (module Lapd), one in network and one in user mode,  *)
(* joined by two channels of layer 1, which keep the order of frames and   *)
(* may lose any of them.  Layer 3 on either side issues primitives, reads  *)
(* the messages delivered to it, and is not told more than the datalink's  *)
(* indications tell it.                                                    *)
(***************************************************************************)
EXTENDS Lapd

CONSTANTS
    A, B,         \* the two sides
    Environments  \* what may happen around the datalinks, see EnvAssumption

ASSUME SidesAssumption == A # B

Sides == {A, B}

(* An environment says                                                      *)
(*   prims      the primitives L3 issues,                                   *)
(*   reactions  what L3 may do in-line when it is given a message,          *)
(*   infos      information fields of DL-ESTABLISH requests (0: none),      *)
(*   timely     that T200 exceeds the round trip of a poll and its answer,  *)
(*   prompt     that when T200 expires nothing at all is under way: it      *)
(*              exceeds every round trip, and L3 sent nothing just before,  *)
(*   inflight   frames in flight beyond which a side takes no new step,     *)
(* and bounds, for each side, the number of its DATA requests (msgs), of    *)
(* its other requests (reqs) and of frames lost on the way to it (losses).  *)
ASSUME EnvAssumption ==
    \A env \in Environments :
        /\ DOMAIN env = {"prims", "reactions", "infos", "timely", "prompt",
                         "inflight", "msgs", "reqs", "losses"}
        /\ env.timely \in BOOLEAN /\ env.prompt \in BOOLEAN
        /\ env.inflight \in Nat
        /\ {env.msgs, env.reqs, env.losses} \subseteq [Sides -> Nat]

Peer(e) == IF e = A THEN B ELSE A
Mode(e) == IF e = A THEN "USER" ELSE "NETWORK"

VARIABLES
    env,    \* the environment of this behaviour
    dl,     \* dl[e]: the datalink of side e
    chan,   \* chan[e]: frames on their way to e
    sub,    \* sub[e]: messages 1..sub[e] were submitted by L3 of e
    told,   \* told[e]: messages up to told[e] were submitted before the last
            \*   establishment or release that e's L3 was told of
    got,    \* got[e]: the messages (sequences of segments) given to e's L3
    reqs,   \* requests other than DATA issued by e
    loss    \* loss[e]: frames lost on the way to e

vars == <<env, dl, chan, sub, told, got, reqs, loss>>

Init ==
    /\ env \in Environments
    /\ dl = [e \in Sides |-> DlInit(Mode(e))]
    /\ chan = [e \in Sides |-> <<>>]
    /\ sub = [e \in Sides |-> 0]
    /\ told = [e \in Sides |-> 0]
    /\ got = [e \in Sides |-> <<>>]
    /\ reqs = [e \in Sides |-> 0]
    /\ loss = [e \in Sides |-> 0]

-----------------------------------------------------------------------------

LinkPrims == {"EST_IND", "EST_CNF", "REL_IND", "REL_CNF"}

(* The messages among the primitives given to L3.                           *)
Indicated(up) ==
    LET data == SelectSeq(up, LAMBDA p : p.prim = "DATA_IND")
    IN  [n \in DOMAIN data |-> data[n].data]

(* The frames and primitives of a handler's result leave the datalink; rest *)
(* is what the channel to e holds by then, and n the messages submitted.    *)
Commit(e, d, rest, n) ==
    /\ dl' = [dl EXCEPT ![e] = [d EXCEPT !.ph = <<>>, !.up = <<>>]]
    /\ chan' = [chan EXCEPT ![e] = rest, ![Peer(e)] = @ \o d.ph]
    /\ sub' = [sub EXCEPT ![e] = n]
    /\ told' = [told EXCEPT ![e] =
                   IF \E i \in DOMAIN d.up : d.up[i].prim \in LinkPrims THEN n ELSE @]
    /\ got' = [got EXCEPT ![e] = @ \o Indicated(d.up)]

Room(e) == Len(chan[Peer(e)]) < env.inflight

(* A DATA request carries the next message.                                 *)
DataRequest(e) ==
    /\ "DATA_REQ" \in env.prims
    /\ sub[e] < env.msgs[e]
    /\ Room(e)
    /\ dl[e].state \in Connected
    /\ Commit(e, RecvDlsap(dl[e], [prim |-> "DATA_REQ", msg |-> sub[e] + 1]),
              chan[e], sub[e] + 1)
    /\ UNCHANGED <<env, reqs, loss>>

(* Requests that the state machine acts on; the rest is discarded.          *)
Request(e, p) ==
    /\ reqs[e] < env.reqs[e]
    /\ Room(e)
    /\ RecvDlsap(dl[e], p) # dl[e]
    /\ Commit(e, RecvDlsap(dl[e], p), chan[e], sub[e])
    /\ reqs' = [reqs EXCEPT ![e] = @ + 1]
    /\ UNCHANGED <<env, loss>>

Requests ==
    {p \in [prim : {"EST_REQ", "UNIT_DATA_REQ"}, info : env.infos] :
        p.prim \in env.prims /\ ~(p.prim = "UNIT_DATA_REQ" /\ (p.info = 0 \/ Rts))}
    \cup {p \in [prim : {"SUSP_REQ", "RES_REQ", "RECON_REQ"}, msg : {<<>>}] :
            p.prim \in env.prims}
    \cup {p \in [prim : {"REL_REQ"}, local : {FALSE}] : "REL_REQ" \in env.prims}
    \cup {p \in [prim : {"REL_REQ"}, local : {TRUE}] : "REL_LOCAL" \in env.prims}

(* L1 delivers the oldest frame; L3 may react to a message in-line.  A      *)
(* destroyed datalink is given no frame.                                    *)
Receive(e, react) ==
    LET d == PhDataInd(dl[e], Head(chan[e]), react)
    IN  /\ chan[e] # <<>>
        /\ dl[e].state # "NULL"
        /\ Room(e)
        /\ react.prim = "none" \/
              (Head(chan[e]).format = "I" /\ \E i \in DOMAIN d.up : d.up[i].prim = "DATA_IND")
        /\ Commit(e, d, Tail(chan[e]), sub[e])
        /\ UNCHANGED <<env, reqs, loss>>

Lose(e) ==
    /\ chan[e] # <<>>
    /\ loss[e] < env.losses[e]
    /\ chan' = [chan EXCEPT ![e] = Tail(@)]
    /\ loss' = [loss EXCEPT ![e] = @ + 1]
    /\ UNCHANGED <<env, dl, sub, told, got, reqs>>

(* A poll of e, or an answer to one, is under way.                          *)
AnswerUnderWay(e) ==
    \/ \E i \in DOMAIN chan[Peer(e)] :
          chan[Peer(e)][i].cr = "cmd" /\ chan[Peer(e)][i].pf = 1
    \/ \E i \in DOMAIN chan[e] : chan[e][i].cr = "resp" /\ chan[e][i].pf = 1

(* T200 expires while the answer to a poll is under way only if the round   *)
(* trip can be longer than T200.                                            *)
LateEnough(e) ==
    /\ env.timely => ~AnswerUnderWay(e)
    /\ env.prompt => chan[e] = <<>> /\ chan[Peer(e)] = <<>>

(* To read an empty slot of the history ends the program of that side.      *)
T200Expiry(e) ==
    LET d == IF ResendReadsEmptySlot(dl[e]) THEN DlExit(dl[e]) ELSE T200Cb(dl[e])
    IN  /\ dl[e].t200 = "running"
        /\ Room(e)
        /\ LateEnough(e)
        /\ Commit(e, d, chan[e], sub[e])
        /\ UNCHANGED <<env, reqs, loss>>

T203Expiry(e) ==
    /\ dl[e].t203
    /\ Room(e)
    /\ Commit(e, T203Cb(dl[e]), chan[e], sub[e])
    /\ UNCHANGED <<env, reqs, loss>>

(* L1 is ready to send and polls for a frame.                               *)
ReadyToSend(e) ==
    /\ Rts
    /\ Room(e)
    /\ Commit(e, PhRtsInd(dl[e]), chan[e], sub[e])
    /\ UNCHANGED <<env, reqs, loss>>

Next ==
    \/ \E e \in Sides : DataRequest(e)
    \/ \E e \in Sides : \E p \in Requests : Request(e, p)
    \/ \E e \in Sides : \E r \in env.reactions : Receive(e, r)
    \/ \E e \in Sides : Lose(e)
    \/ \E e \in Sides : T200Expiry(e)
    \/ \E e \in Sides : T203Expiry(e)
    \/ \E e \in Sides : ReadyToSend(e)

Spec == Init /\ [][Next]_vars

(* What a side does by itself: take a frame, let a timer expire.            *)
Step(e) ==
    \/ \E r \in env.reactions : Receive(e, r)
    \/ T200Expiry(e)
    \/ T203Expiry(e)

CanExpire(e) == Room(e) /\ dl[e].t200 = "running" /\ LateEnough(e)
CanStep(e) ==
    CanExpire(e) \/ (Room(e) /\ (chan[e] # <<>> \/ dl[e].t203))

(* Each side's event loop goes on, and T200 expires unless it is stopped:   *)
(* WF_vars(Step(e)) and WF_vars(T200Expiry(e)), with ENABLED written out    *)
(* (all these steps change the datalink or its channel).                    *)
Fairness ==
    \A e \in Sides :
        /\ []<>(~CanStep(e)) \/ []<><<Step(e)>>_vars
        /\ []<>(~CanExpire(e)) \/ []<><<T200Expiry(e)>>_vars

FairSpec == Spec /\ Fairness

-----------------------------------------------------------------------------

Outstanding(d) == {AddMod(d.v_ack, j) : j \in 0..(SubMod(d.v_send, d.v_ack) - 1)}

MaySuspend ==
    "SUSP_REQ" \in env.prims \/ \E r \in env.reactions : r.prim = "SUSP_REQ"

(* Go-back-N: in MF_EST the frames from V(A) up to V(S) are at most k and   *)
(* all of them, and nothing else, are in the history.  (In timer recovery a *)
(* REJ may set V(S) back and acknowledgements may then overtake it: only    *)
(* the history's bound holds there, until a final response sets V(S).)      *)
(* Not claimed for a T200 shorter than the round trip, nor where L3 may     *)
(* suspend the link: lapd_susp_req() clears the history and leaves V(S).    *)
WindowKept ==
    env.timely /\ ~MaySuspend => \A e \in Sides :
        /\ dl[e].state = "MF_EST" =>
              /\ SubMod(dl[e].v_send, dl[e].v_ack) <= K
              /\ DOMAIN dl[e].tx_hist = {Slot(x) : x \in Outstanding(dl[e])}
        /\ dl[e].state = "TIMER_RECOV" => Cardinality(DOMAIN dl[e].tx_hist) <= K

(* The N(R) of an I frame or RR that arrives in multiple frame operation is *)
(* valid (5.7.4), where WindowKept is claimed.                              *)
AcksValid ==
    env.timely /\ ~MaySuspend => \A e \in Sides : chan[e] # <<>> =>
        LET f == Head(chan[e])
        IN  dl[e].state = "MF_EST" /\ (f.format = "I" \/ (f.format = "S" /\ f.s_u = "RR"))
                => ~NrSequenceError(dl[e], f.nr)

(* It is given up: N200 polls went unanswered, L3 was told with an MDL      *)
(* error and, as re-establishment is off, must act.                         *)
GivenUp(d) == ~Reestablish /\ d.state = "TIMER_RECOV" /\ d.retrans_ctr > N200

(* In RTS mode the next poll of L1 transmits from V(S).                     *)
PollSends(d) == Rts /\ d.state = "MF_EST" /\ MaySend(d)

(* A sender with unacknowledged frames always has something that will make  *)
(* it act -- T200, T203, which polls the peer, or the next poll of L1 -- or *)
(* has given up.                                                            *)
SenderNeverStranded ==
    \A e \in Sides :
        dl[e].state \in Connected /\ DOMAIN dl[e].tx_hist # {} =>
            \/ dl[e].t200 # "off" \/ dl[e].t203
            \/ PollSends(dl[e])
            \/ GivenUp(dl[e])

(* A REJ, or the answer to a poll, that arrives asks for a frame that the   *)
(* history still holds, or acknowledges all of it: V(S), which it sets to   *)
(* its N(R), never points into a gap before the history.                    *)
SetsBack(d, f) == (d.state = "MF_EST" /\ f.s_u = "REJ") \/ Final(d, f)
Left(d, nr) == DOMAIN d.tx_hist \ AckSlots(d, nr)
Finds(d, nr) == Left(d, nr) = {} \/ Slot(nr) \in Left(d, nr)
AsksForHeld ==
    \A e \in Sides : chan[e] # <<>> =>
        LET f == Head(chan[e])
        IN  f.format = "S" /\ dl[e].state \in Connected /\ SetsBack(dl[e], f)
                => Finds(dl[e], f.nr)

Whole(e, n) ==
    \E m \in 1..sub[Peer(e)] : got[e][n] = [i \in 1..Segs[m] |-> [m |-> m, i |-> i]]

(* What L3 is given is one whole message that the other side's L3 sent.     *)
WholeMessages == \A e \in Sides : \A n \in DOMAIN got[e] : Whole(e, n)

(* The same until the link is established anew: however frames are lost and *)
(* segments sent again, one link delivers whole messages.                   *)
WholeOnOneLink ==
    \A e \in Sides : told[Peer(e)] = 0 => \A n \in DOMAIN got[e] : Whole(e, n)

MsgsGot(e) == [n \in DOMAIN got[e] |-> got[e][n][1].m]

(* Messages arrive in the order they were sent and at most once.            *)
InOrderOnce ==
    \A e \in Sides : \A n \in 2..Len(got[e]) : MsgsGot(e)[n - 1] < MsgsGot(e)[n]

(* A message that was overtaken, that is never delivered although a later   *)
(* one was, was sent before an establishment or a release that the sender's *)
(* L3 has been told of.  Not claimed for a T200 shorter than the round trip.*)
NoSilentLoss ==
    env.timely => \A e \in Sides : \A n \in DOMAIN got[e] :
        \A m \in 1..(MsgsGot(e)[n] - 1) :
            (\E k \in DOMAIN got[e] : MsgsGot(e)[k] = m) \/ m <= told[Peer(e)]

(* A lost frame is repaired by retransmission: no message is submitted      *)
(* before an establishment or release that ends the link it was sent on.    *)
(* That goes for one frame lost on the way to B, and for one lost either    *)
(* way, an acknowledgement included, if T200 is prompt.  Else not: an early *)
(* T200 repeats a frame that B has, B answers with REJ and, if that is lost,*)
(* stays in sequence error condition, in which lapd_rx_s() answers no poll, *)
(* until A establishes the link anew.  Two losses may do the same.          *)
RepairedByRetransmission ==
    reqs[B] = 0 /\ (\/ loss[A] = 0 /\ loss[B] <= 1
                    \/ env.prompt /\ loss[A] + loss[B] <= 1) => told[A] = 0

(* Every message is delivered in the end, or its sender's L3 is told that   *)
(* the link was established anew or released.                               *)
EveryMessageSettled ==
    \A e \in Sides : \A m \in Msgs :
        sub[e] >= m ~>
            \/ m <= told[e]
            \/ \E n \in DOMAIN got[Peer(e)] : MsgsGot(Peer(e))[n] = m

=============================================================================

------------------------------- MODULE Ns2Link -------------------------------
(***************************************************************************)
(* The NS entities of a BSS and of an SGSN (module Ns2Vc), and between     *)
(* them, for each NS-VC, a sub-network that keeps the order of the PDUs    *)
(* and may lose them.  Either side may restart, is operated (VTY commands) *)
(* and may be sent PDUs that belong to an earlier conversation.            *)
(***************************************************************************)
EXTENDS Ns2Vc

CONSTANTS
    BSS, SGSN,
    Environments   \* what happens around the two, see Ns2EnvAssumption

Sides == {BSS, SGSN}
Peer(e) == IF e = BSS THEN SGSN ELSE BSS

(* An environment: the link layer, the mode of the NS-VCs, their weights,   *)
(* the operations and the stray PDUs there may be; and how many losses,     *)
(* operations, restarts, stray PDUs, requests of the users and timers that  *)
(* expire while an answer is still under way.                               *)
ASSUME Ns2EnvAssumption ==
    \A env \in Environments :
        /\ DOMAIN env = {"ll", "mode", "weights", "ops", "pdus", "left"}
        /\ env.ll \in LinkLayers
        /\ env.mode \in {"BLOCKRESET", "ALIVE"}
        /\ env.ops \subseteq {"reset", "block", "unblock", "unconfigure", "free"}
        /\ \E vs \in SUBSET Vcs : env.weights \in [vs -> [data : Nat, sig : Nat]]
        /\ env.left \in [{"losses", "ops", "restarts", "strays", "data", "early"} -> Nat]

VARIABLES
    env,    \* the environment of this behaviour
    left,   \* what may still happen of it
    ent,    \* ent[e]: the NS entity of side e
    chan,   \* chan[e][v]: PDUs on their way to e over v
    news    \* news[e]: what the last step of e told its user of the entity

vars == <<env, left, ent, chan, news>>

Entity(e) == NewEntity(env.mode, e = BSS, env.weights)

Init ==
    /\ env \in Environments
    /\ left = env.left
    /\ ent = [e \in Sides |-> Entity(e)]
    /\ chan = [e \in Sides |-> [v \in DOMAIN env.weights |-> <<>>]]
    /\ news = [e \in Sides |-> <<>>]

-----------------------------------------------------------------------------

Sent(s, v) ==
    LET mine == SelectSeq(s.tx, LAMBDA m : m[1] = v)
    IN  [n \in DOMAIN mine |-> mine[n][2]]

(* The outputs of a handler of side e leave it; rest is what the channels   *)
(* to e hold by then.                                                       *)
Commit(e, out, rest) == \E s \in {out} :
    /\ ent' = [ent EXCEPT ![e] = [s EXCEPT !.tx = <<>>, !.ind = <<>>, !.news = <<>>]]
    /\ chan' = [chan EXCEPT ![e] = rest,
                            ![Peer(e)] = [v \in DOMAIN @ |-> @[v] \o Sent(s, v)]]
    /\ news' = [news EXCEPT ![e] = s.news]
    /\ UNCHANGED env

Spend(what) == left[what] > 0 /\ left' = [left EXCEPT ![what] = @ - 1]

(* ns2_vc_fsm_start().                                                      *)
Start(e, v) ==
    /\ ent[e].vc[v].state = "UNCONFIGURED"
    /\ Commit(e, StUnconfigured(ent[e], v), chan[e])
    /\ UNCHANGED left

(* A VTY command, or a request of the program that uses the library.        *)
Operate(e, v, op) ==
    /\ Spend("ops")
    /\ ent[e].vc[v].state # "FREED"
    /\ Commit(e, CASE op = "reset" -> OmReset(ent[e], v)
                   [] op = "block" -> OmBlock(ent[e], v)
                   [] op = "unblock" -> OmUnblock(ent[e], v)
                   [] op = "unconfigure" -> ForceUnconfigured(ent[e], v)
                   [] op = "free" -> FreeNsvc(ent[e], v), chan[e])

RestartSide(e) ==
    /\ Spend("restarts")
    /\ ent' = [ent EXCEPT ![e] = Entity(e)]
    /\ news' = [news EXCEPT ![e] = <<>>]
    /\ UNCHANGED <<env, chan>>

Deliver(e, v) ==
    /\ chan[e][v] # <<>>
    /\ Commit(e, IF ent[e].vc[v].state = "FREED" THEN ent[e]
                 ELSE VcRx(ent[e], v, Head(chan[e][v])),
              [chan[e] EXCEPT ![v] = Tail(@)])
    /\ UNCHANGED left

Lose(e, v) ==
    /\ chan[e][v] # <<>>
    /\ Spend("losses")
    /\ chan' = [chan EXCEPT ![e][v] = Tail(@)]
    /\ UNCHANGED <<env, ent, news>>

Stray(e, v, p) ==
    /\ Spend("strays")
    /\ chan' = [chan EXCEPT ![e][v] = Append(@, p)]
    /\ UNCHANGED <<env, ent, news>>

(* The timers exceed the round trip: one expires when neither the request   *)
(* that it guards nor the answer is under way, and early only as often as   *)
(* the environment says.                                                    *)
UnderWay(e, v, requests, answers) ==
    \/ \E n \in DOMAIN chan[Peer(e)][v] : chan[Peer(e)][v][n].type \in requests
    \/ \E n \in DOMAIN chan[e][v] : chan[e][v][n].type \in answers
MayExpire(underWay) == IF underWay THEN Spend("early") ELSE UNCHANGED left

FsmTimeout(e, v) ==
    /\ ent[e].vc[v].timer
    /\ MayExpire(/\ ~ent[e].vc[v].overdue
                 /\ UnderWay(e, v, {"RESET", "BLOCK", "UNBLOCK"},
                                   {"RESET_ACK", "BLOCK_ACK", "UNBLOCK_ACK"}))
    /\ Commit(e, FsmTimer(ent[e], v), chan[e])

TestTimeout(e, v) ==
    /\ ent[e].vc[v].test
    /\ MayExpire(UnderWay(e, v, {"ALIVE"}, {"ALIVE_ACK"}))
    /\ Commit(e, AliveTimeout(ent[e], v), chan[e])

(* NS-UNITDATA.request, with its link selector parameter.  Load sharing     *)
(* takes it modulo one of two sums: up to their total it leaves every       *)
(* remainder of either.                                                     *)
Selectors(e) == 0..(ent[e].nse.count + ent[e].nse.data)
Request(e, n) ==
    /\ Spend("data")
    /\ ent[e].nse.alive
    /\ Commit(e, RecvPrim(ent[e], n, env.ll), chan[e])

Next ==
    \E e \in Sides :
        \/ RestartSide(e)
        \/ \E n \in Selectors(e) : Request(e, n)
        \/ \E v \in DOMAIN env.weights :
               \/ Start(e, v) \/ Deliver(e, v) \/ Lose(e, v)
               \/ FsmTimeout(e, v) \/ TestTimeout(e, v)
               \/ \E op \in env.ops : Operate(e, v, op)
               \/ \E p \in env.pdus : Stray(e, v, p)

Spec == Init /\ [][Next]_vars

(* NS-VCs are started, PDUs arrive or are lost, timers that run expire.     *)
Fairness ==
    \A e \in Sides, v \in Vcs :
        LET has == v \in DOMAIN env.weights
        IN  /\ WF_vars(has /\ Start(e, v))
            /\ WF_vars(has /\ Deliver(e, v))
            /\ WF_vars(has /\ FsmTimeout(e, v))
            /\ WF_vars(has /\ TestTimeout(e, v))

FairSpec == Spec /\ Fairness

-----------------------------------------------------------------------------

Vc(e, v) == ent[e].vc[v]
Pairs == Sides \X DOMAIN env.weights

(* An NS-VC that the operator has blocked is not used until it is unblocked *)
(* by him, whatever the peer sends and however often it is reset.  (Only    *)
(* with the RESET/BLOCK procedures: without them BLOCK is refused while the *)
(* NS-VC recovers.)                                                         *)
OmBlockHolds ==
    \A p \in Pairs :
        env.mode = "BLOCKRESET" /\ Vc(p[1], p[2]).om_blocked
            => Vc(p[1], p[2]).state # "UNBLOCKED"

DataVcs == {v \in DOMAIN env.weights : env.weights[v].data > 0}
SigVcs == {v \in DOMAIN env.weights : env.weights[v].sig > 0}

(* What load sharing makes of a request: an NS-VC that is unblocked and, on *)
(* UDP, carries data.                                                       *)
Routed(e, n) ==
    \A ll \in LinkLayers : \E v \in Unblocked(ent[e]) :
        /\ LoadSharing(ent[e], n, ll) = <<v>>
        /\ ll = "UDP" => v \in DataVcs

(* The sums that load sharing divides by are those of the NS-VCs it then    *)
(* walks, and are not zero: every request to an available entity finds an   *)
(* NS-VC, whatever remainder its link selector parameter leaves.            *)
EveryRequestRouted ==
    \A e \in Sides : ent[e].nse.alive => \A n \in Selectors(e) : Routed(e, n)

Usable(e) == Unblocked(ent[e]) \cap (DataVcs \cup SigVcs)

BssNse == INSTANCE NseService WITH
              dataVcs <- DataVcs, sigVcs <- SigVcs, usable <- Usable(BSS),
              alive <- ent[BSS].nse.alive, first <- ent[BSS].nse.first, news <- news[BSS]
SgsnNse == INSTANCE NseService WITH
              dataVcs <- DataVcs, sigVcs <- SigVcs, usable <- Usable(SGSN),
              alive <- ent[SGSN].nse.alive, first <- ent[SGSN].nse.first, news <- news[SGSN]

(* Either entity is what its user was promised: the cached availability is  *)
(* that of the NS-VCs, and each change is indicated once.                   *)
NseImplemented == BssNse!Spec /\ SgsnNse!Spec

(* A side does not go on with a peer that is gone: an NS-VC whose peer does *)
(* not answer is not unblocked for ever.                                    *)
DeadPeerDetected ==
    \A e \in Sides, v \in Vcs :
        LET stale == /\ v \in DOMAIN env.weights
                     /\ Vc(e, v).state = "UNBLOCKED"
                     /\ Vc(Peer(e), v).state \in {"UNCONFIGURED", "RESET", "FREED"}
        IN  stale ~> ~stale

(* Once no more PDUs are lost, every NS-VC comes up and stays up, if nobody *)
(* restarts, operates or disturbs the two sides.                            *)
Undisturbed == env.left.ops = 0 /\ env.left.restarts = 0 /\ env.left.strays = 0
ComesUp ==
    Undisturbed => <>[](\A p \in Pairs : Vc(p[1], p[2]).state = "UNBLOCKED")

(* "The initiator who sent RESET is responsible to UNBLOCK!": an NS-VC that *)
(* no operator has blocked does not stay blocked.                           *)
BlockedIsUnblocked ==
    \A e \in Sides, v \in Vcs :
        LET blocked == /\ v \in DOMAIN env.weights
                       /\ Vc(e, v).state = "BLOCKED"
                       /\ ~Vc(e, v).om_blocked /\ ~Vc(Peer(e), v).om_blocked
        IN  blocked ~> ~blocked

=============================================================================

-------------------------------- MODULE MCNs2 --------------------------------
(* Instances of Ns2Link for TLC: environments. *)
EXTENDS Ns2Link, TLC

CONSTANTS v1, v2

TheVcs == <<v1, v2>>

One == v1 :> [data |-> 1, sig |-> 1]
(* Data on both NS-VCs, signalling on one: only that one is indispensable. *)
Shared == (v1 :> [data |-> 1, sig |-> 1]) @@ (v2 :> [data |-> 2, sig |-> 0])

Left(losses, ops, restarts, strays, data, early) ==
    [losses |-> losses, ops |-> ops, restarts |-> restarts, strays |-> strays,
     data |-> data, early |-> early]

(* Losses and timers that are too short, in both modes; operators; restarts; *)
(* PDUs of earlier conversations and about other NS-VCs.                     *)
Quiet == [ll |-> "FR", mode |-> "BLOCKRESET", weights |-> One, ops |-> {}, pdus |-> {},
          left |-> Left(2, 0, 0, 0, 0, 1)]
QuietAlive == [Quiet EXCEPT !.mode = "ALIVE", !.left = Left(1, 0, 0, 0, 0, 0)]
Operated == [Quiet EXCEPT !.ops = {"reset", "block", "unblock", "unconfigure", "free"},
                          !.left = Left(0, 1, 0, 0, 1, 0)]
OperatedAlive == [Operated EXCEPT !.mode = "ALIVE", !.ops = {"block", "free"}, !.left = Left(0, 1, 0, 0, 0, 0)]
BlockedTwice == [Quiet EXCEPT !.ops = {"block", "unblock"}, !.left = Left(0, 2, 0, 0, 0, 0)]
Restarted == [Quiet EXCEPT !.ll = "UDP", !.left = Left(0, 0, 1, 0, 1, 0)]
Strays == {Pdu(t, v1) : t \in {"RESET", "BLOCK", "UNBLOCK", "UNBLOCK_ACK", "RESET_ACK",
                               "STATUS_BLOCKED", "STATUS_UNKNOWN"}}
Confused == [Quiet EXCEPT !.pdus = Strays, !.left = Left(0, 0, 0, 1, 0, 0)]
Disturbed == [Quiet EXCEPT !.weights = Shared,
                           !.pdus = {Pdu("BLOCK", v2), Pdu("STATUS_BLOCKED", v2)},
                           !.left = Left(0, 0, 0, 1, 0, 0)]

Together == {Quiet, QuietAlive, Operated, OperatedAlive, BlockedTwice, Restarted,
             Confused, Disturbed}

(* An NS-VC is blocked, and one side restarts. *)
Stalling == {[Quiet EXCEPT !.ops = {"block"}, !.left = Left(0, 1, 1, 0, 0, 0)]}
=============================================================================

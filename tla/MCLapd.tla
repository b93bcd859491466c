------------------------------- MODULE MCLapd -------------------------------
(* Instances of LapdLink for TLC: the environments of the runs. *)
EXTENDS LapdLink, TLC

AtoB(a, b) == (A :> a) @@ (B :> b)

NoReaction == {[prim |-> "none"]}
MayLeave ==
    NoReaction \cup {[prim |-> "exit"]} \cup [prim : {"REL_REQ"}, local : BOOLEAN]

(* Establishment and data, with the given bounds.                           *)
Data(msgs, others, losses, inflight) ==
    [prims |-> {"EST_REQ", "DATA_REQ"}, reactions |-> NoReaction, infos |-> {0},
     timely |-> TRUE, prompt |-> FALSE, inflight |-> inflight,
     msgs |-> msgs, reqs |-> others, losses |-> losses]

(* Four messages from A fill the window; or two, with losses both ways; or  *)
(* four, with one loss each way and a prompt T200.                          *)
Transfer == {Data(AtoB(4, 0), AtoB(1, 0), AtoB(0, 1), 8),
             Data(AtoB(2, 0), AtoB(1, 1), AtoB(2, 2), 8),
             [Data(AtoB(4, 0), AtoB(1, 0), AtoB(1, 1), 8) EXCEPT !.prompt = TRUE]}

(* Both sides establish and send at once.                                   *)
Duplex == Data(AtoB(2, 1), AtoB(1, 1), AtoB(1, 1), 3)
(* T200 may be shorter than the round trip.                                 *)
Untimely == [Data(AtoB(2, 0), AtoB(1, 0), AtoB(1, 1), 2) EXCEPT !.timely = FALSE]
(* Release, suspension, resumption, reconnection and contention resolution; *)
(* L3 may release or destroy the datalink in-line.                          *)
Management ==
    [Data(AtoB(1, 0), AtoB(2, 1), AtoB(1, 1), 3)
        EXCEPT !.prims = @ \cup {"REL_REQ", "REL_LOCAL", "SUSP_REQ", "RES_REQ",
                                 "RECON_REQ", "UNIT_DATA_REQ"},
               !.reactions = MayLeave, !.infos = {0, 1, 2}]
Crossings == {Duplex, Untimely, Management}

(* L1 polls for frames.                                                     *)
Polled == {Data(AtoB(2, 1), AtoB(1, 0), AtoB(1, 1), 3)}

(* Two losses each way break a link in the middle of a message.             *)
Broken == {Data(AtoB(2, 0), AtoB(1, 0), AtoB(2, 2), 3)}

OneSegment == [m \in Msgs |-> 1]
FirstInTwo == [m \in Msgs |-> IF m = 1 THEN 2 ELSE 1]

=============================================================================

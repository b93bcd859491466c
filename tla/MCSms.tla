------------------------------- MODULE MCSms -------------------------------
(* Instances of SmsLink for TLC: environments. *)
EXTENDS SmsLink, TLC

Lost(mo, mt) == (MO :> mo) @@ (MT :> mt)

(* Losses and a failing connection, with a TC1* longer than the round trip, *)
(* messages of unknown types, and a short TC1*.                             *)
Lossy == [kinds |-> {"DATA"}, reports |-> {"ACK", "ERROR"}, timely |-> TRUE,
          subs |-> 1, losses |-> Lost(3, 2), fails |-> 1]
Odd == [Lossy EXCEPT !.kinds = {"DATA", "REVERSED", "UNKNOWN"},
                     !.reports = {"ACK", "REVERSED", "UNKNOWN"}, !.losses = Lost(1, 1)]
Hasty == [Lossy EXCEPT !.timely = FALSE, !.losses = Lost(1, 1)]
Transactions == {Lossy, Odd, Hasty}
=============================================================================

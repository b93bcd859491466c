------------------------------ MODULE MCLapdDl ------------------------------
(* Instances of LapdDl for TLC. *)
EXTENDS LapdDl

OneSegment == [m \in Msgs |-> 1]

=============================================================================

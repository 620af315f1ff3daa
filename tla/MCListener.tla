------------------------------ MODULE MCListener ------------------------------
(* Two listeners started one after the other or at once, and one helper; one
   listener alone in the run about its owner. *)
EXTENDS Listener

CONSTANTS m1, m2, h1
=============================================================================

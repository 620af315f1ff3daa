------------------------------ MODULE MCElection ------------------------------
(* Three clients contest the election, two servers may be spawned. *)
EXTENDS Election

CONSTANTS c1, c2, c3
=============================================================================

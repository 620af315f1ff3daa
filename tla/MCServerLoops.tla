---------------------------- MODULE MCServerLoops ----------------------------
(* A small instance of ServerLoops: s1 connects twice, s2 once. *)
EXTENDS ServerLoops

CONSTANTS c1, c2, c3, s1, s2

MCSession == [c \in Conn |-> IF c = c3 THEN s2 ELSE s1]
=============================================================================

------------------------------ MODULE MCMessages ------------------------------
(* A small instance of Messages: three sessions, and names that are prefixes of *)
(* one another (n1 of n2) or that look like a session id (s1).                  *)
EXTENDS Messages

CONSTANTS s1, s2, s3, n1, n2, p, q

\* p, of two characters, begins both names and s1; q, of four, begins s2 and s3.
MCPrefixes ==
    {<<t, t>> : t \in Text} \cup {<<Empty, t>> : t \in Text}
    \cup {<<p, n1>>, <<p, n2>>, <<p, s1>>, <<n1, n2>>, <<q, s2>>, <<q, s3>>}
=============================================================================

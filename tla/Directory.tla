------------------------------ MODULE Directory ------------------------------
(***************************************************************************)
(* What the bus promises about presence, without connections, handlers or  *)
(* events: a session is absent or listens under a name, no two sessions    *)
(* have the same non-empty name, and each step changes one session.        *)
(***************************************************************************)
CONSTANTS Sid, Name, NoName, Absent

VARIABLE dir

Names == Name \cup {NoName}

Free(n, s) == n = NoName \/ \A r \in Sid \ {s} : dir[r] # n

Init == dir = [s \in Sid |-> Absent]

\* Session s starts to listen as n, comes back as n, or is renamed to n.
Enter(s, n) == Free(n, s) /\ dir' = [dir EXCEPT ![s] = n]

Depart(s) == dir' = [dir EXCEPT ![s] = Absent]

Next == \E s \in Sid : Depart(s) \/ \E n \in Names : Enter(s, n)

Spec == Init /\ [][Next]_dir
=============================================================================

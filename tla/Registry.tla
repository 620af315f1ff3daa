------------------------------- MODULE Registry -------------------------------
(***************************************************************************)
(* The registry as every part of the server may rely on it: a session has  *)
(* at most one connection, a connection says hello once, and only by that  *)
(* hello does it get into the registry, under one session.  BusServer (the *)
(* handlers) and ServerLoops (the periodic tasks) both implement it.       *)
(***************************************************************************)
CONSTANTS Conn, Sid, NoConn

VARIABLES
    entry,  \* the connection registered for each session
    met     \* the connections whose hello has been handled

vars == <<entry, met>>

Init ==
    /\ entry = [s \in Sid |-> NoConn]
    /\ met = {}

Listed(c) == \E s \in Sid : entry[s] = c

Unlist(s) == entry' = [entry EXCEPT ![s] = NoConn]

\* The hello of connection c registers it, vacates its session's entry, or does
\* nothing to the registry.
Meet(c) ==
    /\ c \notin met
    /\ met' = met \cup {c}
    /\ \/ UNCHANGED entry
       \/ \E s \in Sid : Unlist(s) \/ entry' = [entry EXCEPT ![s] = c]

Depart(s) == Unlist(s) /\ UNCHANGED met

Next == (\E c \in Conn : Meet(c)) \/ (\E s \in Sid : Depart(s))

Spec == Init /\ [][Next]_vars
=============================================================================

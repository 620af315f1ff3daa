------------------------------- MODULE Service -------------------------------
(***************************************************************************)
(* What ensure_server_running promises to those who call it: one server at *)
(* a time, each for one term, and nobody who is not killed gives up while  *)
(* a server is there to be dialled.  Election implements it.               *)
(***************************************************************************)
CONSTANTS
    Client, Server,
    Mortal  \* clients that may be killed

VARIABLES
    serving,  \* the servers that listen; at most one
    retired,  \* the servers that never listen (again)
    client    \* whether a client looks for a server, dials it, or has given up

vars == <<serving, retired, client>>

Init ==
    /\ serving = {} /\ retired = {}
    /\ client = [c \in Client |-> "looking"]

Serve(s) ==
    /\ serving = {} /\ s \notin retired
    /\ serving' = {s}
    /\ UNCHANGED <<retired, client>>

\* The term of a server ends, or its start fails.
Retire(s) ==
    /\ s \notin retired
    /\ retired' = retired \cup {s}
    /\ serving' = serving \ {s}
    /\ UNCHANGED client

Become(c, l) == client' = [client EXCEPT ![c] = l] /\ UNCHANGED <<serving, retired>>

Dial(c) == client[c] = "looking" /\ Become(c, "dialing")

Lose(c) == client[c] = "dialing" /\ Become(c, "looking")

GiveUp(c) == client[c] = "looking" /\ serving = {} /\ Become(c, "gone")

Killed(c) == c \in Mortal /\ client[c] # "gone" /\ Become(c, "gone")

Next ==
    \/ \E s \in Server : Serve(s) \/ Retire(s)
    \/ \E c \in Client : Dial(c) \/ Lose(c) \/ GiveUp(c) \/ Killed(c)

Spec == Init /\ [][Next]_vars
=============================================================================

------------------------------- MODULE Session -------------------------------
(***************************************************************************)
(* The listeners of one Claude Code session and their state file, as the   *)
(* helpers may rely on them: there is one seat, whoever has started does   *)
(* not start again, only the seated listener announces itself in the file, *)
(* and the file is removed by nobody but a listener that has left its seat *)
(* or while the seat is free.  Listener implements it with a flock.        *)
(***************************************************************************)
CONSTANTS Monitor, None

VARIABLES
    started,  \* the listener processes there have been
    seated,   \* those that listen, or are about to; at most one
    leaving,  \* those that have left the seat, and may still remove the file
    file      \* the listener in the state file, or None

vars == <<started, seated, leaving, file>>

Init == started = {} /\ seated = {} /\ leaving = {} /\ file = None

Take(m) ==
    /\ m \notin started /\ seated = {}
    /\ started' = started \cup {m} /\ seated' = {m}
    /\ UNCHANGED <<leaving, file>>

TurnedAway(m) ==
    /\ m \notin started
    /\ started' = started \cup {m}
    /\ UNCHANGED <<seated, leaving, file>>

Announce(m) ==
    /\ m \in seated
    /\ file' = m
    /\ UNCHANGED <<started, seated, leaving>>

\* Without a farewell if it is killed.
Leave(m) ==
    /\ m \in seated
    /\ seated' = {}
    /\ leaving' \in {leaving, leaving \cup {m}}
    /\ UNCHANGED <<started, file>>

\* The farewell may remove a successor's file; a kill may prevent it.
Farewell(m) ==
    /\ m \in leaving
    /\ leaving' = leaving \ {m}
    /\ file' \in {file, None}
    /\ UNCHANGED <<started, seated>>

CleanUp ==
    /\ seated = {}
    /\ file' = None
    /\ UNCHANGED <<started, seated, leaving>>

Next == CleanUp \/ \E m \in Monitor : \/ Take(m) \/ TurnedAway(m) \/ Announce(m)
                                     \/ Leave(m) \/ Farewell(m)

Spec == Init /\ [][Next]_vars
=============================================================================

---------------------------- MODULE RegistryProofs ----------------------------
(***************************************************************************)
(* What follows from the registry's abstract specification alone, and so   *)
(* holds of BusServer and of ServerLoops, which are shown to implement it. *)
(***************************************************************************)
EXTENDS Registry, TLAPS

Inv == /\ entry \in [Sid -> Conn \cup {NoConn}]
       /\ met \subseteq Conn
       /\ \A c \in Conn : Listed(c) => c \in met
       /\ \A r, s \in Sid : entry[r] = entry[s] /\ entry[r] # NoConn => r = s

LEMMA InitInv == ASSUME NoConn \notin Conn PROVE Init => Inv
  BY DEF Init, Inv, Listed

LEMMA StepInv == ASSUME NoConn \notin Conn, Inv, [Next]_vars PROVE Inv'
<1>1. ASSUME NEW s \in Sid, Unlist(s), met \subseteq met', met' \subseteq Conn PROVE Inv'
  BY <1>1 DEF Inv, Unlist, Listed
<1>2. ASSUME NEW c \in Conn, Meet(c) PROVE Inv'
  <2>1. c \notin met /\ met' = met \cup {c} /\ met' \subseteq Conn
    BY <1>2 DEF Meet, Inv
  <2>2. CASE entry' = entry
    BY <2>1, <2>2 DEF Inv, Listed
  <2>3. ASSUME NEW s \in Sid, entry' = [entry EXCEPT ![s] = c] PROVE Inv'
    <3>1. \A r \in Sid : entry[r] # c
      BY <2>1 DEF Inv, Listed
    <3> QED
      BY <2>1, <2>3, <3>1 DEF Inv, Listed
  <2> QED
    BY <1>1, <1>2, <2>1, <2>2, <2>3 DEF Meet
<1>3. ASSUME NEW s \in Sid, Depart(s) PROVE Inv'
  BY <1>1, <1>3 DEF Depart, Inv
<1>4. CASE UNCHANGED vars
  BY <1>4 DEF vars, Inv, Listed
<1> QED
  BY <1>2, <1>3, <1>4 DEF Next

LEMMA Invariance == ASSUME NoConn \notin Conn PROVE Spec => []Inv
<1>1. Inv /\ [Next]_vars => Inv'
  BY StepInv
<1> QED
  BY <1>1, InitInv, PTL DEF Spec

\* No connection stands for two sessions, whatever is listed and removed
\* (_registry, written by _handle_hello alone).
OneSessionEach ==
    \A r, s \in Sid : entry[r] = entry[s] /\ entry[r] # NoConn => r = s

THEOREM OneSession == ASSUME NoConn \notin Conn PROVE Spec => []OneSessionEach
<1>1. Inv => OneSessionEach
  BY DEF Inv, OneSessionEach
<1> QED
  BY <1>1, Invariance, PTL

\* A connection that is listed moves to no other session, and one that has been
\* taken out stays out: nothing but a hello lists, and each says one hello.
Final ==
    [][\A c \in met, s \in Sid : entry'[s] = c => entry[s] = c]_vars

THEOREM RemovalIsFinal == ASSUME NoConn \notin Conn PROVE Spec => Final
<1> DEFINE Stay == \A c \in met, s \in Sid : entry'[s] = c => entry[s] = c
<1>1. Inv /\ [Next]_vars => [Stay]_vars
  <2> SUFFICES ASSUME Inv, Next, NEW c \in met, NEW s \in Sid, entry'[s] = c, NoConn \notin Conn
               PROVE  entry[s] = c
    OBVIOUS
  <2>1. c # NoConn
    BY DEF Inv
  <2> QED
    BY <2>1 DEF Next, Meet, Depart, Unlist, Inv
<1> QED
  BY <1>1, Invariance, PTL DEF Final, Spec
=============================================================================

-------------------------- MODULE ServerLoopsProofs --------------------------
(***************************************************************************)
(* Theorems about ServerLoops, for any connections, sessions, threshold,   *)
(* idle limit, ghosts and any number of failing iterations.                *)
(***************************************************************************)
EXTENDS ServerLoops, TLAPS

USE DEF Nobody, Touch, Unlist, WsGoto, Seen, Later, reaper, peers

\* An entry belongs to its session.
Owned == \A s \in Sid : registry[s] # NoConn => Session[registry[s]] = s

\* Only an exception leaves a counter at the threshold behind, and a counter
\* that one more exception could push over the bound has a victim.
Bounded ==
    \A s \in Sid : /\ misses[s] <= Threshold + failures
                   /\ misses[s] = Threshold + failures
                        => \E c \in victims : Session[c] = s

\* The counter never runs ahead of what was seen, and whoever is to be evicted
\* was seen to be gone Threshold times.
Evidence ==
    /\ \A s \in Sid : misses[s] <= streak[s] \/ streak[s] = Threshold
    /\ \A c \in victims : streak[Session[c]] = Threshold

\* The last activity is not older than the last entry.
Idleness == IF Nobody THEN idle <= empty ELSE empty = 0

TypeInv == TypeOK /\ Owned /\ Bounded

LEMMA InitInv == Init => TypeInv /\ Evidence /\ Idleness
  BY LoopsAssumption DEF Init, TypeInv, TypeOK, Owned, Bounded, Evidence, Idleness

LEMMA CountType ==
    ASSUME TypeInv, NEW s \in Sid, NEW a, victims = {}
    PROVE  /\ Count(s, a) \in 0 .. Threshold + MaxFailures
           /\ Count(s, a) <= Threshold + failures
           /\ Count(s, a) > misses[s] => Seen(s) /\ a = "marked"
           /\ Count(s, a) <= misses[s] + 1
           /\ Seen(s) /\ a = "alive" => Count(s, a) = 0
  BY LoopsAssumption DEF TypeInv, TypeOK, Bounded, Count

LEMMA TickType ==
    ASSUME TypeInv, NEW ans \in Answer, Tick(ans)
    PROVE  TypeInv'
  <1>1. \A s \in Sid : misses'[s] = Count(s, ans[s])
    BY DEF Tick
  <1>2. misses' \in [Sid -> 0 .. Threshold + MaxFailures]
    BY CountType DEF Tick
  <1>3. victims' \in SUBSET Conn
    BY DEF Tick, TypeInv, TypeOK
  <1>4. streak' \in [Sid -> 0 .. Threshold]
    BY LoopsAssumption DEF Tick, TypeInv, TypeOK
  <1>5. TypeOK'
    BY <1>2, <1>3, <1>4 DEF Tick, TypeInv, TypeOK
  <1>6. Owned'
    BY DEF Tick, TypeInv, Owned
  <1>7. Bounded'
    <2> SUFFICES ASSUME NEW s \in Sid
                 PROVE  /\ misses'[s] <= Threshold + failures'
                        /\ misses'[s] = Threshold + failures'
                              => \E d \in victims' : Session[d] = s
      BY DEF Bounded
    <2>2. misses'[s] <= Threshold + failures'
      BY <1>1, CountType DEF Tick
    <2>3. ASSUME misses'[s] = Threshold + failures'
          PROVE  \E d \in victims' : Session[d] = s
      <3>1. misses[s] < Threshold + failures
        BY LoopsAssumption DEF Tick, TypeInv, TypeOK, Bounded
      <3>2. Seen(s) /\ ans[s] = "marked"
        BY <1>1, <2>3, <3>1, CountType DEF Tick, TypeInv, TypeOK
      <3>3. misses'[s] >= Threshold
        BY <2>3, LoopsAssumption DEF Tick, TypeInv, TypeOK
      <3>4. registry[s] \in victims'
        BY <3>2, <3>3 DEF Tick
      <3> QED
        BY <3>2, <3>4 DEF TypeInv, Owned
    <2> QED
      BY <2>2, <2>3
  <1> QED
    BY <1>5, <1>6, <1>7 DEF TypeInv

LEMMA EvictType ==
    ASSUME TypeInv, NEW c \in Conn, Evict(c)
    PROVE  TypeInv'
  <1>1. TypeOK' /\ Owned'
    BY LoopsAssumption DEF Evict, TypeInv, TypeOK, Owned
  <1>2. Bounded'
    <2> SUFFICES ASSUME NEW s \in Sid
                 PROVE  /\ misses'[s] <= Threshold + failures'
                        /\ misses'[s] = Threshold + failures'
                              => \E d \in victims' : Session[d] = s
      BY DEF Bounded
    <2>2. CASE s = Session[c]
      BY <2>2, LoopsAssumption DEF Evict, TypeInv, TypeOK, Bounded
    <2>3. CASE s # Session[c]
      BY <2>3, LoopsAssumption DEF Evict, TypeInv, TypeOK, Bounded
    <2> QED
      BY <2>2, <2>3
  <1> QED
    BY <1>1, <1>2 DEF TypeInv

LEMMA NextType == TypeInv /\ [Next]_vars => TypeInv'
  <1> SUFFICES ASSUME TypeInv, [Next]_vars PROVE TypeInv'
    OBVIOUS
  <1>1. ASSUME NEW c \in Conn, Hello(c) PROVE TypeInv'
    BY <1>1, LoopsAssumption DEF Hello, TypeInv, TypeOK, Owned, Bounded
  <1>2. ASSUME NEW c \in Conn, HelloVacates(c) PROVE TypeInv'
    BY <1>2, LoopsAssumption DEF HelloVacates, TypeInv, TypeOK, Owned, Bounded
  <1>3. ASSUME NEW c \in Conn, Welcome(c) \/ WelcomeLost(c) PROVE TypeInv'
    BY <1>3 DEF Welcome, WelcomeLost, TypeInv, TypeOK, Owned, Bounded
  <1>4. ASSUME NEW c \in Conn, Unregister(c) PROVE TypeInv'
    BY <1>4, LoopsAssumption DEF Unregister, TypeInv, TypeOK, Owned, Bounded
  <1>5. ASSUME NEW c \in Conn, Chat(c) PROVE TypeInv'
    BY <1>5, LoopsAssumption DEF Chat, TypeInv, TypeOK, Owned, Bounded
  <1>6. ASSUME NEW s \in Sid, ForceDisconnect(s) PROVE TypeInv'
    BY <1>6, LoopsAssumption DEF ForceDisconnect, TypeInv, TypeOK, Owned, Bounded
  <1>7. ASSUME NEW s \in Sid, Die(s) PROVE TypeInv'
    BY <1>7 DEF Die, TypeInv, TypeOK, Owned, Bounded
  <1>8. ASSUME CloseVictim PROVE TypeInv'
    BY <1>8 DEF CloseVictim, TypeInv, TypeOK, Owned, Bounded
  <1>9. ASSUME IterationFails PROVE TypeInv'
    BY <1>9, LoopsAssumption DEF IterationFails, TypeInv, TypeOK, Owned, Bounded
  <1>10. ASSUME Pass PROVE TypeInv'
    BY <1>10, LoopsAssumption DEF Pass, TypeInv, TypeOK, Owned, Bounded
  <1>11. ASSUME IdleStop \/ Stop PROVE TypeInv'
    BY <1>11 DEF IdleStop, Stop, TypeInv, TypeOK, Owned, Bounded
  <1>12. ASSUME UNCHANGED vars PROVE TypeInv'
    BY <1>12 DEF vars, TypeInv, TypeOK, Owned, Bounded
  <1> QED
    BY <1>1, <1>2, <1>3, <1>4, <1>5, <1>6, <1>7, <1>8, <1>9, <1>10, <1>11, <1>12,
       TickType, EvictType DEF Next, Handler, Reap

\* The counters stay within the threshold and the failures, and every other
\* variable within its type, for any schedule of the loops (ServerLoops.TypeOK).
THEOREM LoopsTypes == Spec => []TypeOK
  <1>1. Init => TypeInv
    BY InitInv
  <1>2. TypeInv /\ [Next]_vars => TypeInv'
    BY NextType
  <1>3. TypeInv => TypeOK
    BY DEF TypeInv
  <1> QED
    BY <1>1, <1>2, <1>3, PTL DEF Spec

-----------------------------------------------------------------------------
LEMMA NextEvidence == TypeInv /\ Evidence /\ [Next]_vars => Evidence'
  <1> SUFFICES ASSUME TypeInv, Evidence, [Next]_vars PROVE Evidence'
    OBVIOUS
  <1>1. ASSUME NEW ans \in Answer, Tick(ans) PROVE Evidence'
    <2>1. \A s \in Sid : misses'[s] = Count(s, ans[s])
      BY <1>1 DEF Tick
    <2>2. \A s \in Sid : misses'[s] <= streak'[s] \/ streak'[s] = Threshold
      BY <1>1, LoopsAssumption DEF Tick, Count, TypeInv, TypeOK, Evidence
    <2>3. ASSUME NEW c \in victims' PROVE streak'[Session[c]] = Threshold
      <3>1. PICK s \in Sid : registry[s] = c /\ Seen(s) /\ misses'[s] >= Threshold
        BY <1>1, <2>3 DEF Tick
      <3>2. Session[c] = s
        BY <3>1 DEF TypeInv, Owned
      <3>3. streak'[s] \in 0 .. Threshold /\ misses'[s] \in Nat
        BY <1>1, TickType DEF TypeInv, TypeOK
      <3> QED
        BY <2>2, <3>1, <3>2, <3>3, LoopsAssumption
    <2> QED
      BY <2>2, <2>3 DEF Evidence
  <1>2. ASSUME NEW c \in Conn, Evict(c) PROVE Evidence'
    BY <1>2, LoopsAssumption DEF Evict, TypeInv, TypeOK, Evidence
  <1>3. ASSUME IterationFails PROVE Evidence'
    BY <1>3 DEF IterationFails, Evidence
  <1>4. CASE UNCHANGED <<misses, streak, victims>>
    BY <1>4 DEF Evidence
  <1> QED
    BY <1>1, <1>2, <1>3, <1>4 DEF Next, Handler, Reap, vars, Hello, HelloVacates,
       Welcome, WelcomeLost, Unregister, Chat, ForceDisconnect, Die, CloseVictim,
       Pass, IdleStop, Stop

\* The reaper evicts nobody but sessions whose process was found gone Threshold
\* times without a sighting in between (ServerLoops.EvictsOnEvidence).
THEOREM EvictionsJustified == Spec => EvictsOnEvidence
  <1> DEFINE Inv == TypeInv /\ Evidence
             Act == closing = NoConn /\ closing' # NoConn
                       => streak[Session[closing']] = Threshold
  <1>1. Init => Inv
    BY InitInv
  <1>2. Inv /\ [Next]_vars => Inv'
    BY NextType, NextEvidence
  <1>3. Inv /\ [Next]_vars => [Act]_vars
    <2> SUFFICES ASSUME Inv, Next, closing = NoConn, closing' # NoConn
                 PROVE  streak[Session[closing']] = Threshold
      OBVIOUS
    <2>1. PICK c \in Conn : Evict(c)
      BY DEF Next, Handler, Reap, Hello, HelloVacates, Welcome, WelcomeLost,
         Unregister, Chat, ForceDisconnect, Die, CloseVictim, Tick, IterationFails,
         Pass, IdleStop, Stop
    <2>2. closing' = c /\ c \in victims
      BY <2>1 DEF Evict
    <2> QED
      BY <2>2 DEF Evidence
  <1> QED
    BY <1>1, <1>2, <1>3, PTL DEF Spec, EvictsOnEvidence

-----------------------------------------------------------------------------
LEMMA NextIdleness == TypeInv /\ Idleness /\ [Next]_vars => Idleness'
  <1> SUFFICES ASSUME TypeInv, Idleness, [Next]_vars PROVE Idleness'
    OBVIOUS
  <1> USE LoopsAssumption DEF Idleness, TypeInv, TypeOK
  <1>1. ASSUME NEW c \in Conn, Hello(c) PROVE Idleness'
    BY <1>1 DEF Hello
  <1>2. ASSUME NEW c \in Conn, HelloVacates(c) PROVE Idleness'
    BY <1>2 DEF HelloVacates
  <1>3. ASSUME NEW c \in Conn, Unregister(c) PROVE Idleness'
    BY <1>3 DEF Unregister
  <1>4. ASSUME NEW s \in Sid, ForceDisconnect(s) PROVE Idleness'
    BY <1>4 DEF ForceDisconnect
  <1>5. ASSUME NEW c \in Conn, Evict(c) PROVE Idleness'
    BY <1>5 DEF Evict
  <1>6. ASSUME NEW c \in Conn, Chat(c) PROVE Idleness'
    BY <1>6 DEF Chat
  <1>7. ASSUME Pass PROVE Idleness'
    BY <1>7 DEF Pass
  <1>8. CASE UNCHANGED <<registry, idle, empty>>
    BY <1>8
  <1> QED
    BY <1>1, <1>2, <1>3, <1>4, <1>5, <1>6, <1>7, <1>8 DEF Next, Handler, Reap, vars,
       Welcome, WelcomeLost, Die, Tick, CloseVictim, IterationFails, IdleStop, Stop

\* A server that stops for idleness has had no agent for the whole limit
\* (ServerLoops.GracePeriod).
THEOREM GraceKept == Spec => GracePeriod
  <1> DEFINE Inv == TypeInv /\ Idleness
             Act == up = "serving" /\ up' = "idle" => Nobody /\ empty = IdleLimit
  <1>1. Init => Inv
    BY InitInv
  <1>2. Inv /\ [Next]_vars => Inv'
    BY NextType, NextIdleness
  <1>3. Inv /\ [Next]_vars => [Act]_vars
    <2> SUFFICES ASSUME Inv, Next, up = "serving", up' = "idle"
                 PROVE  Nobody /\ empty = IdleLimit
      OBVIOUS
    <2>1. IdleStop
      BY DEF Next, Handler, Reap, Hello, HelloVacates, Welcome, WelcomeLost,
         Unregister, Chat, ForceDisconnect, Die, CloseVictim, Tick, Evict,
         IterationFails, Pass, Stop
    <2> QED
      BY <2>1, LoopsAssumption DEF IdleStop, Idleness, TypeInv, TypeOK
  <1> QED
    BY <1>1, <1>2, <1>3, PTL DEF Spec, GracePeriod
-----------------------------------------------------------------------------
(* The registry, as BusServer and this module share it *)

\* What is listed, or is about to be evicted or closed, has said its hello.
Greeted ==
    /\ \A s \in Sid : registry[s] # NoConn => registry[s] \in Met
    /\ victims \subseteq Met
    /\ closing # NoConn => closing \in Met

LEMMA NextGreeted == TypeInv /\ Greeted /\ [Next]_vars => Greeted'
  <1> SUFFICES ASSUME TypeInv, Greeted, [Next]_vars PROVE Greeted'
    OBVIOUS
  <1> USE LoopsAssumption DEF Greeted, TypeInv, TypeOK, Met
  <1>1. ASSUME NEW c \in Conn, Hello(c) PROVE Greeted'
    BY <1>1 DEF Hello
  <1>2. ASSUME NEW c \in Conn, HelloVacates(c) \/ Unregister(c) PROVE Greeted'
    BY <1>2 DEF HelloVacates, Unregister
  <1>3. ASSUME NEW c \in Conn, Welcome(c) \/ WelcomeLost(c) PROVE Greeted'
    BY <1>3 DEF Welcome, WelcomeLost
  <1>4. ASSUME NEW s \in Sid, ForceDisconnect(s) PROVE Greeted'
    BY <1>4 DEF ForceDisconnect
  <1>5. ASSUME NEW ans \in Answer, Tick(ans) PROVE Greeted'
    BY <1>5 DEF Tick
  <1>6. ASSUME NEW c \in Conn, Evict(c) PROVE Greeted'
    BY <1>6 DEF Evict
  <1>7. ASSUME CloseVictim PROVE Greeted'
    BY <1>7 DEF CloseVictim
  <1>8. ASSUME IterationFails PROVE Greeted'
    BY <1>8 DEF IterationFails
  <1>9. CASE UNCHANGED <<ws, registry, victims, closing>>
    BY <1>9
  <1> QED
    BY <1>1, <1>2, <1>3, <1>4, <1>5, <1>6, <1>7, <1>8, <1>9 DEF Next, Handler, Reap,
       vars, Chat, Die, Pass, IdleStop, Stop

LEMMA RegistryStep ==
    ASSUME TypeInv, Greeted, [Next]_vars
    PROVE  [Reg!Next]_<<registry, Met>>
  <1> USE LoopsAssumption DEF Greeted, TypeInv, TypeOK
  <1>1. ASSUME NEW c \in Conn, ws[c] = "new", ws'[c] # "new",
               \A d \in Conn \ {c} : ws'[d] = "new" <=> ws[d] = "new",
               \/ registry' = [registry EXCEPT ![Session[c]] = c]
               \/ registry' = [registry EXCEPT ![Session[c]] = NoConn]
        PROVE  Reg!Next
    <2>1. c \notin Met /\ Met' = Met \cup {c} /\ Session[c] \in Sid
      BY <1>1 DEF Met
    <2> QED
      BY <1>1, <2>1 DEF Reg!Next, Reg!Meet, Reg!Unlist
  <1>2. ASSUME NEW c \in Conn, Hello(c) PROVE Reg!Next
    <2>1. \A d \in Conn : registry[Session[c]] = d => ws[d] # "new"
      BY DEF Met
    <2> QED
      BY <1>1, <1>2, <2>1 DEF Hello
  <1>3. ASSUME NEW c \in Conn, HelloVacates(c) PROVE Reg!Next
    BY <1>1, <1>3 DEF HelloVacates
  <1>4. ASSUME \A d \in Conn : ws'[d] = "new" <=> ws[d] = "new" PROVE Met' = Met
    BY <1>4 DEF Met
  <1>5. ASSUME NEW s \in Sid, registry' = [registry EXCEPT ![s] = NoConn], Met' = Met
        PROVE  Reg!Next
    BY <1>5 DEF Reg!Next, Reg!Depart, Reg!Unlist
  <1>6. ASSUME NEW c \in Conn, Unregister(c)
        PROVE  [Reg!Next]_<<registry, Met>>
    BY <1>4, <1>5, <1>6 DEF Unregister
  <1>7. ASSUME NEW s \in Sid, ForceDisconnect(s) PROVE Reg!Next
    <2>1. \A d \in Conn : registry[s] = d => ws[d] # "new"
      BY DEF Met
    <2> QED
      BY <1>4, <1>5, <1>7, <2>1 DEF ForceDisconnect
  <1>8. ASSUME NEW c \in Conn, Evict(c) PROVE [Reg!Next]_<<registry, Met>>
    <2>1. ws' = ws /\ Session[c] \in Sid
      BY <1>8 DEF Evict
    <2> QED
      BY <1>4, <1>5, <1>8, <2>1 DEF Evict
  <1>9. ASSUME NEW c \in Conn, Welcome(c) \/ WelcomeLost(c)
        PROVE  UNCHANGED <<registry, Met>>
    BY <1>4, <1>9 DEF Welcome, WelcomeLost
  <1>10. ASSUME CloseVictim PROVE UNCHANGED <<registry, Met>>
    <2>1. \A d \in Conn : closing = d => ws[d] # "new"
      BY DEF Met
    <2> QED
      BY <1>4, <1>10, <2>1 DEF CloseVictim
  <1>11. CASE UNCHANGED <<registry, ws>>
    BY <1>4, <1>11
  <1> QED
    BY <1>2, <1>3, <1>6, <1>7, <1>8, <1>9, <1>10, <1>11 DEF Next, Handler, Reap,
       vars, Tick, IterationFails, Chat, Die, Pass, IdleStop, Stop

\* The loops, with the connections they see, implement the registry: whatever order
\* ticks, evictions and failing iterations come in, none lists a connection again
\* (ServerLoops.ImplementsRegistry).
THEOREM LoopsImplementRegistry == Spec => ImplementsRegistry
  <1>1. Init => TypeInv /\ Greeted /\ Reg!Init
    <2> SUFFICES ASSUME Init PROVE TypeInv /\ Greeted /\ Reg!Init
      OBVIOUS
    <2>1. \A c \in Conn : ws[c] = "new"
      BY DEF Init
    <2>2. Met = {}
      BY <2>1 DEF Met
    <2> QED
      BY <2>2, InitInv DEF Init, Greeted, Reg!Init
  <1>2. TypeInv /\ Greeted /\ [Next]_vars => TypeInv' /\ Greeted'
    BY NextType, NextGreeted
  <1>3. TypeInv /\ Greeted /\ [Next]_vars => [Reg!Next]_<<registry, Met>>
    BY RegistryStep
  <1> QED
    BY <1>1, <1>2, <1>3, PTL DEF Spec, ImplementsRegistry, Reg!Spec, Reg!vars

\* What follows from the abstract registry holds beside the loops as well: a session
\* the reaper has evicted comes back with a new connection only (_orphan_reap_loop).
RegP == INSTANCE RegistryProofs WITH entry <- registry, met <- Met

THEOREM LoopsFinal == Spec => []RegP!OneSessionEach /\ RegP!Final
  <1>1. RegP!Spec => []RegP!OneSessionEach
    BY RegP!OneSession, LoopsAssumption
  <1>2. RegP!Spec => RegP!Final
    BY RegP!RemovalIsFinal, LoopsAssumption
  <1>3. Reg!Spec => RegP!Spec
    BY DEF Reg!Spec, Reg!Init, Reg!Next, Reg!Meet, Reg!Depart, Reg!Unlist, Reg!vars,
           RegP!Spec, RegP!Init, RegP!Next, RegP!Meet, RegP!Depart, RegP!Unlist, RegP!vars
  <1> QED
    BY <1>1, <1>2, <1>3, LoopsImplementRegistry, PTL DEF ImplementsRegistry
=============================================================================

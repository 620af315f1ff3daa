---------------------------- MODULE EvictionProofs ----------------------------
(***************************************************************************)
(* Proofs about how BusServer ends a connection, for any number of         *)
(* connections: no eviction is forgotten, no handler leaves its entry      *)
(* behind but after a lost welcome, and no removed connection returns.     *)
(***************************************************************************)
EXTENDS BusServerProofs

\* A task holds a connection to close only where it is going to close it.
TargetHeld ==
    \A t \in Task : target[t] # NoConn => pc[t] \in {"closeOld", "cast", "closeVictim"}

\* A handler announces a departure of its own only after it has left the registry.
PartingLeft == \A c \in Conn : Parting(c) => left[c] = 1

EvictInv == TargetHeld /\ PartingLeft /\ EvictionsUnderWay

LEMMA InitEvictInv == Init => EvictInv
  BY DEF Init, EvictInv, TargetHeld, PartingLeft, EvictionsUnderWay, Parting, Task

\* A step that announces no departure and drops no duty to close: what a task was
\* to close it still is, or has closed.
LEMMA DutyKept ==
  ASSUME TypeOK, EvictionsUnderWay,
         \A c \in Conn : left'[c] = 1 /\ ws'[c] = "open" => left[c] = 1 /\ ws[c] = "open",
         \A c \in Conn : Parting(c) /\ ws'[c] = "open" => Parting(c)',
         \A t \in Task : target[t] # NoConn =>
                           target'[t] = target[t] \/ ws'[target[t]] # "open"
  PROVE  EvictionsUnderWay'
<1> SUFFICES ASSUME NEW c \in Conn, left'[c] = 1, ws'[c] = "open"
             PROVE  Parting(c)' \/ \E t \in Task : target'[t] = c
  BY DEF EvictionsUnderWay
<1>1. Parting(c) \/ \E t \in Task : target[t] = c
  BY DEF EvictionsUnderWay
<1> QED
  BY <1>1, ConnAssumption

\* A step that announces the departure of k and leaves it to a task to close k.
LEMMA DutyTaken ==
  ASSUME TypeOK, EvictionsUnderWay, NEW k \in Conn, ws' = ws,
         left' = [left EXCEPT ![k] = left[k] + 1],
         Parting(k)' \/ \E t \in Task : target'[t] = k,
         \A c \in Conn : Parting(c) => Parting(c)',
         \A t \in Task : target[t] # NoConn => target'[t] = target[t]
  PROVE  EvictionsUnderWay'
<1> SUFFICES ASSUME NEW c \in Conn, left'[c] = 1, ws'[c] = "open"
             PROVE  Parting(c)' \/ \E t \in Task : target'[t] = c
  BY DEF EvictionsUnderWay
<1>1. CASE c = k
  BY <1>1
<1>2. CASE c # k
  <2>1. Parting(c) \/ \E t \in Task : target[t] = c
    BY <1>2 DEF EvictionsUnderWay, TypeOK
  <2> QED
    BY <2>1, ConnAssumption
<1> QED
  BY <1>1, <1>2

LEMMA StepEvictInv == TypeInv /\ RegistryInv /\ EvictInv /\ [Next]_vars => EvictInv'
<1> SUFFICES ASSUME TypeInv, RegistryInv, EvictInv, [Next]_vars PROVE EvictInv'
  OBVIOUS
<1> USE ConnAssumption, PeerAssumption DEF TypeInv, TypeOK, Task, EvictInv, TargetHeld
<1>1. ASSUME NEW c \in Conn, Drop(c) \/ Stall(c) PROVE EvictInv'
  BY <1>1, DutyKept DEF Drop, Stall, PartingLeft, Parting
<1>2. ASSUME NEW c \in Conn, CloseOld(c) PROVE EvictInv'
  BY <1>2, DutyKept DEF CloseOld, CloseWith, Goto, PartingLeft, Parting
<1>3. ASSUME NEW c \in Conn, Welcome(c) PROVE EvictInv'
  BY <1>3, DutyKept DEF Welcome, Cast, Goto, PartingLeft, Parting
<1>4. ASSUME NEW c \in Conn, WelcomeLost(c) \/ Leave(c) PROVE EvictInv'
  BY <1>4, DutyKept DEF WelcomeLost, Leave, Return, Goto, PartingLeft, Parting
<1>5. ASSUME NEW c \in Conn, RenameReply(c) PROVE EvictInv'
  BY <1>5, DutyKept DEF RenameReply, Cast, Goto, PartingLeft, Parting
<1>6. ASSUME NEW c \in Conn, Broadcast(c) PROVE EvictInv'
  BY <1>6, DutyKept DEF Broadcast, Frame, Cast, Goto, PartingLeft, Parting
<1>7. ASSUME NEW c \in Conn, NEW d \in Conn, Send(c, d) PROVE EvictInv'
  BY <1>7, DutyKept DEF Send, Frame, Cast, Goto, PartingLeft, Parting
<1>8. ASSUME NEW c \in Conn, NEW n \in NewNames, Rename(c, n) PROVE EvictInv'
  BY <1>8, DutyKept DEF Rename, Frame, Goto, PartingLeft, Parting
<1>9. ASSUME NEW t \in Task, CastEnd(t) PROVE EvictInv'
  BY <1>9, DutyKept DEF CastEnd, Return, Goto, PartingLeft, Parting, NoEvent
<1>10. ASSUME NEW t \in Task, CloseVictim(t) PROVE EvictInv'
  BY <1>10, DutyKept DEF CloseVictim, CloseWith, Goto, PartingLeft, Parting
<1>11. ASSUME NEW t \in Task, NEW d \in Conn, CastTo(t, d) PROVE EvictInv'
  BY <1>11, DutyKept DEF CastTo, PartingLeft, Parting
<1>12. ASSUME NEW V \in SUBSET Reapable, ReapTick(V) PROVE EvictInv'
  BY <1>12, DutyKept DEF ReapTick, PartingLeft, Parting
<1>13. ASSUME NEW h \in Hellos, HelloControl(h) \/ HelloRefused(h) \/ HelloNameTaken(h)
       PROVE  EvictInv'
  BY <1>13, DutyKept
  DEF HelloControl, HelloRefused, HelloNameTaken, Opens, Goto, Hello, PartingLeft, Parting,
      RegistryInv, Started
<1>14. ASSUME NEW h \in Hellos, HelloAgent(h) PROVE EvictInv'
  BY <1>14, DutyKept
  DEF HelloAgent, Opens, Goto, Hello, PartingLeft, Parting, RegistryInv, Started
<1>15. ASSUME NEW c \in Conn, ForceDisconnect(c) PROVE EvictInv'
  <2>1. cs[c].sid \in Sid /\ registry[cs[c].sid] \in Conn
    BY <1>15 DEF ForceDisconnect, Frame, SessionKnown
  <2> QED
    BY <1>15, <2>1, DutyTaken
    DEF ForceDisconnect, Frame, Cast, Goto, PartingLeft, Parting, RegistryInv, DepartedOnce, Listed
<1>16. ASSUME NEW c \in Conn, Unregister(c) PROVE EvictInv'
  <2>1. CASE cs[c].role = "agent" /\ registry[cs[c].sid] = c
    <3>1. /\ ws' = ws /\ target' = target /\ left' = [left EXCEPT ![c] = left[c] + 1]
          /\ pc' = [pc EXCEPT ![c] = "cast"]
          /\ event' = [event EXCEPT ![c] = [op |-> "left", sid |-> cs[c].sid]]
      BY <1>16, <2>1 DEF Unregister, Cast, Goto
    <3>2. pc[c] = "unregister" /\ target[c] = NoConn
      BY <1>16 DEF Unregister
    <3>3. left[c] = 0
      BY <1>16, <2>1 DEF Unregister, SessionKnown, RegistryInv, DepartedOnce, Listed
    <3>4. Parting(c)'
      BY <3>1, <3>2 DEF Parting
    <3>5. \A d \in Conn \ {c} : Parting(d)' <=> Parting(d)
      BY <3>1 DEF Parting
    <3>6. EvictionsUnderWay'
      BY <3>1, <3>2, <3>4, <3>5, DutyTaken DEF Parting
    <3> QED
      BY <3>1, <3>2, <3>3, <3>5, <3>6 DEF PartingLeft
  <2>2. CASE ~(cs[c].role = "agent" /\ registry[cs[c].sid] = c)
    BY <1>16, <2>2, DutyKept DEF Unregister, Return, Goto, PartingLeft, Parting
  <2> QED
    BY <2>1, <2>2
<1>17. ASSUME NEW c \in Reapable, ReapEvict(c) PROVE EvictInv'
  <2>1. CASE registry[cs[c].sid] = c
    BY <1>17, <2>1, DutyTaken
    DEF ReapEvict, SessionKnown, Cast, Goto, PartingLeft, Parting, RegistryInv, DepartedOnce, Listed
  <2>2. CASE registry[cs[c].sid] # c
    BY <1>17, <2>2, DutyKept DEF ReapEvict, PartingLeft, Parting
  <2> QED
    BY <2>1, <2>2
<1>18. CASE UNCHANGED vars
  BY <1>18, DutyKept DEF vars, PartingLeft, Parting
<1> QED
  BY <1>1, <1>2, <1>3, <1>4, <1>5, <1>6, <1>7, <1>8, <1>9, <1>10, <1>11, <1>12,
     <1>13, <1>14, <1>15, <1>16, <1>17, <1>18 DEF Next, Handler, Frames, Round

\* No eviction is forgotten, for any number of connections: once a departure has
\* been announced, the connection is closed or some task is on its way to close it
\* (_handle_force_disconnect, _orphan_reap_loop, _unregister).
THEOREM EvictionsCorrect == Spec => []EvictionsUnderWay
<1>1. EvictInv => EvictionsUnderWay
  BY DEF EvictInv
<1> QED
  BY <1>1, InitTypeInv, StepTypeInv, InitRegistryInv, StepRegistryInv, InitEvictInv,
     StepEvictInv, PTL DEF Spec
-----------------------------------------------------------------------------
(* Handlers that return, and the registry as the other tasks see it *)

LEMMA ReturnStep ==
  ASSUME TypeInv, RegistryInv, EvictInv, [Next]_vars,
         NEW c \in Conn, pc[c] # "done", pc'[c] = "done", Listed(c)'
  PROVE  pc[c] = "welcome" /\ ws[c] # "open"
<1> USE ConnAssumption, PeerAssumption DEF TypeInv, TypeOK, Task
<1>1. pc[c] = "off" => ~Listed(c)
  BY DEF RegistryInv, EntriesOwned, Listed
<1>2. ASSUME NEW h \in Hellos, HelloRefused(h) \/ HelloNameTaken(h) PROVE FALSE
  <2>1. h.conn \in Conn /\ h.sid \in Sid /\ pc[h.conn] = "off"
        /\ pc' = [pc EXCEPT ![h.conn] = "done"]
    BY <1>2 DEF HelloRefused, HelloNameTaken, Opens, Goto, Hello
  <2>2. \A s \in Sid : registry'[s] \in {registry[s], NoConn}
    BY <1>2, <2>1 DEF HelloRefused, HelloNameTaken, Vacated
  <2> QED
    BY <1>1, <2>1, <2>2 DEF Listed
<1>3. ASSUME NEW d \in Conn, Unregister(d) PROVE FALSE
  <2>1. d = c /\ ~(cs[c].role = "agent" /\ registry[cs[c].sid] = c) /\ registry' = registry
    BY <1>3 DEF Unregister, Cast, Return, Goto
  <2> QED
    BY <2>1 DEF RegistryInv, EntriesOwned, Listed
<1>4. ASSUME NEW t \in Task, CastEnd(t) PROVE FALSE
  <2>1. t = c /\ Parting(c) /\ registry' = registry
    BY <1>4 DEF CastEnd, Return, Goto, Parting
  <2> QED
    BY <2>1 DEF EvictInv, PartingLeft, RegistryInv, DepartedOnce, Listed
<1>5. ASSUME NEW d \in Conn, WelcomeLost(d) PROVE d = c
  BY <1>5 DEF WelcomeLost, Return, Goto
<1>6. ASSUME NEW h \in Hellos, HelloControl(h) \/ HelloAgent(h) PROVE FALSE
  BY <1>6 DEF HelloControl, HelloAgent, Opens, Goto, Hello
<1>7. ASSUME NEW d \in Conn, CloseOld(d) \/ Welcome(d) \/ RenameReply(d) \/ Broadcast(d)
                             \/ ForceDisconnect(d) \/ Leave(d)
      PROVE  FALSE
  BY <1>7 DEF CloseOld, Welcome, RenameReply, Broadcast, ForceDisconnect, Leave, Cast, Goto
<1>8. ASSUME NEW d \in Conn, (\E e \in Conn : Send(d, e)) \/ (\E n \in NewNames : Rename(d, n))
      PROVE  FALSE
  BY <1>8 DEF Send, Rename, Cast, Goto
<1>9. ASSUME NEW t \in Task, CloseVictim(t) PROVE FALSE
  BY <1>9 DEF CloseVictim, Goto
<1>10. ASSUME NEW d \in Reapable, ReapEvict(d) PROVE FALSE
  BY <1>10 DEF ReapEvict, Cast, Goto
<1>11. pc' # pc
  OBVIOUS
<1> QED
  BY <1>2, <1>3, <1>4, <1>5, <1>6, <1>7, <1>8, <1>9, <1>10, <1>11
  DEF Next, Handler, Frames, Round, Drop, Stall, CastTo, ReapTick, vars, WelcomeLost

\* A handler leaves its entry behind only when its welcome could not be sent, for
\* any number of connections: the ghost that the run bus_server_ghost finds is the
\* only kind there is (_handler, _unregister, _broadcast_event).
THEOREM LostWelcomesCorrect == Spec => OnlyLostWelcomes
<1>1. TypeInv /\ RegistryInv /\ EvictInv /\ [Next]_vars =>
        [\A c \in Conn : pc[c] # "done" /\ pc'[c] = "done" /\ Listed(c)'
                           => pc[c] = "welcome" /\ ws[c] # "open"]_vars
  BY ReturnStep
<1> QED
  BY <1>1, InitTypeInv, StepTypeInv, InitRegistryInv, StepRegistryInv, InitEvictInv,
     StepEvictInv, PTL DEF Spec, OnlyLostWelcomes

LEMMA RegistryStep ==
  ASSUME TypeInv, RegistryInv, [Next]_vars PROVE [Reg!Next]_<<registry, Met>>
<1> USE ConnAssumption, PeerAssumption DEF TypeInv, TypeOK, Task
<1>1. ASSUME NEW h \in Hellos,
             HelloControl(h) \/ HelloRefused(h) \/ HelloNameTaken(h) \/ HelloAgent(h)
      PROVE  Reg!Next
  <2>1. h.conn \in Conn /\ h.sid \in Sid
    BY DEF Hello
  <2>2. /\ pc[h.conn] = "off" /\ pc'[h.conn] # "off"
        /\ \A c \in Conn \ {h.conn} : pc'[c] = pc[c]
    BY <1>1, <2>1 DEF HelloControl, HelloRefused, HelloNameTaken, HelloAgent, Opens, Goto
  <2>3. h.conn \notin Met /\ Met' = Met \cup {h.conn}
    BY <2>1, <2>2 DEF Met
  <2>4. \/ registry' = registry
        \/ registry' = [registry EXCEPT ![h.sid] = NoConn]
        \/ registry' = [registry EXCEPT ![h.sid] = h.conn]
    BY <1>1, <2>1 DEF HelloControl, HelloRefused, HelloNameTaken, HelloAgent, Vacated
  <2>5. Reg!Meet(h.conn)
    BY <2>1, <2>3, <2>4 DEF Reg!Meet, Reg!Unlist
  <2> QED
    BY <2>1, <2>5 DEF Reg!Next
<1>2. ASSUME NEW t \in Task, NEW l, pc[t] # "off", l # "off", pc' = [pc EXCEPT ![t] = l]
      PROVE  Met' = Met
  BY <1>2 DEF Met
<1>3. ASSUME NEW c \in Conn, Handler(c) \/ Broadcast(c) \/ ForceDisconnect(c) \/ Leave(c)
      PROVE  Met' = Met
  BY <1>2, <1>3
  DEF Handler, CloseOld, Welcome, WelcomeLost, RenameReply, Broadcast, ForceDisconnect,
      Leave, Unregister, Frame, Cast, Goto, Return
<1>4. ASSUME NEW c \in Conn, (\E d \in Conn : Send(c, d)) \/ (\E n \in NewNames : Rename(c, n))
      PROVE  Met' = Met
  BY <1>2, <1>4 DEF Send, Rename, Frame, Cast, Goto
<1>5. ASSUME NEW t \in Task, CastEnd(t) \/ CloseVictim(t) PROVE Met' = Met
  BY <1>2, <1>5 DEF CastEnd, CloseVictim, Return, Goto
<1>6. ASSUME NEW c \in Reapable, ReapEvict(c) PROVE Met' = Met
  <2>1. CASE registry[cs[c].sid] = c
    BY <1>2, <1>6, <2>1 DEF ReapEvict, Cast, Goto
  <2>2. CASE registry[cs[c].sid] # c
    BY <1>6, <2>2 DEF ReapEvict, Met
  <2> QED
    BY <2>1, <2>2
<1>7. pc' = pc => Met' = Met
  BY DEF Met
<1>8. \/ Met' = Met
      \/ \E h \in Hellos : HelloControl(h) \/ HelloRefused(h) \/ HelloNameTaken(h)
                           \/ HelloAgent(h)
  BY <1>3, <1>4, <1>5, <1>6, <1>7
  DEF Next, Frames, Round, Drop, Stall, CastTo, ReapTick, vars
<1>9. ASSUME NEW s \in Sid, registry' = [registry EXCEPT ![s] = NoConn], Met' = Met
      PROVE  Reg!Next
  BY <1>9 DEF Reg!Next, Reg!Depart, Reg!Unlist
<1> QED
  BY <1>1, <1>8, <1>9, StepOnEntry

\* The handlers of the server, taken together, implement the registry: only its own
\* hello lists a connection, so nothing the reaper, a control or a late clean-up
\* does ever puts a removed connection back.
THEOREM RegistryImplemented == Spec => ImplementsRegistry
<1>1. Init => Reg!Init
  <2> SUFFICES ASSUME Init PROVE Reg!Init
    OBVIOUS
  <2>1. \A c \in Conn : pc[c] = "off"
    BY ConnAssumption DEF Init, Task
  <2> QED
    BY <2>1 DEF Init, Reg!Init, Met
<1> QED
  BY <1>1, RegistryStep, InitTypeInv, StepTypeInv, InitRegistryInv, StepRegistryInv, PTL
  DEF Spec, ImplementsRegistry, Reg!Spec, Reg!vars

\* What the registry promises in the abstract holds of the handlers: no connection
\* that the reaper, a helper or its own end has taken out is ever listed again, and
\* none changes its session (_registry, _handle_hello).
RegP == INSTANCE RegistryProofs WITH entry <- registry, met <- Met

THEOREM HandlersFinal == Spec => []RegP!OneSessionEach /\ RegP!Final
<1>1. RegP!Spec => []RegP!OneSessionEach
  BY RegP!OneSession, ConnAssumption
<1>2. RegP!Spec => RegP!Final
  BY RegP!RemovalIsFinal, ConnAssumption
<1>3. Reg!Spec => RegP!Spec
  BY DEF Reg!Spec, Reg!Init, Reg!Next, Reg!Meet, Reg!Depart, Reg!Unlist, Reg!vars,
         RegP!Spec, RegP!Init, RegP!Next, RegP!Meet, RegP!Depart, RegP!Unlist, RegP!vars
<1> QED
  BY <1>1, <1>2, <1>3, RegistryImplemented, PTL DEF ImplementsRegistry
=============================================================================

--------------------------- MODULE BusServerProofs ---------------------------
(***************************************************************************)
(* Proofs about BusServer, for any number of connections, sessions, names  *)
(* and hellos.                                                             *)
(***************************************************************************)
EXTENDS BusServer, TLAPS

\* A handler past its hello knows its session; so does every victim's.
SessionKnown ==
    /\ \A c \in Conn : pc[c] \notin {"off", "done"} => cs[c].sid \in Sid
    /\ \A c \in victims : cs[c].sid \in Sid

\* The listed entries, as EntriesOwned has them, in the form the types need.
ListedKnown == \A s \in Sid : registry[s] # NoConn =>
                  cs[registry[s]].sid = s /\ pc[registry[s]] # "off"

TypeInv == TypeOK /\ SessionKnown /\ ListedKnown

-----------------------------------------------------------------------------
(* Type correctness *)

LEMMA InitTypeInv == Init => TypeInv
  BY ConnAssumption, StringAssumption
  DEF Init, TypeInv, TypeOK, SessionKnown, ListedKnown, Task, WsState, PcState,
      ClientState, Event, NoState, NoEvent

LEMMA AgentsType == ASSUME TypeOK, NEW s PROVE AgentsExcept(s) \in SUBSET Conn
  BY DEF AgentsExcept, TypeOK

LEMMA CastType ==
  ASSUME TypeOK, NEW t \in Task, NEW op \in {"joined", "left", "renamed", "msg"},
         NEW s \in Sid \cup {NoSid}, NEW to \in SUBSET Conn, Cast(t, op, s, to)
  PROVE  /\ event' \in [Task -> Event] /\ todo' \in [Task -> SUBSET Conn]
         /\ pc' = [pc EXCEPT ![t] = "cast"] /\ pc' \in [Task -> PcState]
  BY DEF Cast, Goto, TypeOK, Event, PcState

\* Every step but a hello, a rename and the removal of an entry leaves the
\* registry and the ClientStates alone.
LEMMA StepTypeInv == TypeInv /\ [Next]_vars => TypeInv'
<1> SUFFICES ASSUME TypeInv, [Next]_vars PROVE TypeInv'
  OBVIOUS
<1> USE ConnAssumption, StringAssumption, PeerAssumption
    DEF TypeInv, TypeOK, SessionKnown, ListedKnown, Task, WsState, PcState
<1>1. ASSUME NEW c \in Conn, Drop(c) PROVE TypeInv'
  BY <1>1 DEF Drop
<1>2. ASSUME NEW c \in Conn, Stall(c) PROVE TypeInv'
  BY <1>2 DEF Stall
<1>3. ASSUME NEW c \in Conn, CloseOld(c) PROVE TypeInv'
  BY <1>3 DEF CloseOld, CloseWith, Goto
<1>4. ASSUME NEW c \in Conn, Welcome(c) PROVE TypeInv'
  <2>1. cs[c].sid \in Sid \cup {NoSid} /\ AgentsExcept(cs[c].sid) \in SUBSET Conn
    BY AgentsType DEF ClientState
  <2>2. CASE cs[c].role = "agent"
    <3>1. Cast(c, "joined", cs[c].sid, AgentsExcept(cs[c].sid))
      BY <1>4, <2>2 DEF Welcome
    <3>2. /\ event' \in [Task -> Event] /\ todo' \in [Task -> SUBSET Conn]
          /\ pc' = [pc EXCEPT ![c] = "cast"] /\ pc' \in [Task -> PcState]
      BY <2>1, <3>1, CastType
    <3> QED
      BY <1>4, <2>1, <2>2, <3>2 DEF Welcome
  <2>3. CASE cs[c].role # "agent"
    BY <1>4, <2>3 DEF Welcome, Goto
  <2> QED
    BY <2>2, <2>3
<1>5. ASSUME NEW c \in Conn, WelcomeLost(c) PROVE TypeInv'
  BY <1>5 DEF WelcomeLost, Return, Goto
<1>6. ASSUME NEW c \in Conn, RenameReply(c) PROVE TypeInv'
  <2>1. cs[c].sid \in Sid \cup {NoSid} /\ AgentsExcept(cs[c].sid) \in SUBSET Conn
    BY AgentsType DEF ClientState
  <2>2. CASE ws[c] = "open"
    <3>1. Cast(c, "renamed", cs[c].sid, AgentsExcept(cs[c].sid))
      BY <1>6, <2>2 DEF RenameReply
    <3>2. /\ event' \in [Task -> Event] /\ todo' \in [Task -> SUBSET Conn]
          /\ pc' = [pc EXCEPT ![c] = "cast"] /\ pc' \in [Task -> PcState]
      BY <2>1, <3>1, CastType
    <3> QED
      BY <1>6, <2>1, <2>2, <3>2 DEF RenameReply
  <2>3. CASE ws[c] # "open"
    BY <1>6, <2>3 DEF RenameReply, Goto
  <2> QED
    BY <2>2, <2>3
<1>7. ASSUME NEW c \in Conn, Unregister(c) PROVE TypeInv'
  <2>1. cs[c].sid \in Sid /\ AgentsExcept(cs[c].sid) \in SUBSET Conn
    BY <1>7, AgentsType DEF Unregister
  <2>2. CASE cs[c].role = "agent" /\ registry[cs[c].sid] = c
    <3>1. Cast(c, "left", cs[c].sid, AgentsExcept(cs[c].sid))
      BY <1>7, <2>2 DEF Unregister
    <3>2. /\ event' \in [Task -> Event] /\ todo' \in [Task -> SUBSET Conn]
          /\ pc' = [pc EXCEPT ![c] = "cast"] /\ pc' \in [Task -> PcState]
      BY <2>1, <3>1, CastType
    <3>3. /\ registry' = [registry EXCEPT ![cs[c].sid] = NoConn]
          /\ left' = [left EXCEPT ![c] = @ + 1] /\ cs' = cs
      BY <1>7, <2>2 DEF Unregister
    <3>4. registry' \in [Sid -> Conn \cup {NoConn}] /\ left' \in [Conn -> Nat]
      BY <2>1, <3>3
    <3>5. SessionKnown' /\ ListedKnown'
      BY <1>7, <2>1, <2>2, <3>2, <3>3 DEF Unregister
    <3> QED
      BY <1>7, <2>1, <2>2, <3>2, <3>3, <3>4, <3>5 DEF Unregister
  <2>3. CASE ~(cs[c].role = "agent" /\ registry[cs[c].sid] = c)
    BY <1>7, <2>3 DEF Unregister, Return, Goto
  <2> QED
    BY <2>2, <2>3
<1>8. ASSUME NEW c \in Conn, Broadcast(c) PROVE TypeInv'
  BY <1>8, AgentsType DEF Broadcast, Frame, Cast, Goto, ClientState, Event
<1>9. ASSUME NEW c \in Conn, NEW d \in Conn, Send(c, d) PROVE TypeInv'
  BY <1>9 DEF Send, Frame, Cast, Goto, ClientState, Event
<1>10. ASSUME NEW c \in Conn, NEW n \in NewNames, Rename(c, n) PROVE TypeInv'
  <2>1. n \in Name \cup {NoName}
    OBVIOUS
  <2>2. cs' \in [Conn -> ClientState] /\ \A d \in Conn : cs'[d].sid = cs[d].sid
    BY <1>10, <2>1 DEF Rename, ClientState
  <2> QED
    BY <1>10, <2>2 DEF Rename, Frame, Goto
<1>11. ASSUME NEW c \in Conn, ForceDisconnect(c) PROVE TypeInv'
  BY <1>11, AgentsType DEF ForceDisconnect, Frame, Cast, Goto, ClientState, Event
<1>12. ASSUME NEW c \in Conn, Leave(c) PROVE TypeInv'
  BY <1>12 DEF Leave, Goto
<1>13. ASSUME NEW h \in Hellos, HelloControl(h) PROVE TypeInv'
  <2>1. h.conn \in Conn /\ h.sid \in Sid /\ h.nonce \in Nonce \cup {NoNonce}
    BY DEF Hello
  <2>2. cs' \in [Conn -> ClientState] /\ cs'[h.conn].sid = h.sid
    BY <1>13, <2>1 DEF HelloControl, ClientState, Role
  <2>3. \A s \in Sid : registry[s] # NoConn => cs'[registry[s]].sid = s
    BY <1>13, <2>1 DEF HelloControl, Opens
  <2> QED
    BY <1>13, <2>1, <2>2, <2>3 DEF HelloControl, Opens, Goto
<1>14. ASSUME NEW h \in Hellos, HelloRefused(h) PROVE TypeInv'
  BY <1>14 DEF HelloRefused, Opens, Goto, Hello
<1>15. ASSUME NEW h \in Hellos, HelloNameTaken(h) PROVE TypeInv'
  BY <1>15 DEF HelloNameTaken, Vacated, Opens, Goto, Hello
<1>16. ASSUME NEW h \in Hellos, HelloAgent(h) PROVE TypeInv'
  <2>1. /\ h.conn \in Conn /\ h.sid \in Sid /\ h.name \in Name \cup {NoName}
        /\ h.nonce \in Nonce \cup {NoNonce} /\ registry[h.sid] \in Conn \cup {NoConn}
    BY DEF Hello
  <2>2. cs' \in [Conn -> ClientState] /\ cs'[h.conn].sid = h.sid
    BY <1>16, <2>1 DEF HelloAgent, ClientState, Role
  <2>3. registry' \in [Sid -> Conn \cup {NoConn}] /\ target' \in [Task -> Conn \cup {NoConn}]
    BY <1>16, <2>1 DEF HelloAgent
  <2>4. ws' \in [Conn -> WsState] /\ pc' \in [Task -> PcState]
    BY <1>16, <2>1 DEF HelloAgent, Opens, Goto
  <2>5. SessionKnown'
    BY <1>16, <2>1, <2>2 DEF HelloAgent, Opens, Goto
  <2>6. ListedKnown'
    BY <1>16, <2>1, <2>2 DEF HelloAgent, Opens, Goto
  <2> QED
    BY <1>16, <2>2, <2>3, <2>4, <2>5, <2>6 DEF HelloAgent
<1>17. ASSUME NEW t \in Task, CastEnd(t) PROVE TypeInv'
  <2>1. event' \in [Task -> Event]
    BY <1>17 DEF CastEnd, NoEvent, Event
  <2>2. ws' \in [Conn -> WsState] /\ pc' \in [Task -> PcState]
    BY <1>17 DEF CastEnd, Return, Goto
  <2>3. SessionKnown'
    BY <1>17 DEF CastEnd, Return, Goto
  <2>4. ListedKnown'
    BY <1>17 DEF CastEnd, Return, Goto
  <2> QED
    BY <1>17, <2>1, <2>2, <2>3, <2>4 DEF CastEnd
<1>18. ASSUME NEW t \in Task, CloseVictim(t) PROVE TypeInv'
  BY <1>18 DEF CloseVictim, CloseWith, Goto
<1>19. ASSUME NEW t \in Task, NEW d \in Conn, CastTo(t, d) PROVE TypeInv'
  BY <1>19 DEF CastTo
<1>20. ASSUME NEW V \in SUBSET Reapable, ReapTick(V) PROVE TypeInv'
  BY <1>20 DEF ReapTick, Listed
<1>21. ASSUME NEW c \in Reapable, ReapEvict(c) PROVE TypeInv'
  <2>1. c \in Conn /\ cs[c].sid \in Sid /\ AgentsExcept(cs[c].sid) \in SUBSET Conn
    BY <1>21, AgentsType DEF ReapEvict
  <2>2. CASE registry[cs[c].sid] = c
    <3>1. Cast(Reaper, "left", cs[c].sid, AgentsExcept(cs[c].sid))
      BY <1>21, <2>2 DEF ReapEvict
    <3>2. /\ event' \in [Task -> Event] /\ todo' \in [Task -> SUBSET Conn]
          /\ pc' = [pc EXCEPT ![Reaper] = "cast"] /\ pc' \in [Task -> PcState]
      BY <2>1, <3>1, CastType
    <3>3. /\ registry' = [registry EXCEPT ![cs[c].sid] = NoConn]
          /\ left' = [left EXCEPT ![c] = @ + 1] /\ cs' = cs
      BY <1>21, <2>2 DEF ReapEvict
    <3>4. registry' \in [Sid -> Conn \cup {NoConn}] /\ left' \in [Conn -> Nat]
      BY <2>1, <3>3
    <3>5. SessionKnown' /\ ListedKnown'
      BY <1>21, <2>1, <2>2, <3>2, <3>3 DEF ReapEvict
    <3> QED
      BY <1>21, <2>1, <2>2, <3>2, <3>3, <3>4, <3>5 DEF ReapEvict
  <2>3. CASE registry[cs[c].sid] # c
    BY <1>21, <2>3 DEF ReapEvict
  <2> QED
    BY <2>2, <2>3
<1>22. CASE UNCHANGED vars
  BY <1>22 DEF vars
<1> QED
  BY <1>1, <1>2, <1>3, <1>4, <1>5, <1>6, <1>7, <1>8, <1>9, <1>10, <1>11,
     <1>12, <1>13, <1>14, <1>15, <1>16, <1>17, <1>18, <1>19, <1>20, <1>21, <1>22
     DEF Next, Handler, Frames, Round

\* Type correctness: no interleaving of hellos, frames, departures and evictions
\* leaves a malformed registry, snapshot or counter behind.
THEOREM TypeCorrect == Spec => []TypeOK
<1>1. TypeInv => TypeOK
  BY DEF TypeInv
<1> QED
  BY <1>1, InitTypeInv, StepTypeInv, PTL DEF Spec
-----------------------------------------------------------------------------
(* The registry *)

\* What a handler has not started yet was neither closed nor announced.
Started ==
    /\ \A t \in Task : target[t] # NoConn => pc[target[t]] # "off"
    /\ \A c \in Conn : left[c] # 0 => pc[c] # "off"

RegistryInv == EntriesOwned /\ UniqueNames /\ ClosedNotListed /\ DepartedOnce /\ Started

\* Connections do not become unused again.
Onward == \A c \in Conn : pc[c] # "off" => pc'[c] # "off"

LEMMA InitRegistryInv == Init => RegistryInv
<1> SUFFICES ASSUME Init PROVE RegistryInv
  OBVIOUS
<1>1. \A c \in Conn : ~Listed(c)
  BY ConnAssumption DEF Init, Listed
<1>2. ClosedNotListed /\ DepartedOnce
  BY <1>1 DEF Init, ClosedNotListed, DepartedOnce
<1>3. EntriesOwned /\ UniqueNames /\ Started
  BY DEF Init, EntriesOwned, UniqueNames, Started
<1> QED
  BY <1>2, <1>3 DEF RegistryInv

\* A step that touches neither the registry nor a ClientState, and closes only
\* what is not listed.
LEMMA QuietStep ==
  ASSUME TypeInv, RegistryInv, Onward, registry' = registry, cs' = cs, left' = left,
         \A c \in Conn : ws'[c] \in {"replaced", "forced"} => ws'[c] = ws[c] \/ ~Listed(c),
         \A t \in Task : target'[t] \in {target[t], NoConn}
  PROVE  RegistryInv'
<1>1. EntriesOwned' /\ UniqueNames'
  BY DEF RegistryInv, EntriesOwned, UniqueNames, Onward, TypeInv, TypeOK
<1>2. ClosedNotListed' /\ DepartedOnce'
  BY DEF RegistryInv, ClosedNotListed, DepartedOnce, Listed
<1>3. Started'
  BY DEF RegistryInv, Started, Onward, TypeInv, TypeOK
<1> QED
  BY <1>1, <1>2, <1>3 DEF RegistryInv

\* A step that takes the entry of connection k out and announces its departure.
LEMMA RemovalStep ==
  ASSUME TypeInv, RegistryInv, Onward, NEW s \in Sid, NEW k \in Conn, registry[s] = k,
         registry' = [registry EXCEPT ![s] = NoConn], cs' = cs, ws' = ws,
         left' = [left EXCEPT ![k] = left[k] + 1],
         \A t \in Task : target'[t] \in {target[t], k}
  PROVE  RegistryInv'
<1> USE DEF TypeInv, TypeOK, RegistryInv
<1>1. /\ registry' \in [Sid -> Conn \cup {NoConn}] /\ registry'[s] = NoConn /\ k # NoConn
      /\ \A r \in Sid : registry'[r] # NoConn => r # s /\ registry'[r] = registry[r]
  BY ConnAssumption
<1>2. EntriesOwned' /\ UniqueNames'
  BY <1>1 DEF EntriesOwned, UniqueNames, Onward
<1>3. \A c \in Conn : Listed(c)' => Listed(c) /\ c # k
  BY <1>1, ConnAssumption DEF EntriesOwned, Listed
<1>4. left[k] = 0 /\ left'[k] = 1 /\ \A c \in Conn \ {k} : left'[c] = left[c]
  BY DEF DepartedOnce, Listed
<1>5. ClosedNotListed'
  <2>1. \A c \in Conn : ws'[c] \in {"replaced", "forced"} => ~Listed(c)'
    BY <1>3 DEF ClosedNotListed
  <2>2. \A t \in Task : target'[t] # NoConn => ~(Listed(target[t])')
    <3> TAKE t \in Task
    <3>1. CASE target'[t] = k
      BY <1>1, <3>1, ConnAssumption DEF Listed, EntriesOwned
    <3>2. CASE target'[t] = target[t] /\ target[t] # NoConn
      BY <1>1, <3>2 DEF ClosedNotListed, Listed
    <3> QED
      BY <3>1, <3>2
  <2> QED
    BY <2>1, <2>2 DEF ClosedNotListed, Listed
<1>6. DepartedOnce'
  <2>1. \A c \in Conn : left'[c] <= 1 /\ (left'[c] = 1 => ~Listed(c)')
    BY <1>3, <1>4 DEF DepartedOnce
  <2> QED
    BY <2>1 DEF DepartedOnce, Listed
<1>7. Started'
  BY <1>1, <1>4 DEF Started, Onward, EntriesOwned
<1> QED
  BY <1>2, <1>5, <1>6, <1>7

LEMMA StepRegistryInv == TypeInv /\ RegistryInv /\ [Next]_vars => RegistryInv'
<1> SUFFICES ASSUME TypeInv, RegistryInv, [Next]_vars PROVE RegistryInv'
  OBVIOUS
<1> USE ConnAssumption, StringAssumption, PeerAssumption DEF TypeInv, TypeOK, Task, Onward
<1>1. ASSUME NEW c \in Conn, Drop(c) \/ Stall(c) \/ Welcome(c) \/ WelcomeLost(c)
                             \/ RenameReply(c) \/ Broadcast(c) \/ Leave(c)
      PROVE  RegistryInv'
  BY <1>1, QuietStep
  DEF Drop, Stall, Welcome, WelcomeLost, RenameReply, Broadcast, Leave, Frame, Cast,
      Goto, Return
<1>2. ASSUME NEW c \in Conn, CloseOld(c) PROVE RegistryInv'
  BY <1>2, QuietStep DEF CloseOld, CloseWith, Goto, RegistryInv, ClosedNotListed
<1>3. ASSUME NEW c \in Conn, NEW d \in Conn, Send(c, d) PROVE RegistryInv'
  BY <1>3, QuietStep DEF Send, Frame, Cast, Goto
<1>4. ASSUME NEW t \in Task, CastEnd(t) PROVE RegistryInv'
  BY <1>4, QuietStep DEF CastEnd, Return, Goto
<1>5. ASSUME NEW t \in Task, CloseVictim(t) PROVE RegistryInv'
  BY <1>5, QuietStep DEF CloseVictim, CloseWith, Goto, RegistryInv, ClosedNotListed
<1>6. ASSUME NEW t \in Task, NEW d \in Conn, CastTo(t, d) PROVE RegistryInv'
  BY <1>6, QuietStep DEF CastTo
<1>7. ASSUME NEW V \in SUBSET Reapable, ReapTick(V) PROVE RegistryInv'
  BY <1>7, QuietStep DEF ReapTick
<1>8. ASSUME NEW h \in Hellos, HelloRefused(h) PROVE RegistryInv'
  BY <1>8, QuietStep DEF HelloRefused, Opens, Goto, Hello
<1>9. ASSUME NEW c \in Conn, ForceDisconnect(c) PROVE RegistryInv'
  <2>1. cs[c].sid \in Sid /\ registry[cs[c].sid] \in Conn
    BY <1>9 DEF ForceDisconnect, Frame, SessionKnown
  <2> QED
    BY <1>9, <2>1, RemovalStep DEF ForceDisconnect, Frame, Cast, Goto
<1>10. ASSUME NEW c \in Conn, Unregister(c) PROVE RegistryInv'
  <2>1. CASE cs[c].role = "agent" /\ registry[cs[c].sid] = c
    BY <1>10, <2>1, RemovalStep DEF Unregister, SessionKnown, Cast, Goto
  <2>2. CASE ~(cs[c].role = "agent" /\ registry[cs[c].sid] = c)
    BY <1>10, <2>2, QuietStep DEF Unregister, Return, Goto
  <2> QED
    BY <2>1, <2>2
<1>11. ASSUME NEW c \in Reapable, ReapEvict(c) PROVE RegistryInv'
  <2>1. CASE registry[cs[c].sid] = c
    BY <1>11, <2>1, RemovalStep DEF ReapEvict, SessionKnown, Cast, Goto
  <2>2. CASE registry[cs[c].sid] # c
    BY <1>11, <2>2, QuietStep DEF ReapEvict
  <2> QED
    BY <2>1, <2>2
<1>12. ASSUME NEW h \in Hellos, HelloNameTaken(h) PROVE RegistryInv'
  <2>1. /\ h.conn \in Conn /\ h.sid \in Sid
        /\ ws' = ws /\ cs' = cs /\ left' = left /\ target' = target /\ Onward
    BY <1>12 DEF HelloNameTaken, Opens, Goto, Hello
  <2>2. \A r \in Sid : registry'[r] # NoConn => registry'[r] = registry[r]
    BY <1>12, <2>1 DEF HelloNameTaken, Vacated
  <2>3. \A c \in Conn : Listed(c)' => Listed(c)
    BY <2>2 DEF Listed
  <2>4. EntriesOwned' /\ UniqueNames'
    BY <2>1, <2>2 DEF RegistryInv, EntriesOwned, UniqueNames
  <2>5. ClosedNotListed' /\ DepartedOnce'
    BY <2>1, <2>3 DEF RegistryInv, ClosedNotListed, DepartedOnce
  <2>6. Started'
    BY <2>1 DEF RegistryInv, Started
  <2> QED
    BY <2>4, <2>5, <2>6 DEF RegistryInv
<1>13. ASSUME NEW h \in Hellos, HelloControl(h) PROVE RegistryInv'
  <2>1. /\ h.conn \in Conn /\ pc[h.conn] = "off" /\ Onward
        /\ registry' = registry /\ left' = left /\ target' = target
        /\ ws' = [ws EXCEPT ![h.conn] = "open"]
        /\ \A c \in Conn \ {h.conn} : cs'[c] = cs[c]
    BY <1>13 DEF HelloControl, Opens, Goto, Hello
  <2>2. \A s \in Sid : registry[s] # NoConn => cs'[registry[s]] = cs[registry[s]]
    BY <2>1 DEF RegistryInv, EntriesOwned
  <2>3. EntriesOwned' /\ UniqueNames'
    BY <2>1, <2>2 DEF RegistryInv, EntriesOwned, UniqueNames
  <2>4. ClosedNotListed' /\ DepartedOnce'
    BY <2>1 DEF RegistryInv, ClosedNotListed, DepartedOnce, Listed
  <2>5. Started'
    BY <2>1 DEF RegistryInv, Started
  <2> QED
    BY <2>3, <2>4, <2>5 DEF RegistryInv
<1>14. ASSUME NEW h \in Hellos, HelloAgent(h) PROVE RegistryInv'
  <2> DEFINE c == h.conn
             s == h.sid
  <2>1. /\ c \in Conn /\ s \in Sid /\ pc[c] = "off" /\ pc'[c] # "off" /\ Onward
        /\ left' = left /\ ws' = [ws EXCEPT ![c] = "open"]
        /\ registry' = [registry EXCEPT ![s] = c]
        /\ target' = [target EXCEPT ![c] = registry[s]]
    BY <1>14 DEF HelloAgent, Opens, Goto, Hello
  <2>2. /\ cs'[c].role = "agent" /\ cs'[c].sid = s /\ cs'[c].name = h.name
        /\ \A d \in Conn \ {c} : cs'[d] = cs[d]
    BY <1>14, <2>1 DEF HelloAgent
  <2>3. \A r \in Sid : registry[r] # c
    BY <2>1 DEF RegistryInv, EntriesOwned
  <2>4. \A r \in Sid \ {s} : /\ registry'[r] = registry[r]
                            /\ registry[r] # NoConn => registry[r] # registry[s]
    BY <2>1 DEF RegistryInv, EntriesOwned
  <2>5. EntriesOwned'
    BY <2>1, <2>2, <2>3 DEF RegistryInv, EntriesOwned, Onward
  <2>6. \A r \in Sid \ {s} : registry[r] # NoConn /\ h.name # NoName
                                => cs[registry[r]].name # h.name
    BY <1>14, <2>1 DEF HelloAgent, Taken, Vacated
  <2>7. UniqueNames'
    BY <2>1, <2>2, <2>3, <2>6 DEF RegistryInv, UniqueNames
  <2>8. \A d \in Conn : Listed(d)' => d = c \/ (Listed(d) /\ d # registry[s])
    BY <2>1, <2>4 DEF Listed
  <2>9. \A d \in Conn : ws'[d] \in {"replaced", "forced"} => ~(Listed(d)')
    BY <2>1, <2>8 DEF RegistryInv, ClosedNotListed
  <2>10. \A t \in Task : target'[t] # NoConn => ~(Listed(target[t])')
    <3> TAKE t \in Task
    <3>1. CASE t = c
      BY <2>1, <2>3, <2>4, <3>1 DEF Listed
    <3>2. CASE t # c
      BY <2>1, <3>2 DEF RegistryInv, ClosedNotListed, Started, Listed
    <3> QED
      BY <3>1, <3>2
  <2>11. DepartedOnce'
    BY <2>1, <2>8 DEF RegistryInv, DepartedOnce, Started
  <2>12. Started'
    BY <2>1 DEF RegistryInv, Started, EntriesOwned, Onward
  <2> QED
    BY <2>5, <2>7, <2>9, <2>10, <2>11, <2>12 DEF RegistryInv, ClosedNotListed
<1>15. ASSUME NEW c \in Conn, NEW n \in NewNames, Rename(c, n) PROVE RegistryInv'
  <2> DEFINE s == cs[c].sid
             l == registry[s]
  <2>1. /\ s \in Sid /\ l \in Conn /\ Onward
        /\ registry' = registry /\ left' = left /\ target' = target /\ ws' = ws
    BY <1>15 DEF Rename, Frame, Goto, SessionKnown
  <2>2. \A d \in Conn : /\ cs'[d].role = cs[d].role /\ cs'[d].sid = cs[d].sid
                         /\ cs'[d].name = IF d \in {c, l} THEN n ELSE cs[d].name
    BY <1>15 DEF Rename, ClientState
  <2>3. \A r \in Sid : registry[r] \in {c, l} => r = s
    BY <2>1 DEF RegistryInv, EntriesOwned
  <2>4. \A r \in Sid \ {s} : registry[r] # NoConn /\ n # NoName
                                => cs[registry[r]].name # n
    BY <1>15, <2>1 DEF Rename, Taken
  <2>5. UniqueNames'
    BY <2>1, <2>2, <2>3, <2>4 DEF RegistryInv, UniqueNames
  <2>6. EntriesOwned'
    BY <2>1, <2>2 DEF RegistryInv, EntriesOwned, Onward
  <2>7. ClosedNotListed' /\ DepartedOnce' /\ Started'
    BY <2>1 DEF RegistryInv, ClosedNotListed, DepartedOnce, Listed, Started, Onward
  <2> QED
    BY <2>5, <2>6, <2>7 DEF RegistryInv
<1>16. CASE UNCHANGED vars
  BY <1>16, QuietStep DEF vars
<1> QED
  BY <1>1, <1>2, <1>3, <1>4, <1>5, <1>6, <1>7, <1>8, <1>9, <1>10, <1>11, <1>12,
     <1>13, <1>14, <1>15, <1>16 DEF Next, Handler, Frames, Round

\* The registry's invariant for any number of connections: unique names, entries
\* with a handler of their own, one departure per connection, and no entry for a
\* connection the server has closed.
THEOREM RegistryCorrect ==
  Spec => [](UniqueNames /\ EntriesOwned /\ ClosedNotListed /\ DepartedOnce)
<1>1. RegistryInv => UniqueNames /\ EntriesOwned /\ ClosedNotListed /\ DepartedOnce
  BY DEF RegistryInv
<1> QED
  BY <1>1, InitTypeInv, StepTypeInv, InitRegistryInv, StepRegistryInv, PTL DEF Spec

\* Every entry is an agent's, under its own session, with a handler that has read
\* the hello (_handle_hello, EntriesOwned).
THEOREM OwnersCorrect == Spec => []EntriesOwned
  BY RegistryCorrect, PTL

\* A connection the server has closed, or is to close, is in no entry, whoever
\* took it out (_handle_force_disconnect, _orphan_reap_loop, ClosedNotListed).
THEOREM ClosedCorrect == Spec => []ClosedNotListed
  BY RegistryCorrect, PTL

\* However close, force_disconnect and reaper race, the peers are told at most
\* once that a connection has left, and not while it is listed (DepartedOnce).
THEOREM DepartedCorrect == Spec => []DepartedOnce
  BY RegistryCorrect, PTL
-----------------------------------------------------------------------------
(* How an entry disappears, and what presence looks like to the peers *)

LEMMA StepOnEntry ==
  ASSUME TypeInv, RegistryInv, [Next]_vars
  PROVE  \/ registry' = registry
         \/ \E s \in Sid : /\ registry[s] # NoConn
                           /\ registry' = [registry EXCEPT ![s] = NoConn] /\ cs' = cs
                           /\ left'[registry[s]] = left[registry[s]] + 1
         \/ \E h \in Hellos : HelloNameTaken(h) \/ HelloAgent(h)
<1> USE DEF TypeInv, TypeOK
<1>1. ASSUME NEW c \in Conn, ForceDisconnect(c)
      PROVE  \E s \in Sid : /\ registry[s] # NoConn
                            /\ registry' = [registry EXCEPT ![s] = NoConn] /\ cs' = cs
                            /\ left'[registry[s]] = left[registry[s]] + 1
  <2>1. cs[c].sid \in Sid /\ registry[cs[c].sid] \in Conn
    BY <1>1 DEF ForceDisconnect, Frame, SessionKnown, Task
  <2> QED
    BY <1>1, <2>1 DEF ForceDisconnect
<1>2. ASSUME NEW c \in Conn, Unregister(c), registry' # registry
      PROVE  \E s \in Sid : /\ registry[s] # NoConn
                            /\ registry' = [registry EXCEPT ![s] = NoConn] /\ cs' = cs
                            /\ left'[registry[s]] = left[registry[s]] + 1
  BY <1>2, ConnAssumption DEF Unregister, SessionKnown
<1>3. ASSUME NEW c \in Reapable, ReapEvict(c), registry' # registry
      PROVE  \E s \in Sid : /\ registry[s] # NoConn
                            /\ registry' = [registry EXCEPT ![s] = NoConn] /\ cs' = cs
                            /\ left'[registry[s]] = left[registry[s]] + 1
  BY <1>3, ConnAssumption, PeerAssumption DEF ReapEvict, SessionKnown
<1> QED
  BY <1>1, <1>2, <1>3
  DEF Next, Handler, Frames, Round, Drop, Stall, CloseOld, Welcome, WelcomeLost,
      RenameReply, Broadcast, Send, Rename, Leave, HelloControl, HelloRefused,
      CastEnd, CloseVictim, CastTo, ReapTick, vars

\* An entry disappears only by announcing its own departure or to a hello that
\* proves its nonce, for any number of connections.
THEOREM RemovalCorrect == Spec => EntryRemoval
<1>1. ASSUME TypeInv, RegistryInv, [Next]_vars, NEW s \in Sid,
             registry[s] # NoConn, registry'[s] # registry[s]
      PROVE  left'[registry[s]] = left[registry[s]] + 1 \/ Continues(s, registry[s])
  <2>1. CASE \E r \in Sid : /\ registry' = [registry EXCEPT ![r] = NoConn]
                            /\ left'[registry[r]] = left[registry[r]] + 1
    BY <1>1, <2>1 DEF TypeInv, TypeOK
  <2>2. ASSUME NEW h \in Hellos, HelloNameTaken(h) \/ HelloAgent(h)
        PROVE  Continues(s, registry[s])
    <3>1. h.sid = s /\ h.role = "agent" /\ ~Contradicts(h) /\ h.conn \in Conn
      BY <1>1, <2>2, PeerAssumption
      DEF HelloNameTaken, HelloAgent, Vacated, Hello, TypeInv, TypeOK
    <3>2. pc[h.conn] = "off" /\ pc'[h.conn] # "off"
      BY <2>2, <3>1, <1>1 DEF HelloNameTaken, HelloAgent, Opens, Goto, TypeInv, TypeOK, Task
    <3> QED
      BY <1>1, <3>1, <3>2 DEF Continues, Contradicts
  <2> QED
    BY <1>1, <2>1, <2>2, StepOnEntry
<1>2. TypeInv /\ RegistryInv /\ [Next]_vars =>
        [\A s \in Sid : LET c == registry[s] IN
           c # NoConn /\ registry'[s] # c => left'[c] = left[c] + 1 \/ Continues(s, c)]_vars
  BY <1>1
<1> QED
  BY <1>2, InitTypeInv, StepTypeInv, InitRegistryInv, StepRegistryInv, PTL
  DEF Spec, EntryRemoval

LEMMA DirectoryStep ==
  ASSUME TypeInv, RegistryInv, [Next]_vars PROVE [Dir!Next]_Presence
<1> USE DEF TypeInv, TypeOK
<1>1. ASSUME NEW s \in Sid, registry' = [registry EXCEPT ![s] = NoConn], cs' = cs
      PROVE  Dir!Next
  <2>1. Presence' = [Presence EXCEPT ![s] = Absent]
    BY <1>1, ConnAssumption DEF Presence
  <2> QED
    BY <2>1 DEF Dir!Next, Dir!Depart
<1>2. ASSUME NEW h \in Hellos, HelloNameTaken(h) PROVE Dir!Next
  BY <1>1, <1>2, PeerAssumption DEF HelloNameTaken, Vacated, Hello
<1>3. ASSUME NEW h \in Hellos, HelloAgent(h) PROVE Dir!Next
  <2>1. /\ h.conn \in Conn /\ h.sid \in Sid /\ h.name \in Name \cup {NoName}
        /\ pc[h.conn] = "off"
    BY <1>3, PeerAssumption DEF HelloAgent, Opens, Hello
  <2>2. /\ registry' = [registry EXCEPT ![h.sid] = h.conn] /\ cs'[h.conn].name = h.name
        /\ \A c \in Conn \ {h.conn} : cs'[c] = cs[c]
    BY <1>3, <2>1 DEF HelloAgent
  <2>3. \A r \in Sid : registry[r] # h.conn
    BY <2>1, ConnAssumption DEF RegistryInv, EntriesOwned
  <2>4. Presence' = [Presence EXCEPT ![h.sid] = h.name]
    BY <2>1, <2>2, <2>3, ConnAssumption DEF Presence
  <2>5. Dir!Free(h.name, h.sid)
    BY <1>3, <2>1, StringAssumption DEF HelloAgent, Taken, Vacated, Dir!Free, Presence
  <2> QED
    BY <2>1, <2>4, <2>5 DEF Dir!Next, Dir!Enter, Dir!Names
<1>4. ASSUME NEW c \in Conn, NEW n \in NewNames, Rename(c, n) PROVE Dir!Next
  <2> DEFINE s == cs[c].sid
             l == registry[s]
  <2>1. /\ n \in Name \cup {NoName} /\ s \in Sid /\ l \in Conn /\ registry' = registry
    BY <1>4, PeerAssumption DEF Rename, Frame, SessionKnown, Task
  <2>2. \A d \in Conn : cs'[d].name = IF d \in {c, l} THEN n ELSE cs[d].name
    BY <1>4 DEF Rename, ClientState
  <2>3. \A r \in Sid : registry[r] \in {c, l} => r = s
    BY <2>1, ConnAssumption DEF RegistryInv, EntriesOwned
  <2>4. Presence' = [Presence EXCEPT ![s] = n]
    BY <2>1, <2>2, <2>3, ConnAssumption DEF Presence
  <2>5. Dir!Free(n, s)
    BY <1>4, <2>1, StringAssumption DEF Rename, Taken, Dir!Free, Presence
  <2> QED
    BY <2>1, <2>4, <2>5 DEF Dir!Next, Dir!Enter, Dir!Names
<1>5. ASSUME NEW h \in Hellos, HelloControl(h) PROVE Presence' = Presence
  <2>1. /\ h.conn \in Conn /\ pc[h.conn] = "off" /\ registry' = registry
        /\ \A c \in Conn \ {h.conn} : cs'[c] = cs[c]
    BY <1>5, PeerAssumption DEF HelloControl, Opens, Hello
  <2> QED
    BY <2>1 DEF Presence, RegistryInv, EntriesOwned
<1>6. CASE registry' = registry /\ cs' = cs
  BY <1>6 DEF Presence
<1>7. \/ cs' = cs
      \/ \E h \in Hellos : HelloControl(h) \/ HelloAgent(h)
      \/ \E c \in Conn : \E n \in NewNames : Rename(c, n)
  BY DEF Next, Handler, Frames, Round, Drop, Stall, CloseOld, Welcome, WelcomeLost,
      RenameReply, Broadcast, Send, Leave, HelloRefused, HelloNameTaken,
      ForceDisconnect, Unregister, ReapEvict, CastEnd, CloseVictim, CastTo, ReapTick, vars
<1> QED
  BY <1>1, <1>2, <1>3, <1>4, <1>5, <1>6, <1>7, StepOnEntry

\* The server implements the directory: whatever its handlers interleave, the
\* listing changes one session at a time and never holds a name twice.
THEOREM DirectoryCorrect == Spec => ImplementsDirectory
<1>1. Init => Dir!Init
  BY DEF Init, Dir!Init, Presence
<1> QED
  BY <1>1, DirectoryStep, InitTypeInv, StepTypeInv, InitRegistryInv, StepRegistryInv, PTL
  DEF Spec, ImplementsDirectory, Dir!Spec
=============================================================================

---------------------------- MODULE ElectionProofs ----------------------------
(***************************************************************************)
(* Theorems about Election, for any number of clients and servers, as long *)
(* as no elector leaves before its server is up or dead.                   *)
(***************************************************************************)
EXTENDS Election, TLAPS

\* The client that has spawned server s waits for it, with the lock.
Awaited(s) == \E c \in Client : lock = c /\ cpc[c] = "ready" /\ kid[c] = s

\* The lock is held by the client that is in the election, and once it has bound
\* its socket nobody listens; a server that starts
\* is awaited, and none listens yet; one listens at most.
ElectInv ==
    /\ \A c \in Client : cpc[c] \in {"elect", "token", "write", "spawn", "ready"} => lock = c
    /\ \A c \in Client : cpc[c] \in {"token", "write", "spawn"} => ~Up
    /\ \A c \in Client : cpc[c] = "ready" => kid[c] \in Server
    /\ \A s \in Server : spc[s] \in Starting => Awaited(s) /\ ~Up
    /\ \A s, t \in Server : spc[s] = "serving" /\ spc[t] = "serving" => s = t

Inv == TypeOK /\ ElectInv

LEMMA InitInv == Init => Inv
  BY ElectionAssumption
  DEF Init, Inv, TypeOK, ElectInv, Starting, Cleaning, Server, NoServer

LEMMA NextServerSpare == ASSUME Spare PROVE NextServer \in Server /\ spc[NextServer] = "off"
  BY DEF Spare, NextServer

\* A client that is not in the election, or leaves it when no server starts,
\* disturbs nobody.
LEMMA ClientInv ==
  ASSUME Inv, Hasty = {}, NEW c \in Client, Ensure(c) \/ Lost(c) \/ Killed(c)
  PROVE Inv'
<1> USE ElectionAssumption DEF Inv, TypeOK, ElectInv, CGoto, Release, svars,
                               Awaited, Up, Starting, Cleaning, Server, NoServer
<1>1. CASE Probe(c)
  <2>1. UNCHANGED <<kid, lock, token, svars>> /\ cpc[c] = "probe"
    BY <1>1 DEF Probe
  <2>2. PICK l \in {"verify", "lock"} : CGoto(c, l)
    BY <1>1 DEF Probe
  <2> QED
    BY <2>1, <2>2
<1>2. CASE Acquire(c)
  BY <1>2 DEF Acquire
<1>3. CASE AcquireTimeout(c)
  BY <1>3 DEF AcquireTimeout
<1>4. CASE Recheck(c)
  BY <1>4 DEF Recheck
<1>5. CASE BindFails(c)
  BY <1>5 DEF BindFails
<1>6. CASE SpawnFails(c)
  BY <1>6 DEF SpawnFails
<1>7. CASE Spawn(c)
  <2>1. NextServer \in Server /\ spc[NextServer] = "off"
    BY <1>7, NextServerSpare DEF Spawn
  <2>2. /\ \A t \in Server \ {NextServer} : spc'[t] = spc[t]
        /\ spc'[NextServer] = "pid" /\ kid'[c] = NextServer /\ cpc'[c] = "ready"
        /\ \A d \in Client \ {c} : cpc'[d] = cpc[d] /\ kid'[d] = kid[d]
        /\ lock' = lock /\ lock = c
    BY <1>7, <2>1 DEF Spawn, SGoto
  <2>3. TypeOK'
    BY <1>7, <2>1 DEF Spawn, SGoto
  <2>4. \A t \in Server : spc[t] \notin Starting \cup {"serving"}
    BY <1>7, <2>1 DEF Spawn
  <2> HIDE DEF TypeOK
  <2> QED
    BY <2>1, <2>2, <2>3, <2>4
<1>8. CASE Ready(c)
  BY <1>8 DEF Ready
<1>9. CASE ReadyTimeout(c)
  BY <1>9 DEF ReadyTimeout
<1>10. CASE Wait(c)
  BY <1>10 DEF Wait
<1>11. CASE Verify(c)
  BY <1>11 DEF Verify
<1>12. CASE Lost(c)
  BY <1>12 DEF Lost
<1>13. CASE Killed(c)
  BY <1>13 DEF Killed
<1>14. CASE Bind(c)
  BY <1>14 DEF Bind
<1>15. CASE CreateToken(c) \/ WriteToken(c) \/ ReadToken(c)
  BY <1>15 DEF CreateToken, WriteToken, ReadToken
<1>16. CASE TokenEmpty(c)
  BY <1>16 DEF TokenEmpty
<1> QED
  BY <1>1, <1>2, <1>3, <1>4, <1>5, <1>6, <1>7, <1>8, <1>9, <1>10, <1>11, <1>12,
     <1>13, <1>14, <1>15, <1>16 DEF Ensure

LEMMA ServerInv ==
  ASSUME Inv, NEW s \in Server, Serve(s) \/ StartFails(s) \/ Stop(s) \/ Crash(s)
  PROVE Inv'
<1> USE ElectionAssumption DEF Inv, TypeOK, ElectInv, SGoto, cvars,
                               Awaited, Up, Starting, Cleaning, Server, NoServer
<1>1. CASE WritePid(s)
  BY <1>1 DEF WritePid
<1>2. CASE WriteMeta(s)
  BY <1>2 DEF WriteMeta
<1>3. CASE Listen(s)
  BY <1>3 DEF Listen
<1>4. CASE StartFails(s)
  BY <1>4 DEF StartFails
<1>5. CASE Stop(s)
  BY <1>5 DEF Stop
<1>6. CASE ReadPid(s)
  BY <1>6 DEF ReadPid
<1>7. CASE UnlinkPid(s)
  BY <1>7 DEF UnlinkPid
<1>8. CASE ReadMeta(s)
  BY <1>8 DEF ReadMeta
<1>9. CASE UnlinkMeta(s)
  BY <1>9 DEF UnlinkMeta
<1>10. CASE Crash(s)
  BY <1>10 DEF Crash
<1> QED
  BY <1>1, <1>2, <1>3, <1>4, <1>5, <1>6, <1>7, <1>8, <1>9, <1>10 DEF Serve

LEMMA ElectStep == ASSUME Hasty = {}, Inv, [Next]_vars PROVE Inv'
<1>1. CASE UNCHANGED vars
  BY <1>1 DEF vars, Inv, TypeOK, ElectInv, Awaited, Up
<1> QED
  BY <1>1, ClientInv, ServerInv DEF Next

LEMMA ElectInvariance == ASSUME Hasty = {} PROVE Spec => []Inv
<1>1. Inv /\ [Next]_vars => Inv'
  BY ElectStep
<1> QED
  BY <1>1, InitInv, PTL DEF Spec

\* At most one of the spawned servers is on its way to the listening socket or has
\* it, if no elector gives up, or is killed, while its server is starting.
THEOREM Elected == ASSUME Hasty = {} PROVE Spec => []OneElected
<1>1. Inv => OneElected
  BY DEF Inv, ElectInv, OneElected, Awaited, Up
<1> QED
  BY <1>1, ElectInvariance, PTL

\* The flock around bind, spawn and listen does serialise the election, as spawn.py
\* says, under the same condition: no server ever loses inside listen().
THEOREM RaceExcluded == ASSUME Hasty = {} PROVE Spec => []NoListenRace
<1>1. Inv => NoListenRace
  BY DEF Inv, ElectInv, NoListenRace, Starting
<1> QED
  BY <1>1, ElectInvariance, PTL

-----------------------------------------------------------------------------
\* Every reachable state is well typed, however hasty the electors are.
THEOREM ElectionTypes == Spec => []TypeOK
<1> USE ElectionAssumption DEF TypeOK, CGoto, SGoto, Release, svars, cvars,
                               Starting, Cleaning, Server, NoServer
<1>1. Init => TypeOK
  BY DEF Init
<1>2. ASSUME TypeOK, NEW c \in Client, Ensure(c) \/ Lost(c) \/ Killed(c) PROVE TypeOK'
  <2>1. CASE Spawn(c)
    BY <1>2, <2>1, NextServerSpare DEF Spawn
  <2>2. CASE Probe(c) \/ Verify(c)
    BY <1>2, <2>2 DEF Probe, Verify
  <2>3. CASE Acquire(c) \/ AcquireTimeout(c) \/ Wait(c) \/ Lost(c)
    BY <1>2, <2>3 DEF Acquire, AcquireTimeout, Wait, Lost
  <2>4. CASE \/ Recheck(c) \/ BindFails(c) \/ SpawnFails(c) \/ Ready(c)
             \/ ReadyTimeout(c) \/ Killed(c)
    BY <1>2, <2>4 DEF Recheck, BindFails, SpawnFails, Ready, ReadyTimeout, Killed
  <2>5. CASE Bind(c) \/ CreateToken(c) \/ WriteToken(c) \/ ReadToken(c) \/ TokenEmpty(c)
    BY <1>2, <2>5 DEF Bind, CreateToken, WriteToken, ReadToken, TokenEmpty
  <2> QED
    BY <1>2, <2>1, <2>2, <2>3, <2>4, <2>5 DEF Ensure
<1>3. ASSUME TypeOK, NEW s \in Server,
             Serve(s) \/ StartFails(s) \/ Stop(s) \/ Crash(s)
      PROVE TypeOK'
  <2>1. CASE WritePid(s) \/ WriteMeta(s) \/ Listen(s) \/ StartFails(s) \/ Stop(s)
    BY <1>3, <2>1 DEF WritePid, WriteMeta, Listen, StartFails, Stop
  <2>2. CASE ReadPid(s) \/ UnlinkPid(s) \/ ReadMeta(s) \/ UnlinkMeta(s) \/ Crash(s)
    BY <1>3, <2>2 DEF ReadPid, UnlinkPid, ReadMeta, UnlinkMeta, Crash
  <2> QED
    BY <1>3, <2>1, <2>2 DEF Serve
<1>4. TypeOK /\ UNCHANGED vars => TypeOK'
  BY DEF vars
<1>5. TypeOK /\ [Next]_vars => TypeOK'
  BY <1>2, <1>3, <1>4 DEF Next
<1> QED
  BY <1>1, <1>5, PTL DEF Spec

-----------------------------------------------------------------------------
\* No server is spawned while another still removes its identity files.
SpawnsApart ==
    \A s \in Server : spc[s] = "off" /\ spc'[s] # "off"
                        => \A t \in Server : spc[t] \notin Cleaning

\* The identity files are those of the server that has written them last, and
\* while one cleans up, no other starts or listens.
IdentityInv ==
    /\ \A s \in Server : spc[s] \in {"meta", "listen", "serving"} => pidf = s
    /\ \A s \in Server : spc[s] \in {"listen", "serving"} => metaf = s
    /\ \A s, t \in Server : spc[s] \in Cleaning => spc[t] \notin Starting \cup {"serving"}

\* A server cleans up only while its elector waits for it, or when none can follow.
LateInv ==
    \A s \in Server : spc[s] \in Cleaning => Awaited(s) \/ ~Spare

LEMMA ClientIdentity ==
  ASSUME Inv, IdentityInv, Hasty = {}, SpawnsApart, NEW c \in Client,
         Ensure(c) \/ Lost(c) \/ Killed(c)
  PROVE IdentityInv'
<1>1. CASE Spawn(c)
  <2>1. NextServer \in Server /\ spc[NextServer] = "off"
    BY <1>1, NextServerSpare DEF Spawn
  <2>2. /\ \A t \in Server \ {NextServer} : spc'[t] = spc[t]
        /\ spc'[NextServer] = "pid" /\ pidf' = pidf /\ metaf' = metaf
    BY <1>1, <2>1 DEF Spawn, SGoto, Inv, TypeOK
  <2>3. \A t \in Server : spc[t] \notin Cleaning
    BY <2>1, <2>2 DEF SpawnsApart
  <2> QED
    BY <2>1, <2>2, <2>3 DEF IdentityInv, Cleaning
<1>2. CASE UNCHANGED svars
  BY <1>2 DEF svars, IdentityInv
<1> QED
  BY <1>1, <1>2
  DEF Ensure, Probe, Acquire, AcquireTimeout, Recheck, BindFails, Bind, CreateToken,
      WriteToken, ReadToken, TokenEmpty, SpawnFails, Ready, ReadyTimeout, Wait, Verify,
      Lost, Killed

LEMMA ServerIdentity ==
  ASSUME Inv, IdentityInv, NEW s \in Server,
         Serve(s) \/ StartFails(s) \/ Stop(s) \/ Crash(s)
  PROVE IdentityInv'
<1> USE ElectionAssumption DEF Inv, TypeOK, ElectInv, IdentityInv, SGoto, cvars,
                               Awaited, Up, Starting, Cleaning, Server, NoServer
<1>1. CASE WritePid(s)
  BY <1>1 DEF WritePid
<1>2. CASE WriteMeta(s)
  BY <1>2 DEF WriteMeta
<1>3. CASE Listen(s)
  BY <1>3 DEF Listen
<1>4. CASE StartFails(s)
  BY <1>4 DEF StartFails
<1>5. CASE Stop(s)
  BY <1>5 DEF Stop
<1>6. CASE ReadPid(s)
  BY <1>6 DEF ReadPid
<1>7. CASE UnlinkPid(s)
  BY <1>7 DEF UnlinkPid
<1>8. CASE ReadMeta(s)
  BY <1>8 DEF ReadMeta
<1>9. CASE UnlinkMeta(s)
  BY <1>9 DEF UnlinkMeta
<1>10. CASE Crash(s)
  BY <1>10 DEF Crash
<1> QED
  BY <1>1, <1>2, <1>3, <1>4, <1>5, <1>6, <1>7, <1>8, <1>9, <1>10 DEF Serve

LEMMA IdentityStep ==
  ASSUME Hasty = {}, Inv, IdentityInv, [Next]_vars, [SpawnsApart]_vars PROVE IdentityInv'
<1>1. CASE UNCHANGED vars
  BY <1>1 DEF vars, IdentityInv
<1>2. CASE Next /\ SpawnsApart
  BY <1>2, ClientIdentity, ServerIdentity DEF Next
<1> QED
  BY <1>1, <1>2

LEMMA ClientLate ==
  ASSUME Inv, IdentityInv, LateInv, Hasty = {}, NEW c \in Client,
         Ensure(c) \/ Lost(c) \/ Killed(c)
  PROVE LateInv' /\ SpawnsApart
<1> USE ElectionAssumption DEF Inv, TypeOK, ElectInv, LateInv, SpawnsApart, CGoto, Release,
                               svars, Awaited, Up, Spare, Server, NoServer
<1>1. CASE Spawn(c)
  <2>1. NextServer \in Server /\ spc[NextServer] = "off"
    BY <1>1, NextServerSpare DEF Spawn
  <2>2. Spare /\ \A t \in Server : ~Awaited(t)
    BY <1>1, <2>1 DEF Spawn
  <2>3. \A t \in Server : spc[t] \notin Cleaning
    BY <2>2
  <2>4. \A t \in Server \ {NextServer} : spc'[t] = spc[t]
    BY <1>1, <2>1 DEF Spawn, SGoto
  <2>5. spc'[NextServer] = "pid"
    BY <1>1, <2>1 DEF Spawn, SGoto
  <2> QED
    BY <2>1, <2>3, <2>4, <2>5 DEF Cleaning
<1>2. CASE Ready(c)
  BY <1>2 DEF Ready, IdentityInv
<1>3. CASE ReadyTimeout(c)
  BY <1>3 DEF ReadyTimeout, Cleaning
<1>4. CASE Killed(c)
  BY <1>4 DEF Killed, Cleaning
<1>5. CASE Acquire(c) \/ AcquireTimeout(c) \/ Recheck(c) \/ BindFails(c) \/ Bind(c)
  BY <1>5 DEF Acquire, AcquireTimeout, Recheck, BindFails, Bind
<1>6. CASE CreateToken(c) \/ WriteToken(c) \/ ReadToken(c) \/ TokenEmpty(c)
  BY <1>6 DEF CreateToken, WriteToken, ReadToken, TokenEmpty
<1>7. CASE Probe(c) \/ SpawnFails(c) \/ Wait(c) \/ Verify(c) \/ Lost(c)
  BY <1>7 DEF Probe, SpawnFails, Wait, Verify, Lost
<1> QED
  BY <1>1, <1>2, <1>3, <1>4, <1>5, <1>6, <1>7 DEF Ensure

LEMMA ServerLate ==
  ASSUME Inv, LateInv, ~Handover, NEW s \in Server,
         Serve(s) \/ StartFails(s) \/ Stop(s) \/ Crash(s)
  PROVE LateInv' /\ SpawnsApart
<1> USE ElectionAssumption DEF Inv, TypeOK, LateInv, SpawnsApart, SGoto, cvars,
                               Awaited, Spare, Starting, Cleaning, Server, NoServer
<1>1. CASE WritePid(s) \/ WriteMeta(s)
  <2>1. UNCHANGED cvars /\ spc[s] \in {"pid", "meta"} /\ spc'[s] \in {"meta", "listen"}
    BY <1>1 DEF WritePid, WriteMeta
  <2>2. \A t \in Server \ {s} : spc'[t] = spc[t]
    BY <1>1 DEF WritePid, WriteMeta
  <2> QED
    BY <2>1, <2>2
<1>2. CASE Listen(s) \/ StartFails(s)
  BY <1>2 DEF Listen, StartFails, ElectInv
<1>3. CASE Stop(s)
  BY <1>3 DEF Stop
<1>4. CASE ReadPid(s) \/ UnlinkPid(s) \/ ReadMeta(s) \/ UnlinkMeta(s)
  BY <1>4 DEF ReadPid, UnlinkPid, ReadMeta, UnlinkMeta
<1>5. CASE Crash(s)
  BY <1>5 DEF Crash, Alive
<1> QED
  BY <1>1, <1>2, <1>3, <1>4, <1>5 DEF Serve

\* If a server stops only when none is left to follow it, no server is spawned
\* while another cleans up.
LEMMA NoHandover ==
  ASSUME Hasty = {}, ~Handover PROVE Spec => []IdentityInv /\ [][SpawnsApart]_vars
<1>1. Init => IdentityInv /\ LateInv
  BY DEF Init, IdentityInv, LateInv, Cleaning
<1>2. Inv /\ IdentityInv /\ LateInv /\ [Next]_vars => LateInv' /\ [SpawnsApart]_vars
  <2> SUFFICES ASSUME Inv, IdentityInv, LateInv, [Next]_vars
               PROVE  LateInv' /\ [SpawnsApart]_vars
    OBVIOUS
  <2>1. CASE UNCHANGED vars
    BY <2>1 DEF vars, LateInv, Awaited, Spare
  <2> QED
    BY <2>1, ClientLate, ServerLate DEF Next
<1>3. Inv /\ IdentityInv /\ [Next]_vars /\ [SpawnsApart]_vars => IdentityInv'
  BY IdentityStep
<1> QED
  BY <1>1, <1>2, <1>3, ElectInvariance, PTL DEF Spec

\* Whenever a server listens both identity files name it, if moreover a server
\* stops only when none is left to follow it.
THEOREM Published == ASSUME Hasty = {}, ~Handover PROVE Spec => []IdentityPublished
<1>1. IdentityInv => IdentityPublished
  BY DEF IdentityInv, IdentityPublished
<1> QED
  BY <1>1, NoHandover, PTL

LEMMA ApartIdentity ==
  ASSUME Hasty = {} PROVE Spec /\ [][SpawnsApart]_vars => []IdentityInv
<1>1. Init => IdentityInv
  BY DEF Init, IdentityInv, Cleaning
<1>2. Inv /\ IdentityInv /\ [Next]_vars /\ [SpawnsApart]_vars => IdentityInv'
  BY IdentityStep
<1> QED
  BY <1>1, <1>2, ElectInvariance, PTL DEF Spec

\* Servers may follow one another without end: the identity files are right as long
\* as no server is spawned while its predecessor still removes its own.
THEOREM PublishedApart ==
  ASSUME Hasty = {} PROVE Spec /\ [][SpawnsApart]_vars => []IdentityPublished
<1>1. IdentityInv => IdentityPublished
  BY DEF IdentityInv, IdentityPublished
<1> QED
  BY <1>1, ApartIdentity, PTL

\* That window is the only one: without it no client ends, unless it is killed,
\* for want of the identity of a server that listens (Election.LegitVerified).
THEOREM VerifiedApart ==
  ASSUME Hasty = {} PROVE Spec /\ [][SpawnsApart]_vars => LegitVerified
<1>1. IdentityInv /\ Up => IdentityOk
  BY DEF IdentityInv, Up, IdentityOk, Alive
<1>2. IdentityInv => [\A c \in Client : cpc[c] = "verify" /\ cpc'[c] = "gone" /\ Up
                                          => IdentityOk]_vars
  BY <1>1
<1> QED
  BY <1>2, ApartIdentity, PTL DEF LegitVerified

-----------------------------------------------------------------------------
(* The service, as its callers see it *)

view == <<Serving, Retired, Standing>>

Stands(l) == CASE l = "dial" -> "dialing" [] l = "gone" -> "gone" [] OTHER -> "looking"

LEMMA ServersKept == ASSUME spc' = spc PROVE UNCHANGED <<Serving, Retired>>
  BY DEF Serving, Retired

LEMMA StandingKept == ASSUME cpc' = cpc PROVE UNCHANGED Standing
  BY DEF Standing

LEMMA NobodyServes == ~Up <=> Serving = {}
  BY DEF Up, Serving

\* A client that moves to l changes its own standing only.
LEMMA Moves ==
  ASSUME Inv, NEW c \in Client, NEW l, CGoto(c, l)
  PROVE  /\ Standing[c] = Stands(cpc[c])
         /\ Standing' = [Standing EXCEPT ![c] = Stands(l)]
  BY DEF Inv, TypeOK, CGoto, Standing, Stands

LEMMA LooksOn ==
  ASSUME Inv, NEW c \in Client, NEW l, CGoto(c, l), cpc[c] \notin {"dial", "gone"},
         l \notin {"dial", "gone"}
  PROVE  UNCHANGED Standing
<1>1. Standing[c] = "looking" /\ Standing' = [Standing EXCEPT ![c] = "looking"]
  BY Moves DEF Stands
<1>2. Standing = [d \in Client |-> Standing[d]]
  BY DEF Standing
<1> QED
  BY <1>1, <1>2

LEMMA ClientService ==
  ASSUME Inv, IdentityInv, NEW c \in Client, Ensure(c) \/ Lost(c) \/ Killed(c)
  PROVE  [Svc!Next]_view
<1> USE DEF view
<1>1. ASSUME spc' = spc, NEW l, CGoto(c, l), cpc[c] \notin {"dial", "gone"},
             l \notin {"dial", "gone"}
      PROVE  UNCHANGED view
  BY <1>1, LooksOn, ServersKept
<1>2. ASSUME spc' = spc, CGoto(c, "gone"), ~Up, cpc[c] \notin {"dial", "gone"}
      PROVE  Svc!Next
  BY <1>2, Moves, ServersKept, NobodyServes DEF Stands, Svc!Next, Svc!GiveUp, Svc!Become
<1>3. CASE Spawn(c)
  <2>1. NextServer \in Server /\ spc[NextServer] = "off"
    BY <1>3, NextServerSpare DEF Spawn
  <2>2. \A t \in Server : /\ spc'[t] = "serving" <=> spc[t] = "serving"
                          /\ spc'[t] \in Cleaning \cup {"gone"}
                               <=> spc[t] \in Cleaning \cup {"gone"}
    BY <1>3, <2>1 DEF Spawn, SGoto, Inv, TypeOK, Cleaning
  <2>3. UNCHANGED <<Serving, Retired>>
    BY <2>2 DEF Serving, Retired
  <2>4. Standing' = Standing
    BY <1>3, LooksOn DEF Spawn
  <2> QED
    BY <2>3, <2>4
<1>4. CASE \/ Acquire(c) \/ AcquireTimeout(c) \/ Recheck(c) \/ BindFails(c) \/ Bind(c)
           \/ CreateToken(c) \/ WriteToken(c) \/ ReadToken(c) \/ Ready(c)
           \/ ReadyTimeout(c) \/ Wait(c)
  BY <1>1, <1>4
  DEF svars, Acquire, AcquireTimeout, Recheck, BindFails, Bind, CreateToken, WriteToken,
      ReadToken, Ready, ReadyTimeout, Wait
<1>5. CASE Probe(c)
  BY <1>1, <1>5 DEF svars, Probe
<1>6. CASE TokenEmpty(c) \/ SpawnFails(c)
  BY <1>2, <1>6 DEF svars, TokenEmpty, SpawnFails, Inv, ElectInv
<1>7. CASE Verify(c)
  <2>1. CASE IdentityOk
    BY <1>7, <2>1, Moves, ServersKept
    DEF Verify, svars, Stands, Svc!Next, Svc!Dial, Svc!Become
  <2>2. CASE ~IdentityOk
    <3>1. ~Up
      BY <2>2 DEF IdentityInv, Up, IdentityOk, Alive
    <3> QED
      BY <1>2, <1>7, <2>2, <3>1 DEF Verify, svars
  <2> QED
    BY <2>1, <2>2
<1>8. CASE Lost(c)
  BY <1>8, Moves, ServersKept DEF Lost, svars, Stands, Svc!Next, Svc!Lose, Svc!Become
<1>9. CASE Killed(c)
  BY <1>9, Moves, ServersKept DEF Killed, svars, Stands, Svc!Next, Svc!Killed, Svc!Become
<1> QED
  BY <1>3, <1>4, <1>5, <1>6, <1>7, <1>8, <1>9 DEF Ensure

LEMMA ServerService ==
  ASSUME Inv, NEW s \in Server, Serve(s) \/ StartFails(s) \/ Stop(s) \/ Crash(s)
  PROVE  [Svc!Next]_view
<1> USE DEF view, Cleaning, Starting
<1>1. Standing' = Standing
  BY StandingKept
  DEF Serve, WritePid, WriteMeta, Listen, StartFails, Stop, ReadPid, UnlinkPid, ReadMeta,
      UnlinkMeta, Crash, cvars
<1>2. ASSUME NEW l \in Cleaning \cup {"gone"}, SGoto(s, l),
             spc[s] \notin Cleaning \cup {"off", "gone"}
      PROVE  Svc!Next
  <2>1. Serving' = Serving \ {s}
    BY <1>2 DEF SGoto, Serving, Inv, TypeOK
  <2>2. s \notin Retired /\ Retired' = Retired \cup {s}
    BY <1>2 DEF SGoto, Retired, Inv, TypeOK
  <2> QED
    BY <1>1, <2>1, <2>2 DEF Svc!Next, Svc!Retire
<1>3. ASSUME NEW l, SGoto(s, l), \/ {spc[s], l} \subseteq Starting
                                 \/ {spc[s], l} \subseteq Cleaning \cup {"gone"}
      PROVE  UNCHANGED view
  <2>1. \A t \in Server : /\ spc'[t] = "serving" <=> spc[t] = "serving"
                          /\ spc'[t] \in Cleaning \cup {"gone"}
                               <=> spc[t] \in Cleaning \cup {"gone"}
    BY <1>3 DEF SGoto, Inv, TypeOK
  <2> QED
    BY <1>1, <2>1 DEF Serving, Retired
<1>4. CASE WritePid(s) \/ WriteMeta(s)
  BY <1>3, <1>4 DEF WritePid, WriteMeta
<1>5. CASE Listen(s)
  <2>1. CASE Up
    BY <1>2, <1>5, <2>1 DEF Listen
  <2>2. CASE ~Up
    <3>1. Serving = {} /\ s \notin Retired
      BY <1>5, <2>2, NobodyServes DEF Listen, Retired
    <3>2. \A t \in Server : spc'[t] = "serving" <=> t = s
      BY <1>5, <2>2 DEF Listen, SGoto, Up, Inv, TypeOK
    <3>3. Serving' = {s}
      BY <3>2 DEF Serving
    <3>4. Retired' = Retired
      BY <1>5, <2>2 DEF Listen, SGoto, Retired, Inv, TypeOK
    <3> QED
      BY <1>1, <3>1, <3>3, <3>4 DEF Svc!Next, Svc!Serve
  <2> QED
    BY <2>1, <2>2
<1>6. CASE StartFails(s) \/ Stop(s)
  BY <1>2, <1>6 DEF StartFails, Stop
<1>7. CASE ReadPid(s) \/ UnlinkPid(s) \/ ReadMeta(s) \/ UnlinkMeta(s)
  BY <1>3, <1>7 DEF ReadPid, UnlinkPid, ReadMeta, UnlinkMeta
<1>8. CASE Crash(s)
  BY <1>2, <1>3, <1>8 DEF Crash, Alive
<1> QED
  BY <1>4, <1>5, <1>6, <1>7, <1>8 DEF Serve

LEMMA ServiceInit == Init => Svc!Init
<1> SUFFICES ASSUME Init PROVE Svc!Init
  OBVIOUS
<1>1. Serving = {} /\ Retired = {}
  <2>1. \A s \in Server : spc[s] = "off"
    BY DEF Init
  <2> QED
    BY <2>1 DEF Serving, Retired, Cleaning
<1>2. Standing = [c \in Client |-> "looking"]
  BY DEF Init, Standing
<1> QED
  BY <1>1, <1>2 DEF Svc!Init

LEMMA ServiceStep == ASSUME Inv, IdentityInv, [Next]_vars PROVE [Svc!Next]_view
<1>1. CASE UNCHANGED vars
  BY <1>1, ServersKept, StandingKept DEF vars, view
<1> QED
  BY <1>1, ClientService, ServerService DEF Next

\* The election implements the service: one server at a time, each for one term, and
\* nobody gives up who is not killed while one is there, under the condition
\* of Published (Election.ImplementsService).
THEOREM ServiceCorrect ==
  ASSUME Hasty = {}, ~Handover PROVE Spec => ImplementsService
<1>1. Inv /\ IdentityInv /\ [Next]_vars => [Svc!Next]_view
  BY ServiceStep
<1> QED
  BY <1>1, ServiceInit, NoHandover, ElectInvariance, PTL
  DEF Spec, ImplementsService, Svc!Spec, Svc!vars, view

\* It does so for servers that follow one another without end, if no server is
\* spawned while its predecessor still removes its identity files.
THEOREM ServiceApart ==
  ASSUME Hasty = {} PROVE Spec /\ [][SpawnsApart]_vars => ImplementsService
<1>1. Inv /\ IdentityInv /\ [Next]_vars => [Svc!Next]_view
  BY ServiceStep
<1> QED
  BY <1>1, ServiceInit, ApartIdentity, ElectInvariance, PTL
  DEF Spec, ImplementsService, Svc!Spec, Svc!vars, view

-----------------------------------------------------------------------------
\* Whoever is about to spawn a server has read the token, or has written it; only
\* then a server starts, and nobody writes a second time.
TokenInv ==
    /\ TypeOK
    /\ \A c \in Client : cpc[c] = "spawn" => token = "written"
    /\ TokenFirst

\* The token is in its file before anybody can ask for it, however hasty the
\* electors are and wherever one of them is killed (Election.TokenFirst).
THEOREM TokenThere == Spec => []TokenFirst
<1> USE ElectionAssumption DEF TokenInv, TokenFirst, CGoto, SGoto, svars, cvars
<1>1. Init => TokenInv
  BY DEF Init, TypeOK, Server, NoServer
<1>2. ASSUME TokenInv, NEW c \in Client, Ensure(c) \/ Lost(c) \/ Killed(c), TypeOK'
      PROVE TokenInv'
  <2>1. CASE Spawn(c)
    BY <1>2, <2>1 DEF Spawn, TypeOK
  <2>2. CASE CreateToken(c) \/ WriteToken(c) \/ ReadToken(c)
    BY <1>2, <2>2 DEF CreateToken, WriteToken, ReadToken, TypeOK
  <2>3. CASE UNCHANGED <<spc, token>> /\ \A d \in Client : cpc'[d] = "spawn" => cpc[d] = "spawn"
    BY <1>2, <2>3
  <2>4. CASE \/ Probe(c) \/ Acquire(c) \/ AcquireTimeout(c) \/ Recheck(c) \/ BindFails(c)
             \/ Bind(c) \/ TokenEmpty(c) \/ SpawnFails(c) \/ Ready(c) \/ ReadyTimeout(c)
             \/ Wait(c) \/ Verify(c) \/ Lost(c) \/ Killed(c)
    BY <1>2, <2>3, <2>4
    DEF Probe, Acquire, AcquireTimeout, Recheck, BindFails, Bind, TokenEmpty, SpawnFails,
        Ready, ReadyTimeout, Wait, Verify, Lost, Killed, TypeOK
  <2> QED
    BY <1>2, <2>1, <2>2, <2>4 DEF Ensure
<1>3. ASSUME TokenInv, NEW s \in Server, Serve(s) \/ StartFails(s) \/ Stop(s) \/ Crash(s),
             TypeOK'
      PROVE TokenInv'
  <2>1. cvars' = cvars /\ spc[s] # "off" /\ \A t \in Server \ {s} : spc'[t] = spc[t]
    BY <1>3
    DEF Serve, WritePid, WriteMeta, Listen, StartFails, Stop, ReadPid, UnlinkPid, ReadMeta,
        UnlinkMeta, Crash, Alive, Starting, TypeOK
  <2> QED
    BY <1>3, <2>1
<1>4. TokenInv /\ TypeOK' /\ [Next]_vars => TokenInv'
  BY <1>2, <1>3 DEF Next, vars
<1> QED
  BY <1>1, <1>4, ElectionTypes, PTL DEF Spec

=============================================================================

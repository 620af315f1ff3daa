------------------------------ MODULE BusServer ------------------------------
(***************************************************************************)
(* The connection handling of the bus server (bin/server.py): one handler  *)
(* task per websocket connection, the registry of listening agents, the    *)
(* events and messages fanned out to them, forced disconnects, and the     *)
(* eviction half of the orphan reaper.                                     *)
(*                                                                         *)
(* Everything runs in one asyncio loop.  A critical section of             *)
(* _registry_lock contains no await, so it is one action here; every       *)
(* `await ws.send' and `await ws.close' ends an action, because the task   *)
(* may be suspended there while any other task runs.  The order in which a *)
(* round of sends visits its recipients (that of the registry) is left     *)
(* open.                                                                   *)
(***************************************************************************)
EXTENDS Naturals

CONSTANTS
    Conn,      \* websocket connections; each is opened at most once
    Sid,       \* session ids
    Name,      \* non-empty session names
    Nonce,     \* non-empty nonces
    NoConn, NoSid, NoName, NoNonce,  \* "none", and the empty strings
    Absent,    \* in place of a name: the session does not listen
    Reaper,    \* the orphan-reap task
    Hellos,    \* the valid hello frames the peers may send, per connection
    NewNames,  \* the names a rename may ask for
    Reapable,  \* connections whose pid the reaper may find gone
    Stallable  \* connections whose peer may stop reading

Task == Conn \cup {Reaper}

Role == {"agent", "control"}

Hello == [conn : Conn, role : Role, sid : Sid,
          name : Name \cup {NoName}, nonce : Nonce \cup {NoNonce}]

ASSUME ConnAssumption ==
    /\ NoConn \notin Conn
    /\ Reaper \notin Conn \cup {NoConn}

ASSUME StringAssumption ==
    /\ NoSid \notin Sid /\ NoName \notin Name /\ NoNonce \notin Nonce
    /\ Absent \notin Name \cup {NoName}

ASSUME PeerAssumption ==
    /\ Hellos \subseteq Hello /\ NewNames \subseteq Name \cup {NoName}
    /\ Reapable \subseteq Conn /\ Stallable \subseteq Conn

VARIABLES
    ws,        \* the websocket of each connection, and why the server closed it
    pc,        \* where each task is suspended
    cs,        \* the ClientState a handler built from its hello
    registry,  \* _registry: the connection listening for each session
    target,    \* the connection a task still has to close
    event,     \* what a task is sending round, and for which session
    todo,      \* the connections it has not sent it to yet
    victims,   \* the connections the reaper decided to evict in this tick
    stalled,   \* connections whose peer has stopped reading
    left       \* history: how often the departure of a connection was announced

vars == <<ws, pc, cs, registry, target, event, todo, victims, stalled, left>>

WsState == {"closed", "open", "replaced", "forced"}

PcState == {"off", "closeOld", "welcome", "serving", "renamed",
            "cast", "closeVictim", "unregister", "done"}

\* _for_session of a control is kept in sid: its own uuid is never looked up.
ClientState == [role : Role \cup {"none"}, sid : Sid \cup {NoSid},
                name : Name \cup {NoName}, nonce : Nonce \cup {NoNonce}]

Event == [op : {"none", "joined", "left", "renamed", "msg"}, sid : Sid \cup {NoSid}]

NoState == [role |-> "none", sid |-> NoSid, name |-> NoName, nonce |-> NoNonce]
NoEvent == [op |-> "none", sid |-> NoSid]

TypeOK ==
    /\ ws \in [Conn -> WsState]
    /\ pc \in [Task -> PcState]
    /\ cs \in [Conn -> ClientState]
    /\ registry \in [Sid -> Conn \cup {NoConn}]
    /\ target \in [Task -> Conn \cup {NoConn}]
    /\ event \in [Task -> Event]
    /\ todo \in [Task -> SUBSET Conn]
    /\ victims \in SUBSET Conn
    /\ stalled \in SUBSET Conn
    /\ left \in [Conn -> Nat]

Init ==
    /\ ws = [c \in Conn |-> "closed"]
    /\ pc = [t \in Task |-> IF t = Reaper THEN "serving" ELSE "off"]
    /\ cs = [c \in Conn |-> NoState]
    /\ registry = [s \in Sid |-> NoConn]
    /\ target = [t \in Task |-> NoConn]
    /\ event = [t \in Task |-> NoEvent]
    /\ todo = [t \in Task |-> {}]
    /\ victims = {}
    /\ stalled = {}
    /\ left = [c \in Conn |-> 0]

-----------------------------------------------------------------------------
(* Helpers *)

Listed(c) == \E s \in Sid : registry[s] = c

\* Mutant of AgentsExcept: sessions nobody listens for are not left out.
AllExcept(s) == {registry[r] : r \in Sid \ {s}}

\* Every registered agent but the one of session s.
AgentsExcept(s) == {registry[r] : r \in {q \in Sid \ {s} : registry[q] # NoConn}}

Taken(n, reg) == n # NoName /\ \E r \in Sid : reg[r] # NoConn /\ cs[reg[r]].name = n

Goto(t, l) == pc' = [pc EXCEPT ![t] = l]

\* The handler returns: the library closes the websocket behind it.
Return(c) ==
    /\ Goto(c, "done")
    /\ ws' = [ws EXCEPT ![c] = IF @ = "open" THEN "closed" ELSE @]

\* The task starts sending an event round: the snapshot of the recipients is
\* taken under the lock, from the registry as this action leaves it.
Cast(t, op, s, to) ==
    /\ event' = [event EXCEPT ![t] = [op |-> op, sid |-> s]]
    /\ todo' = [todo EXCEPT ![t] = to]
    /\ Goto(t, "cast")

\* Close connection c with the given verdict, unless it is closed already.
CloseWith(c, how) == ws' = [ws EXCEPT ![c] = IF @ = "open" THEN how ELSE @]

\* A send to c does not wait: its peer reads, or the connection is closed.
CanSend(c) == ws[c] # "open" \/ c \notin stalled

-----------------------------------------------------------------------------
(* The peers *)

\* The peer closes its end, or dies, or the network drops it.
Drop(c) ==
    /\ ws[c] = "open"
    /\ ws' = [ws EXCEPT ![c] = "closed"]
    /\ UNCHANGED <<pc, cs, registry, target, event, todo, victims, stalled, left>>

\* The peer stops reading; the server sends no pings, so it never notices.
Stall(c) ==
    /\ c \in Stallable \ stalled
    /\ ws[c] = "open" /\ pc[c] = "serving"
    /\ stalled' = stalled \cup {c}
    /\ UNCHANGED <<ws, pc, cs, registry, target, event, todo, victims, left>>

-----------------------------------------------------------------------------
(* _handle_hello *)

\* A connection appears here with its hello.  One that sends none within 10 s,
\* or a malformed or unauthorised one, changes nothing; a hello is handled even
\* if its connection has closed by then (Drop comes right after it).
Opens(c, l) ==
    /\ pc[c] = "off"
    /\ Goto(c, l)
    /\ ws' = [ws EXCEPT ![c] = IF l = "done" THEN @ ELSE "open"]

\* Mutant of HelloControl: controls are put into the registry as well.
HelloControlListed(h) ==
    /\ h.role = "control"
    /\ LET c == h.conn
           l == registry[h.sid]
       IN  /\ l # NoConn /\ h.nonce # NoNonce /\ h.nonce = cs[l].nonce
           /\ cs' = [cs EXCEPT ![c] = [role |-> "control", sid |-> h.sid,
                                       name |-> cs[l].name, nonce |-> h.nonce]]
           /\ registry' = [registry EXCEPT ![h.sid] = c]
           /\ Opens(c, "welcome")
    /\ UNCHANGED <<target, event, todo, victims, stalled, left>>

\* A control whose session listens under the same nonce; no registry entry.
HelloControl(h) ==
    /\ h.role = "control"
    /\ LET c == h.conn
           l == registry[h.sid]
       IN  /\ l # NoConn /\ h.nonce # NoNonce /\ h.nonce = cs[l].nonce
           /\ cs' = [cs EXCEPT ![c] = [role |-> "control", sid |-> h.sid,
                                       name |-> cs[l].name, nonce |-> h.nonce]]
           /\ Opens(c, "welcome")
    /\ UNCHANGED <<registry, target, event, todo, victims, stalled, left>>

Contradicts(h) == /\ registry[h.sid] # NoConn
                  /\ h.nonce = NoNonce \/ h.nonce # cs[registry[h.sid]].nonce

\* What the locked section has done to the registry when it looks at the name:
\* an entry of the same session is gone already.
Vacated(h) == [registry EXCEPT ![h.sid] = NoConn]

\* unauthorized, before anything is touched
HelloRefused(h) ==
    /\ IF h.role = "control" THEN registry[h.sid] = NoConn \/ Contradicts(h)
                             ELSE Contradicts(h)
    /\ Opens(h.conn, "done")
    /\ UNCHANGED <<cs, registry, target, event, todo, victims, stalled, left>>

\* name_taken: the vacated entry is not put back, its websocket is not closed
\* and its departure is not announced.
HelloNameTaken(h) ==
    /\ h.role = "agent"
    /\ ~Contradicts(h)
    /\ Taken(h.name, Vacated(h))
    /\ registry' = Vacated(h)
    /\ Opens(h.conn, "done")
    /\ UNCHANGED <<cs, target, event, todo, victims, stalled, left>>

\* Mutant of HelloAgent: the name is not compared with the other sessions'.
HelloAgentUnchecked(h) ==
    /\ h.role = "agent" /\ ~Contradicts(h)
    /\ cs' = [cs EXCEPT ![h.conn] = [role |-> "agent", sid |-> h.sid,
                                     name |-> h.name, nonce |-> h.nonce]]
    /\ registry' = [registry EXCEPT ![h.sid] = h.conn]
    /\ target' = [target EXCEPT ![h.conn] = registry[h.sid]]
    /\ Opens(h.conn, IF registry[h.sid] = NoConn THEN "welcome" ELSE "closeOld")
    /\ UNCHANGED <<event, todo, victims, stalled, left>>

HelloAgent(h) ==
    /\ h.role = "agent"
    /\ ~Contradicts(h)
    /\ ~Taken(h.name, Vacated(h))
    /\ LET c == h.conn
           old == registry[h.sid]
       IN  /\ cs' = [cs EXCEPT ![c] = [role |-> "agent", sid |-> h.sid,
                                       name |-> h.name, nonce |-> h.nonce]]
           /\ registry' = [registry EXCEPT ![h.sid] = c]
           /\ target' = [target EXCEPT ![c] = old]
           /\ Opens(c, IF old = NoConn THEN "welcome" ELSE "closeOld")
    /\ UNCHANGED <<event, todo, victims, stalled, left>>

\* Mutant of CloseOld: the replaced websocket is forgotten.
CloseOldForgotten(c) ==
    /\ pc[c] = "closeOld"
    /\ target' = [target EXCEPT ![c] = NoConn]
    /\ Goto(c, "welcome")
    /\ UNCHANGED <<ws, cs, registry, event, todo, victims, stalled, left>>

\* old_ws_to_close.close(4000), outside the lock
CloseOld(c) ==
    /\ pc[c] = "closeOld"
    /\ CloseWith(target[c], "replaced")
    /\ target' = [target EXCEPT ![c] = NoConn]
    /\ Goto(c, "welcome")
    /\ UNCHANGED <<cs, registry, event, todo, victims, stalled, left>>

\* Mutant of Welcome: the entry is made only now.
WelcomeRegisters(c) ==
    /\ pc[c] = "welcome" /\ ws[c] = "open"
    /\ IF cs[c].role = "agent"
       THEN /\ Cast(c, "joined", cs[c].sid, AgentsExcept(cs[c].sid))
            /\ registry' = [registry EXCEPT ![cs[c].sid] = c]
       ELSE Goto(c, "serving") /\ UNCHANGED <<event, todo, registry>>
    /\ UNCHANGED <<ws, cs, target, victims, stalled, left>>

\* The welcome frame, then for an agent the snapshot for peer_joined.
Welcome(c) ==
    /\ pc[c] = "welcome" /\ ws[c] = "open"
    /\ IF cs[c].role = "agent"
       THEN Cast(c, "joined", cs[c].sid, AgentsExcept(cs[c].sid))
       ELSE Goto(c, "serving") /\ UNCHANGED <<event, todo>>
    /\ UNCHANGED <<ws, cs, registry, target, victims, stalled, left>>

\* ConnectionClosed out of ws.send(welcome): _handler has no state yet, so
\* nothing is unregistered.
WelcomeLost(c) ==
    /\ pc[c] = "welcome" /\ ws[c] # "open"
    /\ Return(c)
    /\ UNCHANGED <<cs, registry, target, event, todo, victims, stalled, left>>

-----------------------------------------------------------------------------
(* The dispatch loop *)

\* A frame of c is there to be handled.  The receive queue may still hold one
\* when the connection has closed.
Frame(c) == c \in Conn /\ pc[c] = "serving"

\* _listener_alive_locked
ListenerAlive(c) == cs[c].role = "agent" \/ registry[cs[c].sid] # NoConn

\* _handle_send to the agent d that _resolve_send_target found
Send(c, d) ==
    /\ Frame(c)
    /\ ListenerAlive(c)
    /\ d \in AgentsExcept(cs[c].sid)
    /\ Cast(c, "msg", cs[c].sid, {d})
    /\ UNCHANGED <<ws, cs, registry, target, victims, stalled, left>>

\* _handle_broadcast within the rate limit
Broadcast(c) ==
    /\ Frame(c)
    /\ ListenerAlive(c)
    /\ Cast(c, "msg", cs[c].sid, AgentsExcept(cs[c].sid))
    /\ UNCHANGED <<ws, cs, registry, target, victims, stalled, left>>

\* Mutant of Rename: any name will do.
RenameUnchecked(c, n) ==
    /\ Frame(c)
    /\ registry[cs[c].sid] # NoConn
    /\ cs' = [d \in Conn |-> IF d \in {c, registry[cs[c].sid]}
                             THEN [cs[d] EXCEPT !.name = n] ELSE cs[d]]
    /\ Goto(c, "renamed")
    /\ UNCHANGED <<ws, registry, target, event, todo, victims, stalled, left>>

\* _handle_rename: the entry of the session, and the requester's own copy
Rename(c, n) ==
    /\ Frame(c)
    /\ LET s == cs[c].sid
           l == registry[s]
       IN  /\ l # NoConn
           /\ ~Taken(n, [registry EXCEPT ![s] = NoConn])
           /\ cs' = [d \in Conn |-> IF d \in {c, l} THEN [cs[d] EXCEPT !.name = n]
                                                    ELSE cs[d]]
    /\ Goto(c, "renamed")
    /\ UNCHANGED <<ws, registry, target, event, todo, victims, stalled, left>>

\* The renamed reply; when that raises, no peer hears of the new name.
RenameReply(c) ==
    /\ pc[c] = "renamed" /\ CanSend(c)
    /\ IF ws[c] = "open"
       THEN Cast(c, "renamed", cs[c].sid, AgentsExcept(cs[c].sid))
       ELSE Goto(c, "unregister") /\ UNCHANGED <<event, todo>>
    /\ UNCHANGED <<ws, cs, registry, target, victims, stalled, left>>

\* Mutant of ForceDisconnect: the entry is left to the victim's own handler.
ForceDisconnectListed(c) ==
    /\ Frame(c)
    /\ cs[c].role = "control" /\ registry[cs[c].sid] # NoConn
    /\ target' = [target EXCEPT ![c] = registry[cs[c].sid]]
    /\ left' = [left EXCEPT ![registry[cs[c].sid]] = @ + 1]
    /\ Cast(c, "left", cs[c].sid, AgentsExcept(cs[c].sid))
    /\ UNCHANGED <<ws, cs, registry, victims, stalled>>

\* _handle_force_disconnect of a session that listens
ForceDisconnect(c) ==
    /\ Frame(c)
    /\ cs[c].role = "control"
    /\ LET s == cs[c].sid
           l == registry[s]
       IN  /\ l # NoConn
           /\ registry' = [registry EXCEPT ![s] = NoConn]
           /\ target' = [target EXCEPT ![c] = l]
           /\ left' = [left EXCEPT ![l] = @ + 1]
           /\ Cast(c, "left", s, AgentsExcept(s))
    /\ UNCHANGED <<ws, cs, victims, stalled>>

\* Every other frame (ping, list, an error, a rate-limited broadcast, a
\* force_disconnect of a session that is gone already) changes nothing.

\* The loop ends: the connection is closed, or the frame is a bye.
Leave(c) ==
    /\ c \in Conn /\ pc[c] = "serving"
    /\ Goto(c, "unregister")
    /\ UNCHANGED <<ws, cs, registry, target, event, todo, victims, stalled, left>>

\* Mutant of Unregister: no identity check.
UnregisterAny(c) ==
    /\ pc[c] = "unregister"
    /\ LET s == cs[c].sid
       IN  IF cs[c].role = "agent" /\ registry[s] # NoConn
           THEN /\ registry' = [registry EXCEPT ![s] = NoConn]
                /\ left' = [left EXCEPT ![c] = @ + 1]
                /\ Cast(c, "left", s, AgentsExcept(s))
                /\ UNCHANGED ws
           ELSE Return(c) /\ UNCHANGED <<registry, left, event, todo>>
    /\ UNCHANGED <<cs, target, victims, stalled>>

\* Mutant of Unregister: a handler whose entry is gone waits for it.
UnregisterWaiting(c) ==
    /\ pc[c] = "unregister"
    /\ cs[c].role = "agent" /\ registry[cs[c].sid] = c
    /\ registry' = [registry EXCEPT ![cs[c].sid] = NoConn]
    /\ left' = [left EXCEPT ![c] = @ + 1]
    /\ Cast(c, "left", cs[c].sid, AgentsExcept(cs[c].sid))
    /\ UNCHANGED <<ws, cs, target, victims, stalled>>

\* Mutant of Unregister: an entry whose connection is open is left alone.
UnregisterClosed(c) ==
    /\ pc[c] = "unregister"
    /\ IF cs[c].role = "agent" /\ registry[cs[c].sid] = c /\ ws[c] # "open"
       THEN /\ registry' = [registry EXCEPT ![cs[c].sid] = NoConn]
            /\ left' = [left EXCEPT ![c] = @ + 1]
            /\ Cast(c, "left", cs[c].sid, AgentsExcept(cs[c].sid))
            /\ UNCHANGED ws
       ELSE Return(c) /\ UNCHANGED <<registry, left, event, todo>>
    /\ UNCHANGED <<cs, target, victims, stalled>>

\* _unregister, with its identity check.  A control is in no registry entry.
Unregister(c) ==
    /\ pc[c] = "unregister"
    /\ LET s == cs[c].sid
       IN  IF cs[c].role = "agent" /\ registry[s] = c
           THEN /\ registry' = [registry EXCEPT ![s] = NoConn]
                /\ left' = [left EXCEPT ![c] = @ + 1]
                /\ Cast(c, "left", s, AgentsExcept(s))
                /\ UNCHANGED ws
           ELSE Return(c) /\ UNCHANGED <<registry, left, event, todo>>
    /\ UNCHANGED <<cs, target, victims, stalled>>

-----------------------------------------------------------------------------
(* _broadcast_event and _safe_send *)

\* One send of the round; ConnectionClosed is swallowed.
CastTo(t, d) ==
    /\ pc[t] = "cast" /\ d \in todo[t] /\ CanSend(d)
    /\ todo' = [todo EXCEPT ![t] = @ \ {d}]
    /\ UNCHANGED <<ws, pc, cs, registry, target, event, victims, stalled, left>>

\* The round is over: after somebody else's departure that one's websocket is
\* closed, after one's own the handler returns, and otherwise it serves on.
CastEnd(t) ==
    /\ pc[t] = "cast" /\ todo[t] = {}
    /\ event' = [event EXCEPT ![t] = NoEvent]
    /\ \/ /\ target[t] # NoConn
          /\ Goto(t, "closeVictim") /\ UNCHANGED ws
       \/ /\ target[t] = NoConn /\ event[t].op = "left"
          /\ Return(t)
       \/ /\ target[t] = NoConn /\ event[t].op # "left"
          /\ Goto(t, "serving") /\ UNCHANGED ws
    /\ UNCHANGED <<cs, registry, target, todo, victims, stalled, left>>

\* Mutant of CloseVictim: the eviction ends with the round.
CloseVictimSpared(t) ==
    /\ pc[t] = "closeVictim"
    /\ target' = [target EXCEPT ![t] = NoConn]
    /\ Goto(t, "serving")
    /\ UNCHANGED <<ws, cs, registry, event, todo, victims, stalled, left>>

\* target.ws.close(4001); a control then acknowledges and serves on.
CloseVictim(t) ==
    /\ pc[t] = "closeVictim"
    /\ CloseWith(target[t], "forced")
    /\ target' = [target EXCEPT ![t] = NoConn]
    /\ Goto(t, "serving")
    /\ UNCHANGED <<cs, registry, event, todo, victims, stalled, left>>

-----------------------------------------------------------------------------
(* _orphan_reap_loop: the verdicts are the subject of ServerLoops, the
   eviction is this module's. *)

\* One tick: entries seen under the lock whose pid was then found gone.
ReapTick(V) ==
    /\ pc[Reaper] = "serving" /\ victims = {}
    /\ V # {} /\ \A c \in V : Listed(c)
    /\ victims' = V
    /\ UNCHANGED <<ws, pc, cs, registry, target, event, todo, stalled, left>>

\* Mutant of ReapEvict: no identity check.
ReapEvictAny(c) ==
    /\ pc[Reaper] = "serving" /\ c \in victims
    /\ victims' = victims \ {c}
    /\ registry' = [registry EXCEPT ![cs[c].sid] = NoConn]
    /\ target' = [target EXCEPT ![Reaper] = c]
    /\ left' = [left EXCEPT ![c] = @ + 1]
    /\ Cast(Reaper, "left", cs[c].sid, AgentsExcept(cs[c].sid))
    /\ UNCHANGED <<ws, cs, stalled>>

\* The next victim, if the entry is still the one that was seen.
ReapEvict(c) ==
    /\ pc[Reaper] = "serving" /\ c \in victims
    /\ victims' = victims \ {c}
    /\ LET s == cs[c].sid
       IN  IF registry[s] = c
           THEN /\ registry' = [registry EXCEPT ![s] = NoConn]
                /\ target' = [target EXCEPT ![Reaper] = c]
                /\ left' = [left EXCEPT ![c] = @ + 1]
                /\ Cast(Reaper, "left", s, AgentsExcept(s))
           ELSE UNCHANGED <<registry, target, left, event, todo, pc>>
    /\ UNCHANGED <<ws, cs, stalled>>

-----------------------------------------------------------------------------
\* The steps a handler takes without a new frame.
Handler(c) == \/ CloseOld(c) \/ Welcome(c) \/ WelcomeLost(c)
              \/ RenameReply(c) \/ Unregister(c)

Frames(c) ==
    \/ Broadcast(c) \/ ForceDisconnect(c) \/ Leave(c)
    \/ \E d \in Conn : Send(c, d)
    \/ \E n \in NewNames : Rename(c, n)

Round(t) == CastEnd(t) \/ CloseVictim(t) \/ \E d \in Conn : CastTo(t, d)

Next ==
    \/ \E c \in Conn : Drop(c) \/ Stall(c) \/ Handler(c) \/ Frames(c)
    \/ \E h \in Hellos : HelloControl(h) \/ HelloRefused(h)
                         \/ HelloNameTaken(h) \/ HelloAgent(h)
    \/ \E t \in Task : Round(t)
    \/ \E V \in SUBSET Reapable : ReapTick(V)
    \/ \E c \in Reapable : ReapEvict(c)

Spec == Init /\ [][Next]_vars

\* The event loop runs every task that is not waiting for its peer, and the
\* receive queue of a closed connection runs dry.  What the peers do, and
\* whether the reaper finds a victim, is left to chance.
Fairness ==
    /\ \A c \in Conn : WF_vars(Handler(c)) /\ SF_vars(ws[c] # "open" /\ Leave(c))
    /\ \A t \in Task : WF_vars(Round(t))
    /\ \A c \in Reapable : WF_vars(ReapEvict(c))

FairSpec == Spec /\ Fairness

-----------------------------------------------------------------------------
(* Properties *)

\* No two listening sessions have the same non-empty name, whatever hellos,
\* renames and takeovers interleave (_handle_hello, _handle_rename).
UniqueNames ==
    \A r, s \in Sid :
        /\ r # s /\ registry[r] # NoConn /\ registry[s] # NoConn
        /\ cs[registry[r]].name # NoName
        => cs[registry[r]].name # cs[registry[s]].name

\* An entry is an agent under its own session, whose handler has read its hello.
EntriesOwned ==
    \A s \in Sid : registry[s] # NoConn =>
        /\ cs[registry[s]].role = "agent" /\ cs[registry[s]].sid = s
        /\ pc[registry[s]] # "off"

\* A connection the server closed, or is about to close, as replaced, evicted
\* or force-disconnected is in no entry, and never gets back into one.
ClosedNotListed ==
    /\ \A c \in Conn : ws[c] \in {"replaced", "forced"} => ~Listed(c)
    /\ \A t \in Task : target[t] # NoConn => ~Listed(target[t])

\* However the peer's close, a force_disconnect and the reaper race, one
\* connection's departure is announced at most once, and never while it listens.
DepartedOnce ==
    \A c \in Conn : left[c] <= 1 /\ (left[c] = 1 => ~Listed(c))

\* A hello that names session s and proves the nonce of its entry c.
Continues(s, c) ==
    \E h \in Hellos : /\ h.role = "agent" /\ h.sid = s /\ h.nonce = cs[c].nonce
                      /\ pc[h.conn] = "off" /\ pc'[h.conn] # "off"

\* An entry disappears only in a step that starts to announce the departure of
\* that very connection, or to a hello that proves its nonce: a late clean-up
\* never takes a successor's entry, a stranger's hello never takes anybody's.
EntryRemoval ==
    [][\A s \in Sid : LET c == registry[s] IN
          c # NoConn /\ registry'[s] # c => left'[c] = left[c] + 1 \/ Continues(s, c)]_vars

\* Presence as the peers can list it behaves like the directory.
Presence == [s \in Sid |-> IF registry[s] = NoConn THEN Absent
                                                  ELSE cs[registry[s]].name]
Dir == INSTANCE Directory WITH dir <- Presence
ImplementsDirectory == Dir!Spec

\* The registry as the other tasks of the server may rely on it: only its own
\* hello lists a connection, so a removed one is never listed again
\* (_handle_hello; everything else pops).
Met == {c \in Conn : pc[c] # "off"}
Reg == INSTANCE Registry WITH entry <- registry, met <- Met
ImplementsRegistry == Reg!Spec

\* The connection c announces its own departure, and closes after that.
Parting(c) == pc[c] = "cast" /\ event[c].op = "left" /\ target[c] = NoConn

\* No eviction is forgotten: a connection whose departure was announced is closed
\* already, or some task that has not ended is about to close it
\* (_handle_force_disconnect, _orphan_reap_loop, _unregister).
EvictionsUnderWay ==
    \A c \in Conn : left[c] = 1 /\ ws[c] = "open"
                     => Parting(c) \/ \E t \in Task : target[t] = c

\* A handler that returns leaves an entry behind in one case only: its welcome
\* could not be sent (_handler's finally, with state still None).
OnlyLostWelcomes ==
    [][\A c \in Conn : pc[c] # "done" /\ pc'[c] = "done" /\ Listed(c)'
                         => pc[c] = "welcome" /\ ws[c] # "open"]_vars

\* A connection taken out of the registry for eviction or replacement is closed.
EvictedIsClosed ==
    \A c \in Conn : (\E t \in Task : target[t] = c) ~> (ws[c] # "open")

\* The handler of a closed connection returns, wherever the close has met it.
HandlersEnd ==
    \A c \in Conn : (pc[c] # "off" /\ ws[c] # "open") ~> (pc[c] = "done")

\* "the handler exits on disconnect", and with it the entry: no entry belongs to
\* a handler that has returned (server.py:563-567).
NoGhosts == \A s \in Sid : registry[s] # NoConn => pc[registry[s]] # "done"
=============================================================================

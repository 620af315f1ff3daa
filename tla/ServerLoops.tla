----------------------------- MODULE ServerLoops -----------------------------
(***************************************************************************)
(* The two periodic tasks of the bus server (bin/server.py): the orphan    *)
(* reaper, which counts for every session how often its process was found  *)
(* gone and evicts it after Threshold misses, and the idle shutdown, which *)
(* looks at the registry and at the time of the last activity.             *)
(*                                                                         *)
(* The connections are those of BusServer, reduced to what they do to the  *)
(* registry and to _last_activity.  A session is one listener process: all *)
(* its connections carry its session id and, but for Pidless, its pid.     *)
(***************************************************************************)
EXTENDS Naturals

CONSTANTS
    Conn,       \* websocket connections of agents; each is opened at most once
    Sid,        \* sessions
    Session,    \* the session a connection belongs to
    NoConn,     \* nobody
    Threshold,  \* _reap_miss_threshold
    IdleLimit,  \* idle_shutdown_seconds, in steps of the clock
    Pidless,    \* connections whose hello carries no usable pid
    Ghostable,  \* connections that may close before their welcome is sent
    MaxFailures \* bound: iterations of the reaper that end in an exception

ASSUME LoopsAssumption ==
    /\ Session \in [Conn -> Sid]
    /\ NoConn \notin Conn
    /\ Threshold \in Nat \ {0}
    /\ IdleLimit \in Nat
    /\ Pidless \subseteq Conn
    /\ Ghostable \subseteq Conn
    /\ MaxFailures \in Nat

VARIABLES
    up,        \* the server runs, or why it has stopped
    ws,        \* where the handler of a connection is
    registry,  \* _registry
    alive,     \* the process of a session exists
    idle,      \* clock steps since _last_activity
    misses,    \* _orphan_misses; 0 where the session has no counter
    victims,   \* what the reaper has decided to evict in this iteration
    closing,   \* the evicted connection whose websocket it has yet to close
    failures,  \* iterations that have failed
    empty,     \* history: clock steps since somebody was registered
    streak     \* history: misses of a session since it was last seen alive

vars == <<up, ws, registry, alive, idle, misses, victims, closing, failures,
          empty, streak>>

\* What the connections leave alone, and what the reaper does.
reaper == <<misses, victims, closing, failures, streak>>
peers == <<ws, alive, empty>>

TypeOK ==
    /\ up \in {"serving", "idle", "signal"}
    /\ ws \in [Conn -> {"new", "welcome", "open", "closed"}]
    /\ registry \in [Sid -> Conn \cup {NoConn}]
    /\ alive \in [Sid -> BOOLEAN]
    /\ idle \in 0 .. IdleLimit
    /\ misses \in [Sid -> 0 .. Threshold + MaxFailures]
    /\ victims \in SUBSET Conn
    /\ closing \in Conn \cup {NoConn}
    /\ failures \in 0 .. MaxFailures
    /\ empty \in 0 .. IdleLimit
    /\ streak \in [Sid -> 0 .. Threshold]

Init ==
    /\ up = "serving"
    /\ ws = [c \in Conn |-> "new"]
    /\ registry = [s \in Sid |-> NoConn]
    /\ alive = [s \in Sid |-> TRUE]
    /\ idle = 0
    /\ misses = [s \in Sid |-> 0]
    /\ victims = {}
    /\ closing = NoConn
    /\ failures = 0
    /\ empty = 0
    /\ streak = [s \in Sid |-> 0]

Nobody == \A s \in Sid : registry[s] = NoConn

\* _last_activity = time.monotonic()
Touch == idle' = 0

Unlist(s) == registry' = [registry EXCEPT ![s] = NoConn]

WsGoto(c, l) == ws' = [ws EXCEPT ![c] = l]

-----------------------------------------------------------------------------
(* What the connections do to the registry and to the last activity *)

\* An agent's hello: registered, and a predecessor is closed.
Hello(c) ==
    /\ up = "serving" /\ ws[c] = "new"
    /\ LET s == Session[c]
       IN  /\ registry' = [registry EXCEPT ![s] = c]
           /\ ws' = [d \in Conn |-> IF d = c THEN "welcome"
                                    ELSE IF d = registry[s] THEN "closed" ELSE ws[d]]
    /\ Touch
    /\ empty' = 0
    /\ UNCHANGED <<up, alive, reaper>>

\* name_taken after the session's own entry was removed: nothing is touched.
HelloVacates(c) ==
    /\ up = "serving" /\ ws[c] = "new"
    /\ registry[Session[c]] # NoConn
    /\ \E s \in Sid \ {Session[c]} : registry[s] # NoConn
    /\ Unlist(Session[c])
    /\ WsGoto(c, "closed")
    /\ UNCHANGED <<up, alive, idle, empty, reaper>>

\* Mutant of Welcome: the entry is made once more, whoever has taken it out.
WelcomeLists(c) ==
    /\ up = "serving" /\ ws[c] = "welcome"
    /\ WsGoto(c, "open")
    /\ registry' = [registry EXCEPT ![Session[c]] = c]
    /\ UNCHANGED <<up, alive, idle, empty, reaper>>

Welcome(c) ==
    /\ up = "serving" /\ ws[c] = "welcome"
    /\ WsGoto(c, "open")
    /\ UNCHANGED <<up, registry, alive, idle, empty, reaper>>

\* The handler returns without unregistering (see BusServer): a ghost entry.
WelcomeLost(c) ==
    /\ up = "serving" /\ ws[c] = "welcome" /\ c \in Ghostable
    /\ WsGoto(c, "closed")
    /\ UNCHANGED <<up, registry, alive, idle, empty, reaper>>

\* The connection has closed: _unregister, with its identity check.
Unregister(c) ==
    /\ up = "serving" /\ ws[c] = "open"
    /\ WsGoto(c, "closed")
    /\ IF registry[Session[c]] = c THEN Unlist(Session[c]) /\ Touch
                                   ELSE UNCHANGED <<registry, idle>>
    /\ UNCHANGED <<up, alive, empty, reaper>>

\* A helper's force_disconnect; the websocket is closed behind the eviction.
ForceDisconnect(s) ==
    /\ up = "serving" /\ registry[s] # NoConn
    /\ WsGoto(registry[s], "closed")
    /\ Unlist(s) /\ Touch
    /\ UNCHANGED <<up, alive, empty, reaper>>

\* A message from an agent, be it registered or not (_listener_alive_locked).
Chat(c) ==
    /\ up = "serving" /\ ws[c] = "open" /\ alive[Session[c]]
    /\ idle # 0 /\ Touch
    /\ UNCHANGED <<up, registry, peers, reaper>>

\* The process of a session ends.  Its websocket may stay open all the same: a
\* child has inherited it, or the kernel has not told the server yet.
Die(s) ==
    /\ up = "serving" /\ alive[s]
    /\ alive' = [alive EXCEPT ![s] = FALSE]
    /\ UNCHANGED <<up, ws, registry, idle, empty, reaper>>

-----------------------------------------------------------------------------
(* _orphan_reap_loop *)

\* What psutil may say of a session's process.  A live one can be marked by a
\* glitch; "neutral" is AccessDenied or any other exception.
Answers(s) == IF alive[s] THEN {"alive", "marked", "neutral"}
                          ELSE {"marked", "neutral"}

Seen(s) == registry[s] \notin Pidless \cup {NoConn}

\* Mutant of Count: a session that is seen alive keeps its counter.
CountKept(s, a) ==
    IF ~Seen(s) THEN 0
    ELSE IF a = "marked" THEN misses[s] + 1 ELSE misses[s]

\* Mutant of Count: no answer counts as seen alive.
CountNeutral(s, a) ==
    IF Seen(s) /\ a = "marked" THEN misses[s] + 1 ELSE 0

\* Mutant of Count: a counter outlives its session's entry, and counts on.
CountUnlisted(s, a) ==
    CASE a = "alive" -> 0
      [] a = "marked" -> misses[s] + 1
      [] OTHER -> misses[s]

\* The counter after one look: popped for an unusable pid, a session that is
\* alive and one that is not registered; left alone by a neutral answer.
Count(s, a) ==
    CASE ~Seen(s) \/ a = "alive" -> 0
      [] Seen(s) /\ a = "marked" -> misses[s] + 1
      [] OTHER -> misses[s]

\* One iteration up to the evictions: snapshot, answers, counters, victims.
Tick(ans) ==
    /\ up = "serving" /\ victims = {} /\ closing = NoConn
    /\ \A s \in Sid : ans[s] \in Answers(s)
    /\ misses' = [s \in Sid |-> Count(s, ans[s])]
    /\ victims' = {registry[s] : s \in {r \in Sid : /\ Seen(r) /\ ans[r] = "marked"
                                                    /\ misses'[r] >= Threshold}}
    /\ streak' = [s \in Sid |->
                    CASE Seen(s) /\ ans[s] = "alive" -> 0
                      [] Seen(s) /\ ans[s] = "marked" /\ streak[s] < Threshold -> streak[s] + 1
                      [] OTHER -> streak[s]]
    /\ UNCHANGED <<up, registry, idle, closing, failures, peers>>

\* Mutant of Evict: _last_activity is left alone.
EvictUntouched(c) ==
    /\ up = "serving" /\ closing = NoConn /\ c \in victims
    /\ victims' = victims \ {c}
    /\ misses' = [misses EXCEPT ![Session[c]] = 0]
    /\ IF registry[Session[c]] = c
       THEN Unlist(Session[c]) /\ closing' = c
       ELSE UNCHANGED <<registry, closing>>
    /\ UNCHANGED <<up, idle, failures, streak, peers>>

\* Mutant of Evict: an entry whose connection has closed is left to its handler.
EvictOpen(c) ==
    /\ up = "serving" /\ closing = NoConn /\ c \in victims
    /\ victims' = victims \ {c}
    /\ misses' = [misses EXCEPT ![Session[c]] = 0]
    /\ IF registry[Session[c]] = c /\ ws[c] # "closed"
       THEN Unlist(Session[c]) /\ Touch /\ closing' = c
       ELSE UNCHANGED <<registry, idle, closing>>
    /\ UNCHANGED <<up, failures, streak, peers>>

\* The next victim, if its entry is still the one that was seen.
Evict(c) ==
    /\ up = "serving" /\ closing = NoConn /\ c \in victims
    /\ victims' = victims \ {c}
    /\ misses' = [misses EXCEPT ![Session[c]] = 0]
    /\ IF registry[Session[c]] = c
       THEN Unlist(Session[c]) /\ Touch /\ closing' = c
       ELSE UNCHANGED <<registry, idle, closing>>
    /\ UNCHANGED <<up, failures, streak, peers>>

\* The peer_left round is over: close(4001).
CloseVictim ==
    /\ up = "serving" /\ closing # NoConn
    /\ WsGoto(closing, "closed")
    /\ closing' = NoConn
    /\ UNCHANGED <<up, registry, alive, idle, empty, misses, victims, failures, streak>>

\* The round raises: the websocket is not closed, the other victims of this
\* iteration are forgotten, and their counters stay.
IterationFails ==
    /\ up = "serving" /\ closing # NoConn /\ failures < MaxFailures
    /\ closing' = NoConn
    /\ victims' = {}
    /\ failures' = failures + 1
    /\ UNCHANGED <<up, registry, idle, misses, streak, peers>>

-----------------------------------------------------------------------------
(* The clock, _idle_shutdown_loop and stop *)

Later(n) == IF n < IdleLimit THEN n + 1 ELSE n

Pass ==
    /\ up = "serving"
    /\ idle' = Later(idle)
    /\ empty' = IF Nobody THEN Later(empty) ELSE empty
    /\ UNCHANGED <<up, ws, registry, alive, reaper>>

IdleStop ==
    /\ up = "serving" /\ Nobody /\ idle >= IdleLimit
    /\ up' = "idle"
    /\ UNCHANGED <<registry, idle, peers, reaper>>

\* SIGTERM or SIGINT
Stop ==
    /\ up = "serving"
    /\ up' = "signal"
    /\ UNCHANGED <<registry, idle, peers, reaper>>

-----------------------------------------------------------------------------
Handler(c) == Hello(c) \/ HelloVacates(c) \/ Welcome(c) \/ WelcomeLost(c)
              \/ Unregister(c) \/ Chat(c)

Answer == [Sid -> {"alive", "marked", "neutral"}]

Reap == CloseVictim \/ \E c \in Conn : Evict(c)

Next ==
    \/ \E c \in Conn : Handler(c)
    \/ \E s \in Sid : ForceDisconnect(s) \/ Die(s)
    \/ \E ans \in Answer : Tick(ans)
    \/ Reap \/ IterationFails
    \/ Pass \/ IdleStop \/ Stop

Spec == Init /\ [][Next]_vars

TickMarking(s) == \E ans \in Answer : ans[s] = "marked" /\ Tick(ans)

\* Time passes and the loops come round.  AccessDenied is the "transient flake"
\* of the comment: psutil says again and again of a dead process that it is dead
\* (strong fairness, since rounds of evictions come in between).  No connection
\* is assumed to close, except one of a dead process that the reaper cannot see.
Fairness ==
    /\ WF_vars(Pass) /\ WF_vars(IdleStop) /\ WF_vars(Reap)
    /\ \A s \in Sid : SF_vars(~alive[s] /\ TickMarking(s))
    /\ \A c \in Conn : WF_vars(c \in Pidless /\ ~alive[Session[c]]
                                 /\ (Welcome(c) \/ Unregister(c)))

FairSpec == Spec /\ Fairness

-----------------------------------------------------------------------------
(* Properties *)

\* "Require REAP_MISS_THRESHOLD consecutive observations before evicting": a
\* session is evicted only when its process was found gone Threshold times and
\* never alive in between, whatever glitches, neutral answers, reconnects, other
\* departures and failing iterations come between (_orphan_reap_loop).
EvictsOnEvidence ==
    [][closing = NoConn /\ closing' # NoConn
            => streak[Session[closing']] = Threshold]_vars

\* Every way out of the registry counts as activity, so a server that stops by
\* itself has been without any agent for the whole limit (_idle_shutdown_loop).
GracePeriod ==
    [][up = "serving" /\ up' = "idle" => Nobody /\ empty = IdleLimit]_vars

\* Reduced to the registry, the loops' view of a connection is BusServer's: what
\* the reaper, a control or a disconnect takes out is never put back.
Met == {c \in Conn : ws[c] # "new"}
Reg == INSTANCE Registry WITH entry <- registry, met <- Met
ImplementsRegistry == Reg!Spec

\* A session whose process is gone does not stay in the registry, even if its
\* websocket never closes, or its handler never unregisters it, or the iteration
\* that was to evict it fails (_orphan_reap_loop).
DeadReaped ==
    \A s \in Sid : ~alive[s] ~> registry[s] = NoConn \/ up # "serving"

\* When all the sessions' processes are gone the server goes too: the reaper
\* clears the registry of ghosts, and the idle shutdown finds it empty.
EndsWithSessions == (\A s \in Sid : ~alive[s]) ~> up # "serving"
=============================================================================

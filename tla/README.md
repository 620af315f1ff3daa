# Verification of claude-code-inter-session

TLA+ models of the message bus that connects Claude Code sessions, TLC runs on
small instances, and TLAPS proofs. The code is `skills/inter-session/bin/` of the
repository; line numbers below are those of its files.

## 1. The system

Every Claude Code session may run one **listener** (`client.py`), which keeps a
websocket to one **bus server** (`server.py`) per endpoint. The server is started
on demand by whichever client finds none (`spawn.py`) and stops when idle. The
**helpers** (`send.py`, `list.py`, `disconnect.py`) are short-lived processes that
find the listener of their session through a state file (`discover.py`), connect
with the role *control*, and act in its name.

| Component | State | Operations | Correct when |
|---|---|---|---|
| Connections and registry (`server.py`) | `_registry`: session id -> `ClientState`; per connection a handler task with its `ClientState` | hello (agent, control), send, broadcast, rename, force_disconnect, bye/close, unregister | names are unique; an entry is removed by the right departure only, announced once; an evicted connection is closed; handlers end |
| Orphan reaper (`server.py:211-310`) | `_orphan_misses` per session id | tick, eviction | evicts only on consecutive misses, and only the entry it has judged; a dead session goes in the end |
| Server life cycle (`server.py:97-209`) | bound/listening socket, pid file, metadata file, `_stop`, `_last_activity` | serve, idle shutdown, signal, clean-up | the identity is published whenever it listens; it stops by itself after the idle limit without agents, and does stop then |
| Election (`spawn.py`) | election flock, spawned process | probe, lock, bind, spawn, wait, release | one server at a time; nobody waits for ever |
| Listener (`client.py`) | lock file, `.session` file, `_stop`, `_collision_retries` | start, connect, hello replies, close codes, retry, owner watch, signals, exit | one listener per session; gone with its owner; does not rejoin after an eviction |
| Discovery (`discover.py`) | the `.session` and `.lock` files | read, `unlink_if_matches` | never removes a live listener's state |
| Helpers | none that lasts | control hello, one frame, stale-state clean-up, `_reap_local_listener` | act for a listening session only; a disconnect leaves no listener process |
| Rate limit, target resolution (`server.py:575-629`, `704-712`) | `_broadcast_windows` | append, expire, resolve | 60 per minute and listener, no more and no fewer; the target that is meant or none |
| Token, log (`shared.py:191-259`) | token file, `messages.log*` | ensure_token, rotate | no server without a written token; no log lost but the oldest |
| Names, keys, sanitising (`shared.py`), `auto_start.py` | none / `monitors.json` | string functions, one-shot edit | - |

Interaction: processes share files (flocks, state file, identity files) and the
port; tasks in the server share the registry under `_registry_lock` and each
other's websockets.

What is hard here: tasks that are suspended at every `await ws.send`/`close` while
others change the registry; the clean-up of an old connection after its successor
has registered; peers that close, or stop reading, at any moment; processes that
are killed between two file operations; locks that are released by timeouts;
verdicts (stale file, dead pid, free name) that are old when acted upon. PROJECT.json
lists them under `hazards`, with the properties that cover each.

## 2. Modules

| Module | Models | Composes |
|---|---|---|
| `Directory` | abstract: presence as a map from sessions to names or absent | |
| `Registry` | abstract: one connection for each session, listed by its own hello or never | |
| `Session` | abstract: one seat for the listeners of a session, and the state file | |
| `Service` | abstract: one server at a time, and clients that look for it | |
| `BusServer` | handlers, registry, fan-out, forced disconnect, eviction | implements `Directory` through `Presence`, and `Registry` |
| `Listener` | the listeners of one session and the helpers' clean-up | the two meet in the flock and the state file; implements `Session` |
| `Election` | clients, spawned servers, the election lock, the token file, the identity files | implements `Service` |
| `ServerLoops` | the reaper's miss counters and the idle shutdown | two loops of one server, over the registry; implements `Registry`, as `BusServer` does |
| `Messages` | target resolution, the broadcast limit, the message log | |
| `BusServerProofs`, `ListenerProofs`, `ElectionProofs`, `ServerLoopsProofs`, `MessagesProofs` | theorems, each about the module it extends | |
| `EvictionProofs` | theorems about the ends of `BusServer`'s connections | over `BusServerProofs` |
| `RegistryProofs` | theorems about `Registry` | carried down to `BusServer` and `ServerLoops` |
| `MCBusServer`, `MCListener`, `MCElection`, `MCServerLoops`, `MCMessages` | the instances TLC checks | |

### BusServer

One asyncio loop runs a task per connection (a task is named by its connection)
and the reaper. A critical section of `_registry_lock` has no `await` in it and is
one action; each `await` of a send or a close ends an action, `pc` says where the
task is suspended. `registry` is `_registry`, `cs` holds the `ClientState`s, which
outlive their entries as the objects do. A round of sends (`_broadcast_event`,
broadcast) keeps its snapshot of recipients in `todo` and proceeds one recipient at
a time (`CastTo`), waiting at a peer that does not read (`CanSend`); a direct
message is a round of one. `target` is the connection a task has yet to close
(`old_ws_to_close`, the victim of a force_disconnect, the reaper's victim).
`left` counts the announced departures and is a history variable. A hello is
handled even if its connection has just closed. The reaper's tick may find any set
of registered connections dead.

Abstractions: names, ids and nonces are model values; message texts are dropped;
frames that change nothing (ping, list, errors) are dropped; a control's own uuid
is never looked up and not represented. A send raises `ConnectionClosed` or
nothing (`_broadcast_event` and `_safe_send` catch that one): should it raise
anything else, the round ends there and with it the closes that were to follow, so
`EvictionsUnderWay`, `EvictedIsClosed` and `OnlyLostWelcomes` are claimed without that
case. What it does to the reaper's iteration is in `ServerLoops` (`IterationFails`). The identity of a `ClientState` object
(`current is state`) is that of its connection, since each handler builds one.

There are two abstractions of it. `Directory` is what the peers are told of who is
present. `Registry` is the map itself, with the connections whose hello has been handled
(`Met`): nothing but its own hello ever lists a connection. `ServerLoops` implements
`Registry` too, so the actions by which it lets the registry change keep to what the
handlers do.

### Listener

`pc` follows a `client.py` process from its flock (`Start`) through the
reconnect loop to its two-step end: run()'s `finally` closes the lock (`Unlock`),
and only then the atexit handler deletes the state file (`Atexit`). The server is
left open: the hello may be answered by welcome, name_taken or any other error, or
the connection may close with or without 4001 at any time. `file` is the listener
whose session id and nonce are in `<key>.session`. A helper reads that file, is
told by the server that it is stale or not, and runs the steps of
`unlink_if_matches` one by one.

A helper may be a `disconnect.py` (`ending`). It ends on an error; otherwise, after
its acknowledgement, its clean-up, or without a server, it goes on to
`_reap_local_listener`: it waits for the process to go by itself (`Grace`), sends
SIGTERM (`Term`), waits again (`Termed`) and sends SIGKILL (`SigKill`). SIGTERM asks
a monitor whose event loop runs to stop. In run()'s end it changes nothing, and after
the event loop is gone it kills before the atexit handler is through (`Ends`). A
monitor in `Killable` may crash or be too slow for the deadlines of a disconnect;
one in `Hung` may moreover do nothing any more.

`heard` are the monitors whose stdout has a reader. The reader is the Claude Code process,
or whoever stands in for it, and may go away from the monitors in `Unread` at any time
(`ReaderGone`). `_print_line` then raises BrokenPipeError, and `client.py` prints its notices
before it stops. So the owner watch, which swallows the exception, does nothing (`Watch`
needs a reader), and after a 4001 close, a failed identity check or an error reply run()
takes the exception for a failed connection and retries (`GivesUp`). SIGTERM stops without
a notice, so a disconnect ends such a listener too. A monitor outside `Watched` has no owner
to watch (owner_pid <= 0) or no psutil. Notices printed before run() are left out.

`Session` is what remains for a helper to rely on: a process takes the one seat
(`Seated`: it runs), leaves it, and is then `Leaving` until its atexit handler has run. Its
`Farewell` may remove the file of whoever sits there by now, which is finding 3.

### Election

`cpc` follows a client through `ensure_server_running` and the identity check;
`spc` a server through `serve` (pid file, metadata file, listen) and its clean-up
(read and unlink, for each file). `bind` succeeds as SO_REUSEADDR allows, `listen`
fails while another server listens. The result of `ensure_server_running` is not
looked at by its caller, so the client goes on to the identity check either way.
A write of a file is one step (a reader that finds it truncated fails the check as
one that finds it missing); pid reuse and foreign processes on the port are
left out, except that a bind may fail. The clients' stdout is read: one that cannot print
that the identity check failed retries instead of ending, as in `Listener`.

Between its bind and the Popen an elector sees to the token (`CreateToken`,
`WriteToken`, `ReadToken`, `TokenEmpty`). All the clients are those of one endpoint,
so the elector is alone with the file: a file that is empty stays empty, and the
50 attempts of `_read_token_with_retry` end in the RuntimeError. (Electors of another
endpoint with the same data directory could be about to write it; they are not
modelled.) A crash between the two steps is not repaired by anybody: every later
elector ends at `TokenEmpty`, until a user removes the file.

`Service` is what a caller is to get: servers `Serving` one at a time, each for one term,
and a client that does not give up while one serves. `Standing` reduces a client to
looking, dialing or gone.

### ServerLoops

The two periodic tasks of the server, over a registry that connections of one
listener each come into and go out of (`Hello`, `Unregister`, `ForceDisconnect` and
the ways BusServer has found to leave an entry or take one out: `HelloVacates`,
`WelcomeLost`). `Tick` is an iteration of `_orphan_reap_loop` up to its evictions:
the snapshot is taken under the lock and psutil is asked without one, but nothing
awaits in between. psutil says of a living process that it is alive, gone (a
glitch) or nothing (AccessDenied and others); of a dead one, that it is gone or
nothing. Each eviction is a step, as is the close that follows its round
(`CloseVictim`); the round may raise, which ends the iteration (`IterationFails`).
`Pass` is the clock: `idle` counts its steps since `_last_activity`. `empty` and
`streak` are history variables: how long nobody has been registered, and how often a
session was seen gone since it was last seen alive.

### Messages

What the server decides about a frame before it sends anything: from the liveness
check to the log line the handlers do not await, so each is one action. Strings are
members of `Text`; `Prefixes` says which begin which and `Short` which have fewer
than four characters, so that a name can look like an id or begin another one.
`Reaches(s, t, d)` is `_resolve_send_target`; `Rank`, in the properties, is the
reference it is compared with. `window` is `_broadcast_windows`, `accepted` (history)
what was let through. `files[i]` are the messages in `messages.log.i`, `Log` appends
after a rotation if one is due, and `Crash` may leave any prefix of the rotation's
file operations behind. The log's size is counted in messages.

## 3. Runs

| Run | Instance | Shows |
|---|---|---|
| `bus_safety` | three connections, two sessions, names and nonces; the second connection continues, impersonates or controls the first's session; one peer may stall, the first may be reaped | all safety properties, `ImplementsDirectory` and `ImplementsRegistry`; no eviction is forgotten (`EvictionsUnderWay`), and no handler leaves its entry behind but after a lost welcome (`OnlyLostWelcomes`) |
| `bus_live` | the same without strangers and stalls | `EvictedIsClosed`, `HandlersEnd` |
| `bus_ghost` | as `bus_safety` | **violated** `NoGhosts`: an entry without a handler |
| `bus_stall` | one peer may stop reading | **violated** `EvictedIsClosed` |
| `listener` | two monitors, one helper, one collision retry; one may crash or hang, the other may lose its stdout's reader | one listener, helpers spare it, no return after a 4001 close it could report (`NoRejoin`), it ends with its owner unless nobody reads it (`OwnerGoneNoticed`), a disconnect ends it even if it hangs; `ImplementsSession` |
| `listener_state` | the same, stdout always read | **violated** `StateKept`: the successor's state file is deleted |
| `listener_orphan` | one monitor that may lose its stdout's reader, a server that answers | **violated** `OwnerGoneEnds`: the listener outlives its owner |
| `election` | three clients, two servers; a client and both servers may be killed, one may fail to start, the last may stop | one server at a time, token written before, identity published, no race inside listen (`NoListenRace`), nobody stuck; `ImplementsService` |
| `election_hasty` | an elector may stop waiting early | **violated** `NoListenRace` |
| `election_stop` | a server may stop and another follow | **violated** `LegitVerified` |
| `server_loops` | three connections of two sessions, threshold 3, idle limit 2; one connection without a usable pid, one that may become a ghost, one failing iteration | evictions only on evidence (`EvictsOnEvidence`), the grace period kept (`GracePeriod`), the dead reaped (`DeadReaped`), the server gone after its sessions (`EndsWithSessions`); `ImplementsRegistry` |
| `messages` | three sessions, one of which sends; names of which one begins another and one is a session id; limit and window 2, two backups, a log that is full with one message | `ReachesBestMatch`, `RateBound`, `QuotaExact`, `LogHasNoGap`, `DropsOldestOnly` |

Bounds and why they are enough:

- *Bus.* The races are between a session's connection and its successor, a helper
  of that session, and a witness that is told of it: three connections. Two
  sessions and two names let a hello or a rename collide. Connections are opened
  once; a reconnecting client is another connection. `Hellos` names the hellos
  each connection may bring.
- *Listener.* Two processes compete for one lock, and one helper borrows it. A
  helper runs again and again. One collision retry shows the bound. In `listener_orphan` the
  listener is alone, so that nothing but its own code can end it.
- *Election.* Three clients are the elector, its successor at the lock and one
  that times out on it. Two servers are a server and its successor; in `election`
  a server stops gracefully only when no other can follow (`Handover = FALSE`),
  because a stop with a successor is exactly what breaks `IdentityPublished` (run
  `election_stop`), and no client is `Hasty`, as run `election_hasty` shows what
  follows if one is. Those two exclusions are the
  conditions under which the code keeps its promise: `NoListenRace` needs the
  second, `IdentityPublished` and `ImplementsService` both. (`NoListenRace` follows from
  `OneElected` there; it is checked because it is the source's own claim, which
  `election_hasty` refutes without the condition.)
- *Server loops.* A threshold of 3 is the code's, and lets a glitch and a neutral answer fall
  between two misses. A session that connects twice has a successor that the
  reaper must not take for it. One failing iteration leaves a counter at the threshold.
  `MaxFailures` also bounds the counters, which the code does not.
- *Messages.* Limit, window and backups of 2 are the least for which a window slides
  over an entry that stays and a rotation has a generation that is neither first nor
  last. `MaxTime` = 4 covers two windows, `MaxLogged` = 5 two messages more than the
  files hold. One sender suffices: windows are per session, and it has two roles.

Deadlock checking is off everywhere: connections and processes end, and nothing
needs to happen when all have. In `messages` the clock and the log end at their bounds.

Fairness. *Bus:* the event loop runs each task that is not waiting for its peer
(weak fairness of a handler's steps, of a round, and of an eviction), and the
receive queue of a closed connection runs dry, so its loop ends (strong fairness,
because frames that are still queued are handled in between). No peer has to send,
read or close. *Listener:* a process that can run does, and the owner watch polls
while its loop goes on, except a monitor in `Hung`. The waits of
`_reap_local_listener` have deadlines, so it goes on. The server, the rest of the
helpers and signals are not assumed to do anything. In `listener_orphan` the server answers
every hello or closes (`AnsweredSpec`), so that its counterexample is no listener that merely waits.
*Election:* processes run; losses and kills are chance. *Server loops:* time passes,
the idle loop comes round, and the reaper evicts and closes (weak fairness). That
needs rounds that end, i.e. peers that read: `bus_stall` shows what happens
otherwise. psutil says of a dead process again and again that it is gone
(strong fairness, as evictions come in between): the code's comment calls AccessDenied a
transient flake (`server.py:261`). The reaper cannot see a connection without a pid;
of such a one it is assumed that it closes when its process has died. `messages` needs no fairness.

## 4. Proofs

`BusServerProofs` holds for any sets of connections, sessions, names, nonces,
hellos, renames and any choice of who may be reaped or stall, under the three
assumptions in `BusServer`: the "none" values are not members of the sets they
stand beside, and the peers' hellos are well formed.

- `TypeCorrect`: `TypeOK`. Inductive: `TypeInv`, which adds that every task beyond
  its hello, and every victim, has a real session (`SessionKnown`) and that a
  listed connection has one (`ListedKnown`). Without them `registry[cs[c].sid]`
  has no type.
- `RegistryCorrect`: `UniqueNames`, `EntriesOwned`, `ClosedNotListed` and
  `DepartedOnce`. They are proved together (`RegistryInv`), because each needs the
  others: a connection is announced once because it was listed, and it cannot
  become listed again because only a handler that has not started registers it
  (`Started`). The proof splits the actions into those that touch no entry
  (`QuietStep`), those that take one out (`RemovalStep`), and the rest.
- `RemovalCorrect`: the action property `EntryRemoval`, from the same invariant.
- `DirectoryCorrect`: every step maps to a step of `Directory` or a stutter;
  `StepOnEntry` gives the one session a step may change.

`EvictionProofs` goes on from there, for the same constants. A forced disconnect, a
replacement and the reaper all announce a departure first and close the connection some
awaits later, so that several tasks may owe closes at once. `EvictInv` adds to
`EvictionsUnderWay` that a task holds a connection to close only at the points from
which it goes on to close it (`TargetHeld`), and that a handler which announces its own
departure has left the registry (`PartingLeft`): otherwise an action that resets `target`
could drop a duty. `DutyKept` and `DutyTaken` are the two ways a step keeps it.

- `EvictionsCorrect`: `EvictionsUnderWay`. That the duty is done in the end is
  `EvictedIsClosed`, and false if a peer stops reading (`bus_stall`).
- `LostWelcomesCorrect`: `OnlyLostWelcomes`. The ghost of `bus_ghost` is the only one
  there is: a handler that ends with its entry listed could not send its welcome.
- `RegistryImplemented`: `ImplementsRegistry`.

`RegistryProofs` proves of `Registry` alone that no connection stands for two sessions
(`OneSession`) and that one which has been taken out stays out (`RemovalIsFinal`). By the
two refinements both hold of the handlers (`HandlersFinal`) and of the loops
(`LoopsFinal`), without a second invariant about either.

`ListenerProofs` holds for any number of listeners and helpers. Its invariant
`LockInv` says that whoever runs, or cleans up, is the holder of the flock, and that
a listener evicted while it listened, and while its stdout was read, has been told to stop; `OneListener`,
`HelpersSpareListeners` and `NoRejoin` follow (`ListenerAlone`, `ListenerSpared`,
`ListenerStaysOut`). `SessionCorrect` is the refinement of `Session`. Its lemmas sort the
steps of a monitor into those that keep its seat, leave it, or say farewell; that
the seat is free when a helper cleans up is `LockInv` again.

`ElectionProofs` holds for any number of clients and servers.

- `Elected` and `RaceExcluded` (`OneElected`, `NoListenRace`) assume that no elector is
  hasty: a server that starts is then awaited by the holder of the election lock, and
  none listens meanwhile (`ElectInv`).
- The identity files depend on one window more: a server is spawned while its
  predecessor is between its clean-up's steps. `SpawnsApart` says of a step that it opens no
  such window. With it, `IdentityInv` is inductive: while a server cleans up, nobody else
  has written, or will write, the identity. `PublishedApart` is `IdentityPublished`, and
  `VerifiedApart` is `LegitVerified`, for servers that follow one another without end.
  So the window is all there is to finding 6: a fix that closes it suffices.
- Nothing in the code excludes the window; that no server stops while another may follow
  (`Handover = FALSE`) does. `LateInv` gives `SpawnsApart` from it: a clean-up comes while the
  elector waits, so that nobody can spawn, or when no server is left to be spawned.
  `Published` then follows from the same invariant.
- `ServiceCorrect` and `ServiceApart` prove the refinement of `Service` under each of the two
  conditions. The hard step is `GiveUp`: a client that fails the identity check does so
  only while nobody serves.
- `TokenThere` needs no condition: who is past the token, and every server, has found it
  written, and nothing unwrites it (`TokenInv`).

The conditions are those of run `election`, and the runs `election_hasty` and
`election_stop` show that neither can be dropped.

`ServerLoopsProofs` holds for any connections, sessions, threshold, limits and number
of failing iterations.

- `LoopsTypes`: the bound on the miss counters is not inductive alone. A counter
  exceeds the threshold only through failed iterations, and one at the bound
  still has its victim waiting (`Bounded`).
- `EvictionsJustified`: `Evidence`, i.e. a counter is not ahead of what was seen, and
  every victim has been seen gone often enough.
- `LoopsImplementRegistry`: `Greeted`, i.e. whoever is listed, or about to be evicted or
  closed, has said hello.
- `GraceKept`: `Idleness`, i.e. while somebody is registered `empty` is 0, and otherwise
  `_last_activity` is not older than the last entry.

`MessagesProofs` holds for any sessions, names, prefix relation, limit, window, log
size and number of generations.

- `RateBounded` and `QuotaCorrect` rest on `Windows`: the window of a session is what
  it has broadcast, in the order of time, less some old ones at the head. `FreshCuts` proves that
  the loop that drops old entries stops where it should, with the least element of a
  set of naturals.
- `TargetsCorrect` rests on unique names (`Unique`); the rest is the case
  distinction of `_resolve_send_target` against `Rank`.
- `LogComplete` and `OldestDropped`: `Rotation` and `RotationKeeps` say what every prefix of a
  rotation does to files that are in order, `LogInv` that they are.

Only model-checked: the liveness properties `EvictedIsClosed`, `HandlersEnd`,
`OwnerGoneNoticed`, `StateDeleted`, `DisconnectEnds`, `EnsureEnds`, `DeadReaped` and
`EndsWithSessions`; fairness and ENABLED are beyond the prover.

## 5. Disagreements found

Each is a run that TLC finds violated; PROJECT.json quotes the lines.

1. A connection that closes between its registration and its welcome leaves a
   ghost entry (`bus_ghost`).
2. A peer that stops reading keeps force_disconnect and the reaper from closing
   the connection they evicted (`bus_stall`).
3. An ending listener deletes its successor's state file (`listener_state`).
4. The owner watch prints before it stops. When the owner is gone nobody reads that, the
   print raises, and the listener runs on for ever (`listener_orphan`).
5. The election lock does not serialise elections that last longer than the wait
   (`election_hasty`).
6. A stopping server may unlink its successor's identity; clients then refuse a
   good server for good (`election_stop`).

Two more follow from steps of the models and have no run of their own. `shared.py:39-41` says
that a client must exit on a 4001 close instead of reconnecting; it reconnects if
the close meets it before the welcome (`ClosedInHello`) or if nobody reads its stdout
(`GivesUp`). `NoRejoin` holds of all other cases. And a hello that continues a session but is
refused for its name has vacated the entry already, without a `peer_left`
(`HelloNameTaken`); `EntryRemoval` and `Directory` allow it.

## 6. Not modelled

- What is printed, formatted, sanitised or logged; `auto_start.py`; the search
  for the listener key in the process tree: no interaction and no shared state.
- Malformed and unauthorised frames, pings, `list`: they change nothing.
- Message contents, the sender's name on a message, and what becomes of a message on
  its way: there is no acknowledgement, and `send.py` takes a second's silence for
  success. The rounds themselves are in `BusServer`.
- The order in which the peers learn of a join and a departure; the code allows the
  wrong one (hazard at `server.py:497`).
- Names as strings: the candidates the server suggests, `validate_name`, what
  `sanitize_for_stdout` does.
- In `disconnect.py`: a pid given to another process between the check and the
  signal; psutil missing or failing, when the process counts as gone; a process that
  SIGKILL does not end.
- Text that cannot be encoded (a lone surrogate): `_log_message` catches OSError only, so the
  UnicodeEncodeError ends the handler; a broadcast is then charged and never sent.
  `QuotaExact` is claimed for text that can be logged.
- Errors of the file system in logging and rotation, which the code ignores, and a
  second writer of the log ("single-writer assumption", `shared.py:239`).
- The token shared by servers of several endpoints.
- The legacy identity paths of `shared.py` and pid reuse.

## 7. Plan

All of the plan's models are there: `Directory`, `Registry` and `BusServer`; `Session` and
`Listener`, with `disconnect.py`; `Service` and `Election`, with the token; `ServerLoops`;
`Messages`; with their runs, and the proofs of every safety property and every refinement
they check.

Open:

1. The string functions of `shared.py` as operators over short sequences.
2. The order of announcements at one peer, as a property of a `BusServer` whose code
   guarantees it.
3. `Listener` and `BusServer` side by side: `Listener` leaves the server open, so that what
   it assumes of the replies is more than the server does, and nothing relates the two.

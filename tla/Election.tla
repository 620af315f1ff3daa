------------------------------- MODULE Election -------------------------------
(***************************************************************************)
(* How the clients of one endpoint come by a server: the bind election of  *)
(* bin/spawn.py (ensure_server_running), the start and the end of a server *)
(* process with its two identity files (bin/server.py, bin/shared.py), the *)
(* token file all of them share (shared.ensure_token), and the identity    *)
(* check a client makes before it connects (bin/client.py).                *)
(*                                                                         *)
(* The clients and the servers are processes: any step of one may fall     *)
(* between two steps of another.  SO_REUSEADDR lets a socket bind while no *)
(* other socket listens on the port; listen() fails while one does.        *)
(***************************************************************************)
EXTENDS Naturals

CONSTANTS
    Client,      \* processes that want a server: listeners and helpers
    NoClient,    \* the election lock is free
    MaxServers,  \* bound: server processes ever spawned
    Hasty,       \* electors that may leave before their server is up or dead:
                 \* wait_for_server's 5 s are over, or the process is killed
    Handover,    \* a server may stop while another may still be spawned
    Faulty,      \* servers whose start may fail with an exception
    Crashable    \* clients and servers that may be killed

Server == 1 .. MaxServers
NoServer == 0

ASSUME ElectionAssumption ==
    /\ NoClient \notin Client
    /\ MaxServers \in Nat
    /\ Hasty \subseteq Client
    /\ Handover \in BOOLEAN
    /\ Faulty \subseteq Server
    /\ Crashable \subseteq Client \cup Server

VARIABLES
    cpc,   \* where a client is in ensure_server_running and after it
    kid,   \* the server it has spawned
    lock,  \* holder of the election flock
    spc,   \* where a server is in Server.serve
    pidf,  \* the pid in server.<port>.pid
    metaf, \* the pid in server.<port>.pid.meta
    token  \* the token file: absent, created but still empty, or written

vars == <<cpc, kid, lock, spc, pidf, metaf, token>>

cvars == <<cpc, kid, lock, token>>
svars == <<spc, pidf, metaf>>

Starting == {"pid", "meta", "listen"}
Cleaning == {"readPid", "unlinkPid", "readMeta", "unlinkMeta"}

TypeOK ==
    /\ cpc \in [Client -> {"probe", "lock", "elect", "token", "write", "spawn",
                           "ready", "wait", "verify", "dial", "gone"}]
    /\ kid \in [Client -> Server \cup {NoServer}]
    /\ lock \in Client \cup {NoClient}
    /\ spc \in [Server -> {"off", "serving", "gone"} \cup Starting \cup Cleaning]
    /\ pidf \in Server \cup {NoServer}
    /\ metaf \in Server \cup {NoServer}
    /\ token \in {"absent", "empty", "written"}

Init ==
    /\ cpc = [c \in Client |-> "probe"]
    /\ kid = [c \in Client |-> NoServer]
    /\ lock = NoClient
    /\ spc = [s \in Server |-> "off"]
    /\ pidf = NoServer
    /\ metaf = NoServer
    /\ token = "absent"

Alive(s) == s \in Server /\ spc[s] \notin {"off", "gone"}

\* is_server_up: some server listens on the port.
Up == \E s \in Server : spc[s] = "serving"

\* verify_server_identity: the pid is that of a live server.py, and the metadata
\* agree with it, or are missing and the command line names the endpoint.
IdentityOk == Alive(pidf) /\ metaf \in {NoServer, pidf}

CGoto(c, l) == cpc' = [cpc EXCEPT ![c] = l]
SGoto(s, l) == spc' = [spc EXCEPT ![s] = l]

\* The election lock's fd is closed.
Release(c) == lock' = IF lock = c THEN NoClient ELSE lock

-----------------------------------------------------------------------------
(* ensure_server_running *)

Probe(c) ==
    /\ cpc[c] = "probe"
    /\ CGoto(c, IF Up THEN "verify" ELSE "lock")
    /\ UNCHANGED <<kid, lock, token, svars>>

Acquire(c) ==
    /\ cpc[c] = "lock" /\ lock = NoClient
    /\ lock' = c
    /\ CGoto(c, "elect")
    /\ UNCHANGED <<kid, token, svars>>

\* Mutant of AcquireTimeout: after 5 s the election goes ahead without the lock.
AcquireTimeoutElects(c) ==
    /\ cpc[c] = "lock" /\ lock # NoClient
    /\ CGoto(c, IF Up THEN "wait" ELSE "elect")
    /\ UNCHANGED <<kid, lock, token, svars>>

\* The lock is held, and a server has come up meanwhile or 5 s are over.
AcquireTimeout(c) ==
    /\ cpc[c] = "lock" /\ lock # NoClient
    /\ CGoto(c, "wait")
    /\ UNCHANGED <<kid, lock, token, svars>>

\* The second look, under the lock.
Recheck(c) ==
    /\ cpc[c] = "elect" /\ Up
    /\ Release(c)
    /\ CGoto(c, "verify")
    /\ UNCHANGED <<kid, token, svars>>

\* bind() fails: another socket is on the port.  The lock is kept for the wait.
BindFails(c) ==
    /\ cpc[c] = "elect"
    /\ CGoto(c, "wait")
    /\ UNCHANGED <<kid, lock, token, svars>>

\* A process that has not been started yet.
Spare == \E s \in Server : spc[s] = "off"

Bind(c) ==
    /\ cpc[c] = "elect" /\ ~Up /\ Spare
    /\ CGoto(c, "token")
    /\ UNCHANGED <<kid, lock, token, svars>>

\* ensure_token: O_EXCL, and then the body; or it is there.
CreateToken(c) ==
    /\ cpc[c] = "token" /\ token = "absent"
    /\ token' = "empty"
    /\ CGoto(c, "write")
    /\ UNCHANGED <<kid, lock, svars>>

WriteToken(c) ==
    /\ cpc[c] = "write"
    /\ token' = "written"
    /\ CGoto(c, "spawn")
    /\ UNCHANGED <<kid, lock, svars>>

ReadToken(c) ==
    /\ cpc[c] = "token" /\ token = "written"
    /\ CGoto(c, "spawn")
    /\ UNCHANGED <<kid, lock, token, svars>>

\* Mutant of TokenEmpty: an empty token is a token.
TokenEmptyWillDo(c) ==
    /\ cpc[c] = "token" /\ token = "empty"
    /\ CGoto(c, "spawn")
    /\ UNCHANGED <<kid, lock, token, svars>>

\* _read_token_with_retry: nobody else can be about to write it, so the file stays
\* empty, and the RuntimeError ends the client.
TokenEmpty(c) ==
    /\ cpc[c] = "token" /\ token = "empty"
    /\ Release(c)
    /\ CGoto(c, "gone")
    /\ UNCHANGED <<kid, token, svars>>

\* Mutant of SpawnFails: an address in use ends the client like any other error.
SpawnFailsInUse(c) ==
    /\ cpc[c] \in {"elect", "token", "write", "spawn"}
    /\ Release(c)
    /\ CGoto(c, "gone")
    /\ UNCHANGED <<kid, token, svars>>

\* bind (for another reason), open, write or Popen raises, which ends the client; a
\* token file it has created stays.
SpawnFails(c) ==
    /\ cpc[c] \in {"elect", "token", "write", "spawn"}
    /\ cpc[c] = "elect" => ~Up
    /\ Release(c)
    /\ CGoto(c, "gone")
    /\ UNCHANGED <<kid, token, svars>>

\* The process the next Popen starts.
NextServer == CHOOSE s \in Server : spc[s] = "off"

\* Mutant of Spawn: the lock is released before the server is up.
SpawnAndRelease(c) ==
    /\ cpc[c] = "spawn" /\ Spare
    /\ SGoto(NextServer, "pid")
    /\ kid' = [kid EXCEPT ![c] = NextServer]
    /\ CGoto(c, "ready")
    /\ Release(c)
    /\ UNCHANGED <<token, pidf, metaf>>

\* Popen: a server with the bound socket; the lock is kept.
Spawn(c) ==
    /\ cpc[c] = "spawn" /\ Spare
    /\ SGoto(NextServer, "pid")
    /\ kid' = [kid EXCEPT ![c] = NextServer]
    /\ CGoto(c, "ready")
    /\ UNCHANGED <<lock, token, pidf, metaf>>

\* wait_for_server, under the lock: up, or the 5 s are over.
Ready(c) ==
    /\ cpc[c] = "ready" /\ Up
    /\ Release(c)
    /\ CGoto(c, "verify")
    /\ UNCHANGED <<kid, token, svars>>

\* Mutant of ReadyTimeout: wait_for_server has no deadline.
ReadyNoTimeout(c) ==
    /\ cpc[c] = "ready" /\ c \in Hasty
    /\ Release(c)
    /\ CGoto(c, "verify")
    /\ UNCHANGED <<kid, token, svars>>

ReadyTimeout(c) ==
    /\ cpc[c] = "ready" /\ ~Up
    /\ spc[kid[c]] = "gone" \/ c \in Hasty
    /\ Release(c)
    /\ CGoto(c, "verify")
    /\ UNCHANGED <<kid, token, svars>>

\* wait_for_server for 2 s, after which the client goes on either way.
Wait(c) ==
    /\ cpc[c] = "wait"
    /\ Release(c)
    /\ CGoto(c, "verify")
    /\ UNCHANGED <<kid, token, svars>>

\* The result of ensure_server_running is not looked at: the identity decides,
\* and a client that does not find it ends for good.  (It does if its notice is
\* read; Listener has the clients whose stdout nobody reads, which retry.)
Verify(c) ==
    /\ cpc[c] = "verify"
    /\ CGoto(c, IF IdentityOk THEN "dial" ELSE "gone")
    /\ UNCHANGED <<kid, lock, token, svars>>

\* The connection is refused or lost, and the back-off delay is over.
Lost(c) ==
    /\ cpc[c] = "dial"
    /\ CGoto(c, "probe")
    /\ UNCHANGED <<kid, lock, token, svars>>

\* The kernel releases the flock of a killed client.
Killed(c) ==
    /\ c \in Crashable /\ cpc[c] # "gone"
    /\ cpc[c] = "ready" => spc[kid[c]] \in {"serving", "gone"} \/ c \in Hasty
    /\ Release(c)
    /\ CGoto(c, "gone")
    /\ UNCHANGED <<kid, token, svars>>

-----------------------------------------------------------------------------
(* Server.serve *)

\* Mutant of WritePid: the pid of the parent process.
WriteParentPid(s) ==
    /\ spc[s] = "pid"
    /\ pidf' \in {c \in Client : kid[c] = s}
    /\ SGoto(s, "meta")
    /\ UNCHANGED <<metaf, cvars>>

\* write_server_identity: the pid file, then the metadata
WritePid(s) ==
    /\ spc[s] = "pid"
    /\ pidf' = s
    /\ SGoto(s, "meta")
    /\ UNCHANGED <<metaf, cvars>>

\* Mutant of WriteMeta: metadata that exist are kept.
WriteMetaOnce(s) ==
    /\ spc[s] = "meta"
    /\ metaf' = IF metaf = NoServer THEN s ELSE metaf
    /\ SGoto(s, "listen")
    /\ UNCHANGED <<pidf, cvars>>

WriteMeta(s) ==
    /\ spc[s] = "meta"
    /\ metaf' = s
    /\ SGoto(s, "listen")
    /\ UNCHANGED <<pidf, cvars>>

\* listen() and websockets.serve: EADDRINUSE if another server listens already.
Listen(s) ==
    /\ spc[s] = "listen"
    /\ SGoto(s, IF Up THEN "readPid" ELSE "serving")
    /\ UNCHANGED <<pidf, metaf, cvars>>

\* Any other exception before the socket listens.
StartFails(s) ==
    /\ s \in Faulty /\ spc[s] \in Starting
    /\ SGoto(s, "readPid")
    /\ UNCHANGED <<pidf, metaf, cvars>>

\* Idle shutdown, SIGTERM or SIGINT: the listening socket is closed first.
Stop(s) ==
    /\ spc[s] = "serving"
    /\ Handover \/ ~Spare
    /\ SGoto(s, "readPid")
    /\ UNCHANGED <<pidf, metaf, cvars>>

\* _unlink_own_identity: each file is read, and unlinked if it named this server.
ReadPid(s) ==
    /\ spc[s] = "readPid"
    /\ SGoto(s, IF pidf = s THEN "unlinkPid" ELSE "readMeta")
    /\ UNCHANGED <<pidf, metaf, cvars>>

UnlinkPid(s) ==
    /\ spc[s] = "unlinkPid"
    /\ pidf' = NoServer
    /\ SGoto(s, "readMeta")
    /\ UNCHANGED <<metaf, cvars>>

ReadMeta(s) ==
    /\ spc[s] = "readMeta"
    /\ SGoto(s, IF metaf = s THEN "unlinkMeta" ELSE "gone")
    /\ UNCHANGED <<pidf, metaf, cvars>>

UnlinkMeta(s) ==
    /\ spc[s] = "unlinkMeta"
    /\ metaf' = NoServer
    /\ SGoto(s, "gone")
    /\ UNCHANGED <<pidf, cvars>>

\* SIGKILL: the socket goes, the files stay.
Crash(s) ==
    /\ s \in Crashable /\ Alive(s)
    /\ SGoto(s, "gone")
    /\ UNCHANGED <<pidf, metaf, cvars>>

-----------------------------------------------------------------------------
Ensure(c) == \/ Probe(c) \/ Acquire(c) \/ AcquireTimeout(c) \/ Recheck(c)
             \/ BindFails(c) \/ Bind(c) \/ CreateToken(c) \/ WriteToken(c)
             \/ ReadToken(c) \/ TokenEmpty(c) \/ SpawnFails(c) \/ Spawn(c) \/ Ready(c)
             \/ ReadyTimeout(c) \/ Wait(c) \/ Verify(c)

Serve(s) == \/ WritePid(s) \/ WriteMeta(s) \/ Listen(s)
            \/ ReadPid(s) \/ UnlinkPid(s) \/ ReadMeta(s) \/ UnlinkMeta(s)

Next ==
    \/ \E c \in Client : Ensure(c) \/ Lost(c) \/ Killed(c)
    \/ \E s \in Server : Serve(s) \/ StartFails(s) \/ Stop(s) \/ Crash(s)

Spec == Init /\ [][Next]_vars

\* Processes run; connections are lost, and processes killed, by chance.
Fairness ==
    /\ \A c \in Client : WF_vars(Ensure(c))
    /\ \A s \in Server : WF_vars(Serve(s))

FairSpec == Spec /\ Fairness

-----------------------------------------------------------------------------
(* Properties *)

\* Of all the servers that are spawned, at any time at most one is on its way to
\* the listening socket or has it (ensure_server_running).
OneElected ==
    \A s, t \in Server : {spc[s], spc[t]} \subseteq Starting \cup {"serving"} => s = t

\* "publish identity before TCP probes can succeed" (server.py:105): both files
\* name the server that listens, as long as it listens.
IdentityPublished ==
    \A s \in Server : spc[s] = "serving" => pidf = s /\ metaf = s

\* Nothing that needs the token finds it missing or empty, wherever an elector died
\* before: no server is spawned without it, so none reads it or lets a client in
\* (Server.serve, Client._connect_and_serve).
TokenFirst == (\E s \in Server : spc[s] # "off") => token = "written"

\* What the callers of ensure_server_running may rely on, whoever dies on the way:
\* one server at a time, and no client gives up while one is there.
Serving == {s \in Server : spc[s] = "serving"}
Retired == {s \in Server : spc[s] \in Cleaning \cup {"gone"}}
Standing == [c \in Client |-> CASE cpc[c] = "dial" -> "dialing"
                                [] cpc[c] = "gone" -> "gone"
                                [] OTHER -> "looking"]
Svc == INSTANCE Service WITH Mortal <- Crashable \cap Client,
            serving <- Serving, retired <- Retired, client <- Standing
ImplementsService == Svc!Spec

\* A client leaves ensure_server_running and the identity check, whoever holds
\* the election lock and whatever becomes of the servers.
EnsureEnds == \A c \in Client : (cpc[c] = "probe") ~> (cpc[c] \in {"dial", "gone"})

\* "Holding a flock around the bind+spawn+listen sequence serializes the election
\* so this race cannot occur" (spawn.py:50-51): nobody loses inside listen().
NoListenRace ==
    \A s \in Server : spc[s] = "listen" => ~Up

\* "No race window for legit clients" (shared.py:384): while a server listens, no
\* client that nobody kills ends because it does not find the server's identity.
LegitVerified ==
    [][\A c \in Client : cpc[c] = "verify" /\ cpc'[c] = "gone" /\ Up => IdentityOk]_vars
=============================================================================

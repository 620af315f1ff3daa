------------------------------- MODULE Listener -------------------------------
(***************************************************************************)
(* The listener processes (bin/client.py) one Claude Code session may      *)
(* start, and the helper CLIs that find them: the <key>.lock flock, the    *)
(* <key>.session state file, the reconnect loop of Client.run, the owner   *)
(* watch, the stale-state clean-up of discover.unlink_if_matches, and the  *)
(* escalation by which bin/disconnect.py ends a listener.                  *)
(*                                                                         *)
(* A listener's stdout is read by its Claude Code process.  When nobody    *)
(* reads it any more _print_line raises BrokenPipeError, so that whatever  *)
(* the code does after a notice is left undone.                            *)
(*                                                                         *)
(* What the server answers is open: any reply it can give, at any time.    *)
(***************************************************************************)
EXTENDS Naturals

CONSTANTS
    Monitor,       \* client.py processes with the same listener key
    Helper,        \* send.py / list.py / disconnect.py processes, rerun at will
    None,          \* nobody holds the lock; there is no state file
    MaxCollisions, \* max_collision_retries
    Killable,      \* monitors that may crash, or be too slow for a helper's deadlines
    Hung,          \* monitors that may do nothing any more
    Watched,       \* monitors with an owner to watch: owner_pid > 0, and psutil
    Unread         \* monitors whose stdout may lose its reader

ASSUME ListenerAssumption ==
    /\ None \notin Monitor \cup Helper
    /\ Monitor \cap Helper = {}
    /\ MaxCollisions \in Nat
    /\ Killable \subseteq Monitor /\ Hung \subseteq Killable
    /\ Watched \subseteq Monitor /\ Unread \subseteq Monitor

VARIABLES
    pc,       \* where a monitor is
    stop,     \* _stop: the monitor has been told to end
    retries,  \* _collision_retries
    forced,   \* history: where a 4001 close (force disconnect) met the monitor;
              \* "mute" is listening without a reader of its stdout
    owner,    \* the owning Claude Code process is alive
    heard,    \* the monitors whose stdout has a reader
    lock,     \* holder of the flock on <key>.lock
    file,     \* the monitor whose session_id and nonce are in <key>.session
    hpc,      \* where a helper is
    seen,     \* the state a helper has read
    ending    \* the helper is a disconnect.py

vars == <<pc, stop, retries, forced, owner, heard, lock, file, hpc, seen, ending>>

mvars == <<pc, stop, retries, forced>>
hvars == <<hpc, seen, ending>>

Loop == {"connect", "hello", "listening", "backoff"}

TypeOK ==
    /\ pc \in [Monitor -> Loop \cup {"off", "closing", "unlocked", "gone"}]
    /\ stop \in [Monitor -> BOOLEAN]
    /\ retries \in [Monitor -> 0 .. MaxCollisions]
    /\ forced \in [Monitor -> {"no", "hello", "listening", "mute"}]
    /\ owner \in BOOLEAN
    /\ heard \subseteq Monitor
    /\ lock \in Monitor \cup Helper \cup {None}
    /\ file \in Monitor \cup {None}
    /\ hpc \in [Helper -> {"idle", "asked", "stale", "locked", "unlink", "release",
                           "grace", "term", "termed", "kill"}]
    /\ seen \in [Helper -> Monitor \cup {None}]
    /\ ending \in [Helper -> BOOLEAN]

Init ==
    /\ pc = [m \in Monitor |-> "off"]
    /\ stop = [m \in Monitor |-> FALSE]
    /\ retries = [m \in Monitor |-> 0]
    /\ forced = [m \in Monitor |-> "no"]
    /\ owner = TRUE
    /\ heard = Monitor
    /\ lock = None
    /\ file = None
    /\ hpc = [h \in Helper |-> "idle"]
    /\ seen = [h \in Helper |-> None]
    /\ ending = [h \in Helper |-> FALSE]

\* The monitor holds the lock: from its flock until run() closes the fd.
Running(m) == pc[m] \in Loop \cup {"closing"}

Alive(m) == pc[m] \notin {"off", "gone"}

Goto(m, l) == pc' = [pc EXCEPT ![m] = l]
SetStop(m) == stop' = [stop EXCEPT ![m] = TRUE]

\* _print_line and then _stop.set().  If nobody reads, run() takes the
\* BrokenPipeError for a connection that failed, and retries.
GivesUp(m) ==
    IF m \in heard THEN Goto(m, "closing") /\ SetStop(m)
                   ELSE Goto(m, "backoff") /\ UNCHANGED stop

-----------------------------------------------------------------------------
(* Client.run *)

\* Mutant of Start: the lock is taken without a look at its holder.
StartAnyway(m) ==
    /\ pc[m] = "off"
    /\ lock' = m /\ Goto(m, "connect")
    /\ UNCHANGED <<stop, retries, forced, owner, heard, file, hvars>>

\* _acquire_ppid_lock: LOCK_NB, so whoever meets a held lock exits, without
\* having registered the atexit handler.
Start(m) ==
    /\ pc[m] = "off"
    /\ IF lock = None THEN lock' = m /\ Goto(m, "connect")
                      ELSE UNCHANGED lock /\ Goto(m, "gone")
    /\ UNCHANGED <<stop, retries, forced, owner, heard, file, hvars>>

\* ensure_server_running, then the head of _connect_and_serve: hello is sent,
\* or the connection is refused, or the monitor gives up: the identity check
\* fails, or, whether it can print that or not, the handshake is invalid or the
\* token cannot be read.
Connect(m) ==
    /\ pc[m] = "connect" /\ ~stop[m]
    /\ \/ Goto(m, "hello") /\ UNCHANGED stop
       \/ Goto(m, "backoff") /\ UNCHANGED stop
       \/ GivesUp(m)
       \/ Goto(m, "closing") /\ UNCHANGED stop
    /\ UNCHANGED <<retries, forced, owner, heard, lock, file, hvars>>

\* welcome: the state file is replaced atomically
Welcomed(m) ==
    /\ pc[m] = "hello" /\ ~stop[m]
    /\ file' = m
    /\ Goto(m, "listening")
    /\ UNCHANGED <<stop, retries, forced, owner, heard, lock, hvars>>

\* Mutant of NameTaken: the bound is off by one.
NameTakenOnceMore(m) ==
    /\ pc[m] = "hello" /\ ~stop[m]
    /\ IF retries[m] <= MaxCollisions
       THEN /\ retries' = [retries EXCEPT ![m] = @ + 1]
            /\ Goto(m, "backoff") /\ UNCHANGED stop
       ELSE GivesUp(m) /\ UNCHANGED retries
    /\ UNCHANGED <<forced, owner, heard, lock, file, hvars>>

\* name_taken: reconnect under the suggested name, up to max_collision_retries
\* times in the life of the process.
NameTaken(m) ==
    /\ pc[m] = "hello" /\ ~stop[m]
    /\ IF retries[m] < MaxCollisions
       THEN /\ retries' = [retries EXCEPT ![m] = @ + 1]
            /\ Goto(m, "backoff") /\ UNCHANGED stop
       ELSE GivesUp(m) /\ UNCHANGED retries
    /\ UNCHANGED <<forced, owner, heard, lock, file, hvars>>

\* any other error reply
Rejected(m) ==
    /\ pc[m] = "hello" /\ ~stop[m]
    /\ GivesUp(m)
    /\ UNCHANGED <<retries, forced, owner, heard, lock, file, hvars>>

\* The connection closes before the reply: ConnectionClosed reaches run(), which
\* does not look at the close code.  (A reply that is no welcome and no error, or
\* a state file that cannot be written, takes the same way.)
ClosedInHello(m) ==
    /\ pc[m] = "hello" /\ ~stop[m]
    /\ Goto(m, "backoff")
    /\ \/ UNCHANGED forced
       \/ forced' = [forced EXCEPT ![m] = IF @ = "no" THEN "hello" ELSE @]
    /\ UNCHANGED <<stop, retries, owner, heard, lock, file, hvars>>

\* Mutant of ClosedListening: the close code is not looked at.
ClosedListeningAnyCode(m) ==
    /\ pc[m] = "listening" /\ ~stop[m]
    /\ Goto(m, "backoff")
    /\ \/ UNCHANGED forced
       \/ forced' = [forced EXCEPT ![m] = IF m \in heard THEN "listening" ELSE "mute"]
    /\ UNCHANGED <<stop, retries, owner, heard, lock, file, hvars>>

\* The connection closes while listening (or the monitor leaves it, because it
\* cannot print a message): 4001 ends the monitor, if it can say so.
ClosedListening(m) ==
    /\ pc[m] = "listening" /\ ~stop[m]
    /\ \/ Goto(m, "backoff") /\ UNCHANGED <<stop, forced>>
       \/ /\ forced' = [forced EXCEPT ![m] = IF m \in heard THEN "listening" ELSE "mute"]
          /\ GivesUp(m)
    /\ UNCHANGED <<retries, owner, heard, lock, file, hvars>>

\* The back-off delay is over.
Retry(m) ==
    /\ pc[m] = "backoff" /\ ~stop[m]
    /\ Goto(m, "connect")
    /\ UNCHANGED <<stop, retries, forced, owner, heard, lock, file, hvars>>

\* Mutant of Stopped: the lock is given up before the loop has wound down.
StoppedUnlocked(m) ==
    /\ pc[m] \in Loop /\ stop[m]
    /\ Goto(m, "closing")
    /\ lock' = None
    /\ UNCHANGED <<stop, retries, forced, owner, heard, file, hvars>>

\* _stop is set: the connect task is cancelled, the delay cut short.
Stopped(m) ==
    /\ pc[m] \in Loop /\ stop[m]
    /\ Goto(m, "closing")
    /\ UNCHANGED <<stop, retries, forced, owner, heard, lock, file, hvars>>

\* SIGTERM or SIGINT
Signal(m) ==
    /\ pc[m] \in Loop /\ ~stop[m]
    /\ SetStop(m)
    /\ UNCHANGED <<pc, retries, forced, owner, heard, lock, file, hvars>>

\* Mutant of Watch: only a listening monitor is watched.
WatchListening(m) ==
    /\ m \in Watched \cap heard /\ pc[m] = "listening" /\ ~stop[m] /\ ~owner
    /\ SetStop(m)
    /\ UNCHANGED <<pc, retries, forced, owner, heard, lock, file, hvars>>

\* _owner_watch_loop, which prints before it stops.  A notice nobody reads raises,
\* the loop swallows that and comes round again: nothing changes.
Watch(m) ==
    /\ m \in Watched \cap heard /\ pc[m] \in Loop /\ ~stop[m] /\ ~owner
    /\ SetStop(m)
    /\ UNCHANGED <<pc, retries, forced, owner, heard, lock, file, hvars>>

OwnerDies ==
    /\ owner
    /\ owner' = FALSE
    /\ UNCHANGED <<mvars, heard, lock, file, hvars>>

\* The reader of a monitor's stdout is gone: its Claude Code process, or whoever
\* read in its place.  Nobody can take over the reading end.
ReaderGone(m) ==
    /\ m \in Unread \cap heard
    /\ heard' = heard \ {m}
    /\ UNCHANGED <<mvars, owner, lock, file, hvars>>

\* Mutant of Unlock: the process ends without its atexit handler.
UnlockOnly(m) ==
    /\ pc[m] = "closing"
    /\ lock' = None
    /\ Goto(m, "gone")
    /\ UNCHANGED <<stop, retries, forced, owner, heard, file, hvars>>

\* run()'s finally: the lock's fd is closed
Unlock(m) ==
    /\ pc[m] = "closing"
    /\ lock' = None
    /\ Goto(m, "unlocked")
    /\ UNCHANGED <<stop, retries, forced, owner, heard, file, hvars>>

\* The atexit handler _delete_session_state, whatever is in the file by now.
Atexit(m) ==
    /\ pc[m] = "unlocked"
    /\ file' = None
    /\ Goto(m, "gone")
    /\ UNCHANGED <<stop, retries, forced, owner, heard, lock, hvars>>

\* The process ends without running its atexit handler: the kernel frees the
\* flock, the file stays.
Ends(m) ==
    /\ lock' = IF lock = m THEN None ELSE lock
    /\ Goto(m, "gone")
    /\ UNCHANGED <<stop, retries, forced, owner, heard, file>>

\* A crash, or a SIGKILL from elsewhere
Kill(m) == m \in Killable /\ Alive(m) /\ Ends(m) /\ UNCHANGED hvars

-----------------------------------------------------------------------------
(* A helper: find_listener_state, a control hello, on unknown_peer or
   unauthorized unlink_if_matches; and disconnect.py, which goes on from there
   and after an acknowledged force_disconnect, or without a server, to see to it
   that the listener's process ends. *)

HGoto(h, l) == hpc' = [hpc EXCEPT ![h] = l]

Done(h) ==
    /\ HGoto(h, "idle")
    /\ seen' = [seen EXCEPT ![h] = None]
    /\ ending' = [ending EXCEPT ![h] = FALSE]

\* The clean-up is over: disconnect.py goes on to _reap_local_listener.
Cleaned(h) ==
    IF ending[h] THEN HGoto(h, "grace") /\ UNCHANGED <<seen, ending>> ELSE Done(h)

ReadState(h) ==
    /\ hpc[h] = "idle" /\ file # None
    /\ seen' = [seen EXCEPT ![h] = file]
    /\ \E b \in BOOLEAN : ending' = [ending EXCEPT ![h] = b]
    /\ HGoto(h, "asked")
    /\ UNCHANGED <<mvars, owner, heard, lock, file>>

\* The server knows the listener, or it does not: it may not know a live one
\* either, that is between two connections.  disconnect.py also ends on an error,
\* and goes on if the server cannot be reached.
Asked(h) ==
    /\ hpc[h] = "asked"
    /\ \/ Done(h)
       \/ HGoto(h, "stale") /\ UNCHANGED <<seen, ending>>
       \/ ending[h] /\ HGoto(h, "grace") /\ UNCHANGED <<seen, ending>>
    /\ UNCHANGED <<mvars, owner, heard, lock, file>>

\* Mutant of TryLock: the clean-up goes ahead without the lock.
TryLockAnyway(h) ==
    /\ hpc[h] = "stale"
    /\ lock' = IF lock = None THEN h ELSE lock
    /\ HGoto(h, "locked") /\ UNCHANGED <<seen, ending>>
    /\ UNCHANGED <<mvars, owner, heard, file>>

\* LOCK_NB on the listener's own lock
TryLock(h) ==
    /\ hpc[h] = "stale"
    /\ IF lock = None
       THEN lock' = h /\ HGoto(h, "locked") /\ UNCHANGED <<seen, ending>>
       ELSE UNCHANGED lock /\ Cleaned(h)
    /\ UNCHANGED <<mvars, owner, heard, file>>

Compare(h) ==
    /\ hpc[h] = "locked"
    /\ HGoto(h, IF file = seen[h] THEN "unlink" ELSE "release")
    /\ UNCHANGED <<mvars, owner, heard, lock, file, seen, ending>>

Unlink(h) ==
    /\ hpc[h] = "unlink"
    /\ file' = None
    /\ HGoto(h, "release")
    /\ UNCHANGED <<mvars, owner, heard, lock, seen, ending>>

Release(h) ==
    /\ hpc[h] = "release"
    /\ lock' = IF lock = h THEN None ELSE lock
    /\ Cleaned(h)
    /\ UNCHANGED <<mvars, owner, heard, file>>

\* _reap_local_listener: the process may go by itself; if it does not in time, and
\* is still a client.py, it is signalled.
Grace(h) ==
    /\ hpc[h] = "grace"
    /\ IF Alive(seen[h]) THEN HGoto(h, "term") /\ UNCHANGED <<seen, ending>> ELSE Done(h)
    /\ UNCHANGED <<mvars, owner, heard, lock, file>>

\* SIGTERM.  The handler goes with the event loop: in the end, before and during
\* the atexit handler, the signal kills.
Term(h) ==
    LET m == seen[h] IN
    /\ hpc[h] = "term" /\ HGoto(h, "termed") /\ UNCHANGED <<seen, ending>>
    /\ CASE pc[m] \in Loop -> SetStop(m) /\ UNCHANGED <<pc, retries, forced, owner, heard, lock, file>>
         [] pc[m] = "unlocked" -> m \in Killable /\ Ends(m)
         [] OTHER -> UNCHANGED <<mvars, owner, heard, lock, file>>

\* Mutant of Termed: the signal is taken for the end.
TermedTrusting(h) == hpc[h] = "termed" /\ Done(h) /\ UNCHANGED <<mvars, owner, heard, lock, file>>

\* A listener outside Killable is gone in time.
Termed(h) ==
    /\ hpc[h] = "termed"
    /\ IF Alive(seen[h])
       THEN seen[h] \in Killable /\ HGoto(h, "kill") /\ UNCHANGED <<seen, ending>>
       ELSE Done(h)
    /\ UNCHANGED <<mvars, owner, heard, lock, file>>

\* SIGKILL
SigKill(h) ==
    /\ hpc[h] = "kill" /\ Done(h)
    /\ IF Alive(seen[h]) THEN Ends(seen[h]) ELSE UNCHANGED <<mvars, owner, heard, lock, file>>

-----------------------------------------------------------------------------
\* What a monitor does without being told to by anybody.
Proceed(m) == Retry(m) \/ Stopped(m) \/ Unlock(m) \/ Atexit(m)

Serve(m) == \/ Start(m) \/ Connect(m) \/ Welcomed(m) \/ NameTaken(m) \/ Rejected(m)
            \/ ClosedInHello(m) \/ ClosedListening(m) \/ Signal(m) \/ Kill(m)

Help(h) == \/ ReadState(h) \/ Asked(h) \/ TryLock(h) \/ Compare(h) \/ Unlink(h)
           \/ Release(h)

Reap(h) == Grace(h) \/ Term(h) \/ Termed(h) \/ SigKill(h)

Next ==
    \/ \E m \in Monitor : Proceed(m) \/ Serve(m) \/ Watch(m) \/ ReaderGone(m)
    \/ \E h \in Helper : Help(h) \/ Reap(h)
    \/ OwnerDies

Spec == Init /\ [][Next]_vars

\* A process that can run does, unless it hangs, and the owner watch polls (every
\* 10 s) while the loop goes round.  disconnect.py's waits have deadlines.
\* Nothing is assumed of the server, of signals or of the rest of a helper.
Fairness ==
    /\ \A m \in Monitor \ Hung : WF_vars(Proceed(m)) /\ WF_vars(Watch(m))
    /\ \A h \in Helper : WF_vars(Reap(h))

FairSpec == Spec /\ Fairness

\* A server that is there and answers, or closes.
Answered(m) == Welcomed(m) \/ NameTaken(m) \/ Rejected(m) \/ ClosedInHello(m)

AnsweredSpec ==
    FairSpec /\ \A m \in Monitor : WF_vars(Connect(m)) /\ WF_vars(Answered(m))

-----------------------------------------------------------------------------
(* Properties *)

\* The flock admits one listener per session, across exits, crashes and the
\* helpers that borrow the same lock (_acquire_ppid_lock, unlink_if_matches).
OneListener ==
    \A m, n \in Monitor : Running(m) /\ Running(n) => m = n

\* A helper's clean-up never deletes the state of a listener that runs, even if
\* the listener started after the helper had read the file (unlink_if_matches).
HelpersSpareListeners ==
    [][(\E h \in Helper : hpc[h] = "unlink" /\ hpc'[h] # "unlink")
            => file = None \/ ~Running(file)]_vars

\* The session as a helper may rely on it: starts, ends, crashes and clean-ups, in
\* any order, leave one seat, and a file that is the seated listener's to write.
Started == {m \in Monitor : pc[m] # "off"}
Seated == {m \in Monitor : Running(m)}
Leaving == {m \in Monitor : pc[m] = "unlocked"}
Sess == INSTANCE Session
            WITH started <- Started, seated <- Seated, leaving <- Leaving
ImplementsSession == Sess!Spec

\* "Clients that observe this code on their socket-close must exit instead of
\* reconnecting" (shared.py:39-40): no hello after a 4001 close met the monitor while
\* it listened, and while its stdout was read.
NoRejoin ==
    [][\A m \in Monitor : pc[m] = "connect" /\ pc'[m] = "hello"
                             => forced[m] # "listening"]_vars

\* When the owning session is gone its listeners end, whatever the server does, or
\* nobody reads what they print (_owner_watch_loop).
OwnerGoneNoticed ==
    \A m \in Watched \ Hung : ~owner ~> ~Running(m) \/ m \notin heard

\* "When that pid disappears, the monitor has no useful work to do (its stdout has
\* no reader) and should exit" (client.py:277-278).
OwnerGoneEnds == \A m \in Watched \ Hung : ~owner ~> ~Running(m)

\* A listener that ends by itself leaves no state file of its own behind.
StateDeleted == \A m \in Monitor \ Killable : (pc[m] = "closing") ~> (file # m)

\* A disconnect that has its acknowledgement, finds no server or finds the server
\* ignorant of the listener ends that listener's process, hung or not, whether or
\* not the close code ever reaches it (_reap_local_listener).
DisconnectEnds ==
    \A h \in Helper, m \in Monitor :
        (hpc[h] = "grace" /\ seen[h] = m) ~> pc[m] = "gone"

\* "The listener is the authority over its state file" (test_helpers.py:293-295):
\* while it listens, nobody else removes the file.
StateKept ==
    [][\A m \in Monitor : pc[m] = "listening" /\ file = m /\ pc'[m] = "listening"
                             => file' = m]_vars
=============================================================================

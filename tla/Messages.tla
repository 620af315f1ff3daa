------------------------------- MODULE Messages -------------------------------
(***************************************************************************)
(* What the bus server decides about a message (bin/server.py) before it   *)
(* is sent round: whom a direct message is for (_resolve_send_target),     *)
(* whether its sender may broadcast once more (_handle_broadcast), and     *)
(* where it is logged (_log_message, shared.rotate_log_if_needed).  The    *)
(* delivery itself is BusServer's subject.                                 *)
(*                                                                         *)
(* From the liveness check to the log line a handler does not await, so a  *)
(* message is one action.  Strings are members of Text; all that counts of *)
(* them is which are prefixes of which, and which have four characters.    *)
(***************************************************************************)
EXTENDS Integers, Sequences, FiniteSets

CONSTANTS
    Sid,       \* session ids
    Name,      \* names a session may have (one may look like a session id)
    Text,      \* what a target may be written as: ids, names, prefixes
    Empty,     \* the empty string
    Absent,    \* in place of a name: the session is not registered
    Prefixes,  \* the pairs <<t, u>> of Text where u.startswith(t)
    Short,     \* the texts of fewer than four characters
    Sender,    \* sessions that send
    Limit,     \* BROADCAST_RATE_LIMIT_PER_MIN
    Window,    \* the minute, in steps of the clock
    MaxSize,   \* MESSAGES_LOG_MAX_BYTES, in messages
    Backups,   \* MESSAGES_LOG_BACKUPS
    MaxTime,   \* bound: steps of the clock
    MaxLogged  \* bound: messages

ASSUME MessagesAssumption ==
    /\ Sid \cup Name \cup {Empty} \subseteq Text
    /\ Absent \notin Text /\ Empty \notin Sid \cup Name
    /\ Prefixes \subseteq Text \X Text /\ Short \subseteq Text
    /\ Sender \subseteq Sid
    /\ Limit \in Nat \ {0} /\ Window \in Nat
    /\ MaxSize \in Nat /\ Backups \in Nat \ {0}
    /\ MaxTime \in Nat /\ MaxLogged \in Nat

VARIABLES
    name,     \* the registry: the name of each session that is registered
    open,     \* sessions with an agent connection, registered or evicted
    now,      \* time.monotonic()
    window,   \* _broadcast_windows: per session, when it has broadcast
    files,    \* messages.log (0) and its generations, as sets of messages
    logged,   \* the messages logged so far are 1 .. logged
    accepted  \* history: when each session has broadcast in this server's life

vars == <<name, open, now, window, files, logged, accepted>>

Times == Seq(0 .. MaxTime)

TypeOK ==
    /\ name \in [Sid -> Name \cup {Empty, Absent}]
    /\ open \in SUBSET Sid
    /\ now \in 0 .. MaxTime
    /\ window \in [Sid -> {w \in Times : Len(w) <= Limit}]
    /\ files \in [0 .. Backups -> SUBSET (1 .. MaxLogged)]
    /\ logged \in 0 .. MaxLogged
    /\ accepted \in [Sid -> Times]

Init ==
    /\ name = [s \in Sid |-> Absent]
    /\ open = {}
    /\ now = 0
    /\ window = [s \in Sid |-> <<>>]
    /\ files = [i \in 0 .. Backups |-> {}]
    /\ logged = 0
    /\ accepted = [s \in Sid |-> <<>>]

Agents == {s \in Sid : name[s] # Absent}

-----------------------------------------------------------------------------
(* The registry *)

Free(n, s) == n = Empty \/ \A r \in Sid \ {s} : name[r] # n

Join(s, n) ==
    /\ name[s] = Absent /\ Free(n, s)
    /\ name' = [name EXCEPT ![s] = n]
    /\ open' = open \cup {s}
    /\ UNCHANGED <<now, window, files, logged, accepted>>

Rename(s, n) ==
    /\ name[s] \notin {Absent, n} /\ Free(n, s)
    /\ name' = [name EXCEPT ![s] = n]
    /\ UNCHANGED <<open, now, window, files, logged, accepted>>

\* force_disconnect or the reaper: the connection is closed some time later.
Evict(s) ==
    /\ name[s] # Absent
    /\ name' = [name EXCEPT ![s] = Absent]
    /\ UNCHANGED <<open, now, window, files, logged, accepted>>

\* The agent's handler ends.
Close(s) ==
    /\ s \in open
    /\ name' = [name EXCEPT ![s] = Absent]
    /\ open' = open \ {s}
    /\ UNCHANGED <<now, window, files, logged, accepted>>

-----------------------------------------------------------------------------
(* _resolve_send_target *)

Named(t) == {d \in Agents : name[d] = t /\ t # Empty}

NamedLike(t) == {d \in Agents : name[d] # Empty /\ t # Empty
                                /\ <<t, name[d]>> \in Prefixes}

IdLike(t) == {d \in Agents : t \notin Short /\ <<t, d>> \in Prefixes}

\* Mutant of Reaches: names before session ids.
ReachesByName(s, t, d) ==
    /\ d # s
    /\ IF Named(t) # {} THEN d \in Named(t)
       ELSE IF t \in Agents THEN d = t
       ELSE IF NamedLike(t) # {} THEN NamedLike(t) = {d}
       ELSE IdLike(t) = {d}

\* Session s reaches d with target t, read as a session id, as a name (that of
\* the first agent found with it), as the beginning of a name, as the beginning
\* of a session id.  Otherwise it is told that the peer is unknown, that the
\* target is ambiguous, or that it is itself the target.
Reaches(s, t, d) ==
    /\ d # s
    /\ IF t \in Agents THEN d = t
       ELSE IF Named(t) # {} THEN d \in Named(t)
       ELSE IF NamedLike(t) # {} THEN NamedLike(t) = {d}
       ELSE IdLike(t) = {d}

-----------------------------------------------------------------------------
(* _log_message and rotate_log_if_needed *)

\* Mutant of Rotated: what is in the last generation is not replaced.
RotatedKeeping(f, j) ==
    [i \in 0 .. Backups |-> IF i < j - 1 \/ (i = Backups /\ f[i] # {}) THEN f[i]
                            ELSE IF i = j - 1 THEN {} ELSE f[i - 1]]

\* The files after the loop's steps Backups, ..., j: each generation from j on
\* has become what its predecessor was.  A missing file is an empty set.
Rotated(f, j) ==
    [i \in 0 .. Backups |-> IF i < j - 1 THEN f[i]
                            ELSE IF i = j - 1 THEN {} ELSE f[i - 1]]

Full == Cardinality(files[0]) > MaxSize

\* The next message is appended, after a rotation if that is due.
Log ==
    LET f == IF Full THEN Rotated(files, 1) ELSE files
    IN  /\ logged < MaxLogged
        /\ logged' = logged + 1
        /\ files' = [f EXCEPT ![0] = @ \cup {logged + 1}]

\* What a crash in the middle of a rotation leaves: the oldest generation has
\* been unlinked, and perhaps some of the others have been renamed.
HalfRotated == {Rotated(files, j) : j \in 1 .. Backups}
               \cup {[files EXCEPT ![Backups] = {}]}

-----------------------------------------------------------------------------
(* Messages *)

Role == {"agent", "control"}

\* _listener_alive_locked: an agent's own connection always passes.
MaySend(s, role) == IF role = "agent" THEN s \in open ELSE s \in Agents

\* _handle_send
Send(s, role, t) ==
    /\ MaySend(s, role)
    /\ \E d \in Agents : Reaches(s, t, d)
    /\ Log
    /\ UNCHANGED <<name, open, now, window, accepted>>

Old(x) == now - x > Window

\* Mutant of Fresh: the boundary is off by one.
FreshLess(w) ==
    LET k == CHOOSE k \in 0 .. Len(w) :
                /\ \A i \in 1 .. k : now - w[i] >= Window
                /\ k < Len(w) => ~(now - w[k + 1] >= Window)
    IN  SubSeq(w, k + 1, Len(w))

\* The window when the entries at its head that are too old have been dropped.
Fresh(w) ==
    LET k == CHOOSE k \in 0 .. Len(w) : /\ \A i \in 1 .. k : Old(w[i])
                                        /\ k < Len(w) => ~Old(w[k + 1])
    IN  SubSeq(w, k + 1, Len(w))

\* Mutant of Broadcast: the quota is charged before the listener is looked for.
BroadcastCharged(s, role) ==
    /\ s \in open \/ role = "control"
    /\ Len(Fresh(window[s])) < Limit
    /\ window' = [window EXCEPT ![s] = Append(Fresh(@), now)]
    /\ IF MaySend(s, role)
       THEN accepted' = [accepted EXCEPT ![s] = Append(@, now)] /\ Log
       ELSE UNCHANGED <<accepted, files, logged>>
    /\ UNCHANGED <<name, open, now>>

\* Mutant of Broadcast: the limit is off by one.
BroadcastOnceMore(s, role) ==
    /\ MaySend(s, role)
    /\ Len(Fresh(window[s])) <= Limit
    /\ window' = [window EXCEPT ![s] = Append(Fresh(@), now)]
    /\ accepted' = [accepted EXCEPT ![s] = Append(@, now)]
    /\ Log
    /\ UNCHANGED <<name, open, now>>

\* _handle_broadcast within the limit
Broadcast(s, role) ==
    /\ MaySend(s, role)
    /\ Len(Fresh(window[s])) < Limit
    /\ window' = [window EXCEPT ![s] = Append(Fresh(@), now)]
    /\ accepted' = [accepted EXCEPT ![s] = Append(@, now)]
    /\ Log
    /\ UNCHANGED <<name, open, now>>

\* rate_limited
BroadcastRefused(s, role) ==
    /\ MaySend(s, role)
    /\ Len(Fresh(window[s])) >= Limit
    /\ window' = [window EXCEPT ![s] = Fresh(@)]
    /\ UNCHANGED <<name, open, now, files, logged, accepted>>

-----------------------------------------------------------------------------
Pass ==
    /\ now < MaxTime
    /\ now' = now + 1
    /\ UNCHANGED <<name, open, window, files, logged, accepted>>

\* The server is killed, maybe while it rotates, and another one starts: what it
\* had in memory is gone.
Crash ==
    /\ files' \in IF Full THEN HalfRotated \cup {files} ELSE {files}
    /\ name' = [s \in Sid |-> Absent]
    /\ open' = {}
    /\ window' = [s \in Sid |-> <<>>]
    /\ accepted' = [s \in Sid |-> <<>>]
    /\ UNCHANGED <<now, logged>>

Message(s) ==
    \E role \in Role : \/ Broadcast(s, role) \/ BroadcastRefused(s, role)
                       \/ \E t \in Text : Send(s, role, t)

Next ==
    \/ \E s \in Sid : \/ Evict(s) \/ Close(s)
                      \/ \E n \in Name \cup {Empty} : Join(s, n) \/ Rename(s, n)
    \/ \E s \in Sender : Message(s)
    \/ Pass \/ Crash

Spec == Init /\ [][Next]_vars

-----------------------------------------------------------------------------
(* Properties *)

\* How well target t describes agent d; smaller is better, 5 is not at all.
Rank(d, t) ==
    IF t = d THEN 1
    ELSE IF t # Empty /\ t = name[d] THEN 2
    ELSE IF t # Empty /\ name[d] # Empty /\ <<t, name[d]>> \in Prefixes THEN 3
    ELSE IF t \notin Short /\ <<t, d>> \in Prefixes THEN 4
    ELSE 5

\* A direct message reaches an agent exactly if the target describes it, and every
\* other agent, the sender included, worse: nobody gets what was meant for an
\* exact match of somebody else, or what could have been meant for two, and a
\* name that looks like a session id takes nothing from that session.
ReachesBestMatch ==
    \A s \in Sid, t \in Text, d \in Agents :
        Reaches(s, t, d) <=> /\ d # s /\ Rank(d, t) < 5
                             /\ \A e \in Agents \ {d} : Rank(e, t) > Rank(d, t)

\* Any Limit + 1 broadcasts one after the other of a listener, by itself and by
\* its helpers, evicted and registered again or not, take more than the window.
RateBound ==
    \A s \in Sid : \A i \in 1 .. Len(accepted[s]) - Limit :
        accepted[s][i + Limit] - accepted[s][i] > Window

\* A broadcast would be refused exactly if the listener has had all its
\* broadcasts in the last minute: no attempt that failed has cost it any.
QuotaExact ==
    \A s \in Sid :
        Len(Fresh(window[s])) >= Limit
            <=> Cardinality({i \in DOMAIN accepted[s] : ~Old(accepted[s][i])}) >= Limit

Kept == UNION {files[i] : i \in 0 .. Backups}

\* The files hold the newest messages without a gap, older ones in higher
\* generations, wherever the server was killed (rotate_log_if_needed).
LogHasNoGap ==
    /\ \A x \in Kept : \A y \in x .. logged : y \in Kept
    /\ \A i, j \in 0 .. Backups : i < j => \A x \in files[i], y \in files[j] : y < x

\* "Standard shift: drop the oldest": a message is lost only from the last
\* generation, also by a server that finds a half-finished rotation.
DropsOldestOnly == [][Kept \ Kept' \subseteq files[Backups]]_vars
=============================================================================

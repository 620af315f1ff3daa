---------------------------- MODULE ListenerProofs ----------------------------
(***************************************************************************)
(* Theorems about Listener, for any number of listeners and helpers.       *)
(***************************************************************************)
EXTENDS Listener, TLAPS

\* The flock is held by the listener that runs, and by the helper that has it;
\* that a listener was told to go stays true of it.
LockInv ==
    /\ \A m \in Monitor : Running(m) => lock = m
    /\ \A h \in Helper : hpc[h] \in {"locked", "unlink", "release"} => lock = h
    /\ \A m \in Monitor : forced[m] = "listening" => stop[m]

Inv == TypeOK /\ LockInv

LEMMA InitInv == Init => Inv
  BY ListenerAssumption DEF Init, Inv, TypeOK, LockInv, Running, Loop

Away == {"idle", "asked", "stale", "grace", "term", "termed", "kill"}

\* A helper that goes on elsewhere, maybe freeing the lock if it had it.
LEMMA HelperAway ==
    ASSUME Inv, NEW h \in Helper, NEW l \in Away, HGoto(h, l), UNCHANGED <<mvars, owner, heard, file>>,
           seen' \in [Helper -> Monitor \cup {None}], ending' \in [Helper -> BOOLEAN],
           lock' = lock \/ (lock = h /\ lock' = None)
    PROVE  Inv'
<1> USE ListenerAssumption DEF Inv, Running, Loop, Away, HGoto, mvars
<1>1. TypeOK'
  BY DEF TypeOK
<1>2. LockInv'
  BY DEF TypeOK, LockInv
<1> QED
  BY <1>1, <1>2

LEMMA HelperDone ==
    ASSUME Inv, NEW h \in Helper, Done(h) \/ Cleaned(h)
    PROVE  /\ \E l \in Away : HGoto(h, l)
           /\ seen' \in [Helper -> Monitor \cup {None}]
           /\ ending' \in [Helper -> BOOLEAN]
<1>1. CASE Done(h)
  BY <1>1 DEF Done, Away, Inv, TypeOK
<1>2. CASE Cleaned(h) /\ ~Done(h)
  BY <1>2 DEF Cleaned, Away, Inv, TypeOK
<1> QED
  BY <1>1, <1>2

\* A process that ends without further ado, while a helper that does not have
\* the lock goes on.
LEMMA Ended ==
    ASSUME Inv, NEW h \in Helper, NEW l \in Away, HGoto(h, l), NEW m, Ends(m),
           hpc[h] \in Away, m \in Monitor \cup {None},
           seen' \in [Helper -> Monitor \cup {None}], ending' \in [Helper -> BOOLEAN]
    PROVE  Inv'
<1> USE ListenerAssumption DEF Inv, Running, Loop, Away, HGoto, Ends, Goto
<1>1. TypeOK'
  BY DEF TypeOK
<1>2. \A n \in Monitor : Running(n)' => lock' = n
  BY DEF TypeOK, LockInv
<1>3. \A g \in Helper : hpc'[g] \in {"locked", "unlink", "release"} => lock' = g
  BY DEF TypeOK, LockInv
<1>4. \A n \in Monitor : forced'[n] = "listening" => stop'[n]
  BY DEF TypeOK, LockInv
<1> QED
  BY <1>1, <1>2, <1>3, <1>4 DEF LockInv

\* A listener that goes on in the reconnect loop or to its end, told to or not.
LEMMA LoopGoesOn ==
    ASSUME Inv, NEW m \in Monitor, Running(m), NEW l \in Loop \cup {"closing"}, Goto(m, l),
           SetStop(m) \/ UNCHANGED stop, retries' \in [Monitor -> 0 .. MaxCollisions],
           UNCHANGED <<forced, owner, heard, lock, file, hvars>>
    PROVE  Inv'
<1> USE ListenerAssumption DEF Inv, Running, Loop, Goto, SetStop, hvars
<1>1. TypeOK'
  BY DEF TypeOK
<1>2. LockInv'
  BY DEF TypeOK, LockInv
<1> QED
  BY <1>1, <1>2

LEMMA GivingUp ==
    ASSUME Inv, NEW m \in Monitor, GivesUp(m)
    PROVE  /\ \E l \in Loop \cup {"closing"} : Goto(m, l)
           /\ SetStop(m) \/ UNCHANGED stop
  BY DEF GivesUp, Loop

\* Whoever takes the lock found it free, and nobody gives up another's.
LEMMA StepInv == Inv /\ [Next]_vars => Inv'
<1> SUFFICES ASSUME Inv, [Next]_vars PROVE Inv'
  OBVIOUS
<1> USE ListenerAssumption DEF Inv, TypeOK, LockInv, Running, Loop, Goto, SetStop,
                               HGoto, mvars, hvars
<1>1. ASSUME NEW m \in Monitor, Proceed(m) PROVE Inv'
  <2>1. CASE Retry(m)
    BY <2>1 DEF Retry
  <2>2. CASE Stopped(m)
    BY <2>2 DEF Stopped
  <2>3. CASE Unlock(m)
    BY <2>3 DEF Unlock
  <2>4. CASE Atexit(m)
    BY <2>4 DEF Atexit
  <2> QED
    BY <1>1, <2>1, <2>2, <2>3, <2>4 DEF Proceed
<1>2. ASSUME NEW m \in Monitor, Serve(m) PROVE Inv'
  <2>1. CASE Start(m)
    BY <2>1 DEF Start
  <2>2. CASE Connect(m)
    <3>1. pc[m] = "connect" /\ UNCHANGED <<retries, forced, owner, heard, lock, file, hvars>>
      BY <2>2 DEF Connect
    <3>2. CASE GivesUp(m)
      BY <3>1, <3>2, GivingUp, LoopGoesOn
    <3>3. CASE UNCHANGED stop /\ \E l \in {"hello", "backoff", "closing"} : Goto(m, l)
      BY <3>1, <3>3, LoopGoesOn
    <3> QED
      BY <2>2, <3>2, <3>3 DEF Connect
  <2>3. CASE Welcomed(m)
    BY <2>3 DEF Welcomed
  <2>4. CASE NameTaken(m)
    <3>1. pc[m] = "hello" /\ ~stop[m] /\ UNCHANGED <<forced, owner, heard, lock, file, hvars>>
      BY <2>4 DEF NameTaken
    <3>2. CASE retries[m] < MaxCollisions
      BY <2>4, <3>1, <3>2 DEF NameTaken
    <3>3. CASE ~(retries[m] < MaxCollisions)
      <4>1. GivesUp(m) /\ UNCHANGED retries
        BY <2>4, <3>3 DEF NameTaken
      <4> QED
        BY <3>1, <4>1, GivingUp, LoopGoesOn
    <3> QED
      BY <3>2, <3>3
  <2>5. CASE Rejected(m)
    <3>1. /\ pc[m] = "hello" /\ GivesUp(m)
          /\ UNCHANGED <<retries, forced, owner, heard, lock, file, hvars>>
      BY <2>5 DEF Rejected
    <3> QED
      BY <3>1, GivingUp, LoopGoesOn
  <2>6. CASE ClosedInHello(m)
    BY <2>6 DEF ClosedInHello
  <2>7. CASE ClosedListening(m)
    <3>1. pc[m] = "listening" /\ ~stop[m] /\ UNCHANGED <<retries, owner, heard, lock, file, hvars>>
      BY <2>7 DEF ClosedListening
    <3>2. CASE Goto(m, "backoff") /\ UNCHANGED <<stop, forced>>
      BY <3>1, <3>2
    <3>3. CASE /\ forced' = [forced EXCEPT ![m] = IF m \in heard THEN "listening" ELSE "mute"]
               /\ GivesUp(m)
      <4>1. CASE m \in heard
        BY <3>1, <3>3, <4>1 DEF GivesUp
      <4>2. CASE m \notin heard
        BY <3>1, <3>3, <4>2 DEF GivesUp
      <4> QED
        BY <4>1, <4>2
    <3> QED
      BY <2>7, <3>2, <3>3 DEF ClosedListening
  <2>8. CASE Signal(m)
    BY <2>8 DEF Signal
  <2>9. CASE Kill(m)
    BY <2>9 DEF Kill, Ends, Alive
  <2> QED
    BY <1>2, <2>1, <2>2, <2>3, <2>4, <2>5, <2>6, <2>7, <2>8, <2>9 DEF Serve
<1>3. ASSUME NEW m \in Monitor, Watch(m) PROVE Inv'
  BY <1>3 DEF Watch
<1>4. ASSUME NEW h \in Helper, Help(h) PROVE Inv'
  <2>1. CASE ReadState(h)
    <3>1. PICK b \in BOOLEAN : ending' = [ending EXCEPT ![h] = b]
      BY <2>1 DEF ReadState
    <3> QED
      BY <2>1, <3>1 DEF ReadState
  <2>2. CASE Asked(h)
    <3>1. hpc[h] = "asked" /\ UNCHANGED <<mvars, owner, heard, lock, file>>
      BY <2>2 DEF Asked
    <3>2. PICK l \in Away : HGoto(h, l)
      BY <2>2, HelperDone DEF Asked, Away
    <3>3. seen' \in [Helper -> Monitor \cup {None}] /\ ending' \in [Helper -> BOOLEAN]
      BY <2>2, HelperDone DEF Asked
    <3> QED
      BY <3>1, <3>2, <3>3, HelperAway
  <2>3. CASE TryLock(h)
    <3>1. hpc[h] = "stale" /\ UNCHANGED <<mvars, owner, heard, file>>
      BY <2>3 DEF TryLock
    <3>2. CASE lock = None
      <4>1. lock' = h /\ HGoto(h, "locked") /\ UNCHANGED <<seen, ending>>
        BY <2>3, <3>2 DEF TryLock
      <4> QED
        BY <3>1, <3>2, <4>1
    <3>3. CASE lock # None
      <4>1. UNCHANGED lock /\ Cleaned(h)
        BY <2>3, <3>1, <3>3 DEF TryLock
      <4> QED
        BY <3>1, <4>1, HelperDone, HelperAway
    <3> QED
      BY <3>2, <3>3
  <2>4. CASE Compare(h)
    BY <2>4 DEF Compare
  <2>5. CASE Unlink(h)
    BY <2>5 DEF Unlink
  <2>6. CASE Release(h)
    <3>1. /\ lock' = (IF lock = h THEN None ELSE lock) /\ Cleaned(h)
          /\ UNCHANGED <<mvars, owner, heard, file>>
      BY <2>6 DEF Release
    <3> QED
      BY <3>1, HelperDone, HelperAway
  <2> QED
    BY <1>4, <2>1, <2>2, <2>3, <2>4, <2>5, <2>6 DEF Help
<1>5. ASSUME NEW h \in Helper, Reap(h) PROVE Inv'
  <2>1. CASE Grace(h)
    <3>1. UNCHANGED <<mvars, owner, heard, lock, file>>
      BY <2>1 DEF Grace
    <3>2. Done(h) \/ (HGoto(h, "term") /\ UNCHANGED <<seen, ending>>)
      BY <2>1 DEF Grace
    <3>3. CASE Done(h)
      BY <3>1, <3>3, HelperDone, HelperAway
    <3>4. CASE HGoto(h, "term") /\ UNCHANGED <<seen, ending>>
      BY <3>1, <3>4, HelperAway DEF Away
    <3> QED
      BY <3>2, <3>3, <3>4
  <2>2. CASE Term(h)
    <3>1. hpc[h] = "term" /\ HGoto(h, "termed") /\ UNCHANGED <<seen, ending>>
      BY <2>2 DEF Term
    <3>2. CASE pc[seen[h]] \in Loop
      <4>1. SetStop(seen[h]) /\ UNCHANGED <<pc, retries, forced, owner, heard, lock, file>>
        BY <2>2, <3>2 DEF Term
      <4> QED
        BY <3>1, <4>1
    <3>3. CASE pc[seen[h]] = "unlocked"
      <4>1. Ends(seen[h])
        BY <2>2, <3>3 DEF Term
      <4> QED
        BY <3>1, <4>1, Ended DEF Away
    <3>4. CASE pc[seen[h]] \notin Loop \cup {"unlocked"}
      <4>1. UNCHANGED <<mvars, owner, heard, lock, file>>
        BY <2>2, <3>4 DEF Term
      <4> QED
        BY <3>1, <4>1, HelperAway DEF Away
    <3> QED
      BY <3>2, <3>3, <3>4
  <2>3. CASE Termed(h)
    <3>1. UNCHANGED <<mvars, owner, heard, lock, file>>
      BY <2>3 DEF Termed
    <3>2. Done(h) \/ (HGoto(h, "kill") /\ UNCHANGED <<seen, ending>>)
      BY <2>3 DEF Termed
    <3>3. CASE Done(h)
      BY <3>1, <3>3, HelperDone, HelperAway
    <3>4. CASE HGoto(h, "kill") /\ UNCHANGED <<seen, ending>>
      BY <3>1, <3>4, HelperAway DEF Away
    <3> QED
      BY <3>2, <3>3, <3>4
  <2>4. CASE SigKill(h)
    <3>1. hpc[h] = "kill" /\ Done(h)
      BY <2>4 DEF SigKill
    <3>2. CASE Ends(seen[h])
      BY <3>1, <3>2, HelperDone, Ended DEF Away
    <3>3. CASE UNCHANGED <<mvars, owner, heard, lock, file>>
      BY <3>1, <3>3, HelperDone, HelperAway
    <3> QED
      BY <2>4, <3>2, <3>3 DEF SigKill
  <2> QED
    BY <1>5, <2>1, <2>2, <2>3, <2>4 DEF Reap
<1>6. CASE OwnerDies
  BY <1>6 DEF OwnerDies
<1>7. CASE UNCHANGED vars
  BY <1>7 DEF vars
<1>8. ASSUME NEW m \in Monitor, ReaderGone(m) PROVE Inv'
  BY <1>8 DEF ReaderGone
<1> QED
  BY <1>1, <1>2, <1>3, <1>4, <1>5, <1>6, <1>7, <1>8 DEF Next

LEMMA Invariance == Spec => []Inv
  BY InitInv, StepInv, PTL DEF Spec

\* Every reachable state of the listeners and helpers is well typed.
THEOREM ListenerTypes == Spec => []TypeOK
<1>1. Inv => TypeOK
  BY DEF Inv
<1> QED
  BY <1>1, Invariance, PTL

\* At any time at most one listener of the session runs.
THEOREM ListenerAlone == Spec => []OneListener
<1>1. Inv => OneListener
  BY DEF Inv, LockInv, OneListener
<1> QED
  BY <1>1, Invariance, PTL

\* A helper's clean-up never deletes the state of a listener that runs.
THEOREM ListenerSpared == Spec => HelpersSpareListeners
<1> DEFINE Spared == (\E h \in Helper : hpc[h] = "unlink" /\ hpc'[h] # "unlink")
                        => file = None \/ ~Running(file)
<1>1. Inv => Spared
  <2> SUFFICES ASSUME Inv, NEW h \in Helper, hpc[h] = "unlink", file # None
               PROVE ~Running(file)
    OBVIOUS
  <2>1. lock = h /\ file \in Monitor
    BY DEF Inv, TypeOK, LockInv
  <2>2. lock # file
    BY <2>1, ListenerAssumption
  <2> QED
    BY <2>1, <2>2 DEF Inv, LockInv
<1>2. Inv => [Spared]_vars
  BY <1>1
<1> QED
  BY <1>2, Invariance, PTL DEF HelpersSpareListeners

\* A listener whose socket was closed with 4001 while it listened, and while its
\* stdout was read, sends no hello any more, also if the reader goes afterwards.
THEOREM ListenerStaysOut == Spec => NoRejoin
<1> DEFINE Out == \A m \in Monitor : pc[m] = "connect" /\ pc'[m] = "hello"
                                        => forced[m] # "listening"
<1>1. Inv /\ [Next]_vars => [Out]_vars
  <2> SUFFICES ASSUME Inv, Next, NEW m \in Monitor,
                      pc[m] = "connect", pc'[m] = "hello"
               PROVE forced[m] # "listening"
    OBVIOUS
  <2>1. ~stop[m]
    BY ListenerAssumption
    DEF Inv, TypeOK, Next, Proceed, Serve, Help, Retry, Stopped, Unlock, Atexit,
        Start, Connect, Welcomed, NameTaken, Rejected, ClosedInHello,
        ClosedListening, Signal, Kill, Watch, ReadState, Asked, TryLock, Compare,
        Unlink, Release, Cleaned, Done, Reap, Grace, Term, Termed, SigKill, Ends,
        OwnerDies, ReaderGone, GivesUp, Goto, mvars
  <2> QED
    BY <2>1 DEF Inv, LockInv
<1> QED
  BY <1>1, Invariance, PTL DEF NoRejoin, Spec
-----------------------------------------------------------------------------
(* The session, as the helpers see it *)

view == <<Started, Seated, Leaving, file>>

\* Whoever runs is alone in the seat.
LEMMA SeatOf == ASSUME Inv, NEW m \in Monitor, Running(m) PROVE Seated = {m}
  BY DEF Inv, LockInv, Seated

LEMMA SeatFree == ASSUME Inv, lock \notin Monitor PROVE Seated = {}
  BY DEF Inv, LockInv, Seated

LEMMA PcKept == ASSUME pc' = pc PROVE UNCHANGED <<Started, Seated, Leaving>>
  BY DEF Started, Seated, Leaving, Running

\* A listener that goes on.
LEMMA GoesOn ==
    ASSUME Inv, NEW m \in Monitor, Running(m), NEW l \in Loop \cup {"closing"}, Goto(m, l)
    PROVE  UNCHANGED <<Started, Seated, Leaving>>
  BY DEF Inv, TypeOK, Started, Seated, Leaving, Running, Loop, Goto

\* A listener that leaves the seat, with or without its farewell to come.
LEMMA LeavesSeat ==
    ASSUME Inv, NEW m \in Monitor, Running(m), NEW l \in {"unlocked", "gone"}, Goto(m, l),
           file' = file
    PROVE  Sess!Leave(m)
<1>1. pc[m] \notin {"off", "unlocked"} /\ pc' = [pc EXCEPT ![m] = l]
  BY DEF Running, Loop, Goto
<1>2. Started' = Started
  BY <1>1 DEF Started, Inv, TypeOK
<1>3. Seated = {m} /\ Seated' = {}
  <2>1. \A n \in Monitor : Running(n) => n = m
    BY DEF Inv, LockInv
  <2>2. \A n \in Monitor : ~(Running(n)')
    BY <1>1, <2>1 DEF Running, Loop, Inv, TypeOK
  <2>3. Seated = {m}
    BY SeatOf
  <2>4. Seated' = {}
    BY <2>2 DEF Seated
  <2> QED
    BY <2>3, <2>4
<1>4. CASE l = "unlocked"
  <2>1. Leaving' = Leaving \cup {m}
    BY <1>1, <1>4 DEF Leaving, Inv, TypeOK
  <2> QED
    BY <1>2, <1>3, <2>1 DEF Sess!Leave
<1>5. CASE l = "gone"
  <2>1. Leaving' = Leaving
    BY <1>1, <1>5 DEF Leaving, Inv, TypeOK
  <2> QED
    BY <1>2, <1>3, <2>1 DEF Sess!Leave
<1> QED
  BY <1>4, <1>5

\* One that has left it and now ends.
LEMMA SaysFarewell ==
    ASSUME Inv, NEW m \in Monitor, pc[m] = "unlocked", Goto(m, "gone"), file' \in {file, None}
    PROVE  Sess!Farewell(m)
<1>1. Started' = Started /\ Seated' = Seated
  BY DEF Started, Seated, Running, Loop, Goto, Inv, TypeOK
<1>2. m \in Leaving /\ Leaving' = Leaving \ {m}
  BY DEF Leaving, Goto, Inv, TypeOK
<1> QED
  BY <1>1, <1>2 DEF Sess!Farewell

LEMMA EndsLive ==
    ASSUME Inv, NEW m \in Monitor, Alive(m), Ends(m) PROVE Sess!Next
<1>1. pc[m] = "unlocked" \/ Running(m)
  BY DEF Alive, Running, Loop, Inv, TypeOK
<1>2. Goto(m, "gone") /\ file' = file
  BY DEF Ends
<1> QED
  BY <1>1, <1>2, LeavesSeat, SaysFarewell DEF Sess!Next

LEMMA SessionMonitor ==
    ASSUME Inv, NEW m \in Monitor, Proceed(m) \/ Serve(m) \/ Watch(m) \/ ReaderGone(m)
    PROVE  [Sess!Next]_view
<1> USE DEF view
<1>1. CASE Start(m)
  <2>1. m \notin Started /\ Started' = Started \cup {m} /\ Leaving' = Leaving
    BY <1>1 DEF Start, Goto, Started, Leaving, Inv, TypeOK
  <2>2. CASE lock = None
    <3>1. Seated = {}
      BY <2>2, SeatFree, ListenerAssumption
    <3>2. Seated' = {m}
      <4>1. \A n \in Monitor : Running(n)' <=> n = m \/ Running(n)
        BY <1>1, <2>2 DEF Start, Goto, Running, Loop, Inv, TypeOK
      <4> QED
        BY <3>1, <4>1 DEF Seated
    <3> QED
      BY <1>1, <2>1, <3>1, <3>2 DEF Start, Sess!Next, Sess!Take
  <2>3. CASE lock # None
    <3>1. Seated' = Seated
      BY <1>1, <2>3 DEF Start, Goto, Seated, Running, Loop, Inv, TypeOK
    <3> QED
      BY <1>1, <2>1, <3>1 DEF Start, Sess!Next, Sess!TurnedAway
  <2> QED
    BY <2>2, <2>3
<1>2. CASE Welcomed(m)
  <2>1. UNCHANGED <<Started, Seated, Leaving>> /\ m \in Seated /\ file' = m
    BY <1>2, GoesOn DEF Welcomed, Running, Loop, Seated
  <2> QED
    BY <2>1 DEF Sess!Next, Sess!Announce
<1>3. CASE Retry(m) \/ Stopped(m) \/ Connect(m) \/ Rejected(m) \/ ClosedInHello(m)
  BY <1>3, GoesOn
  DEF Retry, Stopped, Connect, Rejected, ClosedInHello, GivesUp, Running, Loop
<1>4. CASE NameTaken(m) \/ ClosedListening(m)
  BY <1>4, GoesOn DEF NameTaken, ClosedListening, GivesUp, Running, Loop
<1>5. CASE Signal(m) \/ Watch(m) \/ ReaderGone(m)
  BY <1>5, PcKept DEF Signal, Watch, ReaderGone, mvars
<1>6. CASE Unlock(m)
  BY <1>6, LeavesSeat DEF Unlock, Running, Sess!Next
<1>7. CASE Atexit(m)
  BY <1>7, SaysFarewell DEF Atexit, Sess!Next
<1>8. CASE Kill(m)
  BY <1>8, EndsLive DEF Kill
<1> QED
  BY <1>1, <1>2, <1>3, <1>4, <1>5, <1>6, <1>7, <1>8 DEF Proceed, Serve

LEMMA SessionHelper ==
    ASSUME Inv, NEW h \in Helper, Help(h) \/ Reap(h) PROVE [Sess!Next]_view
<1> USE DEF view, mvars
<1>1. CASE Unlink(h)
  <2>1. lock = h /\ lock \notin Monitor
    BY <1>1, ListenerAssumption DEF Unlink, Inv, LockInv
  <2>2. UNCHANGED <<Started, Seated, Leaving>>
    BY <1>1, PcKept DEF Unlink
  <2> QED
    BY <1>1, <2>1, <2>2, SeatFree DEF Unlink, Sess!Next, Sess!CleanUp
<1>2. ASSUME NEW m, Ends(m), Alive(m) PROVE [Sess!Next]_view
  <2>1. CASE m \in Monitor
    BY <1>2, <2>1, EndsLive
  <2>2. CASE m \notin Monitor
    BY <1>2, <2>2, PcKept DEF Ends, Goto, Inv, TypeOK
  <2> QED
    BY <2>1, <2>2
<1>3. CASE Term(h)
  <2>1. CASE pc[seen[h]] = "unlocked"
    BY <1>2, <1>3, <2>1 DEF Term, Alive, Loop
  <2>2. CASE pc[seen[h]] # "unlocked"
    BY <1>3, <2>2, PcKept DEF Term
  <2> QED
    BY <2>1, <2>2
<1>4. CASE SigKill(h)
  BY <1>2, <1>4, PcKept DEF SigKill
<1>5. CASE Help(h) /\ ~Unlink(h)
  BY <1>5, PcKept DEF Help, ReadState, Asked, TryLock, Compare, Release
<1>6. CASE Grace(h) \/ Termed(h)
  BY <1>6, PcKept DEF Grace, Termed
<1> QED
  BY <1>1, <1>3, <1>4, <1>5, <1>6 DEF Reap, Help

\* The flock, the state file and its clean-up implement the session, for any number
\* of listeners and helpers, crashes and kills included: one seat, a file only its
\* holder writes, and removals only by who has left or while the seat is free.
THEOREM SessionCorrect == Spec => ImplementsSession
<1>1. Init => Sess!Init
  <2> SUFFICES ASSUME Init PROVE Sess!Init
    OBVIOUS
  <2>1. \A m \in Monitor : pc[m] = "off"
    BY DEF Init
  <2>2. Started = {} /\ Seated = {} /\ Leaving = {}
    BY <2>1 DEF Started, Seated, Leaving, Running, Loop
  <2> QED
    BY <2>2 DEF Init, Sess!Init
<1>2. Inv /\ [Next]_vars => [Sess!Next]_view
  <2> SUFFICES ASSUME Inv, [Next]_vars PROVE [Sess!Next]_view
    OBVIOUS
  <2>1. CASE OwnerDies \/ UNCHANGED vars
    BY <2>1, PcKept DEF OwnerDies, vars, mvars, view
  <2> QED
    BY <2>1, SessionMonitor, SessionHelper DEF Next
<1> QED
  BY <1>1, <1>2, Invariance, PTL DEF Spec, ImplementsSession, Sess!Spec, Sess!vars, view
=============================================================================

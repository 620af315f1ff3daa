---------------------------- MODULE MessagesProofs ----------------------------
(***************************************************************************)
(* Theorems about Messages, for any sessions, names and prefix relation,   *)
(* and any limit, window, log size and number of generations.              *)
(***************************************************************************)
EXTENDS Messages, FiniteSetTheorems, SequenceTheorems, WellFoundedInduction, TLAPS

-----------------------------------------------------------------------------
(* The window *)

LEMMA TimesOf ==
    ASSUME NEW w \in Times
    PROVE  Len(w) \in Nat /\ \A i \in 1 .. Len(w) : w[i] \in 0 .. MaxTime
  <1>1. ASSUME NEW i \in 1 .. Len(w) PROVE w[i] \in 0 .. MaxTime
    BY ElementOfSeq DEF Times
  <1> QED
    BY <1>1 DEF Times

\* The loop that drops old entries stops: Fresh cuts off exactly the old entries
\* at the head of the window.
LEMMA FreshCuts ==
    ASSUME NEW w \in Times
    PROVE  \E k \in 0 .. Len(w) : /\ \A i \in 1 .. k : Old(w[i])
                                  /\ k < Len(w) => ~Old(w[k + 1])
                                  /\ Fresh(w) = SubSeq(w, k + 1, Len(w))
  <1> DEFINE T == {k \in 0 .. Len(w) : k < Len(w) => ~Old(w[k + 1])}
             Cut(k) == /\ \A i \in 1 .. k : Old(w[i])
                       /\ k < Len(w) => ~Old(w[k + 1])
  <1>0. Len(w) \in Nat
    BY DEF Times
  <1>1. T \subseteq Nat /\ Len(w) \in T
    BY <1>0
  <1>2. PICK k \in T : \A j \in T : <<j, k>> \notin OpToRel(<, Nat)
    BY <1>1, NatLessThanWellFounded, WFMin
  <1>3. \A j \in T : ~(j < k)
    BY <1>1, <1>2 DEF OpToRel
  <1>4. k \in 0 .. Len(w) /\ Cut(k)
    <2>1. ASSUME NEW i \in 1 .. k PROVE Old(w[i])
      <3>1. i - 1 \in 0 .. Len(w) /\ i - 1 < k /\ i - 1 < Len(w)
        BY <1>0
      <3>2. i - 1 \notin T
        BY <1>3, <3>1
      <3> QED
        BY <3>1, <3>2
    <2> QED
      BY <2>1
  <1> HIDE DEF Cut
  <1>5. PICK c : /\ c = CHOOSE x \in 0 .. Len(w) : Cut(x)
                 /\ c \in 0 .. Len(w) /\ Cut(c)
    BY <1>4
  <1>6. Fresh(w) = SubSeq(w, c + 1, Len(w))
    BY <1>5 DEF Fresh, Cut
  <1> QED
    BY <1>5, <1>6 DEF Cut

\* Window w is what is left of the broadcasts a: only old ones are missing.
Suffix(w, a) ==
    \E k \in 0 .. Len(a) : /\ Len(w) = Len(a) - k
                           /\ \A i \in 1 .. Len(w) : w[i] = a[i + k]
                           /\ \A i \in 1 .. k : Old(a[i])

Ordered(a) ==
    /\ \A i, j \in 1 .. Len(a) : i <= j => a[i] <= a[j]
    /\ \A i \in 1 .. Len(a) : a[i] <= now

Apart(a) == \A i \in 1 .. Len(a) - Limit : a[i + Limit] - a[i] > Window

Windows ==
    \A s \in Sid : /\ Suffix(window[s], accepted[s])
                   /\ Ordered(accepted[s])
                   /\ Apart(accepted[s])

LEMMA FreshType ==
    ASSUME NEW w \in Times
    PROVE  Fresh(w) \in Times /\ Len(Fresh(w)) <= Len(w)
  <1>1. PICK k \in 0 .. Len(w) : Fresh(w) = SubSeq(w, k + 1, Len(w))
    BY FreshCuts
  <1>2. Len(w) \in Nat /\ \A i \in k + 1 .. Len(w) : w[i] \in 0 .. MaxTime
    BY TimesOf
  <1> QED
    BY <1>1, <1>2, SubSeqProperties DEF Times

LEMMA FreshSuffix ==
    ASSUME NEW w \in Times, NEW a \in Times, Suffix(w, a)
    PROVE  Suffix(Fresh(w), a)
  <1>1. PICK m \in 0 .. Len(a) : /\ Len(w) = Len(a) - m
                                 /\ \A i \in 1 .. Len(w) : w[i] = a[i + m]
                                 /\ \A i \in 1 .. m : Old(a[i])
    BY DEF Suffix
  <1>2. PICK k \in 0 .. Len(w) : /\ \A i \in 1 .. k : Old(w[i])
                                 /\ Fresh(w) = SubSeq(w, k + 1, Len(w))
    BY FreshCuts
  <1>3. Len(w) \in Nat /\ Len(a) \in Nat
    BY DEF Times
  <1>4. Len(Fresh(w)) = Len(a) - (m + k) /\ m + k \in 0 .. Len(a)
    BY <1>1, <1>2, <1>3 DEF Times
  <1>5. ASSUME NEW i \in 1 .. Len(Fresh(w)) PROVE Fresh(w)[i] = a[i + (m + k)]
    <2>1. Fresh(w)[i] = w[i + k] /\ i + k \in 1 .. Len(w)
      BY <1>1, <1>2, <1>3, <1>4 DEF Times
    <2> QED
      BY <1>1, <1>3, <2>1
  <1>6. ASSUME NEW i \in 1 .. m + k PROVE Old(a[i])
    <2>1. CASE i <= m
      BY <1>1, <2>1
    <2>2. CASE i > m
      <3>1. i - m \in 1 .. k /\ i - m \in 1 .. Len(w)
        BY <2>2, <1>2, <1>3
      <3>2. Old(w[i - m]) /\ w[i - m] = a[(i - m) + m]
        BY <1>1, <1>2, <3>1
      <3> QED
        BY <3>2, <1>1
    <2> QED
      BY <2>1, <2>2
  <1> QED
    BY <1>4, <1>5, <1>6 DEF Suffix

-----------------------------------------------------------------------------
(* Types *)

LEMMA LogType ==
    ASSUME TypeOK, Log
    PROVE  /\ files' \in [0 .. Backups -> SUBSET (1 .. MaxLogged)]
           /\ logged' \in 0 .. MaxLogged
  <1> DEFINE f == IF Full THEN Rotated(files, 1) ELSE files
  <1>1. f \in [0 .. Backups -> SUBSET (1 .. MaxLogged)]
    <2>1. Rotated(files, 1) \in [0 .. Backups -> SUBSET (1 .. MaxLogged)]
      BY MessagesAssumption DEF TypeOK, Rotated
    <2> QED
      BY <2>1 DEF TypeOK
  <1>2. files' = [f EXCEPT ![0] = @ \cup {logged + 1}] /\ logged' = logged + 1
        /\ logged < MaxLogged
    BY DEF Log
  <1> HIDE DEF f
  <1> QED
    BY <1>1, <1>2, MessagesAssumption DEF TypeOK

LEMMA HalfType ==
    ASSUME TypeOK, NEW f \in HalfRotated
    PROVE  f \in [0 .. Backups -> SUBSET (1 .. MaxLogged)]
  BY MessagesAssumption DEF TypeOK, HalfRotated, Rotated

LEMMA BroadcastType ==
    ASSUME TypeOK, NEW s \in Sid, NEW role, Broadcast(s, role)
    PROVE  TypeOK'
  <1>1. Fresh(window[s]) \in Times /\ Len(Fresh(window[s])) < Limit
    BY FreshType DEF TypeOK, Broadcast
  <1>2. now \in 0 .. MaxTime /\ accepted[s] \in Times
    BY DEF TypeOK
  <1>3. /\ Append(Fresh(window[s]), now) \in {w \in Times : Len(w) <= Limit}
        /\ Append(accepted[s], now) \in Times
    BY <1>1, <1>2, MessagesAssumption DEF Times
  <1>4. window' \in [Sid -> {w \in Times : Len(w) <= Limit}]
    BY <1>3 DEF Broadcast, TypeOK
  <1>5. accepted' \in [Sid -> Times]
    BY <1>3 DEF Broadcast, TypeOK
  <1> QED
    BY <1>4, <1>5, LogType DEF Broadcast, TypeOK

LEMMA NextType == TypeOK /\ [Next]_vars => TypeOK'
  <1> SUFFICES ASSUME TypeOK, [Next]_vars PROVE TypeOK'
    OBVIOUS
  <1>1. ASSUME NEW s \in Sid, NEW n \in Name \cup {Empty}, Join(s, n) \/ Rename(s, n)
        PROVE  TypeOK'
    BY <1>1 DEF Join, Rename, TypeOK
  <1>2. ASSUME NEW s \in Sid, Evict(s) \/ Close(s) PROVE TypeOK'
    BY <1>2 DEF Evict, Close, TypeOK
  <1>3. ASSUME NEW s \in Sid, NEW role, Broadcast(s, role) PROVE TypeOK'
    BY <1>3, BroadcastType
  <1>4. ASSUME NEW s \in Sid, NEW role, BroadcastRefused(s, role) PROVE TypeOK'
    <2>1. window[s] \in Times /\ Len(window[s]) <= Limit
      BY DEF TypeOK
    <2>2. Fresh(window[s]) \in {w \in Times : Len(w) <= Limit}
      BY <2>1, FreshType, MessagesAssumption DEF Times
    <2>3. window' \in [Sid -> {w \in Times : Len(w) <= Limit}]
      BY <1>4, <2>2 DEF BroadcastRefused, TypeOK
    <2> QED
      BY <1>4, <2>3 DEF BroadcastRefused, TypeOK
  <1>5. ASSUME NEW s \in Sid, NEW role, NEW t \in Text, Send(s, role, t) PROVE TypeOK'
    BY <1>5, LogType DEF Send, TypeOK
  <1>6. ASSUME Pass PROVE TypeOK'
    BY <1>6, MessagesAssumption DEF Pass, TypeOK
  <1>7. ASSUME Crash PROVE TypeOK'
    <2>1. files' \in [0 .. Backups -> SUBSET (1 .. MaxLogged)]
      BY <1>7, HalfType DEF Crash, TypeOK
    <2>2. <<>> \in Times /\ Len(<<>>) <= Limit
      BY MessagesAssumption DEF Times
    <2> QED
      BY <1>7, <2>1, <2>2 DEF Crash, TypeOK
  <1>8. ASSUME UNCHANGED vars PROVE TypeOK'
    BY <1>8 DEF vars, TypeOK
  <1> QED
    BY <1>1, <1>2, <1>3, <1>4, <1>5, <1>6, <1>7, <1>8, MessagesAssumption DEF Next, Message

LEMMA InitType == Init => TypeOK
  <1>1. <<>> \in Times /\ Len(<<>>) <= Limit
    BY MessagesAssumption DEF Times
  <1> QED
    BY <1>1, MessagesAssumption DEF Init, TypeOK

\* No window has more than Limit entries, and every variable has its type, for
\* any sessions, texts and bounds (Messages.TypeOK).
THEOREM MessagesTypes == Spec => []TypeOK
  BY InitType, NextType, PTL DEF Spec

-----------------------------------------------------------------------------
(* The rate limit *)

LEMMA OldStays ==
    ASSUME TypeOK, Windows, now' \in 0 .. MaxTime, now <= now', NEW s \in Sid,
           UNCHANGED <<window, accepted>>
    PROVE  /\ Suffix(window[s], accepted[s])'
           /\ Ordered(accepted[s])'
  <1>1. accepted[s] \in Times /\ now \in 0 .. MaxTime
    BY DEF TypeOK
  <1>2. Len(accepted[s]) \in Nat /\ \A i \in 1 .. Len(accepted[s]) : accepted[s][i] \in 0 .. MaxTime
    BY <1>1, TimesOf
  <1>3. Suffix(window[s], accepted[s]) /\ Ordered(accepted[s])
    BY DEF Windows
  <1>4. \A i \in 1 .. Len(accepted[s]) : Old(accepted[s][i]) => Old(accepted[s][i])'
    BY <1>1, <1>2, MessagesAssumption DEF Old
  <1>5. Suffix(window[s], accepted[s])'
    <2>1. PICK k \in 0 .. Len(accepted[s]) :
               /\ Len(window[s]) = Len(accepted[s]) - k
               /\ \A i \in 1 .. Len(window[s]) : window[s][i] = accepted[s][i + k]
               /\ \A i \in 1 .. k : Old(accepted[s][i])
      BY <1>3 DEF Suffix
    <2>2. \A i \in 1 .. k : Old(accepted[s][i])'
      BY <2>1, <1>4, <1>2
    <2> QED
      BY <2>1, <2>2 DEF Suffix
  <1>6. Ordered(accepted[s])'
    <2>1. \A i \in 1 .. Len(accepted[s]) : accepted[s][i] <= now'
      BY <1>1, <1>2, <1>3, MessagesAssumption DEF Ordered
    <2> QED
      BY <2>1, <1>3 DEF Ordered
  <1> QED
    BY <1>5, <1>6

\* One more broadcast within the limit: the entry Limit places before it has been
\* dropped from the window, so it is old.
LEMMA OneMore ==
    ASSUME NEW w \in Times, NEW a \in Times, now \in 0 .. MaxTime,
           Suffix(w, a), Ordered(a), Apart(a), Len(w) < Limit
    PROVE  /\ Suffix(Append(w, now), Append(a, now))
           /\ Ordered(Append(a, now))
           /\ Apart(Append(a, now))
  <1> DEFINE n == Len(a)
             b == Append(a, now)
             v == Append(w, now)
  <1>1. n \in Nat /\ Len(w) \in Nat /\ Len(b) = n + 1 /\ Len(v) = Len(w) + 1
        /\ Limit \in Nat \ {0}
    BY MessagesAssumption DEF Times
  <1>2. /\ \A i \in 1 .. n : b[i] = a[i] /\ a[i] \in 0 .. MaxTime
        /\ b[n + 1] = now
    BY <1>1, TimesOf, AppendProperties DEF Times
  <1>3. /\ \A i \in 1 .. Len(w) : v[i] = w[i]
        /\ v[Len(w) + 1] = now
    BY <1>1 DEF Times
  <1>4. PICK k \in 0 .. n : /\ Len(w) = n - k
                            /\ \A i \in 1 .. Len(w) : w[i] = a[i + k]
                            /\ \A i \in 1 .. k : Old(a[i])
    BY DEF Suffix
  <1> HIDE DEF b, v
  <1>5. Suffix(v, b)
    <2>1. Len(v) = Len(b) - k /\ k \in 0 .. Len(b)
      BY <1>1, <1>4
    <2>2. \A i \in 1 .. k : Old(b[i])
      BY <1>1, <1>2, <1>4
    <2>3. ASSUME NEW i \in 1 .. Len(v) PROVE v[i] = b[i + k]
      <3>1. CASE i = Len(w) + 1
        BY <3>1, <1>1, <1>2, <1>3, <1>4
      <3>2. CASE i # Len(w) + 1
        <4>1. i \in 1 .. Len(w) /\ i + k \in 1 .. n
          BY <3>2, <1>1, <1>4
        <4> QED
          BY <4>1, <1>2, <1>3, <1>4
      <3> QED
        BY <3>1, <3>2
    <2> QED
      BY <2>1, <2>2, <2>3 DEF Suffix
  <1>6. Ordered(b)
    <2>1. ASSUME NEW i \in 1 .. n + 1, NEW j \in 1 .. n + 1, i <= j PROVE b[i] <= b[j]
      <3>1. CASE j = n + 1
        BY <3>1, <1>1, <1>2 DEF Ordered
      <3>2. CASE j # n + 1
        <4>1. i \in 1 .. n /\ j \in 1 .. n
          BY <3>2, <2>1, <1>1
        <4> QED
          BY <4>1, <2>1, <1>2 DEF Ordered
      <3> QED
        BY <3>1, <3>2
    <2>2. ASSUME NEW i \in 1 .. n + 1 PROVE b[i] <= now
      BY <1>1, <1>2 DEF Ordered
    <2> QED
      BY <2>1, <2>2, <1>1 DEF Ordered
  <1>7. ASSUME NEW i \in 1 .. Len(b) - Limit PROVE b[i + Limit] - b[i] > Window
    <2>1. i \in 1 .. n
      BY <1>1
    <2>2. CASE i + Limit = n + 1
      <3>1. i \in 1 .. k
        BY <2>2, <1>1, <1>4
      <3> QED
        BY <2>1, <2>2, <3>1, <1>2, <1>4 DEF Old
    <2>3. CASE i + Limit # n + 1
      <3>1. i \in 1 .. n - Limit /\ i + Limit \in 1 .. n
        BY <2>3, <1>1
      <3> QED
        BY <3>1, <2>1, <1>2 DEF Apart
    <2> QED
      BY <2>2, <2>3
  <1> QED
    BY <1>5, <1>6, <1>7 DEF Apart, b, v

LEMMA WindowsKept == TypeOK /\ Windows /\ [Next]_vars => Windows'
  <1> SUFFICES ASSUME TypeOK, Windows, [Next]_vars PROVE Windows'
    OBVIOUS
  <1>0. now \in 0 .. MaxTime /\ MaxTime \in Nat
    BY MessagesAssumption DEF TypeOK
  <1>1. ASSUME UNCHANGED <<now, window, accepted>> PROVE Windows'
    BY <1>1 DEF Windows, Suffix, Ordered, Apart, Old
  <1>2. ASSUME NEW s \in Sid, NEW role, Broadcast(s, role) PROVE Windows'
    <2> SUFFICES ASSUME NEW r \in Sid
                 PROVE  (Suffix(window[r], accepted[r]) /\ Ordered(accepted[r])
                         /\ Apart(accepted[r]))'
      BY DEF Windows
    <2>1. UNCHANGED now
      BY <1>2 DEF Broadcast
    <2>2. /\ Suffix(window[r], accepted[r]) /\ Ordered(accepted[r]) /\ Apart(accepted[r])
          /\ window[r] \in Times /\ accepted[r] \in Times
      BY DEF Windows, TypeOK
    <2>3. CASE r # s
      <3>1. window'[r] = window[r] /\ accepted'[r] = accepted[r]
        BY <2>3, <1>2 DEF Broadcast, TypeOK
      <3> QED
        BY <2>1, <2>2, <3>1 DEF Suffix, Ordered, Apart, Old
    <2>4. CASE r = s
      <3>1. /\ window'[r] = Append(Fresh(window[r]), now)
            /\ accepted'[r] = Append(accepted[r], now)
            /\ Len(Fresh(window[r])) < Limit
        BY <2>4, <1>2 DEF Broadcast, TypeOK
      <3>2. Fresh(window[r]) \in Times /\ Suffix(Fresh(window[r]), accepted[r])
        BY <2>2, FreshType, FreshSuffix
      <3> DEFINE w == Append(Fresh(window[r]), now)
                 a == Append(accepted[r], now)
      <3>3. Suffix(w, a) /\ Ordered(a) /\ Apart(a)
        BY <3>1, <3>2, <2>2, <1>0, OneMore
      <3> HIDE DEF w, a
      <3>4. window'[r] = w /\ accepted'[r] = a
        BY <3>1 DEF w, a
      <3> QED
        BY <2>1, <3>3, <3>4 DEF Suffix, Ordered, Apart, Old
    <2> QED
      BY <2>3, <2>4
  <1>3. ASSUME NEW s \in Sid, NEW role, BroadcastRefused(s, role) PROVE Windows'
    <2> SUFFICES ASSUME NEW r \in Sid
                 PROVE  (Suffix(window[r], accepted[r]) /\ Ordered(accepted[r])
                         /\ Apart(accepted[r]))'
      BY DEF Windows
    <2>1. now' = now /\ accepted' = accepted
      BY <1>3 DEF BroadcastRefused
    <2>2. /\ Suffix(window[r], accepted[r]) /\ Ordered(accepted[r]) /\ Apart(accepted[r])
          /\ window[r] \in Times /\ accepted[r] \in Times
      BY DEF Windows, TypeOK
    <2>3. window'[r] = window[r] \/ window'[r] = Fresh(window[r])
      BY <1>3 DEF BroadcastRefused, TypeOK
    <2>4. Suffix(Fresh(window[r]), accepted[r])
      BY <2>2, FreshSuffix
    <2> QED
      BY <2>1, <2>2, <2>3, <2>4 DEF Suffix, Ordered, Apart, Old
  <1>4. ASSUME Pass PROVE Windows'
    <2>1. now' \in 0 .. MaxTime /\ now <= now' /\ UNCHANGED <<window, accepted>>
      BY <1>4, <1>0 DEF Pass
    <2>2. ASSUME NEW s \in Sid PROVE (Suffix(window[s], accepted[s]) /\ Ordered(accepted[s]))'
      BY <2>1, OldStays
    <2> QED
      BY <2>1, <2>2 DEF Windows, Apart
  <1>5. ASSUME Crash PROVE Windows'
    <2> SUFFICES ASSUME NEW s \in Sid
                 PROVE  (Suffix(window[s], accepted[s]) /\ Ordered(accepted[s])
                         /\ Apart(accepted[s]))'
      BY DEF Windows
    <2>1. window'[s] = <<>> /\ accepted'[s] = <<>>
      BY <1>5 DEF Crash
    <2> QED
      BY <2>1, MessagesAssumption DEF Suffix, Ordered, Apart
  <1> QED
    BY <1>1, <1>2, <1>3, <1>4, <1>5, MessagesAssumption
       DEF Next, Message, Join, Rename, Evict, Close, Send, vars

LEMMA InitWindows == Init => Windows
  BY MessagesAssumption DEF Init, Windows, Suffix, Ordered, Apart

LEMMA AlwaysWindows == Spec => [](TypeOK /\ Windows)
  BY InitType, NextType, InitWindows, WindowsKept, PTL DEF Spec

\* However the broadcasts of a listener and its helpers fall, Limit + 1 of them
\* take more than the window, for any limit and window (Messages.RateBound).
THEOREM RateBounded == Spec => []RateBound
  <1>1. TypeOK /\ Windows => RateBound
    BY DEF Windows, Apart, RateBound
  <1> QED
    BY <1>1, AlwaysWindows, PTL

\* What Fresh leaves of a window are exactly the broadcasts that are not old.
LEMMA FreshExact ==
    ASSUME NEW w \in Times, NEW a \in Times, Suffix(w, a), Ordered(a), now \in 0 .. MaxTime
    PROVE  \E k \in 0 .. Len(a) :
               /\ Len(Fresh(w)) = Len(a) - k
               /\ {i \in DOMAIN a : ~Old(a[i])} = k + 1 .. Len(a)
  <1>1. PICK m \in 0 .. Len(a) : /\ Len(w) = Len(a) - m
                                 /\ \A i \in 1 .. Len(w) : w[i] = a[i + m]
                                 /\ \A i \in 1 .. m : Old(a[i])
    BY DEF Suffix
  <1>2. PICK k \in 0 .. Len(w) : /\ \A i \in 1 .. k : Old(w[i])
                                 /\ k < Len(w) => ~Old(w[k + 1])
                                 /\ Fresh(w) = SubSeq(w, k + 1, Len(w))
    BY FreshCuts
  <1>3. /\ Len(w) \in Nat /\ Len(a) \in Nat /\ DOMAIN a = 1 .. Len(a)
        /\ \A i \in 1 .. Len(a) : a[i] \in 0 .. MaxTime
    BY TimesOf DEF Times
  <1>4. Len(Fresh(w)) = Len(a) - (m + k) /\ m + k \in 0 .. Len(a)
    <2>1. \A i \in k + 1 .. Len(w) : w[i] \in 0 .. MaxTime
      BY <1>2, TimesOf
    <2>2. Len(SubSeq(w, k + 1, Len(w))) = IF k + 1 <= Len(w) THEN Len(w) - (k + 1) + 1 ELSE 0
      BY <2>1, <1>3, SubSeqProperties
    <2>3. Len(Fresh(w)) = Len(w) - k
      <3>1. Len(Fresh(w)) = Len(SubSeq(w, k + 1, Len(w)))
        BY <1>2
      <3> QED
        BY <3>1, <2>2, <1>3
    <2>4. Len(w) = Len(a) - m
      BY <1>1
    <2> QED
      BY <2>3, <2>4, <1>3
  <1>5. ASSUME NEW i \in 1 .. m + k PROVE Old(a[i])
    <2>1. CASE i <= m
      BY <1>1, <2>1
    <2>2. CASE i > m
      <3>1. i - m \in 1 .. k /\ i - m \in 1 .. Len(w)
        BY <2>2, <1>2, <1>3
      <3>2. Old(w[i - m]) /\ w[i - m] = a[(i - m) + m]
        BY <1>1, <1>2, <3>1
      <3> QED
        BY <3>2, <1>1
    <2> QED
      BY <2>1, <2>2
  <1>6. ASSUME NEW i \in m + k + 1 .. Len(a) PROVE ~Old(a[i])
    <2>1. k + 1 \in 1 .. Len(w) /\ m + k + 1 \in 1 .. Len(a) /\ i \in 1 .. Len(a)
      BY <1>1, <1>2, <1>3
    <2>2. w[k + 1] = a[m + k + 1] /\ ~Old(w[k + 1])
      BY <2>1, <1>1, <1>2, <1>3
    <2>3. a[m + k + 1] <= a[i]
      BY <2>1 DEF Ordered
    <2> QED
      BY <2>1, <2>2, <2>3, <1>3, MessagesAssumption DEF Old
  <1>7. {i \in DOMAIN a : ~Old(a[i])} = m + k + 1 .. Len(a)
    BY <1>1, <1>2, <1>3, <1>5, <1>6
  <1> QED
    BY <1>4, <1>7

\* The listener is refused exactly when the window holds Limit broadcasts of its:
\* what failed has cost nothing, what is old costs no more (Messages.QuotaExact).
THEOREM QuotaCorrect == Spec => []QuotaExact
  <1>1. ASSUME TypeOK, Windows PROVE QuotaExact
    <2> SUFFICES ASSUME NEW s \in Sid
                 PROVE  Len(Fresh(window[s])) >= Limit
                          <=> Cardinality({i \in DOMAIN accepted[s] : ~Old(accepted[s][i])})
                                  >= Limit
      BY DEF QuotaExact
    <2>1. /\ window[s] \in Times /\ accepted[s] \in Times /\ now \in 0 .. MaxTime
          /\ Suffix(window[s], accepted[s]) /\ Ordered(accepted[s])
      BY <1>1 DEF TypeOK, Windows
    <2>2. PICK k \in 0 .. Len(accepted[s]) :
               /\ Len(Fresh(window[s])) = Len(accepted[s]) - k
               /\ {i \in DOMAIN accepted[s] : ~Old(accepted[s][i])}
                      = k + 1 .. Len(accepted[s])
      BY <2>1, FreshExact
    <2>3. Cardinality(k + 1 .. Len(accepted[s])) = Len(accepted[s]) - k
      <3>1. Len(accepted[s]) \in Nat
        BY <2>1, TimesOf
      <3>2. \A n \in Nat : Cardinality(k + 1 .. n) = IF k + 1 > n THEN 0 ELSE n - (k + 1) + 1
        <4> SUFFICES ASSUME NEW n \in Nat
                     PROVE  Cardinality(k + 1 .. n) = IF k + 1 > n THEN 0 ELSE n - (k + 1) + 1
          OBVIOUS
        <4>1. k + 1 \in Int /\ n \in Int
          BY <3>1
        <4> HIDE <2>2
        <4> QED
          BY <4>1, FS_Interval
      <3> QED
        BY <3>1, <3>2
    <2> QED
      BY <2>2, <2>3
  <1> QED
    BY <1>1, AlwaysWindows, PTL

-----------------------------------------------------------------------------
(* Targets *)

Unique ==
    \A r, s \in Sid : name[r] = name[s] /\ name[r] \notin {Empty, Absent} => r = s

LEMMA UniqueKept == TypeOK /\ Unique /\ [Next]_vars => Unique'
  <1> SUFFICES ASSUME TypeOK, Unique, [Next]_vars PROVE Unique'
    OBVIOUS
  <1>1. ASSUME NEW s \in Sid, NEW n \in Name \cup {Empty}, Join(s, n) \/ Rename(s, n)
        PROVE  Unique'
    BY <1>1 DEF Join, Rename, Free, Unique, TypeOK
  <1>2. ASSUME NEW s \in Sid, Evict(s) \/ Close(s) PROVE Unique'
    BY <1>2 DEF Evict, Close, Unique, TypeOK
  <1>3. ASSUME Crash PROVE Unique'
    BY <1>3 DEF Crash, Unique
  <1>4. ASSUME UNCHANGED name PROVE Unique'
    BY <1>4 DEF Unique
  <1> QED
    BY <1>1, <1>2, <1>3, <1>4
       DEF Next, Message, Send, Broadcast, BroadcastRefused, Pass, vars

\* However sessions come, go and are renamed, and whatever the names and session
\* ids are prefixes of, a message goes to the best match or to nobody
\* (Messages.ReachesBestMatch).
THEOREM TargetsCorrect == Spec => []ReachesBestMatch
  <1>1. ASSUME TypeOK, Unique PROVE ReachesBestMatch
    <2> SUFFICES ASSUME NEW s \in Sid, NEW t \in Text, NEW d \in Agents
                 PROVE  Reaches(s, t, d) <=> /\ d # s /\ Rank(d, t) < 5
                                             /\ \A e \in Agents \ {d} : Rank(e, t) > Rank(d, t)
      BY DEF ReachesBestMatch
    <2>1. \A e \in Agents : /\ e \in Sid /\ name[e] # Absent
                            /\ Rank(e, t) \in 1 .. 5
                            /\ Rank(e, t) = 1 <=> t = e
                            /\ Rank(e, t) = 2 <=> t # e /\ e \in Named(t)
                            /\ Rank(e, t) = 3 <=> t # e /\ e \notin Named(t) /\ e \in NamedLike(t)
                            /\ Rank(e, t) = 4 <=> t # e /\ e \notin Named(t)
                                                    /\ e \notin NamedLike(t) /\ e \in IdLike(t)
      BY DEF Rank, Agents, Named, NamedLike, IdLike
    <2>2. Named(t) \subseteq Agents /\ NamedLike(t) \subseteq Agents /\ IdLike(t) \subseteq Agents
      BY DEF Named, NamedLike, IdLike
    <2>3. CASE t \in Agents
      BY <2>1, <2>3 DEF Reaches
    <2>4. CASE t \notin Agents /\ Named(t) # {}
      <3>1. \A e \in Agents : e \in Named(t) /\ d \in Named(t) => e = d
        BY <1>1 DEF Unique, Named, Agents
      <3> QED
        BY <2>1, <2>2, <2>4, <3>1 DEF Reaches
    <2>5. CASE t \notin Agents /\ Named(t) = {} /\ NamedLike(t) # {}
      BY <2>1, <2>2, <2>5 DEF Reaches
    <2>6. CASE t \notin Agents /\ Named(t) = {} /\ NamedLike(t) = {}
      BY <2>1, <2>2, <2>6 DEF Reaches
    <2> QED
      BY <2>3, <2>4, <2>5, <2>6
  <1>2. Init => Unique
    BY DEF Init, Unique
  <1> QED
    BY <1>1, <1>2, InitType, NextType, UniqueKept, PTL DEF Spec

-----------------------------------------------------------------------------
(* The log *)

Held(f) == UNION {f[i] : i \in 0 .. Backups}

\* Higher generations are older.
Aged(f) ==
    \A i, j \in 0 .. Backups : i < j => \A x \in f[i], y \in f[j] : y < x

LogInv == Kept \subseteq 1 .. logged /\ LogHasNoGap

\* A rotation, finished or not, keeps what is not in the last generation, nothing
\* else, and the order.
LEMMA Rotation ==
    ASSUME TypeOK, LogInv, NEW f \in HalfRotated
    PROVE  /\ \A x : x \in Held(f) <=> \E i \in 0 .. Backups - 1 : x \in files[i]
           /\ Aged(f)
  <1>0. Backups \in Nat \ {0}
    BY MessagesAssumption
  <1>1. CASE f = [files EXCEPT ![Backups] = {}]
    <2>1. f \in [0 .. Backups -> SUBSET (1 .. MaxLogged)]
      BY HalfType
    <2>2. /\ f[Backups] = {}
          /\ \A i \in 0 .. Backups - 1 : f[i] = files[i]
      BY <1>0, <1>1 DEF TypeOK
    <2> QED
      BY <2>2, <1>0 DEF Held, Aged, LogInv, LogHasNoGap
  <1>2. ASSUME NEW j \in 1 .. Backups, f = Rotated(files, j)
        PROVE  /\ \A x : x \in Held(f) <=> \E i \in 0 .. Backups - 1 : x \in files[i]
               /\ Aged(f)
    <2>1. \A i \in 0 .. Backups :
              f[i] = IF i < j - 1 THEN files[i] ELSE IF i = j - 1 THEN {} ELSE files[i - 1]
      BY <1>2 DEF Rotated
    <2>2. ASSUME NEW x, x \in Held(f) PROVE \E i \in 0 .. Backups - 1 : x \in files[i]
      <3>1. PICK i \in 0 .. Backups : x \in f[i]
        BY <2>2 DEF Held
      <3> QED
        BY <3>1, <2>1, <1>0
    <2>3. ASSUME NEW i \in 0 .. Backups - 1, NEW x \in files[i] PROVE x \in Held(f)
      <3>1. CASE i < j - 1
        <4>1. x \in f[i] /\ i \in 0 .. Backups
          BY <3>1, <2>1, <1>0
        <4> QED
          BY <4>1 DEF Held
      <3>2. CASE ~(i < j - 1)
        <4>1. i + 1 \in 0 .. Backups /\ ~(i + 1 < j - 1) /\ i + 1 # j - 1 /\ (i + 1) - 1 = i
          BY <3>2, <1>0
        <4>2. x \in f[i + 1]
          BY <4>1, <2>1
        <4> QED
          BY <4>1, <4>2 DEF Held
      <3> QED
        BY <3>1, <3>2
    <2>4. Aged(f)
      <3> SUFFICES ASSUME NEW a \in 0 .. Backups, NEW b \in 0 .. Backups, a < b,
                          NEW x \in f[a], NEW y \in f[b]
                   PROVE  y < x
        BY DEF Aged
      <3>1. PICK c \in 0 .. Backups : x \in files[c] /\ c = IF a < j - 1 THEN a ELSE a - 1
        BY <2>1, <1>0
      <3>2. PICK d \in 0 .. Backups : y \in files[d] /\ d = IF b < j - 1 THEN b ELSE b - 1
        BY <2>1, <1>0
      <3>3. a # j - 1 /\ b # j - 1
        BY <2>1
      <3>4. c < d
        BY <3>1, <3>2, <3>3
      <3> QED
        BY <3>1, <3>2, <3>4 DEF LogInv, LogHasNoGap
    <2> QED
      BY <2>2, <2>3, <2>4
  <1> QED
    BY <1>1, <1>2 DEF HalfRotated

\* So the newest messages stay, and only the last generation's are lost.
LEMMA RotationKeeps ==
    ASSUME TypeOK, LogInv, NEW f \in HalfRotated \cup {files}
    PROVE  /\ Held(f) \subseteq 1 .. logged /\ Aged(f)
           /\ \A x \in Held(f) : \A y \in x .. logged : y \in Held(f)
           /\ Kept \ Held(f) \subseteq files[Backups]
  <1>0. Backups \in Nat \ {0} /\ logged \in Nat
    BY MessagesAssumption DEF TypeOK
  <1>1. CASE f = files
    BY <1>1 DEF LogInv, LogHasNoGap, Held, Aged, Kept
  <1>2. CASE f \in HalfRotated
    <2>1. \A x : x \in Held(f) <=> \E i \in 0 .. Backups - 1 : x \in files[i]
      BY <1>2, Rotation
    <2>2. \A x : x \in Kept <=> x \in Held(f) \/ x \in files[Backups]
      BY <2>1, <1>0 DEF Kept
    <2>3. ASSUME NEW x \in Held(f), NEW y \in x .. logged PROVE y \in Held(f)
      <3>1. PICK i \in 0 .. Backups - 1 : x \in files[i]
        BY <2>1
      <3>2. y \in Kept
        BY <2>2 DEF LogInv, LogHasNoGap
      <3>3. y \notin files[Backups]
        <4>1. i \in 0 .. Backups /\ Backups \in 0 .. Backups /\ i < Backups
          BY <1>0
        <4>2. x \in 1 .. logged
          BY <2>2 DEF LogInv
        <4>3. y \in files[Backups] => y < x
          BY <3>1, <4>1 DEF LogInv, LogHasNoGap
        <4> QED
          BY <4>2, <4>3, <1>0
      <3> QED
        BY <2>2, <3>2, <3>3
    <2> QED
      BY <1>2, <2>2, <2>3, Rotation DEF LogInv
  <1> QED
    BY <1>1, <1>2

LEMMA LogKept ==
    ASSUME TypeOK, LogInv, Log
    PROVE  LogInv' /\ Kept \ Kept' \subseteq files[Backups]
  <1>0. Backups \in Nat \ {0} /\ logged \in Nat
    BY MessagesAssumption DEF TypeOK
  <1>1. PICK f \in HalfRotated \cup {files} : files' = [f EXCEPT ![0] = @ \cup {logged + 1}]
    <2>1. Rotated(files, 1) \in HalfRotated
      BY <1>0 DEF HalfRotated
    <2> QED
      BY <2>1 DEF Log
  <1>2. f \in [0 .. Backups -> SUBSET (1 .. MaxLogged)]
    BY HalfType DEF TypeOK
  <1>3. /\ Held(f) \subseteq 1 .. logged /\ Aged(f)
        /\ \A x \in Held(f) : \A y \in x .. logged : y \in Held(f)
        /\ Kept \ Held(f) \subseteq files[Backups]
    BY RotationKeeps
  <1>4. /\ files'[0] = f[0] \cup {logged + 1}
        /\ \A i \in 1 .. Backups : files'[i] = f[i]
        /\ logged' = logged + 1
    BY <1>0, <1>1, <1>2 DEF Log
  <1>5. \A x : x \in Kept' <=> x \in Held(f) \/ x = logged + 1
    BY <1>0, <1>4 DEF Kept, Held
  <1>6. Aged(files')
    <2> SUFFICES ASSUME NEW a \in 0 .. Backups, NEW b \in 0 .. Backups, a < b,
                        NEW x \in files'[a], NEW y \in files'[b]
                 PROVE  y < x
      BY DEF Aged
    <2>1. y \in f[b] /\ y \in Held(f)
      BY <1>4 DEF Held
    <2>2. x \in f[a] \/ x = logged + 1
      BY <1>4, <1>0
    <2> QED
      BY <2>1, <2>2, <1>3, <1>0 DEF Aged
  <1>7. \A x \in Kept' : \A y \in x .. logged' : y \in Kept'
    BY <1>0, <1>3, <1>4, <1>5
  <1> QED
    BY <1>0, <1>3, <1>4, <1>5, <1>6, <1>7 DEF LogInv, LogHasNoGap, Aged

LEMMA LogStep ==
    ASSUME TypeOK, LogInv, [Next]_vars
    PROVE  LogInv' /\ Kept \ Kept' \subseteq files[Backups]
  <1>1. ASSUME Log PROVE LogInv' /\ Kept \ Kept' \subseteq files[Backups]
    BY <1>1, LogKept
  <1>2. ASSUME Crash PROVE LogInv' /\ Kept \ Kept' \subseteq files[Backups]
    <2>1. files' \in HalfRotated \cup {files} /\ logged' = logged
      BY <1>2 DEF Crash
    <2>2. Kept' = Held(files')
      BY DEF Kept, Held
    <2> QED
      BY <2>1, <2>2, RotationKeeps DEF LogInv, LogHasNoGap, Aged
  <1>3. ASSUME UNCHANGED <<files, logged>> PROVE LogInv' /\ Kept \ Kept' \subseteq files[Backups]
    BY <1>3 DEF LogInv, LogHasNoGap, Kept
  <1> QED
    BY <1>1, <1>2, <1>3
       DEF Next, Message, Join, Rename, Evict, Close, Send, Broadcast, BroadcastRefused,
           Pass, vars

LEMMA InitLog == Init => LogInv
  BY DEF Init, LogInv, LogHasNoGap, Kept

\* The log files hold the newest messages, in order, for any sizes and wherever a
\* server is killed while it rotates (Messages.LogHasNoGap).
THEOREM LogComplete == Spec => []LogHasNoGap
  <1>1. LogInv => LogHasNoGap
    BY DEF LogInv
  <1> QED
    BY <1>1, InitType, NextType, InitLog, LogStep, PTL DEF Spec

\* Only the last generation loses messages (Messages.DropsOldestOnly).
THEOREM OldestDropped == Spec => DropsOldestOnly
  <1>1. TypeOK /\ LogInv /\ [Next]_vars => [Kept \ Kept' \subseteq files[Backups]]_vars
    BY LogStep
  <1> QED
    BY <1>1, InitType, NextType, InitLog, LogStep, PTL DEF Spec, DropsOldestOnly

=============================================================================

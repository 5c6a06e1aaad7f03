------------------------ MODULE TelemetryQueueProofs ------------------------
(***************************************************************************)
(* Proofs about the telemetry queue, for every set of keys, groups, items  *)
(* and closers and every Concurrency and MaxPending, in three parts: its   *)
(* safety; that it implements the coalescing buffer, under the mapping of  *)
(* TelemetryQueue (what waits is the set of the pending entries, what is   *)
(* served is `running`, and the buffer is open while the queue is          *)
(* accepting); and, for the queue with its counters, that nothing is       *)
(* unaccounted for and that telemetry never goes backwards.  Only the last *)
(* part rests on the items being ordinals.                                 *)
(***************************************************************************)
EXTENDS TelemetryQueueLedger, SequenceTheorems, FiniteSetTheorems, TLAPS

USE QueueAssumption

\* The sequence that is left when takeNextEligible() removes an entry.
LEMMA RemoveAtFacts ==
    ASSUME NEW S, NEW s \in Seq(S), NEW i \in DOMAIN s
    PROVE  /\ RemoveAt(s, i) \in Seq(S)
           /\ Len(RemoveAt(s, i)) = Len(s) - 1
           /\ \A j \in 1 .. (Len(s) - 1) :
                 RemoveAt(s, i)[j] = IF j < i THEN s[j] ELSE s[j + 1]
<1>. DEFINE front == SubSeq(s, 1, i - 1)
            back == SubSeq(s, i + 1, Len(s))
<1>1. i \in 1 .. Len(s) /\ Len(s) \in Nat
  BY LenProperties
<1>2. /\ front \in Seq(S)
      /\ Len(front) = i - 1
      /\ \A j \in 1 .. (i - 1) : front[j] = s[j]
  BY <1>1
<1>3. /\ back \in Seq(S)
      /\ Len(back) = Len(s) - i
      /\ \A j \in 1 .. (Len(s) - i) : back[j] = s[j + i]
  BY <1>1
<1>. HIDE DEF front, back
<1>4. /\ front \o back \in Seq(S)
      /\ Len(front \o back) = Len(front) + Len(back)
      /\ \A j \in 1 .. Len(front) + Len(back) :
            (front \o back)[j] = IF j <= Len(front) THEN front[j] ELSE back[j - Len(front)]
  BY <1>2, <1>3, ConcatProperties
<1>5. Len(front \o back) = Len(s) - 1
  BY <1>1, <1>2, <1>3, <1>4
<1>6. ASSUME NEW j \in 1 .. (Len(s) - 1)
      PROVE  (front \o back)[j] = IF j < i THEN s[j] ELSE s[j + 1]
  <2>1. CASE j < i
    BY <2>1, <1>1, <1>2, <1>4, <1>5
  <2>2. CASE ~(j < i)
    <3>1. j - (i - 1) \in 1 .. (Len(s) - i) /\ ~(j <= i - 1)
      BY <2>2, <1>1
    <3>2. back[j - (i - 1)] = s[(j - (i - 1)) + i]
      BY <3>1, <1>3
    <3>3. (j - (i - 1)) + i = j + 1
      BY <1>1
    <3>. QED  BY <2>2, <3>1, <3>2, <3>3, <1>2, <1>4, <1>5
  <2>. QED  BY <2>1, <2>2
<1>7. RemoveAt(s, i) = front \o back
  BY DEF RemoveAt, front, back
<1>. QED  BY <1>4, <1>5, <1>6, <1>7

-----------------------------------------------------------------------------
(* The inductive invariant: the invariants of TelemetryQueue together.  The *)
(* type of `active` needs OnePerGroup (done() subtracts one), NoLostWakeup   *)
(* and CloseGuarded need each other's view of `pending` and `active`.       *)

IInv ==
    /\ TypeOK
    /\ OnePerGroup
    /\ WithinBounds
    /\ OneEntryPerKey
    /\ NoLostWakeup
    /\ CloseGuarded
    /\ ClosedIsFinal

\* What is known of the queue when an entry has been appended to it.
LEMMA AppendedEntry ==
    ASSUME NEW queue \in Seq(Entry), NEW k \in Keys, NEW v \in Items,
           \A i, j \in DOMAIN queue : queue[i].key = queue[j].key => i = j,
           \A i \in DOMAIN queue : queue[i].key # k,
           NEW q, q = Append(queue, [key |-> k, item |-> v])
    PROVE  /\ q \in Seq(Entry)
           /\ q # <<>>
           /\ Len(q) = Len(queue) + 1
           /\ \A i, j \in DOMAIN q : q[i].key = q[j].key => i = j
<1>. DEFINE e == [key |-> k, item |-> v]
<1>1. e \in Entry /\ e.key = k
  BY DEF Entry
<1>. HIDE DEF e
<1>2. q = Append(queue, e)
  BY DEF e
<1>3. /\ q \in Seq(Entry) /\ q # <<>>
      /\ Len(q) = Len(queue) + 1
      /\ \A i \in 1 .. Len(queue) : q[i] = queue[i]
      /\ q[Len(queue) + 1] = e
  BY <1>1, <1>2, AppendProperties
<1>4. DOMAIN queue = 1 .. Len(queue) /\ DOMAIN q = 1 .. Len(queue) + 1 /\ Len(queue) \in Nat
  BY <1>3, LenProperties
<1>5. \A i, j \in DOMAIN q : q[i].key = q[j].key => i = j
  BY <1>1, <1>3, <1>4
<1>. QED  BY <1>3, <1>5

\* checkIdle() keeps a close guarded and final, whatever changed before it.
LEMMA CheckIdleKeepsClose ==
    ASSUME TypeOK, ClosedIsFinal,
           NEW callbacks \in SUBSET Closers, NEW timer \in BOOLEAN,
           accepting' \in BOOLEAN, CheckIdle(callbacks, timer),
           timer <=> ~accepting' /\ ~closeFinished,
           closeFinished => ~accepting' /\ pending' = <<>>
    PROVE  /\ closeTimer' \in BOOLEAN /\ closeFinished' \in BOOLEAN
           /\ closeCallbacks' \subseteq Closers /\ notified' \subseteq Closers
           /\ CloseGuarded'
           /\ ClosedIsFinal'
BY DEF TypeOK, CheckIdle, FinishClose, CloseGuarded, ClosedIsFinal

\* The empty queue that createTelemetryQueue() makes satisfies the invariant.
THEOREM InitSafe == Init => IInv
<1>. SUFFICES ASSUME Init PROVE IInv
  OBVIOUS
<1>. USE DEF Init
<1>1. pending \in Seq(Entry) /\ Len(pending) = 0 /\ DOMAIN pending = {}
  OBVIOUS
<1>2. Cardinality(activeGroups) = 0 /\ IsFiniteSet(activeGroups)
  BY FS_EmptySet
<1>3. TypeOK
  BY <1>1 DEF TypeOK
<1>4. OnePerGroup /\ WithinBounds
  BY <1>1, <1>2 DEF OnePerGroup, WithinBounds
<1>5. OneEntryPerKey /\ NoLostWakeup
  BY <1>1 DEF OneEntryPerKey, NoLostWakeup, SomeEligible
<1>6. CloseGuarded /\ ClosedIsFinal
  BY DEF CloseGuarded, ClosedIsFinal
<1>. QED  BY <1>3, <1>4, <1>5, <1>6 DEF IInv

\* enqueue() of a pending key: only its item changes, so no entry becomes eligible.
LEMMA CoalescedSafe ==
    ASSUME IInv, NEW k \in Keys, NEW v \in Items, EnqueueCoalesced(k, v)
    PROVE  IInv'
<1>. DEFINE e == [key |-> k, item |-> v]
<1>. USE DEF IInv
<1>1. e \in Entry /\ e.key = k
  BY DEF Entry
<1>. HIDE DEF e
<1>2. PICK i \in DOMAIN pending : pending[i].key = k /\ pending' = [pending EXCEPT ![i] = e]
  BY DEF EnqueueCoalesced, e
<1>3. /\ pending' \in Seq(Entry)
      /\ Len(pending') = Len(pending)
      /\ DOMAIN pending' = DOMAIN pending
      /\ DOMAIN pending = 1 .. Len(pending)
      /\ \A j \in DOMAIN pending : pending'[j] = IF j = i THEN e ELSE pending[j]
  BY <1>1, <1>2, ExceptSeq, LenProperties DEF TypeOK
<1>4. \A j \in DOMAIN pending : pending'[j].key = pending[j].key
  BY <1>1, <1>2, <1>3
<1>5. TypeOK'
  BY <1>3 DEF TypeOK, EnqueueCoalesced, workVars, closeVars
<1>6. OnePerGroup' /\ WithinBounds'
  BY <1>3 DEF OnePerGroup, WithinBounds, EnqueueCoalesced, workVars, Group
<1>7. OneEntryPerKey'
  BY <1>3, <1>4 DEF OneEntryPerKey
<1>8. NoLostWakeup'
  BY <1>3, <1>4 DEF NoLostWakeup, SomeEligible, Group, EnqueueCoalesced, workVars
<1>9. CloseGuarded' /\ ClosedIsFinal'
  BY <1>2, <1>3 DEF CloseGuarded, ClosedIsFinal, EnqueueCoalesced, workVars, closeVars
<1>. QED  BY <1>5, <1>6, <1>7, <1>8, <1>9

\* EnqueueNew and EnqueueOverflow: an entry is appended to what is left of `pending`.
LEMMA InsertSafe ==
    ASSUME IInv, accepting, NEW queue \in Seq(Entry), Len(queue) < MaxPending,
           \A i, j \in DOMAIN queue : queue[i].key = queue[j].key => i = j,
           \A i \in DOMAIN queue : queue[i].key \in PendingKeys,
           NEW k \in Keys, NEW v \in Items, Insert(queue, k, v)
    PROVE  IInv'
<1>. USE DEF IInv
<1>1. \A i \in DOMAIN queue : queue[i].key # k
  BY DEF Insert
<1>2. /\ pending' \in Seq(Entry)
      /\ pending' # <<>>
      /\ Len(pending') = Len(queue) + 1
      /\ \A i, j \in DOMAIN pending' : pending'[i].key = pending'[j].key => i = j
  BY <1>1, AppendedEntry DEF Insert
<1>3. TypeOK'
  BY <1>2 DEF TypeOK, Insert, workVars, closeVars
<1>4. OnePerGroup' /\ WithinBounds'
  <2>1. Len(queue) \in Nat
    BY LenProperties
  <2>. QED  BY <1>2, <2>1 DEF OnePerGroup, WithinBounds, Insert, workVars, Group
<1>5. OneEntryPerKey' /\ NoLostWakeup'
  BY <1>2 DEF OneEntryPerKey, NoLostWakeup, Insert
<1>6. CloseGuarded' /\ ClosedIsFinal'
  BY <1>2 DEF CloseGuarded, ClosedIsFinal, Insert, workVars, closeVars
<1>. QED  BY <1>3, <1>4, <1>5, <1>6

\* Every branch of enqueue() preserves the invariant.
LEMMA EnqueueSafe ==
    ASSUME IInv, NEW k \in Keys, NEW v \in Items, Enqueue(k, v)
    PROVE  IInv'
<1>. USE DEF IInv
<1>1. DOMAIN pending = 1 .. Len(pending) /\ Len(pending) \in Nat
  BY LenProperties DEF TypeOK
<1>2. CASE EnqueueCoalesced(k, v)
  BY <1>2, CoalescedSafe
<1>3. CASE EnqueueNew(k, v)
  <2>1. \A i \in DOMAIN pending : pending[i].key \in PendingKeys
    BY DEF PendingKeys
  <2>. QED  BY <1>3, <2>1, InsertSafe DEF EnqueueNew, TypeOK, OneEntryPerKey
<1>4. CASE EnqueueOverflow(k, v)
  <2>. DEFINE queue == Tail(pending)
  <2>1. pending # <<>>
    BY <1>1, <1>4 DEF EnqueueOverflow
  <2>2. /\ queue \in Seq(Entry)
        /\ Len(queue) = Len(pending) - 1
        /\ \A i \in 1 .. Len(queue) : queue[i] = pending[i + 1]
    BY <2>1, HeadTailProperties DEF TypeOK
  <2>3. DOMAIN queue = 1 .. Len(queue)
    BY <2>2, LenProperties
  <2>. HIDE DEF queue
  <2>4. \A i \in DOMAIN queue : i + 1 \in DOMAIN pending /\ queue[i] = pending[i + 1]
    BY <1>1, <2>2, <2>3
  <2>5. \A i \in DOMAIN queue : queue[i].key \in PendingKeys
    BY <2>4 DEF PendingKeys
  <2>6. ASSUME NEW i \in DOMAIN queue, NEW j \in DOMAIN queue, queue[i].key = queue[j].key
        PROVE  i = j
    <3>1. i + 1 = j + 1
      BY <2>4, <2>6 DEF OneEntryPerKey
    <3>. QED  BY <3>1, <2>3
  <2>7. Len(queue) < MaxPending
    BY <1>1, <2>2 DEF WithinBounds
  <2>8. Insert(queue, k, v) /\ accepting
    BY <1>4 DEF EnqueueOverflow, queue
  <2>. QED  BY <2>2, <2>5, <2>6, <2>7, <2>8, InsertSafe
<1>5. CASE EnqueueClosed(k, v)
  BY <1>5 DEF EnqueueClosed, vars, workVars, closeVars, TypeOK, OnePerGroup, WithinBounds,
     OneEntryPerKey, NoLostWakeup, SomeEligible, Group, CloseGuarded, ClosedIsFinal
<1>. QED  BY <1>2, <1>3, <1>4, <1>5 DEF Enqueue

-----------------------------------------------------------------------------
\* What is left of `pending` when an entry is started.
LEMMA RemovedEntry ==
    ASSUME TypeOK, OneEntryPerKey, NEW i \in DOMAIN pending, pending' = RemoveAt(pending, i)
    PROVE  /\ pending[i] \in Entry
           /\ Group(pending[i]) \in Groups
           /\ pending' \in Seq(Entry)
           /\ Len(pending') = Len(pending) - 1
           /\ Len(pending) \in Nat
           /\ OneEntryPerKey'
<1>1. DOMAIN pending = 1 .. Len(pending) /\ Len(pending) \in Nat /\ pending[i] \in Entry
  BY LenProperties DEF TypeOK
<1>2. /\ pending' \in Seq(Entry)
      /\ Len(pending') = Len(pending) - 1
      /\ \A j \in 1 .. (Len(pending) - 1) :
            pending'[j] = IF j < i THEN pending[j] ELSE pending[j + 1]
  BY RemoveAtFacts DEF TypeOK
<1>3. DOMAIN pending' = 1 .. (Len(pending) - 1)
  BY <1>2, LenProperties
<1>4. OneEntryPerKey'
  <2>. SUFFICES ASSUME NEW j \in DOMAIN pending', NEW l \in DOMAIN pending',
                       pending'[j].key = pending'[l].key
                PROVE  j = l
    BY DEF OneEntryPerKey
  <2>. DEFINE from(n) == IF n < i THEN n ELSE n + 1
  <2>1. \A n \in DOMAIN pending' : from(n) \in DOMAIN pending /\ pending'[n] = pending[from(n)]
    BY <1>1, <1>2, <1>3
  <2>2. from(j) = from(l)
    BY <2>1 DEF OneEntryPerKey
  <2>. QED  BY <1>1, <1>3, <2>2
<1>5. Group(pending[i]) \in Groups
  BY <1>1 DEF Group, Entry
<1>. QED  BY <1>1, <1>2, <1>4, <1>5

\* drain() starts an entry whose worker goes on: the group is taken, the loop goes on.
LEMMA StartEntrySafe ==
    ASSUME IInv, NEW i \in DOMAIN pending, StartEntry(i)
    PROVE  IInv'
<1>. USE DEF IInv
<1>. DEFINE g == Group(pending[i])
<1>1. /\ pending[i] \in Entry
      /\ g \in Groups
      /\ pending' \in Seq(Entry)
      /\ Len(pending') = Len(pending) - 1
      /\ Len(pending) \in Nat
      /\ OneEntryPerKey'
  BY RemovedEntry DEF StartEntry
<1>2. /\ inDrain /\ active < Concurrency
      /\ g \notin activeGroups
  BY DEF StartEntry, MayStart, NextEligible
<1>3. /\ active' = active + 1
      /\ activeGroups' = activeGroups \cup {g}
      /\ running' = running \cup {pending[i]}
      /\ UNCHANGED <<finished, draining, inDrain, closeVars>>
  BY DEF StartEntry
<1>4. TypeOK'
  BY <1>1, <1>3 DEF TypeOK, closeVars
<1>5. OnePerGroup'
  <2>1. IsFiniteSet(activeGroups') /\ Cardinality(activeGroups') = Cardinality(activeGroups) + 1
    BY <1>2, <1>3, FS_AddElement DEF OnePerGroup
  <2>2. activeGroups' = {Group(e) : e \in running'}
    BY <1>3 DEF OnePerGroup
  <2>3. \A e, f \in running' : Group(e) = Group(f) => e = f
    BY <1>2, <1>3 DEF OnePerGroup
  <2>. QED  BY <1>3, <2>1, <2>2, <2>3 DEF OnePerGroup, Group
<1>6. WithinBounds'
  BY <1>1, <1>2, <1>3 DEF WithinBounds, TypeOK
<1>7. NoLostWakeup'
  BY <1>2, <1>3 DEF NoLostWakeup
<1>8. CloseGuarded' /\ ClosedIsFinal'
  <2>1. ~closeFinished
    BY DEF ClosedIsFinal
  <2>. QED  BY <1>3, <2>1 DEF CloseGuarded, ClosedIsFinal, closeVars, TypeOK
<1>. QED  BY <1>1, <1>4, <1>5, <1>6, <1>7, <1>8

\* drain() starts an entry whose worker is done at once: a new drain() is scheduled.
LEMMA StartAndFinishEntrySafe ==
    ASSUME IInv, NEW i \in DOMAIN pending, StartAndFinishEntry(i)
    PROVE  IInv'
<1>. USE DEF IInv
<1>1. /\ Group(pending[i]) \in Groups
      /\ pending' \in Seq(Entry)
      /\ Len(pending') = Len(pending) - 1
      /\ Len(pending) \in Nat
      /\ OneEntryPerKey'
  BY RemovedEntry DEF StartAndFinishEntry
<1>2. /\ finished' = finished \cup {Group(pending[i])}
      /\ draining' = TRUE
      /\ UNCHANGED <<active, activeGroups, running, inDrain, accepting>>
      /\ CheckIdle(closeCallbacks, closeTimer)
  BY DEF StartAndFinishEntry
<1>3. ~closeFinished
  BY DEF ClosedIsFinal
<1>4. /\ closeTimer' \in BOOLEAN /\ closeFinished' \in BOOLEAN
      /\ closeCallbacks' \subseteq Closers /\ notified' \subseteq Closers
      /\ CloseGuarded' /\ ClosedIsFinal'
  BY <1>2, <1>3, CheckIdleKeepsClose DEF TypeOK, CloseGuarded
<1>5. TypeOK'
  BY <1>1, <1>2, <1>4 DEF TypeOK
<1>6. OnePerGroup' /\ WithinBounds'
  BY <1>1, <1>2 DEF OnePerGroup, WithinBounds, Group
<1>7. NoLostWakeup'
  BY <1>2 DEF NoLostWakeup
<1>. QED  BY <1>1, <1>4, <1>5, <1>6, <1>7

\* The setImmediate callback: the scheduled drain() becomes the one in progress.
LEMMA DrainBeginSafe == ASSUME IInv, DrainBegin PROVE IInv'
BY DEF IInv, DrainBegin, workVars, closeVars, TypeOK, OnePerGroup, WithinBounds,
   OneEntryPerKey, NoLostWakeup, Group, CloseGuarded, ClosedIsFinal

\* drain() ends: no slot is free or nothing is eligible, so no wake-up is due.
LEMMA DrainEndSafe == ASSUME IInv, DrainEnd PROVE IInv'
<1>. USE DEF IInv
<1>1. /\ inDrain' = FALSE
      /\ UNCHANGED <<pending, workVars, draining, accepting>>
      /\ CheckIdle(closeCallbacks, closeTimer)
  BY DEF DrainEnd
<1>2. /\ closeTimer' \in BOOLEAN /\ closeFinished' \in BOOLEAN
      /\ closeCallbacks' \subseteq Closers /\ notified' \subseteq Closers
      /\ CloseGuarded' /\ ClosedIsFinal'
  BY <1>1, CheckIdleKeepsClose DEF TypeOK, CloseGuarded, ClosedIsFinal
<1>3. TypeOK'
  BY <1>1, <1>2 DEF TypeOK, workVars
<1>4. OnePerGroup' /\ WithinBounds' /\ OneEntryPerKey'
  BY <1>1 DEF OnePerGroup, WithinBounds, OneEntryPerKey, Group, workVars
<1>5. NoLostWakeup'
  BY <1>1 DEF NoLostWakeup, SomeEligible, Group, DrainEnd, workVars, TypeOK
<1>. QED  BY <1>2, <1>3, <1>4, <1>5

-----------------------------------------------------------------------------
\* A worker calls done(): its group is released and drain() is scheduled.
LEMMA DoneSafe ==
    ASSUME IInv, NEW entry \in running, Done(entry)
    PROVE  IInv'
<1>. USE DEF IInv
<1>. DEFINE g == Group(entry)
<1>1. /\ active' = active - 1
      /\ activeGroups' = activeGroups \ {g}
      /\ running' = running \ {entry}
      /\ finished' = finished \cup {g}
      /\ draining' = TRUE
      /\ UNCHANGED <<pending, inDrain, accepting>>
      /\ CheckIdle(closeCallbacks, closeTimer)
  BY DEF Done
<1>2. g \in activeGroups /\ g \in Groups
  BY DEF OnePerGroup, TypeOK
<1>3. /\ IsFiniteSet(activeGroups')
      /\ Cardinality(activeGroups') = Cardinality(activeGroups) - 1
  BY <1>1, <1>2, FS_RemoveElement DEF OnePerGroup
<1>4. Cardinality(activeGroups') \in Nat
  BY <1>3, FS_CardinalityType
<1>5. OnePerGroup'
  <2>1. activeGroups' = {Group(e) : e \in running'}
    BY <1>1 DEF OnePerGroup
  <2>. QED  BY <1>1, <1>3, <2>1 DEF OnePerGroup, Group
<1>6. /\ closeTimer' \in BOOLEAN /\ closeFinished' \in BOOLEAN
      /\ closeCallbacks' \subseteq Closers /\ notified' \subseteq Closers
      /\ CloseGuarded' /\ ClosedIsFinal'
  BY <1>1, CheckIdleKeepsClose DEF TypeOK, CloseGuarded, ClosedIsFinal
<1>7. active' \in Nat
  BY <1>1, <1>3, <1>4 DEF OnePerGroup
<1>8. TypeOK'
  BY <1>1, <1>2, <1>6, <1>7 DEF TypeOK
<1>9. WithinBounds' /\ OneEntryPerKey' /\ NoLostWakeup'
  BY <1>1 DEF WithinBounds, OneEntryPerKey, NoLostWakeup, TypeOK
<1>. QED  BY <1>5, <1>6, <1>8, <1>9

\* close(): the timer is armed, or the queue is idle and the close is over.
LEMMA CloseSafe == ASSUME IInv, NEW c \in Closers, Close(c) PROVE IInv'
<1>. USE DEF IInv
<1>1. /\ accepting' = FALSE
      /\ draining' = TRUE
      /\ UNCHANGED <<pending, workVars, inDrain>>
      /\ CheckIdle(closeCallbacks \cup {c}, closeTimer \/ ~closeFinished)
  BY DEF Close
<1>2. closeTimer \/ ~closeFinished <=> ~closeFinished
  BY DEF CloseGuarded
<1>3. closeCallbacks \cup {c} \in SUBSET Closers /\ (closeTimer \/ ~closeFinished) \in BOOLEAN
  BY DEF TypeOK
<1>4. closeFinished => pending' = <<>>
  BY <1>1 DEF ClosedIsFinal
<1>5. /\ closeTimer' \in BOOLEAN /\ closeFinished' \in BOOLEAN
      /\ closeCallbacks' \subseteq Closers /\ notified' \subseteq Closers
      /\ CloseGuarded' /\ ClosedIsFinal'
  BY <1>1, <1>2, <1>3, <1>4, CheckIdleKeepsClose
<1>6. TypeOK'
  BY <1>1, <1>5 DEF TypeOK, workVars
<1>7. OnePerGroup' /\ WithinBounds' /\ OneEntryPerKey' /\ NoLostWakeup'
  BY <1>1 DEF OnePerGroup, WithinBounds, OneEntryPerKey, NoLostWakeup, Group, workVars
<1>. QED  BY <1>5, <1>6, <1>7

\* The shutdown timer empties the queue and ends the close.
LEMMA ShutdownTimeoutSafe == ASSUME IInv, ShutdownTimeout PROVE IInv'
<1>. USE DEF IInv, ShutdownTimeout
<1>1. pending' \in Seq(Entry) /\ Len(pending') = 0 /\ DOMAIN pending' = {}
  OBVIOUS
<1>2. TypeOK'
  BY <1>1 DEF TypeOK, FinishClose, workVars
<1>3. OnePerGroup' /\ WithinBounds'
  BY <1>1 DEF OnePerGroup, WithinBounds, Group, workVars
<1>4. OneEntryPerKey' /\ NoLostWakeup'
  BY <1>1 DEF OneEntryPerKey, NoLostWakeup, SomeEligible
<1>5. CloseGuarded' /\ ClosedIsFinal'
  BY DEF CloseGuarded, ClosedIsFinal, FinishClose
<1>. QED  BY <1>2, <1>3, <1>4, <1>5

\* Every step preserves the invariant.
THEOREM NextSafe == IInv /\ [Next]_vars => IInv'
<1>. SUFFICES ASSUME IInv, [Next]_vars PROVE IInv'
  OBVIOUS
<1>1. CASE UNCHANGED vars
  BY <1>1 DEF IInv, vars, workVars, closeVars, TypeOK, OnePerGroup, WithinBounds,
     OneEntryPerKey, NoLostWakeup, SomeEligible, Group, CloseGuarded, ClosedIsFinal
<1>2. CASE \E k \in Keys, v \in Items : Enqueue(k, v)
  BY <1>2, EnqueueSafe
<1>3. CASE DrainStep
  BY <1>3, DrainBeginSafe, StartEntrySafe, StartAndFinishEntrySafe, DrainEndSafe DEF DrainStep
<1>4. CASE \E entry \in running : Done(entry)
  BY <1>4, DoneSafe
<1>5. CASE \E g \in Groups : DoneAgain(g)
  BY <1>5, <1>1 DEF DoneAgain
<1>6. CASE \E c \in Closers : Close(c)
  BY <1>6, CloseSafe
<1>7. CASE ShutdownTimeout
  BY <1>7, ShutdownTimeoutSafe
<1>. QED  BY <1>1, <1>2, <1>3, <1>4, <1>5, <1>6, <1>7 DEF Next

\* The invariant holds in every state of the queue.
THEOREM Invariance == Spec => []IInv
BY InitSafe, NextSafe, PTL DEF Spec

\* Every variable keeps its type.
THEOREM TypeCorrect == Spec => []TypeOK
<1>1. IInv => TypeOK
  BY DEF IInv
<1>. QED  BY <1>1, Invariance, PTL

\* No two workers ever serve one device, and the two counts kept of the
\* workers agree with the workers themselves.
THEOREM Exclusion == Spec => []OnePerGroup
<1>1. IInv => OnePerGroup
  BY DEF IInv
<1>. QED  BY <1>1, Invariance, PTL

\* The queue and the number of concurrent updates stay within their limits.
THEOREM Bounded == Spec => [](WithinBounds /\ OneEntryPerKey)
<1>1. IInv => WithinBounds /\ OneEntryPerKey
  BY DEF IInv
<1>. QED  BY <1>1, Invariance, PTL

\* An entry that could be started always has a drain() to start it.
THEOREM WakeupKept == Spec => []NoLostWakeup
<1>1. IInv => NoLostWakeup
  BY DEF IInv
<1>. QED  BY <1>1, Invariance, PTL

\* A close is over at once when idle, guarded by the timer until then, and final.
THEOREM CloseCorrect == Spec => [](CloseGuarded /\ ClosedIsFinal)
<1>1. IInv => CloseGuarded /\ ClosedIsFinal
  BY DEF IInv
<1>. QED  BY <1>1, Invariance, PTL

-----------------------------------------------------------------------------
\* checkIdle() ends a close only when no worker is left.
LEMMA CheckIdleWaits ==
    ASSUME NEW callbacks, NEW timer, OnePerGroup', CheckIdle(callbacks, timer),
           closeFinished' # closeFinished
    PROVE  running' = {}
<1>1. active' = 0
  BY DEF CheckIdle
<1>2. activeGroups' = {}
  BY <1>1, FS_EmptySet DEF OnePerGroup
<1>. QED  BY <1>2 DEF OnePerGroup

\* Only the shutdown timer ends a close while a worker runs: the MQTT client
\* is released after the last update has been answered, or at the time limit.
THEOREM CloseWaits == Spec => NoEarlyClose
<1>1. ASSUME IInv, [Next]_vars, closeFinished' # closeFinished, running' # {}
      PROVE  ShutdownTimeout
  <2>1. OnePerGroup'
    BY <1>1, NextSafe DEF IInv
  <2>2. \A callbacks, timer : ~CheckIdle(callbacks, timer)
    BY <1>1, <2>1, CheckIdleWaits
  <2>3. \A k \in Keys, v \in Items : ~Enqueue(k, v)
    BY <1>1 DEF Enqueue, EnqueueCoalesced, EnqueueNew, EnqueueOverflow, EnqueueClosed, Insert, closeVars, vars
  <2>4. ~DrainStep
    BY <1>1, <2>2 DEF DrainStep, DrainBegin, DrainEnd, StartEntry, StartAndFinishEntry, closeVars
  <2>5. \A entry \in running : ~Done(entry)
    BY <2>2 DEF Done
  <2>6. \A g \in Groups : ~DoneAgain(g)
    BY <1>1 DEF DoneAgain, vars, closeVars
  <2>7. \A c \in Closers : ~Close(c)
    BY <2>2 DEF Close
  <2>8. ~UNCHANGED vars
    BY <1>1 DEF vars, closeVars
  <2>. QED  BY <1>1, <2>3, <2>4, <2>5, <2>6, <2>7, <2>8 DEF Next
<1>2. IInv /\ [Next]_vars => [closeFinished' # closeFinished /\ running' # {} => ShutdownTimeout]_vars
  BY <1>1
<1>. QED  BY <1>2, Invariance, PTL DEF Spec, NoEarlyClose

-----------------------------------------------------------------------------
(* The queue implements the coalescing buffer *)

\* The pending entries, as a set, are as many as in the queue.
LEMMA PendingCount ==
    ASSUME TypeOK, OneEntryPerKey
    PROVE  Cardinality(ToSet(pending)) = Len(pending)
<1>1. pending \in [1 .. Len(pending) -> Entry] /\ Len(pending) \in Nat
  BY LenProperties DEF TypeOK
<1>2. pending \in Bijection(1 .. Len(pending), ToSet(pending))
  BY <1>1 DEF Bijection, Injection, Surjection, IsInjective, ToSet, OneEntryPerKey
<1>3. ExistsBijection(1 .. Len(pending), ToSet(pending))
  BY <1>2 DEF ExistsBijection
<1>. QED  BY <1>1, <1>3, FS_CountingElements

\* `active` is the number of entries being served.
LEMMA RunningCount ==
    ASSUME TypeOK, OnePerGroup
    PROVE  Cardinality(running) = active
<1>. DEFINE f == [e \in running |-> Group(e)]
<1>1. f \in Bijection(running, activeGroups)
  BY DEF Bijection, Injection, Surjection, IsInjective, OnePerGroup
<1>2. IsFiniteSet(running)
  BY <1>1, FS_Injection DEF Bijection, OnePerGroup
<1>3. ExistsBijection(running, activeGroups)
  BY <1>1 DEF ExistsBijection
<1>. QED  BY <1>2, <1>3, FS_Bijection DEF OnePerGroup

\* The buffer counts with the same Cardinality.
LEMMA SameCardinality ==
    ASSUME NEW S
    PROVE  Buffer!Cardinality(S) = Cardinality(S)
BY DEF Buffer!Cardinality, Cardinality

\* A key waits in the buffer when it is pending in the queue.
LEMMA WaitsIsPending ==
    ASSUME NEW k
    PROVE  Buffer!Waits(k) <=> k \in PendingKeys
BY DEF Buffer!Waits, PendingKeys, ToSet

\* Appending an entry to the queue adds it to the set.
LEMMA AppendedSet ==
    ASSUME NEW queue \in Seq(Entry), NEW e \in Entry
    PROVE  ToSet(Append(queue, e)) = ToSet(queue) \cup {e}
<1>1. /\ Append(queue, e) \in Seq(Entry)
      /\ Len(Append(queue, e)) = Len(queue) + 1
      /\ \A i \in 1 .. Len(queue) : Append(queue, e)[i] = queue[i]
      /\ Append(queue, e)[Len(queue) + 1] = e
  BY AppendProperties
<1>2. DOMAIN Append(queue, e) = 1 .. Len(queue) + 1 /\ DOMAIN queue = 1 .. Len(queue)
      /\ Len(queue) \in Nat
  BY <1>1, LenProperties
<1>. HIDE DEF Entry
<1>3. ASSUME NEW x \in ToSet(Append(queue, e)) PROVE x \in ToSet(queue) \cup {e}
  BY <1>1, <1>2 DEF ToSet
<1>4. ASSUME NEW x \in ToSet(queue) PROVE x \in ToSet(Append(queue, e))
  BY <1>1, <1>2 DEF ToSet
<1>5. e \in ToSet(Append(queue, e))
  BY <1>1, <1>2 DEF ToSet
<1>. QED  BY <1>3, <1>4, <1>5

\* Removing an entry from the queue removes it from the set.
LEMMA RemovedSet ==
    ASSUME TypeOK, OneEntryPerKey, NEW i \in DOMAIN pending
    PROVE  ToSet(RemoveAt(pending, i)) = ToSet(pending) \ {pending[i]}
<1>. DEFINE rest == RemoveAt(pending, i)
<1>1. DOMAIN pending = 1 .. Len(pending) /\ Len(pending) \in Nat
  BY LenProperties DEF TypeOK
<1>2. /\ rest \in Seq(Entry)
      /\ Len(rest) = Len(pending) - 1
      /\ \A j \in 1 .. (Len(pending) - 1) :
            rest[j] = IF j < i THEN pending[j] ELSE pending[j + 1]
  BY RemoveAtFacts DEF TypeOK
<1>3. DOMAIN rest = 1 .. (Len(pending) - 1)
  BY <1>2, LenProperties
<1>. HIDE DEF rest
<1>4. ASSUME NEW j \in DOMAIN rest PROVE rest[j] \in ToSet(pending) \ {pending[i]}
  <2>1. CASE j < i
    <3>1. rest[j] = pending[j] /\ j \in DOMAIN pending /\ j # i
      BY <1>1, <1>2, <1>3, <2>1
    <3>. QED  BY <3>1 DEF ToSet, OneEntryPerKey
  <2>2. CASE ~(j < i)
    <3>1. rest[j] = pending[j + 1] /\ j + 1 \in DOMAIN pending /\ j + 1 # i
      BY <1>1, <1>2, <1>3, <2>2
    <3>. QED  BY <3>1 DEF ToSet, OneEntryPerKey
  <2>. QED  BY <2>1, <2>2
<1>5. ASSUME NEW j \in DOMAIN pending, j # i PROVE pending[j] \in ToSet(rest)
  <2>1. CASE j < i
    <3>1. j \in DOMAIN rest /\ rest[j] = pending[j]
      BY <1>1, <1>2, <1>3, <2>1
    <3>. QED  BY <3>1 DEF ToSet
  <2>2. CASE ~(j < i)
    <3>1. j - 1 \in DOMAIN rest /\ ~(j - 1 < i) /\ (j - 1) + 1 = j
      BY <1>1, <1>3, <1>5, <2>2
    <3>2. rest[j - 1] = pending[j]
      BY <1>2, <1>3, <3>1
    <3>. QED  BY <3>1, <3>2 DEF ToSet
  <2>. QED  BY <2>1, <2>2
<1>6. ToSet(rest) = ToSet(pending) \ {pending[i]}
  BY <1>4, <1>5 DEF ToSet
<1>. QED  BY <1>6 DEF rest

-----------------------------------------------------------------------------
BufferVars == <<ToSet(pending), running, accepting>>

\* A key that is pending gets the new item: Put.
LEMMA CoalescedIsPut ==
    ASSUME IInv, NEW k \in Keys, NEW v \in Items, EnqueueCoalesced(k, v)
    PROVE  Buffer!Put(k, v)
<1>. DEFINE e == [key |-> k, item |-> v]
<1>1. e \in Entry /\ e.key = k
  BY DEF Entry
<1>. HIDE DEF e
<1>2. PICK i \in DOMAIN pending : pending[i].key = k /\ pending' = [pending EXCEPT ![i] = e]
  BY DEF EnqueueCoalesced, e
<1>3. /\ DOMAIN pending' = DOMAIN pending
      /\ \A j \in DOMAIN pending : pending'[j] = IF j = i THEN e ELSE pending[j]
  BY <1>1, <1>2, ExceptSeq, LenProperties DEF IInv, TypeOK
<1>4. ToSet(pending)' = {x \in ToSet(pending) : x.key # k} \cup {e}
  <2>1. ASSUME NEW j \in DOMAIN pending'
        PROVE  pending'[j] \in {x \in ToSet(pending) : x.key # k} \cup {e}
    BY <1>2, <1>3 DEF ToSet, IInv, OneEntryPerKey
  <2>2. ASSUME NEW j \in DOMAIN pending, pending[j].key # k PROVE pending[j] \in ToSet(pending')
    BY <1>2, <1>3, <2>2 DEF ToSet
  <2>3. e \in ToSet(pending')
    BY <1>2, <1>3 DEF ToSet
  <2>. QED  BY <2>1, <2>2, <2>3 DEF ToSet
<1>5. Buffer!Waits(k)
  BY <1>2, WaitsIsPending DEF PendingKeys
<1>6. accepting /\ UNCHANGED <<running, accepting>>
  BY DEF EnqueueCoalesced, workVars, closeVars
<1>. QED  BY <1>4, <1>5, <1>6 DEF Buffer!Put, e

\* A new key is put in the room there is: Put.
LEMMA NewIsPut ==
    ASSUME IInv, NEW k \in Keys, NEW v \in Items, EnqueueNew(k, v)
    PROVE  Buffer!Put(k, v)
<1>. DEFINE e == [key |-> k, item |-> v]
<1>1. e \in Entry /\ pending \in Seq(Entry)
  BY DEF Entry, IInv, TypeOK
<1>2. ToSet(pending') = ToSet(pending) \cup {e}
  BY <1>1, AppendedSet DEF EnqueueNew, Insert
<1>3. \A x \in ToSet(pending) : x.key # k
  BY DEF EnqueueNew, Insert, PendingKeys, ToSet
<1>4. Cardinality(ToSet(pending)) < MaxPending
  BY PendingCount DEF EnqueueNew, IInv
<1>5. accepting /\ UNCHANGED <<running, accepting>>
  BY DEF EnqueueNew, Insert, workVars, closeVars
<1>6. ToSet(pending)' = {x \in ToSet(pending) : x.key # k} \cup {e}
  BY <1>2, <1>3 DEF ToSet
<1>. QED  BY <1>4, <1>5, <1>6, SameCardinality DEF Buffer!Put

\* A new key in a full queue takes the place of the oldest entry: PutEvicting.
LEMMA OverflowIsPutEvicting ==
    ASSUME IInv, NEW k \in Keys, NEW v \in Items, EnqueueOverflow(k, v)
    PROVE  Buffer!PutEvicting(k, v)
<1>. DEFINE e == [key |-> k, item |-> v]
<1>1. e \in Entry /\ pending \in Seq(Entry) /\ Len(pending) \in Nat /\ Len(pending) = MaxPending
  BY LenProperties DEF Entry, IInv, TypeOK, WithinBounds, EnqueueOverflow
<1>2. pending # <<>> /\ DOMAIN pending = 1 .. Len(pending) /\ 1 \in DOMAIN pending
  BY <1>1, LenProperties
<1>3. ToSet(Tail(pending)) = ToSet(pending) \ {pending[1]}
  <2>1. /\ Tail(pending) \in Seq(Entry)
        /\ Len(Tail(pending)) = Len(pending) - 1
        /\ \A i \in 1 .. Len(Tail(pending)) : Tail(pending)[i] = pending[i + 1]
    BY <1>1, <1>2, HeadTailProperties
  <2>2. DOMAIN Tail(pending) = 1 .. (Len(pending) - 1)
    BY <2>1, LenProperties
  <2>3. \A i \in DOMAIN Tail(pending) :
           i + 1 \in DOMAIN pending /\ i + 1 # 1 /\ Tail(pending)[i] = pending[i + 1]
    BY <1>1, <1>2, <2>1, <2>2
  <2>4. \A i \in DOMAIN pending :
           i # 1 => i - 1 \in DOMAIN Tail(pending) /\ Tail(pending)[i - 1] = pending[i]
    BY <1>1, <1>2, <2>1, <2>2
  <2>. QED  BY <1>2, <2>3, <2>4 DEF ToSet, IInv, OneEntryPerKey
<1>4. Tail(pending) \in Seq(Entry)
  BY <1>1, <1>2, HeadTailProperties
<1>5. ToSet(pending') = (ToSet(pending) \ {pending[1]}) \cup {e}
  BY <1>1, <1>3, <1>4, AppendedSet DEF EnqueueOverflow, Insert
<1>6. pending[1] \in ToSet(pending)
  BY <1>2 DEF ToSet
<1>7. ~Buffer!Waits(k)
  BY WaitsIsPending DEF EnqueueOverflow, Insert
<1>8. Cardinality(ToSet(pending)) = MaxPending
  BY <1>1, PendingCount DEF IInv
<1>9. accepting /\ UNCHANGED <<running, accepting>>
  BY DEF EnqueueOverflow, Insert, workVars, closeVars
<1>10. ToSet(pending)' = (ToSet(pending) \ {pending[1]}) \cup {e}
  BY <1>5 DEF ToSet
<1>. QED  BY <1>6, <1>7, <1>8, <1>9, <1>10, SameCardinality DEF Buffer!PutEvicting

\* An entry that drain() may start may be served.
LEMMA StartIsServe ==
    ASSUME IInv, NEW i \in DOMAIN pending
    PROVE  /\ pending[i] \in ToSet(pending)
           /\ StartEntry(i) => Buffer!Serve(pending[i])
           /\ StartAndFinishEntry(i) => Buffer!ServeAtOnce(pending[i])
<1>1. pending[i] \in ToSet(pending)
  BY DEF ToSet
<1>2. MayStart(i) => Buffer!MayServe(pending[i])
  <2>1. Cardinality(running) = active
    BY RunningCount DEF IInv
  <2>. QED  BY <1>1, <2>1, SameCardinality DEF MayStart, NextEligible, Buffer!MayServe, Group, IInv, OnePerGroup
<1>3. ToSet(RemoveAt(pending, i)) = ToSet(pending) \ {pending[i]}
  BY RemovedSet DEF IInv
<1>4. ASSUME StartEntry(i) PROVE Buffer!Serve(pending[i])
  BY <1>2, <1>3, <1>4 DEF StartEntry, Buffer!Serve, closeVars
<1>5. ASSUME StartAndFinishEntry(i) PROVE Buffer!ServeAtOnce(pending[i])
  BY <1>2, <1>3, <1>5 DEF StartAndFinishEntry, Buffer!ServeAtOnce
<1>. QED  BY <1>1, <1>4, <1>5

\* Every step of the queue is a step of the buffer, or leaves it unchanged.
LEMMA StepSimulation ==
    ASSUME IInv, [Next]_vars
    PROVE  Buffer!Next \/ UNCHANGED BufferVars
<1>1. CASE UNCHANGED vars
  BY <1>1 DEF vars, workVars, closeVars, BufferVars, ToSet
<1>2. ASSUME NEW k \in Keys, NEW v \in Items, Enqueue(k, v)
      PROVE  Buffer!Next \/ UNCHANGED BufferVars
  <2>1. EnqueueClosed(k, v) => UNCHANGED vars
    BY DEF EnqueueClosed
  <2>. QED  BY <1>1, <1>2, <2>1, CoalescedIsPut, NewIsPut, OverflowIsPutEvicting DEF Enqueue, Buffer!Next
<1>3. CASE DrainStep
  <2>1. ASSUME DrainBegin \/ DrainEnd PROVE UNCHANGED BufferVars
    BY <2>1 DEF DrainBegin, DrainEnd, BufferVars, workVars, closeVars, ToSet
  <2>. QED  BY <1>3, <2>1, StartIsServe DEF DrainStep, Buffer!Next
<1>4. ASSUME NEW entry \in running, Done(entry) PROVE Buffer!Next
  BY <1>4 DEF Done, Buffer!Next, Buffer!Finish, ToSet
<1>5. CASE \E g \in Groups : DoneAgain(g)
  BY <1>1, <1>5 DEF DoneAgain
<1>6. CASE \E c \in Closers : Close(c)
  BY <1>6 DEF Close, Buffer!Next, Buffer!Shut, ToSet, workVars
<1>7. CASE ShutdownTimeout
  <2>1. ~accepting
    BY <1>7 DEF ShutdownTimeout, IInv, CloseGuarded
  <2>2. ToSet(pending)' = {}
    BY <1>7 DEF ShutdownTimeout, ToSet
  <2>. QED  BY <1>7, <2>1, <2>2 DEF ShutdownTimeout, Buffer!Next, Buffer!Discard, workVars
<1>. QED  BY <1>1, <1>2, <1>3, <1>4, <1>5, <1>6, <1>7 DEF Next

\* The queue implements the buffer: it keeps the newest item of each key, it
\* serves a device exclusively, and it loses telemetry only for want of room
\* or after the close.
THEOREM Refinement == Spec => ImplementsBuffer
<1>1. Init => Buffer!Init
  BY DEF Init, Buffer!Init, ToSet
<1>2. IInv /\ [Next]_vars => [Buffer!Next]_BufferVars
  BY StepSimulation
<1>3. IInv /\ [Next]_vars => [Buffer!Next]_<<ToSet(pending), running, accepting>>
  BY <1>2 DEF BufferVars
<1>. QED  BY <1>1, <1>3, Invariance, PTL DEF Spec, ImplementsBuffer, Buffer!Spec

-----------------------------------------------------------------------------
(* The counters, and the order of the items *)

LedgerTypes ==
    /\ counters \in [CounterNames -> Nat]
    /\ refused \in Nat
    /\ newest \in [Keys -> Nat]
    /\ lastStarted \in [Keys -> Nat]

\* What has been started of a key is no newer than what has been accepted.
Ages == \A k \in Keys : lastStarted[k] <= newest[k] /\ newest[k] <= counters.enqueued

LInv == IInv /\ LedgerTypes /\ Conservation /\ Ages /\ NewestIsKept

\* The ledger watches the queue: its steps are the queue's.
LEMMA LedgerSteps == [LNext]_ledgerVars => [Next]_vars
<1>1. ASSUME NEW k \in Keys, LEnqueue(k) PROVE Next
  <2>1. Ordinal \in Items /\ Enqueue(k, Ordinal)
    BY <1>1 DEF LEnqueue, Enqueue
  <2>. QED  BY <2>1 DEF Next
<1>2. ASSUME NEW k \in Keys, LEnqueueClosed(k) PROVE UNCHANGED vars
  BY <1>2 DEF LEnqueueClosed, EnqueueClosed
<1>3. ASSUME NEW i \in DOMAIN pending, LStartEntry(i) \/ LStartAndFinishEntry(i) PROVE Next
  BY <1>3 DEF LStartEntry, LStartAndFinishEntry, Next, DrainStep
<1>4. (\E entry \in running : LDone(entry)) \/ LShutdownTimeout => Next
  BY DEF LDone, LShutdownTimeout, Next
<1>5. LUncounted => Next
  BY DEF LUncounted, Next, DrainStep
<1>6. UNCHANGED ledgerVars => UNCHANGED vars
  BY DEF ledgerVars
<1>. QED  BY <1>1, <1>2, <1>3, <1>4, <1>5, <1>6 DEF LNext

LEMMA LedgerInit == LInit => LInv
<1>. SUFFICES ASSUME LInit PROVE LInv
  OBVIOUS
<1>1. IInv
  BY InitSafe DEF LInit
<1>2. pending = <<>> /\ active = 0 /\ Len(pending) = 0 /\ DOMAIN pending = {}
  BY DEF LInit, Init
<1>3. \A c \in CounterNames : counters[c] = 0
  BY DEF LInit
<1>4. counters.enqueued = 0 /\ counters.coalesced = 0 /\ counters.completed = 0
      /\ counters.failed = 0 /\ counters.dropped = 0 /\ refused = 0
  BY <1>3 DEF CounterNames, LInit
<1>5. LedgerTypes /\ Ages
  BY <1>4 DEF LInit, LedgerTypes, Ages
<1>6. Conservation
  BY <1>2, <1>4 DEF Conservation
<1>7. NewestIsKept
  BY <1>2 DEF NewestIsKept
<1>. QED  BY <1>1, <1>5, <1>6, <1>7 DEF LInv

-----------------------------------------------------------------------------
(* What the operations do to the entries *)

\* Each entry left is one that there was.
OnlyOld == \A j \in DOMAIN pending' : \E q \in DOMAIN pending : pending'[j] = pending[q]

\* The same for keys other than k, and k has the item v.
OnlyNew(k, v) ==
    \A j \in DOMAIN pending' :
        \/ pending'[j] = [key |-> k, item |-> v]
        \/ pending'[j].key # k /\ \E q \in DOMAIN pending : pending'[j] = pending[q]

LEMMA CoalescedEntries ==
    ASSUME IInv, NEW k \in Keys, NEW v \in Items, EnqueueCoalesced(k, v)
    PROVE  OnlyNew(k, v) /\ Len(pending') = Len(pending) /\ active' = active
<1>. DEFINE e == [key |-> k, item |-> v]
<1>1. e \in Entry
  BY DEF Entry
<1>2. PICK i \in DOMAIN pending : pending[i].key = k /\ pending' = [pending EXCEPT ![i] = e]
  BY DEF EnqueueCoalesced
<1>. HIDE DEF e
<1>3. /\ Len(pending') = Len(pending) /\ DOMAIN pending' = DOMAIN pending
      /\ \A j \in DOMAIN pending : pending'[j] = IF j = i THEN e ELSE pending[j]
  BY <1>1, <1>2, ExceptSeq DEF IInv, TypeOK
<1>4. \A j \in DOMAIN pending : j # i => pending[j].key # k
  BY <1>2 DEF IInv, OneEntryPerKey
<1>5. OnlyNew(k, v)
  BY <1>3, <1>4 DEF OnlyNew, e
<1>. QED  BY <1>3, <1>5 DEF EnqueueCoalesced, workVars

LEMMA InsertedEntries ==
    ASSUME IInv, NEW queue \in Seq(Entry), NEW k \in Keys, NEW v \in Items, Insert(queue, k, v),
           \A i \in DOMAIN queue : \E q \in DOMAIN pending : queue[i] = pending[q]
    PROVE  OnlyNew(k, v) /\ Len(pending') = Len(queue) + 1 /\ active' = active
<1>. DEFINE e == [key |-> k, item |-> v]
<1>1. e \in Entry
  BY DEF Entry
<1>2. pending' = Append(queue, e) /\ active' = active /\ \A q \in DOMAIN pending : pending[q].key # k
  BY DEF Insert, workVars, PendingKeys
<1>. HIDE DEF e
<1>3. /\ Len(pending') = Len(queue) + 1 /\ pending' \in Seq(Entry)
      /\ \A j \in 1 .. Len(queue) : pending'[j] = queue[j]
      /\ pending'[Len(queue) + 1] = e
  BY <1>1, <1>2, AppendProperties
<1>4. DOMAIN queue = 1 .. Len(queue) /\ DOMAIN pending' = 1 .. Len(queue) + 1 /\ Len(queue) \in Nat
  BY <1>3, LenProperties
<1>5. ASSUME NEW j \in DOMAIN pending'
      PROVE  pending'[j] = e \/ (pending'[j].key # k /\ \E q \in DOMAIN pending : pending'[j] = pending[q])
  <2>1. CASE j = Len(queue) + 1
    BY <1>3, <2>1
  <2>2. CASE j \in DOMAIN queue
    BY <1>2, <1>3, <1>4, <2>2
  <2>. QED  BY <1>4, <2>1, <2>2
<1>. QED  BY <1>2, <1>3, <1>5 DEF OnlyNew, e

LEMMA RemovedEntries ==
    ASSUME IInv, NEW i \in DOMAIN pending, pending' = RemoveAt(pending, i)
    PROVE  /\ OnlyOld /\ Len(pending') = Len(pending) - 1
           /\ \A j \in DOMAIN pending' : pending'[j].key # pending[i].key
<1>1. /\ pending' \in Seq(Entry) /\ Len(pending') = Len(pending) - 1
      /\ \A j \in 1 .. (Len(pending) - 1) :
            pending'[j] = IF j < i THEN pending[j] ELSE pending[j + 1]
  BY RemoveAtFacts DEF IInv, TypeOK
<1>2. DOMAIN pending = 1 .. Len(pending) /\ Len(pending) \in Nat /\ DOMAIN pending' = 1 .. (Len(pending) - 1)
  BY <1>1, LenProperties DEF IInv, TypeOK
<1>3. ASSUME NEW j \in DOMAIN pending'
      PROVE  \E q \in DOMAIN pending : q # i /\ pending'[j] = pending[q]
  <2>1. CASE j < i
    BY <1>1, <1>2, <2>1
  <2>2. CASE ~(j < i)
    <3>1. j + 1 \in DOMAIN pending /\ j + 1 # i /\ pending'[j] = pending[j + 1]
      BY <1>1, <1>2, <2>2
    <3>. QED  BY <3>1
  <2>. QED  BY <2>1, <2>2
<1>. QED  BY <1>1, <1>3 DEF OnlyOld, IInv, OneEntryPerKey

-----------------------------------------------------------------------------
(* The ledger itself *)

LEMMA LenPending == IInv => Len(pending) \in Nat /\ active \in Nat
BY LenProperties DEF IInv, TypeOK

\* One more on either side, whether it is coalesced, makes another drop or waits.
LEMMA Balance ==
    ASSUME NEW enqueued \in Nat, NEW merged \in Nat, NEW completed \in Nat, NEW failed \in Nat,
           NEW lost \in Nat, NEW late \in Nat, NEW busy \in Nat, NEW waiting \in Nat,
           NEW x \in {0, 1}, NEW y \in {0, 1},
           enqueued = merged + completed + failed + (lost - late) + busy + waiting
    PROVE  enqueued + 1 = (merged + x) + completed + failed + ((lost + y) - late) + busy
                          + (waiting + 1 - x - y)
OBVIOUS

\* enqueue(): the item is the newest of all, and counted once.
LEMMA LEnqueueSafe ==
    ASSUME LInv, NEW k \in Keys, LEnqueue(k)
    PROVE  LedgerTypes' /\ Conservation' /\ Ages' /\ NewestIsKept'
<1>1. PICK coalesced \in {0, 1}, dropped \in {0, 1} :
         /\ Count(k, coalesced, dropped)
         /\ OnlyNew(k, Ordinal) /\ active' = active
         /\ Len(pending') = Len(pending) + 1 - coalesced - dropped
  <2>1. Ordinal \in Items /\ Len(pending) \in Nat
    BY LenPending DEF LEnqueue, LInv
  <2>2. CASE EnqueueCoalesced(k, Ordinal) /\ Count(k, 1, 0)
    <3>1. OnlyNew(k, Ordinal) /\ active' = active /\ Len(pending') = Len(pending)
      BY <2>1, <2>2, CoalescedEntries DEF LInv
    <3>. QED  BY <2>1, <2>2, <3>1
  <2>3. CASE EnqueueNew(k, Ordinal) /\ Count(k, 0, 0)
    <3>1. OnlyNew(k, Ordinal) /\ active' = active /\ Len(pending') = Len(pending) + 1
      BY <2>1, <2>3, InsertedEntries DEF EnqueueNew, LInv, IInv, TypeOK
    <3>. QED  BY <2>1, <2>3, <3>1
  <2>4. CASE EnqueueOverflow(k, Ordinal) /\ Count(k, 0, 1)
    <3>1. pending \in Seq(Entry) /\ pending # <<>>
      <4>1. pending \in Seq(Entry) /\ Len(pending) >= MaxPending
        BY <2>4 DEF EnqueueOverflow, LInv, IInv, TypeOK
      <4>2. Len(pending) # 0
        BY <2>1, <4>1, QueueAssumption
      <4>3. Len(<<>>) = 0
        OBVIOUS
      <4>. QED  BY <4>1, <4>2, <4>3, Zenon
    <3>2. /\ Tail(pending) \in Seq(Entry) /\ Len(Tail(pending)) = Len(pending) - 1
          /\ \A i \in 1 .. Len(Tail(pending)) : Tail(pending)[i] = pending[i + 1]
      BY <3>1, HeadTailProperties
    <3>3. \A i \in DOMAIN Tail(pending) : \E q \in DOMAIN pending : Tail(pending)[i] = pending[q]
      <4>1. DOMAIN Tail(pending) = 1 .. Len(pending) - 1 /\ DOMAIN pending = 1 .. Len(pending)
        BY <3>1, <3>2, LenProperties
      <4>2. \A i \in 1 .. Len(pending) - 1 : i + 1 \in DOMAIN pending
        BY <2>1, <4>1
      <4>. QED  BY <3>2, <4>1, <4>2
    <3>4. OnlyNew(k, Ordinal) /\ active' = active /\ Len(pending') = Len(pending)
      <4>1. Insert(Tail(pending), k, Ordinal) /\ Tail(pending) \in Seq(Entry) /\ IInv
        BY <2>4, <3>2 DEF EnqueueOverflow, LInv
      <4>2. OnlyNew(k, Ordinal) /\ active' = active /\ Len(pending') = Len(Tail(pending)) + 1
        BY <2>1, <3>3, <4>1, InsertedEntries
      <4>. QED  BY <2>1, <3>2, <4>2
    <3>. QED  BY <2>1, <2>4, <3>4
  <2>. QED  BY <2>2, <2>3, <2>4 DEF LEnqueue
<1>2. /\ counters \in [CounterNames -> Nat] /\ refused \in Nat
      /\ newest \in [Keys -> Nat] /\ lastStarted \in [Keys -> Nat]
  BY DEF LInv, LedgerTypes
<1>3. /\ counters' \in [CounterNames -> Nat]
      /\ counters'.enqueued = counters.enqueued + 1
      /\ counters'.coalesced = counters.coalesced + coalesced
      /\ counters'.dropped = counters.dropped + dropped
      /\ counters'.completed = counters.completed /\ counters'.failed = counters.failed
  <2>1. /\ counters.enqueued + 1 \in Nat /\ counters.coalesced + coalesced \in Nat
        /\ counters.dropped + dropped \in Nat
    BY <1>2 DEF CounterNames
  <2>2. counters' = [counters EXCEPT !["enqueued"] = counters.enqueued + 1,
                                     !["coalesced"] = counters.coalesced + coalesced,
                                     !["dropped"] = counters.dropped + dropped]
    BY <1>1 DEF Count
  <2>. QED  BY <1>2, <2>1, <2>2 DEF CounterNames
<1>4. /\ newest' = [newest EXCEPT ![k] = Ordinal] /\ UNCHANGED <<refused, lastStarted>>
      /\ Ordinal \in Nat /\ Ordinal = counters.enqueued + 1
  BY <1>1, <1>2 DEF Count, Ordinal, CounterNames
<1>5. LedgerTypes'
  BY <1>2, <1>3, <1>4 DEF LedgerTypes
<1>6. Conservation'
  <2>1. counters.enqueued \in Nat /\ counters.coalesced \in Nat /\ counters.dropped \in Nat
        /\ counters.completed \in Nat /\ counters.failed \in Nat /\ Len(pending) \in Nat /\ active \in Nat
    BY <1>2, LenPending DEF CounterNames, LInv
  <2>2. counters.enqueued = counters.coalesced + counters.completed + counters.failed
                            + (counters.dropped - refused) + active + Len(pending)
    BY DEF LInv, Conservation
  <2>3. active' = active /\ refused' = refused /\ Len(pending') = Len(pending) + 1 - coalesced - dropped
    BY <1>1, <1>4
  <2>4. counters'.enqueued = counters'.coalesced + counters'.completed + counters'.failed
                             + (counters'.dropped - refused') + active' + Len(pending')
    <3>. DEFINE e == counters.enqueued
                c == counters.coalesced
                o == counters.completed
                f == counters.failed
                d == counters.dropped
                w == Len(pending)
    <3>1. /\ e \in Nat /\ c \in Nat /\ o \in Nat /\ f \in Nat /\ d \in Nat /\ w \in Nat
          /\ e = c + o + f + (d - refused) + active + w
      BY <2>1, <2>2
    <3>2. /\ counters'.enqueued = e + 1 /\ counters'.coalesced = c + coalesced /\ counters'.dropped = d + dropped
          /\ counters'.completed = o /\ counters'.failed = f
          /\ Len(pending') = w + 1 - coalesced - dropped
      BY <1>3, <2>3
    <3>. HIDE DEF e, c, o, f, d, w
    <3>3. e + 1 = (c + coalesced) + o + f + ((d + dropped) - refused) + active + (w + 1 - coalesced - dropped)
      BY <1>2, <2>1, <3>1, Balance
    <3>. QED  BY <2>3, <3>2, <3>3
  <2>. QED  BY <2>4 DEF Conservation
<1>7. Ages'
  BY <1>2, <1>3, <1>4 DEF Ages, LInv, CounterNames
<1>8. NewestIsKept'
  <2>. SUFFICES ASSUME NEW j \in DOMAIN pending'
                PROVE  /\ pending'[j].item = newest'[pending'[j].key]
                       /\ lastStarted[pending'[j].key] < newest'[pending'[j].key]
    BY <1>4 DEF NewestIsKept
  <2>1. CASE pending'[j] = [key |-> k, item |-> Ordinal]
    <3>1. pending'[j].key = k /\ pending'[j].item = Ordinal /\ newest'[k] = Ordinal
      BY <1>2, <1>4, <2>1
    <3>2. lastStarted[k] < Ordinal
      BY <1>2, <1>4 DEF LInv, Ages, CounterNames
    <3>. QED  BY <3>1, <3>2
  <2>2. CASE pending'[j].key # k /\ \E q \in DOMAIN pending : pending'[j] = pending[q]
    BY <1>2, <1>4, <2>2 DEF LInv, NewestIsKept
  <2>. QED  BY <1>1, <2>1, <2>2 DEF OnlyNew
<1>. QED  BY <1>5, <1>6, <1>7, <1>8

\* What Conservation adds up.
Total(count) == count.coalesced + count.completed + count.failed + (count.dropped - refused)

LEMMA TotalIsInteger == ASSUME LInv, NEW c \in [CounterNames -> Nat] PROVE Total(c) \in Int
<1>1. c.coalesced \in Nat /\ c.completed \in Nat /\ c.failed \in Nat /\ c.dropped \in Nat
  BY DEF CounterNames
<1>2. refused \in Nat
  BY DEF LInv, LedgerTypes
<1>. QED  BY <1>1, <1>2 DEF Total

LEMMA Outcomes ==
    ASSUME LInv, Outcome, UNCHANGED refused
    PROVE  /\ counters' \in [CounterNames -> Nat] /\ counters'.enqueued = counters.enqueued
           /\ Total(counters') = Total(counters) + 1
<1>1. counters \in [CounterNames -> Nat] /\ refused \in Nat
  BY DEF LInv, LedgerTypes
<1>2. CASE counters' = [counters EXCEPT !["completed"] = @ + 1]
  BY <1>1, <1>2 DEF CounterNames, Total
<1>3. CASE counters' = [counters EXCEPT !["failed"] = @ + 1]
  BY <1>1, <1>3 DEF CounterNames, Total
<1>. QED  BY <1>2, <1>3 DEF Outcome

\* drain(): the entry started is the newest of its key, and newer than any before.
LEMMA StartedSafe ==
    ASSUME LInv, NEW i \in DOMAIN pending, Started(i), pending' = RemoveAt(pending, i),
           counters' \in [CounterNames -> Nat], counters'.enqueued = counters.enqueued,
           UNCHANGED <<refused, newest>>
    PROVE  /\ LedgerTypes' /\ Ages' /\ NewestIsKept'
           /\ \A k \in Keys : lastStarted[k] <= lastStarted'[k]
<1>. DEFINE key == pending[i].key
<1>1. newest \in [Keys -> Nat] /\ lastStarted \in [Keys -> Nat] /\ refused \in Nat
  BY DEF LInv, LedgerTypes
<1>2. key \in Keys
  <2>1. pending[i] \in Entry
    BY DEF LInv, IInv, TypeOK
  <2>. QED  BY <2>1 DEF Entry
<1>3. pending[i].item = newest[key] /\ lastStarted[key] < newest[key]
  BY DEF LInv, NewestIsKept
<1>4. lastStarted' = [lastStarted EXCEPT ![key] = newest[key]]
  BY <1>3 DEF Started
<1>5. OnlyOld /\ \A j \in DOMAIN pending' : pending'[j].key # key
  BY RemovedEntries DEF LInv
<1>. HIDE DEF key
<1>6. LedgerTypes'
  BY <1>1, <1>2, <1>4 DEF LedgerTypes
<1>7. Ages' /\ \A k \in Keys : lastStarted[k] <= lastStarted'[k]
  BY <1>1, <1>2, <1>3, <1>4 DEF LInv, Ages
<1>8. NewestIsKept'
  BY <1>1, <1>4, <1>5 DEF OnlyOld, LInv, NewestIsKept
<1>. QED  BY <1>6, <1>7, <1>8

LEMMA LStartEntrySafe ==
    ASSUME LInv, NEW i \in DOMAIN pending, LStartEntry(i) \/ LStartAndFinishEntry(i)
    PROVE  /\ LedgerTypes' /\ Conservation' /\ Ages' /\ NewestIsKept'
           /\ \A k \in Keys : lastStarted[k] <= lastStarted'[k]
<1>1. /\ Started(i) /\ pending' = RemoveAt(pending, i) /\ UNCHANGED <<refused, newest>>
  BY DEF LStartEntry, LStartAndFinishEntry, StartEntry, StartAndFinishEntry
<1>2. Len(pending') = Len(pending) - 1 /\ Len(pending) \in Nat /\ active \in Nat
  BY <1>1, RemovedEntries, LenPending DEF LInv
<1>3. counters \in [CounterNames -> Nat] /\ refused \in Nat
  BY DEF LInv, LedgerTypes
<1>4. \/ active' = active + 1 /\ counters' = counters
      \/ active' = active /\ Outcome
  BY DEF LStartEntry, LStartAndFinishEntry, StartEntry, StartAndFinishEntry
<1>5. counters' \in [CounterNames -> Nat] /\ counters'.enqueued = counters.enqueued
  BY <1>1, <1>3, <1>4, Outcomes
<1>6. Conservation'
  <2>1. Total(counters) \in Int
    BY <1>3, TotalIsInteger
  <2>2. active' + Total(counters') = active + Total(counters) + 1
    BY <1>1, <1>2, <1>4, <2>1, Outcomes
  <2>3. Total(counters') \in Int /\ active' \in Int
    BY <1>2, <1>4, <1>5, TotalIsInteger
  <2>4. counters.enqueued = Total(counters) + active + Len(pending)
    BY DEF LInv, Conservation, Total
  <2>5. counters'.enqueued = Total(counters') + active' + Len(pending')
    BY <1>2, <1>5, <2>1, <2>2, <2>3, <2>4
  <2>. QED  BY <1>1, <2>5 DEF Conservation, Total
<1>. QED  BY <1>1, <1>5, <1>6, StartedSafe

\* What leaves the entries and the histories alone is about the counters only.
LEMMA CountersOnly ==
    ASSUME LInv, counters' \in [CounterNames -> Nat], counters'.enqueued = counters.enqueued,
           refused' \in Nat, UNCHANGED <<newest, lastStarted>>, OnlyOld
    PROVE  LedgerTypes' /\ Ages' /\ NewestIsKept'
BY DEF LInv, LedgerTypes, Ages, NewestIsKept, OnlyOld

LEMMA LOthersSafe ==
    ASSUME LInv,
           \/ \E k \in Keys : LEnqueueClosed(k)
           \/ \E entry \in running : LDone(entry)
           \/ LShutdownTimeout \/ LUncounted \/ UNCHANGED ledgerVars
    PROVE  LedgerTypes' /\ Conservation' /\ Ages' /\ NewestIsKept' /\ UNCHANGED lastStarted
<1>1. counters \in [CounterNames -> Nat] /\ refused \in Nat /\ Len(pending) \in Nat /\ active \in Nat
  BY LenPending DEF LInv, LedgerTypes
<1>2. pending' = pending => OnlyOld
  BY DEF OnlyOld
<1>3. CASE \E k \in Keys : LEnqueueClosed(k)
  <2>1. /\ counters' = [counters EXCEPT !.dropped = @ + 1] /\ refused' = refused + 1
        /\ UNCHANGED <<newest, lastStarted, pending, active>>
    BY <1>3 DEF LEnqueueClosed, EnqueueClosed, vars, workVars
  <2>2. Conservation'
    BY <1>1, <2>1 DEF Conservation, LInv, CounterNames
  <2>3. counters' \in [CounterNames -> Nat] /\ counters'.enqueued = counters.enqueued /\ refused' \in Nat
    BY <1>1, <2>1 DEF CounterNames
  <2>. QED  BY <1>2, <2>1, <2>2, <2>3, CountersOnly
<1>4. CASE \E entry \in running : LDone(entry)
  <2>1. /\ Outcome /\ active' = active - 1
        /\ UNCHANGED <<refused, newest, lastStarted, pending>>
    BY <1>4 DEF LDone, Done, history
  <2>2. Conservation'
    <3>1. Total(counters) \in Int /\ Total(counters') = Total(counters) + 1
      BY <1>1, <2>1, TotalIsInteger, Outcomes
    <3>2. counters.enqueued = Total(counters) + active + Len(pending)
      BY DEF LInv, Conservation, Total
    <3>3. counters'.enqueued = Total(counters') + active' + Len(pending')
      BY <1>1, <2>1, <3>1, <3>2, Outcomes
    <3>. QED  BY <2>1, <3>3 DEF Conservation, Total
  <2>3. counters' \in [CounterNames -> Nat] /\ counters'.enqueued = counters.enqueued
    BY <2>1, Outcomes
  <2>. QED  BY <1>1, <1>2, <2>1, <2>2, <2>3, CountersOnly
<1>5. CASE LShutdownTimeout
  <2>1. /\ counters' = [counters EXCEPT !.dropped = @ + Len(pending)]
        /\ pending' = <<>> /\ UNCHANGED <<refused, newest, lastStarted, active>>
    BY <1>5 DEF LShutdownTimeout, ShutdownTimeout, workVars, history
  <2>2. Len(pending') = 0 /\ DOMAIN pending' = {}
    BY <2>1
  <2>3. Conservation'
    BY <1>1, <2>1, <2>2 DEF Conservation, LInv, CounterNames
  <2>4. counters' \in [CounterNames -> Nat] /\ counters'.enqueued = counters.enqueued
    BY <1>1, <2>1 DEF CounterNames
  <2>5. OnlyOld
    BY <2>2 DEF OnlyOld
  <2>. QED  BY <1>1, <2>1, <2>3, <2>4, <2>5, CountersOnly
<1>6. CASE LUncounted \/ UNCHANGED ledgerVars
  <2>1. UNCHANGED <<counters, refused, newest, lastStarted, pending, active>>
    BY <1>6 DEF LUncounted, ledgerVars, vars, workVars, history, DrainBegin, DrainEnd, DoneAgain, Close
  <2>2. Conservation'
    BY <2>1 DEF Conservation, LInv
  <2>. QED  BY <1>1, <1>2, <2>1, <2>2, CountersOnly
<1>. QED  BY <1>3, <1>4, <1>5, <1>6

LEMMA LedgerNext == LInv /\ [LNext]_ledgerVars => LInv'
<1>. SUFFICES ASSUME LInv, [LNext]_ledgerVars PROVE LInv'
  OBVIOUS
<1>1. IInv'
  BY LedgerSteps, NextSafe DEF LInv
<1>2. LedgerTypes' /\ Conservation' /\ Ages' /\ NewestIsKept'
  BY LEnqueueSafe, LStartEntrySafe, LOthersSafe DEF LNext
<1>. QED  BY <1>1, <1>2 DEF LInv

\* getStats(): every item that enqueue() has accepted is waiting, in progress, or
\* counted once, through coalescing, overflow and shutdown.
THEOREM NothingUnaccounted == LSpec => []Conservation
<1>1. LInv => Conservation
  BY DEF LInv
<1>. QED  BY LedgerInit, LedgerNext, <1>1, PTL DEF LSpec

\* enqueue() of a pending key keeps the newer item, which has not been started.
THEOREM NewestKept == LSpec => []NewestIsKept
<1>1. LInv => NewestIsKept
  BY DEF LInv
<1>. QED  BY LedgerInit, LedgerNext, <1>1, PTL DEF LSpec

\* takeNextEligible() and coalescing never start an older item of a key after a newer one.
THEOREM NeverBackwards == LSpec => AttributeInOrder
<1>1. LInv /\ [LNext]_ledgerVars => [\A k \in Keys : lastStarted[k] <= lastStarted'[k]]_ledgerVars
  <2>. SUFFICES ASSUME LInv, LNext PROVE \A k \in Keys : lastStarted[k] <= lastStarted'[k]
    OBVIOUS
  <2>1. lastStarted \in [Keys -> Nat]
    BY DEF LInv, LedgerTypes
  <2>2. UNCHANGED lastStarted => \A k \in Keys : lastStarted[k] <= lastStarted'[k]
    BY <2>1
  <2>3. ASSUME NEW k \in Keys, LEnqueue(k) PROVE UNCHANGED lastStarted
    BY <2>3 DEF LEnqueue, Count
  <2>. QED  BY <2>2, <2>3, LStartEntrySafe, LOthersSafe DEF LNext
<1>. QED  BY LedgerInit, LedgerNext, <1>1, PTL DEF LSpec, AttributeInOrder
=============================================================================

--------------------------- MODULE TelemetryQueue ---------------------------
(***************************************************************************)
(* The telemetry work queue of lib/telemetryQueue.js.                      *)
(*                                                                         *)
(* MQTT telemetry is put in `pending`, an insertion-ordered map from keys  *)
(* (a device and one of its attributes) to the newest item of that key.   *)
(* Work is started from a setImmediate callback, `drain`, at most          *)
(* Concurrency items at a time and at most one item of each group (a       *)
(* device).  close() stops the intake and notifies its callbacks when the  *)
(* queue is idle or when the shutdown timer expires.                       *)
(*                                                                         *)
(* JavaScript runs one callback at a time, so an operation is one action,  *)
(* except drain(): it calls the workers one after the other and is         *)
(* modelled by one step per iteration of its loop.  While `inDrain` holds  *)
(* the loop is on the call stack and nothing else may run.                 *)
(***************************************************************************)
EXTENDS Integers, Sequences, FiniteSets, SequencesExt

CONSTANTS Keys,         \* the values of `key`
          Groups,       \* the values of `groupKey`
          GroupOf,      \* the group of each key
          Items,        \* what an entry carries
          Closers,      \* the callers of close(), each with its callback
          Concurrency,  \* options.concurrency
          MaxPending    \* options.maxPending

\* asPositiveInteger() replaces every other value by a positive default.
ASSUME QueueAssumption ==
    /\ GroupOf \in [Keys -> Groups]
    /\ Concurrency \in Nat \ {0}
    /\ MaxPending \in Nat \ {0}

VARIABLES pending,        \* the Map, as the sequence of its entries
          active,         \* number of items being worked on
          activeGroups,   \* groups that have an item being worked on
          running,        \* entries whose worker has not called done yet
          finished,       \* groups with a worker that has called done
          draining,       \* a drain() is scheduled
          inDrain,        \* drain() is on the call stack
          accepting,
          closeTimer,     \* the shutdown timer is armed
          closeFinished,
          closeCallbacks, \* callbacks that wait for the end of the close
          notified        \* callbacks that have been called

workVars  == <<active, activeGroups, running, finished>>
closeVars == <<accepting, closeTimer, closeFinished, closeCallbacks, notified>>
vars == <<pending, workVars, draining, inDrain, closeVars>>

Entry == [key : Keys, item : Items]

TypeOK ==
    /\ pending \in Seq(Entry)
    /\ active \in Nat
    /\ activeGroups \subseteq Groups
    /\ running \subseteq Entry
    /\ finished \subseteq Groups
    /\ draining \in BOOLEAN /\ inDrain \in BOOLEAN
    /\ accepting \in BOOLEAN /\ closeTimer \in BOOLEAN /\ closeFinished \in BOOLEAN
    /\ closeCallbacks \subseteq Closers
    /\ notified \subseteq Closers

Init ==
    /\ pending = <<>>
    /\ active = 0
    /\ activeGroups = {}
    /\ running = {}
    /\ finished = {}
    /\ draining = FALSE /\ inDrain = FALSE
    /\ accepting = TRUE /\ closeTimer = FALSE /\ closeFinished = FALSE
    /\ closeCallbacks = {}
    /\ notified = {}

-----------------------------------------------------------------------------
PendingKeys == {pending[i].key : i \in DOMAIN pending}

Group(entry) == GroupOf[entry.key]

\* Mutant of NextEligible: the oldest entry, whatever its group is doing.
OldestEligible(i) == i = 1 /\ pending # <<>>

\* The entry takeNextEligible() returns: the first whose group is not busy.
NextEligible(i) ==
    /\ i \in DOMAIN pending
    /\ Group(pending[i]) \notin activeGroups
    /\ \A j \in 1 .. (i - 1) : Group(pending[j]) \in activeGroups

SomeEligible == \E i \in DOMAIN pending : Group(pending[i]) \notin activeGroups

\* finishClose() acts once: it clears the timer and calls every callback.
FinishClose(callbacks) ==
    /\ closeFinished' = TRUE
    /\ closeTimer' = FALSE
    /\ closeCallbacks' = {}
    /\ notified' = notified \cup callbacks

\* Mutant of CheckIdle: a worker that still runs is forgotten.
CheckEmpty(callbacks, timer) ==
    IF ~accepting' /\ pending' = <<>> /\ ~closeFinished
    THEN FinishClose(callbacks)
    ELSE closeTimer' = timer /\ closeCallbacks' = callbacks /\ UNCHANGED <<closeFinished, notified>>

\* checkIdle(), run when the callbacks waiting are `callbacks` and the timer is `timer`.
CheckIdle(callbacks, timer) ==
    IF ~accepting' /\ active' = 0 /\ pending' = <<>> /\ ~closeFinished
    THEN FinishClose(callbacks)
    ELSE /\ closeTimer' = timer
         /\ closeCallbacks' = callbacks
         /\ UNCHANGED <<closeFinished, notified>>

-----------------------------------------------------------------------------
(* enqueue(): one action per branch. *)

\* Mutants of EnqueueCoalesced: room is made before the key is looked up; the
\* entry is deleted and set again, and loses its place; the older item is kept;
\* the new item is put in front and the older one stays.
MakeRoomThenCoalesce(k, v) ==
    /\ ~inDrain /\ accepting /\ k \in PendingKeys
    /\ LET left == IF Len(pending) >= MaxPending THEN Tail(pending) ELSE pending
       IN  pending' = Append(SelectSeq(left, LAMBDA e : e.key # k), [key |-> k, item |-> v])
    /\ UNCHANGED <<workVars, draining, inDrain, closeVars>>

CoalesceToEnd(k, v) ==
    /\ ~inDrain /\ accepting /\ k \in PendingKeys
    /\ pending' = Append(SelectSeq(pending, LAMBDA e : e.key # k), [key |-> k, item |-> v])
    /\ UNCHANGED <<workVars, draining, inDrain, closeVars>>

CoalesceKeepingOlder(k, v) ==
    /\ ~inDrain /\ accepting /\ k \in PendingKeys
    /\ UNCHANGED vars

CoalesceInFront(k, v) ==
    /\ ~inDrain /\ accepting /\ k \in PendingKeys
    /\ pending' = <<[key |-> k, item |-> v]>> \o pending
    /\ UNCHANGED <<workVars, draining, inDrain, closeVars>>

\* The key is pending: its item is replaced and the entry keeps its place.
EnqueueCoalesced(k, v) ==
    /\ ~inDrain
    /\ accepting
    /\ \E i \in DOMAIN pending :
          /\ pending[i].key = k
          /\ pending' = [pending EXCEPT ![i] = [key |-> k, item |-> v]]
    /\ UNCHANGED <<workVars, draining, inDrain, closeVars>>

\* A new key, appended to `queue`, schedules a drain.
Insert(queue, k, v) ==
    /\ k \notin PendingKeys
    /\ pending' = Append(queue, [key |-> k, item |-> v])
    /\ draining' = TRUE
    /\ UNCHANGED <<workVars, inDrain, closeVars>>

\* Mutant of EnqueueNew: `>` for `>=` in the test for room.
EnqueueNewOffByOne(k, v) ==
    /\ ~inDrain /\ accepting
    /\ Len(pending) <= MaxPending
    /\ Insert(pending, k, v)

EnqueueNew(k, v) ==
    /\ ~inDrain
    /\ accepting
    /\ Len(pending) < MaxPending
    /\ Insert(pending, k, v)

\* dropOldest('queue-capacity') makes room for the new key.
EnqueueOverflow(k, v) ==
    /\ ~inDrain
    /\ accepting
    /\ Len(pending) >= MaxPending
    /\ Insert(Tail(pending), k, v)

\* After close() the item is dropped at once ('queue-closed').
EnqueueClosed(k, v) ==
    /\ ~inDrain
    /\ ~accepting
    /\ UNCHANGED vars

-----------------------------------------------------------------------------
(* drain() *)

\* The setImmediate callback starts.
DrainBegin ==
    /\ draining
    /\ ~inDrain
    /\ draining' = FALSE
    /\ inDrain' = TRUE
    /\ UNCHANGED <<pending, workVars, closeVars>>

MayStart(i) ==
    /\ inDrain
    /\ active < Concurrency
    /\ NextEligible(i)

\* The worker returns before it calls done: the item is being worked on.
StartEntry(i) ==
    /\ MayStart(i)
    /\ pending' = RemoveAt(pending, i)
    /\ active' = active + 1
    /\ activeGroups' = activeGroups \cup {Group(pending[i])}
    /\ running' = running \cup {pending[i]}
    /\ UNCHANGED <<finished, draining, inDrain, closeVars>>

\* The worker calls done, or throws, before it returns.
StartAndFinishEntry(i) ==
    /\ MayStart(i)
    /\ pending' = RemoveAt(pending, i)
    /\ finished' = finished \cup {Group(pending[i])}
    /\ draining' = TRUE
    /\ UNCHANGED <<active, activeGroups, running, inDrain, accepting>>
    /\ CheckIdle(closeCallbacks, closeTimer)

\* No slot is free or no entry is eligible: the loop ends.
DrainEnd ==
    /\ inDrain
    /\ active >= Concurrency \/ ~SomeEligible
    /\ inDrain' = FALSE
    /\ UNCHANGED <<pending, workVars, draining, accepting>>
    /\ CheckIdle(closeCallbacks, closeTimer)

-----------------------------------------------------------------------------
\* Mutant of Done: no drain() is scheduled.
DoneUnscheduled(entry) ==
    /\ ~inDrain /\ entry \in running
    /\ active' = active - 1
    /\ activeGroups' = activeGroups \ {Group(entry)}
    /\ running' = running \ {entry}
    /\ finished' = finished \cup {Group(entry)}
    /\ UNCHANGED <<pending, draining, inDrain, accepting>>
    /\ CheckIdle(closeCallbacks, closeTimer)

\* The worker of a running entry calls done() for the first time.
Done(entry) ==
    /\ ~inDrain
    /\ entry \in running
    /\ active' = active - 1
    /\ activeGroups' = activeGroups \ {Group(entry)}
    /\ running' = running \ {entry}
    /\ finished' = finished \cup {Group(entry)}
    /\ draining' = TRUE
    /\ UNCHANGED <<pending, inDrain, accepting>>
    /\ CheckIdle(closeCallbacks, closeTimer)

\* Mutant of DoneAgain: `completed` is not tested.
DoneTwice(g) ==
    /\ ~inDrain /\ g \in finished
    /\ active' = active - 1
    /\ activeGroups' = activeGroups \ {g}
    /\ draining' = TRUE
    /\ UNCHANGED <<pending, running, finished, inDrain, closeVars>>

\* A worker of group g that has called done() calls it again: `completed` is
\* set, so nothing happens, whatever the group is doing by now.
DoneAgain(g) ==
    /\ g \in finished
    /\ UNCHANGED vars

\* Mutant of Close: the shutdown timer is not armed.
CloseUntimed(c) ==
    /\ ~inDrain
    /\ c \notin closeCallbacks \cup notified
    /\ accepting' = FALSE
    /\ draining' = TRUE
    /\ UNCHANGED <<pending, workVars, inDrain>>
    /\ CheckIdle(closeCallbacks \cup {c}, closeTimer)

\* close(): the timer is armed by the first call made before the close is over.
Close(c) ==
    /\ ~inDrain
    /\ c \notin closeCallbacks \cup notified
    /\ accepting' = FALSE
    /\ draining' = TRUE
    /\ UNCHANGED <<pending, workVars, inDrain>>
    /\ CheckIdle(closeCallbacks \cup {c}, closeTimer \/ ~closeFinished)

\* Mutant of ShutdownTimeout: what is pending is left to later drains.
TimeoutKeepingPending ==
    /\ ~inDrain /\ closeTimer
    /\ UNCHANGED <<pending, workVars, draining, inDrain, accepting>>
    /\ FinishClose(closeCallbacks)

\* The shutdown timer drops what is pending and ends the close, even while
\* workers are running.
ShutdownTimeout ==
    /\ ~inDrain
    /\ closeTimer
    /\ pending' = <<>>
    /\ UNCHANGED <<workVars, draining, inDrain, accepting>>
    /\ FinishClose(closeCallbacks)

-----------------------------------------------------------------------------
Enqueue(k, v) ==
    \/ EnqueueCoalesced(k, v)
    \/ EnqueueNew(k, v)
    \/ EnqueueOverflow(k, v)
    \/ EnqueueClosed(k, v)

DrainStep ==
    \/ DrainBegin
    \/ \E i \in DOMAIN pending : StartEntry(i) \/ StartAndFinishEntry(i)
    \/ DrainEnd

Next ==
    \/ \E k \in Keys, v \in Items : Enqueue(k, v)
    \/ DrainStep
    \/ \E entry \in running : Done(entry)
    \/ \E g \in Groups : DoneAgain(g)
    \/ \E c \in Closers : Close(c)
    \/ ShutdownTimeout

Spec == Init /\ [][Next]_vars

\* The event loop runs every callback it has been given: setImmediate, and
\* the timer once it is due.
LoopFairness == WF_vars(DrainStep) /\ WF_vars(ShutdownTimeout)

\* Every worker answers at last.  The worker of MQTTBinding.js ends with the
\* Context Broker's answer or with an error.
WorkerFairness ==
    \A g \in Groups : WF_vars(\E entry \in running : Group(entry) = g /\ Done(entry))

LoopSpec == Spec /\ LoopFairness

-----------------------------------------------------------------------------
(* Safety *)

\* Per-device exclusion: `active` and `activeGroups`, which every worker's
\* done() updates for itself, agree with the workers really running, and no
\* two of them serve one device.
OnePerGroup ==
    /\ IsFiniteSet(activeGroups)
    /\ activeGroups = {Group(e) : e \in running}
    /\ active = Cardinality(activeGroups)
    /\ \A e, f \in running : Group(e) = Group(f) => e = f

\* The bounds on memory and on Context Broker updates hold in every state.
WithinBounds ==
    /\ Len(pending) <= MaxPending
    /\ active <= Concurrency

\* Coalescing leaves one entry for a key.
OneEntryPerKey ==
    \A i, j \in DOMAIN pending : pending[i].key = pending[j].key => i = j

\* No lost wake-up: while a slot is free, an entry that could be started has
\* a drain() scheduled or in progress, though coalescing schedules none.
NoLostWakeup == SomeEligible /\ active < Concurrency => draining \/ inDrain

\* A close is never forgotten: it is over as soon as the queue is idle, and
\* until then, and only then, the shutdown timer guards it.
CloseGuarded ==
    /\ ~accepting /\ active = 0 /\ pending = <<>> => closeFinished
    /\ closeTimer <=> ~accepting /\ ~closeFinished

\* Once the callbacks have been told that the queue is closed (they release
\* the MQTT client) nothing is left that could be started.
ClosedIsFinal ==
    closeFinished => ~accepting /\ pending = <<>>

\* Only the shutdown timer ends a close while a worker still runs: otherwise
\* the MQTT client is kept until every update has been answered.
NoEarlyClose ==
    [][closeFinished' # closeFinished /\ running' # {} => ShutdownTimeout]_vars

(* What the queue implements *)

Buffer == INSTANCE CoalescingBuffer WITH
    waiting <- ToSet(pending), serving <- running, open <- accepting

\* The queue is a coalescing buffer: the newest item of each key, exclusive
\* service of a device, and losses only for room or after the close.
ImplementsBuffer == Buffer!Spec

(* Liveness *)

\* Each callback given to close() before the close is over is called, even
\* if the workers never answer.
CloseAnswered ==
    \A c \in Closers : c \in closeCallbacks /\ ~closeFinished ~> c \in notified

\* If the workers answer, every telemetry key that waits leaves the queue, served
\* or dropped, even if new telemetry never ceases to arrive for every device.
EveryKeyLeaves == WorkerFairness => Buffer!EveryKeyLeaves

=============================================================================

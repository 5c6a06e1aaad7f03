------------------------ MODULE TelemetryQueueLedger ------------------------
(***************************************************************************)
(* TelemetryQueue with the counters that getStats() reports, and with the  *)
(* history of what was started.  Every item is the ordinal of its          *)
(* enqueue(), so that items can be compared by age: the item of the n-th   *)
(* accepted enqueue() is n.  Items bounds the number of enqueues.          *)
(***************************************************************************)
EXTENDS TelemetryQueue

ASSUME ItemsAreOrdinals == Items \subseteq Nat \ {0}

VARIABLES counters,    \* enqueued, coalesced, completed, failed, dropped
          refused,     \* how many of `dropped` came after close(): history
          newest,      \* per key, the item accepted last (0: none): history
          lastStarted  \* per key, the item started last (0: none): history

history == <<refused, newest, lastStarted>>
ledgerVars == <<vars, counters, history>>

CounterNames == {"enqueued", "coalesced", "completed", "failed", "dropped"}

LTypeOK ==
    /\ TypeOK
    /\ counters \in [CounterNames -> Nat]
    /\ refused \in Nat
    /\ newest \in [Keys -> Nat]
    /\ lastStarted \in [Keys -> Nat]

LInit ==
    /\ Init
    /\ counters = [c \in CounterNames |-> 0]
    /\ refused = 0
    /\ newest = [k \in Keys |-> 0]
    /\ lastStarted = [k \in Keys |-> 0]

Ordinal == counters.enqueued + 1

\* The bookkeeping of an accepted enqueue(), with what it does to the others.
Count(k, coalesced, dropped) ==
    /\ counters' = [counters EXCEPT !.enqueued = @ + 1,
                                    !.coalesced = @ + coalesced,
                                    !.dropped = @ + dropped]
    /\ newest' = [newest EXCEPT ![k] = Ordinal]
    /\ UNCHANGED <<refused, lastStarted>>

LEnqueue(k) ==
    /\ Ordinal \in Items
    /\ \/ EnqueueCoalesced(k, Ordinal) /\ Count(k, 1, 0)
       \/ EnqueueNew(k, Ordinal) /\ Count(k, 0, 0)
       \/ EnqueueOverflow(k, Ordinal) /\ Count(k, 0, 1)

\* Refused items are counted in `dropped` and not in `enqueued`.
LEnqueueClosed(k) ==
    /\ EnqueueClosed(k, Ordinal)
    /\ refused + 1 \in Items
    /\ counters' = [counters EXCEPT !.dropped = @ + 1]
    /\ refused' = refused + 1
    /\ UNCHANGED <<newest, lastStarted>>

Started(i) == lastStarted' = [lastStarted EXCEPT ![pending[i].key] = pending[i].item]

\* done(error) counts the outcome.
Outcome == \E c \in {"completed", "failed"} : counters' = [counters EXCEPT ![c] = @ + 1]

LStartEntry(i) ==
    /\ StartEntry(i)
    /\ Started(i)
    /\ UNCHANGED <<counters, refused, newest>>

LStartAndFinishEntry(i) ==
    /\ StartAndFinishEntry(i)
    /\ Started(i)
    /\ Outcome
    /\ UNCHANGED <<refused, newest>>

LDone(entry) == Done(entry) /\ Outcome /\ UNCHANGED history

\* Mutant of LShutdownTimeout: one drop is counted, whatever was pending.
TimeoutCountedOnce ==
    /\ ShutdownTimeout
    /\ counters' = [counters EXCEPT !.dropped = @ + 1]
    /\ UNCHANGED history

LShutdownTimeout ==
    /\ ShutdownTimeout
    /\ counters' = [counters EXCEPT !.dropped = @ + Len(pending)]
    /\ UNCHANGED history

\* The operations that count nothing.
LUncounted ==
    /\ \/ DrainBegin
       \/ DrainEnd
       \/ \E g \in Groups : DoneAgain(g)
       \/ \E c \in Closers : Close(c)
    /\ UNCHANGED <<counters, history>>

LNext ==
    \/ \E k \in Keys : LEnqueue(k) \/ LEnqueueClosed(k)
    \/ \E i \in DOMAIN pending : LStartEntry(i) \/ LStartAndFinishEntry(i)
    \/ \E entry \in running : LDone(entry)
    \/ LShutdownTimeout
    \/ LUncounted

LSpec == LInit /\ [][LNext]_ledgerVars

-----------------------------------------------------------------------------
\* No telemetry is unaccounted for: every accepted item is pending, running,
\* or counted once as coalesced, completed, failed or dropped.
Conservation ==
    counters.enqueued = counters.coalesced + counters.completed + counters.failed
                        + (counters.dropped - refused) + active + Len(pending)

\* What waits for a key is what was enqueued last for it, and it has not been
\* started before: coalescing never keeps the older of two values.
NewestIsKept ==
    \A i \in DOMAIN pending :
        LET k == pending[i].key
        IN  pending[i].item = newest[k] /\ lastStarted[k] < newest[k]

\* The values of one attribute of a device are started in the order in which
\* they arrived, so that Orion is never left with the older one.
AttributeInOrder == [][\A k \in Keys : lastStarted[k] <= lastStarted'[k]]_ledgerVars

=============================================================================

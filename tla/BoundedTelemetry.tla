-------------------------- MODULE BoundedTelemetry --------------------------
(***************************************************************************)
(* Bounded metrics: lib/telemetryNormalizer.js between the telemetry queue *)
(* and the Context Broker.                                                 *)
(*                                                                         *)
(* A payload {"value":..,"minimum":..,"maximum":..} becomes a Number       *)
(* attribute and two limit attributes.  The normalizer remembers the last  *)
(* limits of each metric in a bounded cache and emits a limit only when it *)
(* differs from the one it remembers.  The Context Broker update that      *)
(* carries the values is answered later, and may fail, before or after it  *)
(* has been stored; the cache has been written by then.                    *)
(*                                                                         *)
(* The queue starts the messages of one device one after the other         *)
(* (TelemetryQueue!OnePerGroup); here that is the guard Idle.              *)
(***************************************************************************)
EXTENDS Integers, Sequences, FiniteSets, SequencesExt

CONSTANTS Devices, Metrics,
          DeviceOf,         \* the device of each metric (device and attribute)
          Numbers,          \* finite numbers, what toFiniteNumber() returns
          Limits,           \* the limit fields: "minimum", "maximum"
          Absent, Invalid,  \* a field that is not there, or not a finite number
          MaxEntries        \* options.maxEntries

ASSUME BoundedAssumption ==
    /\ DeviceOf \in [Metrics -> Devices]
    /\ MaxEntries \in Nat \ {0}
    /\ Absent \notin Numbers /\ Invalid \notin Numbers /\ Absent # Invalid

VARIABLES cache,     \* stateByMetric: a Map in insertion order
          inFlight,  \* updates sent to the Context Broker and not answered
          orion,     \* what the Context Broker holds for each metric
          unsent     \* limits whose last update was answered with an error: history

vars == <<cache, inFlight, orion, unsent>>

Known(limit) == limit \in Numbers

LimitValues == [Limits -> Numbers \cup {Absent}]
NoLimits == [l \in Limits |-> Absent]

CacheEntry == [metric : Metrics, limits : LimitValues]

\* An update: the type of the attribute and the limits sent with it.  Its value
\* makes no difference to anything and is left out.
Update == [metric : Metrics, type : {"Number", "Provisioned"}, limits : LimitValues]

OrionState == [type : {"Number", "Provisioned"}, limits : LimitValues]

\* What a payload may be: `usable` if it is an object with a finite `value`.
\* A scalar has no limits, nor has an object without them.
Payload == [usable : BOOLEAN, limits : [Limits -> Numbers \cup {Absent, Invalid}]]

TypeOK ==
    /\ cache \in Seq(CacheEntry) /\ Len(cache) <= MaxEntries
    /\ \A i, j \in DOMAIN cache : cache[i].metric = cache[j].metric => i = j
    /\ inFlight \subseteq Update
    /\ orion \in [Metrics -> OrionState]
    /\ unsent \subseteq Metrics \X Limits

Init ==
    /\ cache = <<>>
    /\ inFlight = {}
    /\ orion = [m \in Metrics |-> [type |-> "Provisioned", limits |-> NoLimits]]
    /\ unsent = {}

-----------------------------------------------------------------------------
(* normalize() *)

Cached(m) == \E i \in DOMAIN cache : cache[i].metric = m

\* Mutant of IsBounded: the cache is not consulted.
HasLimits(m, p) == p.limits # NoLimits

\* boundedPayload
IsBounded(m, p) == Cached(m) \/ p.limits # NoLimits

\* Mutant of WithEntry: nothing is evicted.
WithEntryUnbounded(m) ==
    IF Cached(m) THEN cache ELSE Append(cache, [metric |-> m, limits |-> NoLimits])

\* The cache with an entry for m: getOrCreateState() is called for a metric that
\* has none, and evicts the entry created first when the cache is full.
WithEntry(m) ==
    IF Cached(m) THEN cache
    ELSE Append(IF Len(cache) >= MaxEntries THEN Tail(cache) ELSE cache,
                [metric |-> m, limits |-> NoLimits])

\* Mutant of Emitted: a limit is sent the first time only.
EmittedOnce(old, new) ==
    [l \in Limits |-> IF Known(new[l]) /\ old[l] = Absent THEN new[l] ELSE Absent]

\* normalizeLimit(): a valid limit is emitted, and remembered, when it is not
\* the one remembered.
Emitted(old, new) ==
    [l \in Limits |-> IF Known(new[l]) /\ new[l] # old[l] THEN new[l] ELSE Absent]

\* `old`, overwritten by the limits that `new` has.
Overwritten(old, new) == [l \in Limits |-> IF Known(new[l]) THEN new[l] ELSE old[l]]

\* One message of a device at a time.
Idle(m) == \A u \in inFlight : DeviceOf[u.metric] # DeviceOf[m]

-----------------------------------------------------------------------------
\* The metric is not bounded: its value is sent with its provisioned type.
SendUnbounded(m, p) ==
    /\ Idle(m)
    /\ ~IsBounded(m, p)
    /\ inFlight' = inFlight \cup
          {[metric |-> m, type |-> "Provisioned", limits |-> NoLimits]}
    /\ UNCHANGED <<cache, orion, unsent>>

\* A bounded metric without a usable value: the entry is created all the same.
RejectBounded(m, p) ==
    /\ Idle(m)
    /\ IsBounded(m, p)
    /\ ~p.usable
    /\ cache' = WithEntry(m)
    /\ UNCHANGED <<inFlight, orion, unsent>>

\* A bounded metric: the limits are remembered before the update is answered.
SendBounded(m, p) ==
    /\ Idle(m)
    /\ IsBounded(m, p)
    /\ p.usable
    /\ \E i \in DOMAIN WithEntry(m) :
          LET entry == WithEntry(m)[i]
          IN  /\ entry.metric = m
              /\ cache' = [WithEntry(m) EXCEPT ![i].limits = Overwritten(@, p.limits)]
              /\ inFlight' = inFlight \cup
                    {[metric |-> m, type |-> "Number", limits |-> Emitted(entry.limits, p.limits)]}
    /\ UNCHANGED <<orion, unsent>>

SentBy(u) == {<<u.metric, l>> : l \in {x \in Limits : Known(u.limits[x])}}

\* What the Context Broker holds after u: the limits it carries replace the old ones.
Taken(u) ==
    [orion EXCEPT ![u.metric] = [type |-> u.type, limits |-> Overwritten(@.limits, u.limits)]]

\* The Context Broker takes the update.
UpdateSucceeds(u) ==
    /\ u \in inFlight
    /\ inFlight' = inFlight \ {u}
    /\ orion' = Taken(u)
    /\ unsent' = unsent \ SentBy(u)
    /\ UNCHANGED cache

\* The update fails; sendMeasures() logs it and the queue counts it.
UpdateFails(u) ==
    /\ u \in inFlight
    /\ inFlight' = inFlight \ {u}
    /\ unsent' = unsent \cup SentBy(u)
    /\ UNCHANGED <<cache, orion>>

\* The Context Broker takes the update and its answer is lost: to the agent it has
\* failed.
AnswerLost(u) ==
    /\ u \in inFlight
    /\ inFlight' = inFlight \ {u}
    /\ orion' = Taken(u)
    /\ unsent' = unsent \cup SentBy(u)
    /\ UNCHANGED cache

\* The agent dies and starts again: the cache and the requests are gone.
Restart ==
    /\ cache' = <<>>
    /\ inFlight' = {}
    /\ UNCHANGED <<orion, unsent>>

Next ==
    \/ \E m \in Metrics, p \in Payload :
          SendUnbounded(m, p) \/ RejectBounded(m, p) \/ SendBounded(m, p)
    \/ \E u \in inFlight : UpdateSucceeds(u) \/ UpdateFails(u) \/ AnswerLost(u)
    \/ Restart

Spec == Init /\ [][Next]_vars

-----------------------------------------------------------------------------
\* A limit that the normalizer remembers, and so will not send again, is the
\* one the Context Broker holds, or is on its way there, or its update was
\* answered with an error.
CachedLimitIsInOrion ==
    \A i \in DOMAIN cache, l \in Limits :
        LET m == cache[i].metric
            limit == cache[i].limits[l]
        IN  Known(limit) =>
                \/ orion[m].limits[l] = limit
                \/ <<m, l>> \in unsent
                \/ \E u \in inFlight : u.metric = m /\ u.limits[l] = limit

\* An attribute that has become a Number keeps that type as long as its metric
\* is remembered, whatever scalar or malformed payloads arrive.
BoundedStaysNumeric ==
    [][\A m \in Metrics :
          orion[m].type = "Number" /\ orion'[m].type # "Number" => ~Cached(m)]_vars

=============================================================================

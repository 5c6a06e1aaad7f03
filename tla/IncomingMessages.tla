-------------------------- MODULE IncomingMessages --------------------------
(***************************************************************************)
(* handleIncomingMessage() of lib/bindings/MQTTBinding.js with the two     *)
(* bounded registries that every message goes through: the ids of the      *)
(* devices (DeviceDiscovery) and, for messages that are rejected, the      *)
(* warnings that have been logged (WarningLimiter).  They share the clock. *)
(* A warning is identified with the device it is about.  What becomes of   *)
(* the messages accepted is the matter of TelemetryQueue and Commands.     *)
(***************************************************************************)
EXTENDS DeviceDiscovery

CONSTANTS WarningInterval,  \* warningIntervalMs
          MaxWarnings       \* limitCacheMaxEntries, the limiter's maxEntries

ASSUME IncomingAssumption ==
    /\ WarningInterval \in Nat \ {0}
    /\ MaxWarnings \in Nat \ {0}

VARIABLES lastLoggedByKey, logged

limiterVars == <<lastLoggedByKey, logged>>
incomingVars == <<vars, limiterVars>>

Limiter == INSTANCE WarningLimiter
           WITH WarningKeys <- DeviceIds, Interval <- WarningInterval, MaxEntries <- MaxWarnings

InInit == Init /\ Limiter!Init

\* A control message, or telemetry for the queue.
Accepted(d) == Observe(d) /\ UNCHANGED limiterVars

\* Mutant of Rejected: the message is rejected before its sender is observed.
RejectedUnobserved(d) ==
    /\ UNCHANGED devices
    /\ observed' = [observed EXCEPT ![d] = [first |-> IF SeenRecently(d) THEN @.first ELSE now, last |-> now]]
    /\ Limiter!Log(d) \/ Limiter!Suppress(d)

\* The payload is too large: the device is observed, and the warning is
\* logged or not.
Rejected(d) == Observe(d) /\ (Limiter!Log(d) \/ Limiter!Suppress(d))

InNext ==
    \/ \E d \in DeviceIds : Accepted(d) \/ Rejected(d)
    \/ List /\ UNCHANGED limiterVars
    \/ Tick /\ UNCHANGED limiterVars

InSpec == InInit /\ [][InNext]_incomingVars

-----------------------------------------------------------------------------
\* Equal warnings come within the interval only after as many others as the
\* limiter has room for: see WarningLimiter.
EqualWarningsApart == Limiter!EqualWarningsApart

=============================================================================

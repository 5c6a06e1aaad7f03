----------------------- MODULE MCTelemetryQueueLedger -----------------------
(* Small instances of TelemetryQueueLedger: device A has two attributes, B has one. *)
EXTENDS TelemetryQueueLedger

MCKeys == {"a1", "a2", "b1"}
MCGroups == {"A", "B"}
MCGroupOf == [k \in MCKeys |-> IF k = "b1" THEN "B" ELSE "A"]
=============================================================================

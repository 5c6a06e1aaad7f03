-------------------------- MODULE MCTelemetryQueue --------------------------
(* Small instances of TelemetryQueue: device A has two attributes, B has one. *)
EXTENDS TelemetryQueue

MCKeys == {"a1", "a2", "b1"}
MCGroups == {"A", "B"}
MCGroupOf == [k \in MCKeys |-> IF k = "b1" THEN "B" ELSE "A"]
=============================================================================

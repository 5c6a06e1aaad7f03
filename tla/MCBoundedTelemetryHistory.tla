---- MODULE MCBoundedTelemetryHistory ----
(* Small instances of BoundedTelemetryHistory: device A has two metrics, B has one. *)
EXTENDS BoundedTelemetryHistory

MCMetrics == {"a1", "a2", "b1"}
MCDeviceOf == [m \in MCMetrics |-> IF m = "b1" THEN "B" ELSE "A"]
====

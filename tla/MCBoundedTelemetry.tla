---- MODULE MCBoundedTelemetry ----
(* Small instances of BoundedTelemetry: each device has one metric. *)
EXTENDS BoundedTelemetry

MCDeviceOf == [m \in Metrics |-> m]
====

------------------------------ MODULE MCTelemetry ------------------------------
(* A ring of three buckets of two ticks each, which wraps.                 *)
EXTENDS Telemetry
=============================================================================

-------------------------- MODULE MCTelemetryStore --------------------------
(* TelemetryStore for TLC.                                                  *)
EXTENDS TelemetryStore, TLC

(* Request threads are interchangeable, and so are devices.                 *)
Symmetry == Permutations(Workers) \cup Permutations(Devices)
=============================================================================

--------------------------- MODULE MCWorkloadCalm ---------------------------
(* Model checking of WorkloadController in a world without faults. *)
EXTENDS MCWorkload

(* The instance is one that SettledIsApplied is about. *)
ASSUME InstanceIsOrderly == Orderly
=============================================================================

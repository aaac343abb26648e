---------------------------- MODULE MCWorkQueue ----------------------------
(* Model checking of WorkQueue: two workers, two or three keys. *)
EXTENDS WorkQueue

CONSTANTS k1, k2, k3, w1, w2

TwoKeys == {k1, k2}
ThreeKeys == {k1, k2, k3}
TwoWorkers == {w1, w2}
=============================================================================

------------------------------ MODULE MCAcPool ------------------------------
(* Small instances of the pool for TLC.                                    *)
EXTENDS AcPool

(* Fewer slow tasks than workers allowed: capacity is not the obstacle.    *)
ASSUME Cardinality(Slow) < MaxWorkers
=============================================================================

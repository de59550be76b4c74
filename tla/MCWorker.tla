------------------------------ MODULE MCWorker ------------------------------
(* Instances of Worker: one worker, one or two terminate() calls.          *)
EXTENDS Worker
=============================================================================

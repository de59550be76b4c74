----------------------------- MODULE MCIsolate ------------------------------
(* Small instances of the job loop for TLC.                                *)
EXTENDS Isolate
=============================================================================

---------------------------- MODULE MCMessagePort ----------------------------
(* Instances of MessagePort: a pair of ports and a few messages each way.   *)
EXTENDS MessagePort
=============================================================================

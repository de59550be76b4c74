------------------------------ MODULE MCAsyncIO -----------------------------
(* Small instances of a socket's operations for TLC.                       *)
EXTENDS AsyncIO, TLC

CONSTANTS o1, o2

(* A connection that is read by two callers, one that is being opened and   *)
(* written, and a listening socket with two acceptors: without timeouts and *)
(* with two abort()s that may overlap, or with timeouts and one abort().    *)
Pair(a, b) == (o1 :> a) @@ (o2 :> b)
UntimedPlans ==
    [kind : {Pair("read", "read"), Pair("connect", "write"), Pair("accept", "accept")},
     timed : {{}}, aborts : {2}]
SomePlans ==
    UntimedPlans \cup
    [kind : {Pair("read", "read"), Pair("connect", "write")}, timed : {{o1, o2}}, aborts : {1}]

(* Two reads without timeouts, a close and no abort.                        *)
ClosePlans == [kind : {Pair("read", "read")}, timed : {{}}, aborts : {0}]
=============================================================================

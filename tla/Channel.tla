------------------------------- MODULE Channel -------------------------------
(***************************************************************************)
(* What a pair of message ports promises (MessagePort.idl, "delivery is     *)
(* asynchronous and ordered"): towards each end, messages travel in the     *)
(* order they were posted.  Listeners are called with the oldest one still  *)
(* on its way; receiveMessageOnPort() may take one that is further back;    *)
(* messages may be lost, but are never invented, doubled or reordered.      *)
(* Messages to an end are numbered in the order of their posts, so that the *)
(* oldest is the least.                                                    *)
(***************************************************************************)
EXTENDS Integers, Sequences

CONSTANT Ends

VARIABLES
    sent,       \* how many messages were posted to the end, numbered from 1
    transit,    \* the set of those on their way to it
    seen,       \* what its listeners were called with, in order
    received,   \* those taken by receiveMessageOnPort()
    lost        \* those that will never arrive

vars == <<sent, transit, seen, received, lost>>

Init ==
    /\ sent = [e \in Ends |-> 0]
    /\ transit = [e \in Ends |-> {}] /\ seen = [e \in Ends |-> << >>]
    /\ received = [e \in Ends |-> {}] /\ lost = [e \in Ends |-> {}]

(* The messages of S leave.                                                *)
Remove(e, S) == transit' = [transit EXCEPT ![e] = @ \ S]

Oldest(e, n) == n \in transit[e] /\ \A m \in transit[e] : n <= m

Post(e) ==
    /\ UNCHANGED <<seen, received, lost>>
    /\ sent' = [sent EXCEPT ![e] = @ + 1]
    /\ transit' = [transit EXCEPT ![e] = @ \cup {sent[e] + 1}]

Deliver(e) ==
    /\ UNCHANGED <<sent, received, lost>>
    /\ \E n \in transit[e] :
          Oldest(e, n) /\ seen' = [seen EXCEPT ![e] = Append(@, n)] /\ Remove(e, {n})

Receive(e) ==
    /\ UNCHANGED <<sent, seen, lost>>
    /\ \E n \in transit[e] :
          received' = [received EXCEPT ![e] = @ \cup {n}] /\ Remove(e, {n})

Lose(e) ==
    /\ UNCHANGED <<sent, seen, received>>
    /\ \E S \in SUBSET transit[e] :
          lost' = [lost EXCEPT ![e] = @ \cup S] /\ Remove(e, S)

Next == \E e \in Ends : Post(e) \/ Deliver(e) \/ Receive(e) \/ Lose(e)

Spec == Init /\ [][Next]_vars

=============================================================================

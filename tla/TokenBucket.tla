----------------------------- MODULE TokenBucket -----------------------------
(***************************************************************************)
(* What the initiation rate limiter promises: every endpoint has a bucket  *)
(* of at most Burst tokens, whoever else asks and whatever is forgotten.   *)
(* A request is granted only against Cost tokens of its endpoint's bucket, *)
(* and refused only when they are missing, or when the bucket is full: an  *)
(* endpoint not heard of lately may find no room.                          *)
(***************************************************************************)
EXTENDS Integers

CONSTANTS Endpoints, Cost, Burst

VARIABLES
  level,    \* the tokens in each endpoint's bucket
  outcome   \* the last request and whether it was granted

Init ==
  /\ level = [k \in Endpoints |-> Burst]
  /\ outcome \in [endpoint : Endpoints, granted : {FALSE}]

\* One unit of time gives every bucket that is not full one token.
Refill ==
  /\ level' = [k \in Endpoints |-> IF level[k] < Burst THEN level[k] + 1 ELSE Burst]
  /\ UNCHANGED outcome

Grant(k) ==
  /\ level[k] >= Cost
  /\ level' = [level EXCEPT ![k] = @ - Cost]
  /\ outcome' = [endpoint |-> k, granted |-> TRUE]

Refuse(k) ==
  /\ level[k] < Cost \/ level[k] = Burst
  /\ UNCHANGED level
  /\ outcome' = [endpoint |-> k, granted |-> FALSE]

Next == Refill \/ \E k \in Endpoints : Grant(k) \/ Refuse(k)

Spec == Init /\ [][Next]_<<level, outcome>>
=============================================================================

---------------------------- MODULE ReplayFilter ----------------------------
(***************************************************************************)
(* What the replay protection of one receiving keypair promises, stated    *)
(* with the set of all counters it has ever let through.  A counter is     *)
(* accepted exactly when it is below the message limit, not further than   *)
(* Window behind the greatest accepted counter, and not accepted before.   *)
(***************************************************************************)
EXTENDS Integers

CONSTANTS
  Limit,      \* counters from Limit on are refused
  Window,     \* how far behind the newest counter a late one may be
  MaxCounter  \* the greatest counter a packet can carry

VARIABLES
  accepted,   \* every counter accepted so far
  result      \* the last question asked and its answer

vars == <<accepted, result>>

InWindow(n) == \A m \in accepted : m <= n + Window

Acceptable(n) == n < Limit /\ InWindow(n) /\ n \notin accepted

Init == accepted = {} /\ result = [nonce |-> 0, ok |-> FALSE]

Check(n) ==
  /\ result' = [nonce |-> n, ok |-> Acceptable(n)]
  /\ accepted' = IF Acceptable(n) THEN accepted \cup {n} ELSE accepted

Next == \E n \in 0 .. MaxCounter : Check(n)

Spec == Init /\ [][Next]_vars
=============================================================================

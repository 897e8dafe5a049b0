------------------------------ MODULE Ratelimit ------------------------------
(***************************************************************************)
(* The rate limiter of handshake initiations under load: ratelimit_allow   *)
(* and its garbage collection (wg_cookie.c).  Everything runs under        *)
(* rl_mtx, so a call is one step.  The callout is dispatched at or after   *)
(* the time it is due and then waits for rl_mtx, no longer pending; a      *)
(* callout_reset in between cancels that run.                              *)
(* A unit of time is what a token is worth.  Times are kept relative to    *)
(* now: r_last_time as how long the entry has been idle, which stops       *)
(* counting once the entry is old enough to be collected.                  *)
(***************************************************************************)
EXTENDS Integers, FiniteSets

CONSTANTS
  Endpoints,              \* ratelimit_key: address (/64 for IPv6) and vnet
  INITIATION_COST,        \* tokens a request costs
  INITIATIONS_BURSTABLE,  \* requests a full bucket pays for
  ELEMENT_TIMEOUT,        \* how long an idle entry is kept
  RATELIMIT_SIZE_MAX,     \* entries the table holds
  None                    \* no entry

TOKEN_MAX == INITIATION_COST * INITIATIONS_BURSTABLE

\* An entry is kept long enough for its bucket to fill: 1 s against 250 ms.
ASSUME RatelimitAssumption ==
  /\ IsFiniteSet(Endpoints)
  /\ INITIATION_COST \in Nat \ {0} /\ INITIATIONS_BURSTABLE \in Nat \ {0}
  /\ TOKEN_MAX \in Nat /\ TOKEN_MAX >= INITIATION_COST
  /\ ELEMENT_TIMEOUT \in Nat /\ ELEMENT_TIMEOUT >= TOKEN_MAX
  /\ RATELIMIT_SIZE_MAX \in Nat

Entries == [idle : 0 .. ELEMENT_TIMEOUT + 1, tokens : 0 .. TOKEN_MAX]

ASSUME NoEntry == None \notin Entries

VARIABLES
  rl_table,      \* the entry of each endpoint, or None
  rl_table_num,  \* how many entries there are
  rl_gc,         \* the time left until the callout is due, Stopped or Dispatched
  outcome        \* history: the last request and whether it was allowed

vars == <<rl_table, rl_table_num, rl_gc, outcome>>

\* Nothing is scheduled.
Stopped == -1

\* softclock has taken the callout off its queue and waits for rl_mtx.
Dispatched == -2

\* callout_pending.
Pending(gc) == gc >= 0

Present == {k \in Endpoints : rl_table[k] # None}

Init ==
  /\ rl_table = [k \in Endpoints |-> None]
  /\ rl_table_num = 0
  /\ rl_gc = Stopped
  /\ outcome \in [endpoint : Endpoints, granted : {FALSE}]

Older(e) ==
  IF e = None THEN None
  ELSE [e EXCEPT !.idle = IF @ <= ELEMENT_TIMEOUT THEN @ + 1 ELSE @]

Tick ==
  /\ rl_table' = [k \in Endpoints |-> Older(rl_table[k])]
  /\ rl_gc' = IF rl_gc > 0 THEN rl_gc - 1 ELSE rl_gc
  /\ UNCHANGED <<rl_table_num, outcome>>

\* Mutant: a callout is set for the first entry only.
ScheduleFirst(num, gc) == IF num = 1 /\ ~Pending(gc) THEN ELEMENT_TIMEOUT ELSE gc

\* ratelimit_gc_schedule: the callout, gc before the call.
GcSchedule(num, gc) == IF num > 0 /\ ~Pending(gc) THEN ELEMENT_TIMEOUT ELSE gc

\* Mutant: tokens are saved up for as long as the endpoint is silent.
RefilledWithoutBound(e) == e.tokens + e.idle

\* The tokens of entry e, with those for the time since r_last_time.
Refilled(e) == IF e.tokens + e.idle > TOKEN_MAX THEN TOKEN_MAX ELSE e.tokens + e.idle

\* ratelimit_allow for an endpoint with an entry.
AllowKnown(k) ==
  LET tokens == Refilled(rl_table[k])
      allow == tokens >= INITIATION_COST
  IN  /\ rl_table[k] # None
      /\ rl_table' = [rl_table EXCEPT ![k] =
           [idle |-> 0, tokens |-> IF allow THEN tokens - INITIATION_COST ELSE tokens]]
      /\ outcome' = [endpoint |-> k, granted |-> allow]
      /\ UNCHANGED <<rl_table_num, rl_gc>>

\* Mutant: the table takes one entry too many.
RoomForOneMore == rl_table_num <= RATELIMIT_SIZE_MAX

Room == rl_table_num < RATELIMIT_SIZE_MAX

\* ratelimit_allow for an endpoint without one; uma_zalloc may fail.
AllowNew(k) ==
  /\ rl_table[k] = None
  /\ \/ /\ Room
        /\ rl_table' = [rl_table EXCEPT ![k] =
             [idle |-> 0, tokens |-> TOKEN_MAX - INITIATION_COST]]
        /\ rl_table_num' = rl_table_num + 1
        /\ rl_gc' = GcSchedule(rl_table_num', rl_gc)
        /\ outcome' = [endpoint |-> k, granted |-> TRUE]
     \/ /\ outcome' = [endpoint |-> k, granted |-> FALSE]
        /\ UNCHANGED <<rl_table, rl_table_num, rl_gc>>

\* Mutant: every entry that is idle is collected.
StaleAtOnce(e) == e # None /\ e.idle > 0

\* r_last_time < expiry.
Stale(e) == e # None /\ e.idle > ELEMENT_TIMEOUT

\* The callout leaves softclock's queue; callout_init_mtx makes it wait for
\* rl_mtx before it runs.
Dispatch ==
  /\ rl_gc = 0
  /\ rl_gc' = Dispatched
  /\ UNCHANGED <<rl_table, rl_table_num, outcome>>

\* ratelimit_gc from its callout, unless that run was cancelled.
Gc ==
  LET stale == {k \in Endpoints : Stale(rl_table[k])}
  IN  /\ rl_gc = Dispatched
      /\ rl_table' = [k \in Endpoints |-> IF k \in stale THEN None ELSE rl_table[k]]
      /\ rl_table_num' = rl_table_num - Cardinality(stale)
      /\ rl_gc' = GcSchedule(rl_table_num', Stopped)
      /\ UNCHANGED outcome

Next == Tick \/ Dispatch \/ Gc \/ \E k \in Endpoints : AllowKnown(k) \/ AllowNew(k)

Spec == Init /\ [][Next]_vars

\* Time passes, a callout that is due is dispatched and gets rl_mtx.
FairSpec == Spec /\ WF_vars(Tick) /\ WF_vars(Dispatch) /\ WF_vars(Gc)
-----------------------------------------------------------------------------
(* Type correctness: r_tokens stays within TOKEN_MAX.                      *)
TypeOK ==
  /\ rl_table \in [Endpoints -> Entries \cup {None}]
  /\ rl_table_num \in Nat
  /\ rl_gc \in {Stopped, Dispatched} \cup 0 .. ELEMENT_TIMEOUT
  /\ outcome \in [endpoint : Endpoints, granted : BOOLEAN]

(* rl_table_num, which insertion and collection keep in step with the      *)
(* table by hand, is its size, and the table never outgrows its bound.     *)
TableCounted ==
  /\ rl_table_num = Cardinality(Present)
  /\ rl_table_num <= RATELIMIT_SIZE_MAX

(* As long as the table has an entry a collection is pending or about to   *)
(* run: whatever was collected or cancelled, no entry is left behind with  *)
(* nothing to collect it (wg_cookie.c:368-380).                            *)
GcPending == Present # {} => rl_gc # Stopped

\* The tokens endpoint k could spend now.
Level(k) == IF rl_table[k] = None THEN TOKEN_MAX ELSE Refilled(rl_table[k])

Bucket == INSTANCE TokenBucket WITH
  Cost <- INITIATION_COST, Burst <- TOKEN_MAX, level <- [k \in Endpoints |-> Level(k)]

(* Collecting entries gives nobody a token: the limiter is, for every      *)
(* endpoint, a token bucket that forgets nothing, though its table is      *)
(* bounded and cleaned (wg_cookie.c:382-486).                              *)
ImplementsTokenBucket == Bucket!Spec

(* An endpoint that falls silent frees its place in the table, though each *)
(* new entry may cancel a collection that waits for rl_mtx and put it off  *)
(* by ELEMENT_TIMEOUT: the table fills up, and then nothing cancels it     *)
(* (wg_cookie.c:377-379, 464-465).                                         *)
SilentIsForgotten ==
  \A k \in Endpoints : Stale(rl_table[k]) ~> ~Stale(rl_table[k])

(* What the comment in ratelimit_allow says (wg_cookie.c:439-443): a known *)
(* endpoint with at most INITIATION_COST tokens is blocked.                *)
BlockedAtCost ==
  [][\A k \in Endpoints :
       AllowKnown(k) /\ Refilled(rl_table[k]) <= INITIATION_COST => ~outcome'.granted]_vars
=============================================================================

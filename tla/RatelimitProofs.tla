--------------------------- MODULE RatelimitProofs ---------------------------
(***************************************************************************)
(* Proofs about Ratelimit, for every number of endpoints, table size, cost *)
(* and burst: the table is counted and always due for collection, and      *)
(* collecting entries keeps every endpoint's token bucket as it is.        *)
(***************************************************************************)
EXTENDS Ratelimit, FiniteSetTheorems, TLAPS

IInv == TypeOK /\ TableCounted /\ GcPending

(* The present entries are finitely many, and counted by 0 if there are    *)
(* none.                                                                   *)
LEMMA PresentFinite ==
  /\ IsFiniteSet(Present) /\ Cardinality(Present) \in Nat
  /\ Cardinality(Present) = 0 <=> Present = {}
<1>1. Present \in SUBSET Endpoints
  BY DEF Present
<1>2. IsFiniteSet(Present)
  BY <1>1, RatelimitAssumption, FS_Subset
<1>3. QED
  BY <1>2, FS_CardinalityType, FS_EmptySet

(* An empty table satisfies the invariant.                                 *)
LEMMA InitIInv == Init => IInv
<1>1. SUFFICES ASSUME Init PROVE IInv
  OBVIOUS
<1>2. TypeOK
  BY <1>1 DEF Init, TypeOK
<1>3. Present = {}
  BY <1>1 DEF Init, Present
<1>4. QED
  BY <1>1, <1>2, <1>3, PresentFinite, RatelimitAssumption DEF Init, IInv, TableCounted, GcPending

(* The tokens of an entry are at most TOKEN_MAX.                           *)
LEMMA RefilledType == \A e \in Entries : Refilled(e) \in 0 .. TOKEN_MAX
  BY RatelimitAssumption DEF Refilled, Entries

(* Passing time changes the age of entries, not which there are.           *)
LEMMA TickStep == IInv /\ Tick => IInv'
<1>1. SUFFICES ASSUME IInv, Tick PROVE IInv'
  OBVIOUS
<1>2. \A e \in Entries : Older(e) \in Entries
  <2>1. SUFFICES ASSUME NEW e \in Entries PROVE Older(e) \in Entries
    OBVIOUS
  <2>2. e # None
    BY NoEntry
  <2>3. QED
    BY <2>2, RatelimitAssumption DEF Older, Entries
<1>3. \A k \in Endpoints : rl_table'[k] = None <=> rl_table[k] = None
  BY <1>1, <1>2, NoEntry DEF Tick, Older, IInv, TypeOK
<1>4. Present' = Present
  BY <1>3 DEF Present
<1>5. rl_table' \in [Endpoints -> Entries \cup {None}]
  BY <1>1, <1>2 DEF Tick, IInv, TypeOK, Older
<1>6. TypeOK'
  BY <1>1, <1>5, RatelimitAssumption DEF IInv, TypeOK, Tick, Stopped, Dispatched
<1>7. QED
  BY <1>1, <1>4, <1>6 DEF IInv, TypeOK, TableCounted, GcPending, Tick, Stopped, Dispatched

(* A request from a known endpoint changes its entry and nothing else.     *)
LEMMA AllowKnownStep ==
  ASSUME NEW k \in Endpoints, IInv, AllowKnown(k)
  PROVE  IInv'
<1> DEFINE t == Refilled(rl_table[k])
<1>1. rl_table[k] \in Entries
  BY DEF IInv, TypeOK, AllowKnown
<1>2. t \in 0 .. TOKEN_MAX
  BY <1>1, RefilledType
<1> DEFINE e == [idle |-> 0, tokens |-> IF t >= INITIATION_COST THEN t - INITIATION_COST ELSE t]
<1>3. rl_table' = [rl_table EXCEPT ![k] = e]
  BY Zenon DEF AllowKnown
<1>4. outcome' = [endpoint |-> k, granted |-> (t >= INITIATION_COST)]
  BY Zenon DEF AllowKnown
<1> HIDE DEF t
<1>5. e \in Entries /\ (t >= INITIATION_COST) \in BOOLEAN
  BY <1>2, RatelimitAssumption DEF Entries
<1> HIDE DEF e
<1>6. TypeOK'
  BY <1>3, <1>4, <1>5 DEF IInv, TypeOK, AllowKnown
<1>7. Present' = Present
  BY <1>1, <1>3, <1>5, NoEntry DEF Present, IInv, TypeOK
<1>8. QED
  BY <1>6, <1>7 DEF IInv, TableCounted, GcPending, AllowKnown

(* A new endpoint is counted, and collection is due.                       *)
LEMMA AllowNewStep ==
  ASSUME NEW k \in Endpoints, IInv, AllowNew(k)
  PROVE  IInv'
<1> DEFINE e == [idle |-> 0, tokens |-> TOKEN_MAX - INITIATION_COST]
<1>1. e \in Entries
  BY RatelimitAssumption DEF Entries
<1>2. CASE /\ Room /\ rl_table' = [rl_table EXCEPT ![k] = e]
           /\ rl_table_num' = rl_table_num + 1
           /\ rl_gc' = GcSchedule(rl_table_num', rl_gc)
           /\ outcome' = [endpoint |-> k, granted |-> TRUE]
  <2> HIDE DEF e
  <2>1. rl_table[k] = None
    BY DEF AllowNew
  <2>2. Present' = Present \cup {k}
    BY <1>1, <1>2, NoEntry DEF Present, IInv, TypeOK
  <2>3. Cardinality(Present') = Cardinality(Present) + 1
    <3>1. k \notin Present
      BY <2>1 DEF Present
    <3>2. QED
      BY <2>2, <3>1, PresentFinite, FS_AddElement
  <2>4. TableCounted'
    BY <1>2, <2>3, RatelimitAssumption DEF IInv, TypeOK, TableCounted, Room
  <2>5. rl_gc' \in 0 .. ELEMENT_TIMEOUT
    <3>1. rl_table_num' \in Nat /\ rl_table_num' > 0
      BY <1>2 DEF IInv, TypeOK
    <3>2. rl_gc \in {Stopped, Dispatched} \cup 0 .. ELEMENT_TIMEOUT
      BY DEF IInv, TypeOK
    <3>3. rl_gc' = IF Pending(rl_gc) THEN rl_gc ELSE ELEMENT_TIMEOUT
      BY <1>2, <3>1 DEF GcSchedule
    <3>4. QED
      BY <3>2, <3>3, RatelimitAssumption DEF Pending, Stopped, Dispatched
  <2>6. TypeOK'
    BY <1>1, <1>2, <2>5 DEF IInv, TypeOK
  <2>7. QED
    BY <2>4, <2>5, <2>6 DEF IInv, GcPending, Stopped
<1>3. CASE /\ outcome' = [endpoint |-> k, granted |-> FALSE]
           /\ UNCHANGED <<rl_table, rl_table_num, rl_gc>>
  BY <1>3 DEF IInv, TypeOK, TableCounted, GcPending, Present
<1>4. QED
  BY <1>2, <1>3 DEF AllowNew

(* Dispatching the callout leaves a collection about to run.               *)
LEMMA DispatchStep == IInv /\ Dispatch => IInv'
  BY DEF Dispatch, IInv, TypeOK, TableCounted, GcPending, Present, Stopped, Dispatched

(* Collection counts what it removes and is due again if anything is left. *)
LEMMA GcStep == IInv /\ Gc => IInv'
<1>1. SUFFICES ASSUME IInv, Gc PROVE IInv'
  OBVIOUS
<1> DEFINE stale == {k \in Endpoints : Stale(rl_table[k])}
<1>2. /\ rl_table' = [k \in Endpoints |-> IF k \in stale THEN None ELSE rl_table[k]]
      /\ rl_table_num' = rl_table_num - Cardinality(stale)
      /\ rl_gc' = GcSchedule(rl_table_num', Stopped)
      /\ UNCHANGED outcome
  BY <1>1 DEF Gc
<1>3. Present' = Present \ stale /\ Present \cap stale = stale
  BY <1>2 DEF Present, Stale
<1> HIDE DEF stale
<1>4. Cardinality(Present') = Cardinality(Present) - Cardinality(stale)
  <2>1. Cardinality(Present \ stale) = Cardinality(Present) - Cardinality(Present \cap stale)
    BY PresentFinite, FS_Difference
  <2>2. QED
    BY <1>3, <2>1
<1>5. stale \in SUBSET Present
  BY <1>3
<1>6. Cardinality(stale) \in Nat /\ Cardinality(stale) <= Cardinality(Present)
  BY <1>5, PresentFinite, FS_Subset, FS_CardinalityType
<1>7. rl_table_num' \in Nat /\ TableCounted'
  BY <1>1, <1>2, <1>4, <1>6, PresentFinite, RatelimitAssumption DEF IInv, TypeOK, TableCounted
<1>8. rl_gc' \in {Stopped} \cup 0 .. ELEMENT_TIMEOUT /\ (rl_table_num' > 0 => rl_gc' # Stopped)
  BY <1>2, <1>7, RatelimitAssumption DEF GcSchedule, Pending, Stopped
<1>9. TypeOK'
  BY <1>1, <1>2, <1>7, <1>8 DEF IInv, TypeOK
<1>10. GcPending'
  <2>1. Present' # {} => Cardinality(Present') # 0
    <3>1. IsFiniteSet(Present')
      BY <1>3, PresentFinite, FS_Difference
    <3>2. QED
      BY <3>1, FS_EmptySet
  <2>2. QED
    BY <1>7, <1>8, <2>1 DEF GcPending, TableCounted
<1>11. QED
  BY <1>7, <1>9, <1>10 DEF IInv
-----------------------------------------------------------------------------
(* The invariant holds in every reachable state.                           *)
THEOREM Invariance == Spec => []IInv
<1>1. IInv /\ [Next]_vars => IInv'
  <2>1. SUFFICES ASSUME IInv, [Next]_vars PROVE IInv'
    OBVIOUS
  <2>2. CASE UNCHANGED vars
    BY <2>1, <2>2 DEF vars, IInv, TypeOK, TableCounted, GcPending, Present
  <2>3. QED
    BY <2>1, <2>2, TickStep, DispatchStep, GcStep, AllowKnownStep, AllowNewStep DEF Next
<1>2. QED
  BY <1>1, InitIInv, PTL DEF Spec

(* Type correctness of the rate limiter.                                   *)
THEOREM TypeCorrect == Spec => []TypeOK
  BY Invariance, PTL DEF IInv

(* rl_table_num is the number of entries and never exceeds the bound.      *)
THEOREM TableBounded == Spec => []TableCounted
  BY Invariance, PTL DEF IInv

(* While there is an entry, ratelimit_gc is scheduled.                     *)
THEOREM AlwaysCollected == Spec => []GcPending
  BY Invariance, PTL DEF IInv

(* The bucket of a state is the one TokenBucket has.                       *)
LEMMA LevelType ==
  ASSUME IInv, NEW k \in Endpoints
  PROVE  Level(k) \in 0 .. TOKEN_MAX
  BY RefilledType, RatelimitAssumption DEF Level, IInv, TypeOK

(* Time adds a token to each bucket that is not full, present or not.      *)
LEMMA TickRefills == IInv /\ Tick => Bucket!Refill
<1>1. SUFFICES ASSUME IInv, Tick PROVE Bucket!Refill
  OBVIOUS
<1>2. ASSUME NEW k \in Endpoints
      PROVE  Level(k)' = IF Level(k) < TOKEN_MAX THEN Level(k) + 1 ELSE TOKEN_MAX
  <2>1. rl_table'[k] = Older(rl_table[k])
    BY <1>1 DEF Tick
  <2>2. CASE rl_table[k] = None
    BY <2>1, <2>2, RatelimitAssumption DEF Older, Level
  <2>3. CASE rl_table[k] # None
    <3>1. PICK e \in Entries : e = rl_table[k]
      BY <1>1, <2>3 DEF IInv, TypeOK
    <3>2. Older(e) = [idle |-> IF e.idle <= ELEMENT_TIMEOUT THEN e.idle + 1 ELSE e.idle,
                      tokens |-> e.tokens]
      BY <2>3, <3>1 DEF Older, Entries
    <3>3. Refilled(Older(e)) = IF Refilled(e) < TOKEN_MAX THEN Refilled(e) + 1 ELSE TOKEN_MAX
      BY <3>2, RatelimitAssumption DEF Refilled, Entries
    <3>4. Older(e) # None
      BY <3>2, RatelimitAssumption, NoEntry DEF Entries
    <3>5. QED
      BY <2>1, <2>3, <3>1, <3>3, <3>4 DEF Level
  <2>4. QED
    BY <2>2, <2>3
<1>3. QED
  BY <1>1, <1>2 DEF Bucket!Refill, Tick

(* A known endpoint pays from its bucket or is refused for lack of tokens. *)
LEMMA AllowKnownPays ==
  ASSUME NEW k \in Endpoints, IInv, AllowKnown(k)
  PROVE  Bucket!Grant(k) \/ Bucket!Refuse(k)
<1> DEFINE t == Refilled(rl_table[k])
           e == [idle |-> 0, tokens |-> IF t >= INITIATION_COST THEN t - INITIATION_COST ELSE t]
<1>1. rl_table[k] # None /\ rl_table[k] \in Entries
  BY DEF IInv, TypeOK, AllowKnown
<1>2. t \in 0 .. TOKEN_MAX
  BY <1>1, RefilledType
<1>3. rl_table' = [rl_table EXCEPT ![k] = e]
  BY Zenon DEF AllowKnown
<1>4. outcome' = [endpoint |-> k, granted |-> (t >= INITIATION_COST)]
  BY Zenon DEF AllowKnown
<1>5. Level(k) = t
  BY <1>1 DEF Level
<1> HIDE DEF t
<1>6. /\ e \in Entries
      /\ Refilled(e) = IF t >= INITIATION_COST THEN t - INITIATION_COST ELSE t
  BY <1>2, RatelimitAssumption DEF Entries, Refilled
<1> HIDE DEF e
<1>7. \A p \in Endpoints : Level(p)' = IF p = k THEN Refilled(e) ELSE Level(p)
  BY <1>3, <1>6, NoEntry DEF Level, IInv, TypeOK
<1>8. CASE t >= INITIATION_COST
  BY <1>4, <1>5, <1>6, <1>7, <1>8 DEF Bucket!Grant
<1>9. CASE ~(t >= INITIATION_COST)
  <2>1. (t >= INITIATION_COST) = FALSE
    BY <1>9
  <2>2. outcome' = [endpoint |-> k, granted |-> FALSE]
    BY Zenon, <1>4, <2>1
  <2>3. Level(k) < INITIATION_COST
    BY <1>2, <1>5, <1>9, RatelimitAssumption
  <2>4. \A p \in Endpoints : Level(p)' = Level(p)
    BY <1>5, <1>6, <1>7, <1>9
  <2>5. QED
    BY <2>2, <2>3, <2>4 DEF Bucket!Refuse
<1>10. QED
  BY <1>8, <1>9

(* A new endpoint has a full bucket: it pays, or finds no room.            *)
LEMMA AllowNewPays ==
  ASSUME NEW k \in Endpoints, IInv, AllowNew(k)
  PROVE  Bucket!Grant(k) \/ Bucket!Refuse(k)
<1> DEFINE e == [idle |-> 0, tokens |-> TOKEN_MAX - INITIATION_COST]
<1>1. Level(k) = TOKEN_MAX
  BY DEF Level, AllowNew
<1>2. CASE /\ rl_table' = [rl_table EXCEPT ![k] = e]
           /\ outcome' = [endpoint |-> k, granted |-> TRUE]
  <2>1. e \in Entries /\ Refilled(e) = TOKEN_MAX - INITIATION_COST
    BY RatelimitAssumption DEF Entries, Refilled
  <2> HIDE DEF e
  <2>2. \A p \in Endpoints : Level(p)' = IF p = k THEN TOKEN_MAX - INITIATION_COST ELSE Level(p)
    BY <1>2, <2>1, NoEntry DEF Level, IInv, TypeOK
  <2>3. QED
    BY <1>1, <1>2, <2>2, RatelimitAssumption DEF Bucket!Grant
<1>3. CASE /\ outcome' = [endpoint |-> k, granted |-> FALSE]
           /\ UNCHANGED <<rl_table, rl_table_num, rl_gc>>
  BY <1>1, <1>3 DEF Bucket!Refuse, Level
<1>4. QED
  BY <1>2, <1>3 DEF AllowNew

(* What is collected is full, so forgetting it gives nothing away.         *)
LEMMA GcGivesNothing == IInv /\ Gc => UNCHANGED <<[k \in Endpoints |-> Level(k)], outcome>>
<1>1. SUFFICES ASSUME IInv, Gc, NEW k \in Endpoints PROVE Level(k)' = Level(k)
  BY DEF Gc
<1>2. CASE Stale(rl_table[k])
  <2>1. rl_table'[k] = None
    BY <1>1, <1>2 DEF Gc
  <2>2. rl_table[k] \in Entries /\ rl_table[k] # None
    BY <1>1, <1>2 DEF IInv, TypeOK, Stale
  <2>3. Refilled(rl_table[k]) = TOKEN_MAX
    BY <1>2, <2>2, RatelimitAssumption DEF Stale, Refilled, Entries
  <2>4. QED
    BY <2>1, <2>2, <2>3 DEF Level
<1>3. CASE ~Stale(rl_table[k])
  BY <1>1, <1>3 DEF Gc, Level
<1>4. QED
  BY <1>2, <1>3

(* The rate limiter, with its bounded and collected table, implements the  *)
(* token bucket for every endpoint.                                        *)
THEOREM Refinement == Spec => ImplementsTokenBucket
<1>1. Init => Bucket!Init
  BY DEF Init, Bucket!Init, Level
<1>2. IInv /\ [Next]_vars => [Bucket!Next]_<<[k \in Endpoints |-> Level(k)], outcome>>
  <2>1. SUFFICES ASSUME IInv, [Next]_vars
                 PROVE  [Bucket!Next]_<<[k \in Endpoints |-> Level(k)], outcome>>
    OBVIOUS
  <2>2. CASE UNCHANGED vars
    BY <2>2 DEF vars, Level
  <2>3. CASE Tick
    BY <2>1, <2>3, TickRefills DEF Bucket!Next
  <2>4. CASE Gc
    BY <2>1, <2>4, GcGivesNothing
  <2>5. CASE Dispatch
    BY <2>5 DEF Dispatch, Level
  <2>6. CASE \E k \in Endpoints : AllowKnown(k) \/ AllowNew(k)
    BY <2>1, <2>6, AllowKnownPays, AllowNewPays DEF Bucket!Next
  <2>7. QED
    BY <2>1, <2>2, <2>3, <2>4, <2>5, <2>6 DEF Next
<1>3. QED
  BY <1>1, <1>2, Invariance, PTL DEF Spec, ImplementsTokenBucket, Bucket!Spec
=============================================================================

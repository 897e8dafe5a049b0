--------------------------- MODULE NonceSendProofs ---------------------------
(***************************************************************************)
(* For every number of threads the limit allows, no counter is issued      *)
(* twice.  The argument: a thread that draws a counter at the limit clears *)
(* kp_can_send before it can start again, so each thread overshoots at     *)
(* most once and the counter stops short of UINT64_MAX.                    *)
(***************************************************************************)
EXTENDS NonceSend, FiniteSetTheorems, TLAPS

USE SendAssumption

\* A thread past the limit is on its way to the store or finds it done.
OverStops ==
  \A t \in over :
    \/ pc[t] = "test" /\ send[t] >= REJECT_AFTER_MESSAGES
    \/ pc[t] = "idle" /\ ~kp_can_send

\* A counter a thread holds was drawn, by that thread alone, and not issued.
HeldOnce ==
  \A t \in Threads : pc[t] = "test" =>
    /\ send[t] < kp_nonce_send
    /\ send[t] \in Issuable => issued[send[t]] = 0
    /\ \A u \in Threads \ {t} : pc[u] = "test" => send[u] # send[t]

IssuedDrawn == \A n \in Issuable : issued[n] # 0 => n < kp_nonce_send

IInv ==
  TypeOK /\ BoundedOvershoot /\ OverStops /\ HeldOnce /\ IssuedDrawn /\ NoNonceReuse

(* The threads that overshot are finitely many, no more than there are     *)
(* values above the limit.                                                 *)
LEMMA OverBound ==
  ASSUME NEW S \in SUBSET Threads
  PROVE  IsFiniteSet(S) /\ Cardinality(S) \in Nat
         /\ Cardinality(S) <= COUNTER_WINDOW_SIZE + 1
<1>1. IsFiniteSet(S) /\ Cardinality(S) <= Cardinality(Threads)
  BY FS_Subset
<1>2. Cardinality(S) \in Nat /\ Cardinality(Threads) \in Nat
  BY <1>1, FS_CardinalityType
<1> QED
  BY <1>1, <1>2

(* The limit of wg_noise.c:41.                                             *)
LEMMA Limit ==
  REJECT_AFTER_MESSAGES \in Nat \ {0}
  /\ REJECT_AFTER_MESSAGES + COUNTER_WINDOW_SIZE + 1 = UINT64_MAX
  BY DEF REJECT_AFTER_MESSAGES

(* The fetch-and-add does not wrap.                                        *)
LEMMA NoWrap ==
  ASSUME IInv, NEW t \in Threads, FetchAdd(t)
  PROVE  /\ kp_nonce_send' = kp_nonce_send + 1
         /\ kp_nonce_send' \in U64
         /\ BoundedOvershoot'
<1>1. kp_nonce_send \in Nat /\ over \subseteq Threads
      /\ kp_nonce_send <= REJECT_AFTER_MESSAGES + Cardinality(over)
      /\ t \notin over
  BY DEF IInv, TypeOK, BoundedOvershoot, OverStops, FetchAdd, U64
<1>2. CASE kp_nonce_send < REJECT_AFTER_MESSAGES
  <2>1. kp_nonce_send + 1 \in U64
    BY <1>1, <1>2, Limit DEF U64
  <2>2. kp_nonce_send' = kp_nonce_send + 1
    BY <2>1 DEF FetchAdd, U64
  <2>3. over' = over /\ Cardinality(over) \in Nat
    BY <1>1, <1>2, OverBound DEF FetchAdd
  <2> QED
    BY <1>1, <1>2, <2>1, <2>2, <2>3, Limit DEF BoundedOvershoot
<1>3. CASE ~(kp_nonce_send < REJECT_AFTER_MESSAGES)
  <2>1. over' = over \cup {t} /\ over' \subseteq Threads
    BY <1>1, <1>3 DEF FetchAdd
  <2>2. Cardinality(over') = Cardinality(over) + 1
    BY <1>1, <2>1, OverBound, FS_AddElement
  <2>3. Cardinality(over) \in Nat /\ Cardinality(over') <= COUNTER_WINDOW_SIZE + 1
    BY <1>1, <2>1, OverBound
  <2>4. kp_nonce_send + 1 \in U64
    BY <1>1, <2>2, <2>3, Limit DEF U64
  <2>5. kp_nonce_send' = kp_nonce_send + 1
    BY <2>4 DEF FetchAdd, U64
  <2> QED
    BY <1>1, <2>2, <2>3, <2>4, <2>5, Limit DEF BoundedOvershoot
<1> QED
  BY <1>2, <1>3

(* Every step keeps the invariant.                                         *)
LEMMA Inductive == IInv /\ [Next]_vars => IInv'
<1> SUFFICES ASSUME IInv, [Next]_vars PROVE IInv'
  OBVIOUS
<1> USE DEF IInv
<1>1. ASSUME NEW t \in Threads, LoadCanSend(t) PROVE IInv'
  BY <1>1 DEF LoadCanSend, TypeOK, BoundedOvershoot, OverStops, HeldOnce,
              IssuedDrawn, NoNonceReuse
<1>2. ASSUME NEW t \in Threads, FetchAdd(t) PROVE IInv'
  <2>1. kp_nonce_send' = kp_nonce_send + 1 /\ kp_nonce_send' \in U64
        /\ BoundedOvershoot'
    BY <1>2, NoWrap
  <2>2. /\ pc[t] = "add"
        /\ pc' = [pc EXCEPT ![t] = "test"]
        /\ send' = [send EXCEPT ![t] = kp_nonce_send]
        /\ over' = IF kp_nonce_send < REJECT_AFTER_MESSAGES THEN over ELSE over \cup {t}
        /\ kp_can_send' = kp_can_send /\ issued' = issued
    BY <1>2 DEF FetchAdd
  <2>3. kp_nonce_send \in Nat /\ REJECT_AFTER_MESSAGES \in Nat
    BY Limit DEF TypeOK, U64
  <2>4. TypeOK'
    BY <2>1, <2>2 DEF TypeOK
  <2>5. OverStops'
    <3> SUFFICES ASSUME NEW u \in over'
                 PROVE  \/ pc'[u] = "test" /\ send'[u] >= REJECT_AFTER_MESSAGES
                        \/ pc'[u] = "idle" /\ ~kp_can_send'
      BY DEF OverStops
    <3>1. CASE u = t
      BY <2>2, <2>3, <3>1 DEF TypeOK, OverStops
    <3>2. CASE u # t
      BY <2>2, <3>2 DEF TypeOK, OverStops
    <3> QED
      BY <3>1, <3>2
  <2>6. HeldOnce'
    <3> SUFFICES ASSUME NEW u \in Threads, pc'[u] = "test"
                 PROVE  /\ send'[u] < kp_nonce_send'
                        /\ send'[u] \in Issuable => issued'[send'[u]] = 0
                        /\ \A v \in Threads \ {u} : pc'[v] = "test" => send'[v] # send'[u]
      BY DEF HeldOnce
    <3>1. \A v \in Threads \ {t} :
            pc'[v] = "test" => send'[v] = send[v] /\ send[v] < kp_nonce_send /\ send[v] \in Nat
      BY <2>2 DEF TypeOK, HeldOnce, U64
    <3>2. CASE u = t
      BY <2>1, <2>2, <2>3, <3>1, <3>2 DEF TypeOK, IssuedDrawn
    <3>3. CASE u # t
      BY <2>1, <2>2, <2>3, <3>1, <3>3 DEF TypeOK, HeldOnce
    <3> QED
      BY <3>2, <3>3
  <2>7. IssuedDrawn' /\ NoNonceReuse'
    BY <2>1, <2>2, <2>3 DEF IssuedDrawn, NoNonceReuse, Issuable
  <2> QED
    BY <2>1, <2>4, <2>5, <2>6, <2>7
<1>3. ASSUME NEW t \in Threads, Return(t) PROVE IInv'
  <2>1. send[t] \in Issuable /\ issued[send[t]] = 0 /\ send[t] < kp_nonce_send
    <3>1. send[t] \in Nat /\ send[t] < REJECT_AFTER_MESSAGES /\ pc[t] = "test"
      BY <1>3 DEF Return, TypeOK, U64
    <3>2. send[t] \in Issuable
      BY <3>1, Limit DEF Issuable
    <3> QED
      BY <3>1, <3>2 DEF HeldOnce
  <2>2. TypeOK' /\ BoundedOvershoot'
    BY <1>3, <2>1 DEF Return, TypeOK, BoundedOvershoot
  <2>3. OverStops'
    <3>1. t \notin over
      BY <1>3, Limit DEF Return, OverStops, TypeOK, U64
    <3> QED
      BY <1>3, <3>1 DEF Return, TypeOK, OverStops
  <2>4. HeldOnce'
    BY <1>3, <2>1 DEF Return, TypeOK, HeldOnce
  <2>5. IssuedDrawn' /\ NoNonceReuse'
    BY <1>3, <2>1 DEF Return, TypeOK, IssuedDrawn, NoNonceReuse
  <2> QED
    BY <2>2, <2>3, <2>4, <2>5
<1>4. ASSUME NEW t \in Threads, StoreCanSend(t) PROVE IInv'
  BY <1>4 DEF StoreCanSend, TypeOK, BoundedOvershoot, OverStops, HeldOnce,
              IssuedDrawn, NoNonceReuse
<1>5. CASE Expire
  BY <1>5 DEF Expire, TypeOK, BoundedOvershoot, OverStops, HeldOnce,
              IssuedDrawn, NoNonceReuse
<1>6. CASE UNCHANGED vars
  BY <1>6 DEF vars, TypeOK, BoundedOvershoot, OverStops, HeldOnce,
              IssuedDrawn, NoNonceReuse
<1> QED
  BY <1>1, <1>2, <1>3, <1>4, <1>5, <1>6 DEF Next, NonceNext

(* The invariant holds throughout.                                         *)
THEOREM Invariance == Spec => []IInv
<1>1. Init => IInv
  BY Limit, FS_EmptySet DEF Init, IInv, TypeOK, BoundedOvershoot, OverStops, HeldOnce,
     IssuedDrawn, NoNonceReuse, U64
<1> QED
  BY <1>1, Inductive, PTL DEF Spec

(* noise_keypair_nonce_next never returns the same counter twice, for any  *)
(* number of threads up to COUNTER_WINDOW_SIZE + 1.                        *)
THEOREM NonceUnique == Spec => []NoNonceReuse
<1>1. IInv => NoNonceReuse
  BY DEF IInv
<1> QED
  BY <1>1, Invariance, PTL

(* The counter passes the limit by at most one per thread.                 *)
THEOREM OvershootBounded == Spec => []BoundedOvershoot
<1>1. IInv => BoundedOvershoot
  BY DEF IInv
<1> QED
  BY <1>1, Invariance, PTL

(* Every step keeps the counters drawn either issued or held.              *)
LEMMA GapStep == IInv /\ NoLostNonce /\ [Next]_vars => NoLostNonce'
<1> SUFFICES ASSUME IInv, NoLostNonce, [Next]_vars,
                    NEW n \in Issuable, n < kp_nonce_send', issued'[n] = 0
             PROVE  \E t \in Threads : pc'[t] = "test" /\ send'[t] = n
  BY DEF NoLostNonce
<1> USE DEF IInv
<1>1. ASSUME NEW t \in Threads, LoadCanSend(t)
      PROVE  \E u \in Threads : pc'[u] = "test" /\ send'[u] = n
  <2>1. PICK u \in Threads : pc[u] = "test" /\ send[u] = n
    BY <1>1 DEF LoadCanSend, NoLostNonce
  <2> QED
    BY <1>1, <2>1 DEF LoadCanSend, TypeOK
<1>2. ASSUME NEW t \in Threads, FetchAdd(t)
      PROVE  \E u \in Threads : pc'[u] = "test" /\ send'[u] = n
  <2>1. kp_nonce_send' = kp_nonce_send + 1 /\ kp_nonce_send \in Nat /\ n \in Nat
    BY <1>2, NoWrap, Limit DEF TypeOK, U64, Issuable
  <2>2. CASE n = kp_nonce_send
    BY <1>2, <2>2 DEF FetchAdd, TypeOK
  <2>3. CASE n < kp_nonce_send
    <3>1. PICK u \in Threads : pc[u] = "test" /\ send[u] = n
      BY <1>2, <2>3 DEF FetchAdd, NoLostNonce
    <3> QED
      BY <1>2, <3>1 DEF FetchAdd, TypeOK
  <2> QED
    BY <2>1, <2>2, <2>3
<1>3. ASSUME NEW t \in Threads, Return(t)
      PROVE  \E u \in Threads : pc'[u] = "test" /\ send'[u] = n
  <2>1. issued[n] \in Nat
        /\ issued'[n] = IF n = send[t] THEN issued[n] + 1 ELSE issued[n]
    BY <1>3 DEF Return, TypeOK
  <2>2. n # send[t] /\ issued[n] = 0
    BY <2>1
  <2>3. PICK u \in Threads : pc[u] = "test" /\ send[u] = n
    BY <1>3, <2>2 DEF Return, NoLostNonce
  <2> QED
    BY <1>3, <2>2, <2>3 DEF Return, TypeOK
<1>4. ASSUME NEW t \in Threads, StoreCanSend(t)
      PROVE  \E u \in Threads : pc'[u] = "test" /\ send'[u] = n
  <2>1. PICK u \in Threads : pc[u] = "test" /\ send[u] = n
    BY <1>4 DEF StoreCanSend, NoLostNonce
  <2>2. n < REJECT_AFTER_MESSAGES
    BY Limit DEF Issuable
  <2> QED
    BY <1>4, <2>1, <2>2 DEF StoreCanSend, TypeOK
<1>5. CASE Expire \/ UNCHANGED vars
  BY <1>5 DEF Expire, vars, NoLostNonce
<1> QED
  BY <1>1, <1>2, <1>3, <1>4, <1>5 DEF Next, NonceNext

(* Every counter drawn below the limit was returned or is still held by a  *)
(* thread inside noise_keypair_nonce_next.                                 *)
THEOREM NoGaps == Spec => []NoLostNonce
<1>1. Init => NoLostNonce
  BY Limit DEF Init, NoLostNonce, Issuable
<1> QED
  BY <1>1, GapStep, Invariance, PTL DEF Spec

(* For any number of threads up to COUNTER_WINDOW_SIZE + 1, the counter a  *)
(* call draws is above all that were handed out or are held by then.       *)
THEOREM DrawnInOrder == Spec => CountersOrdered
<1> DEFINE Ordered(t) ==
      /\ \A n \in Issuable : issued[n] # 0 => n < send'[t]
      /\ \A u \in Threads : pc[u] = "test" => send[u] < send'[t]
<1>1. ASSUME IInv, NEW t \in Threads, FetchAdd(t) PROVE Ordered(t)
  <2>1. send'[t] = kp_nonce_send
    BY <1>1 DEF FetchAdd, IInv, TypeOK
  <2> QED
    BY <1>1, <2>1 DEF IInv, IssuedDrawn, HeldOnce
<1>2. ASSUME IInv, [Next]_vars, NEW t \in Threads, pc[t] = "add", pc'[t] # "add"
      PROVE  FetchAdd(t)
  <2>1. ASSUME NEW u \in Threads, NonceNext(u) PROVE FetchAdd(t)
    BY <1>2, <2>1 DEF NonceNext, LoadCanSend, FetchAdd, Return, StoreCanSend, IInv, TypeOK
  <2> QED
    BY <1>2, <2>1 DEF Next, Expire, vars
<1>3. IInv /\ [Next]_vars =>
        [\A t \in Threads : pc[t] = "add" /\ pc'[t] # "add" => Ordered(t)]_vars
  BY <1>1, <1>2
<1> QED
  BY <1>3, Invariance, PTL DEF Spec, CountersOrdered
=============================================================================

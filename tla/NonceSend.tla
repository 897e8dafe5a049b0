------------------------------ MODULE NonceSend ------------------------------
(***************************************************************************)
(* The sending counter of a keypair: noise_keypair_nonce_next (wg_noise.c) *)
(* called by several threads at once.  The test of kp_can_send, the        *)
(* fetch-and-add of kp_nonce_send and the store that retires the keypair   *)
(* are three separate atomic accesses, and no lock is held over them.      *)
(* The counter is a uint64_t: it wraps to 0 at UINT64_MAX.                 *)
(***************************************************************************)
EXTENDS Integers, FiniteSets

CONSTANTS
  Threads,              \* the threads that may be in nonce_next at once
  COUNTER_WINDOW_SIZE,  \* the receiver's window
  UINT64_MAX            \* the greatest counter value

REJECT_AFTER_MESSAGES == UINT64_MAX - COUNTER_WINDOW_SIZE - 1

(* The limit leaves COUNTER_WINDOW_SIZE + 1 values above it; 8129 in the   *)
(* code, so that many threads may pass the first test before the store.    *)
ASSUME SendAssumption ==
  /\ COUNTER_WINDOW_SIZE \in Nat
  /\ UINT64_MAX \in Nat
  /\ REJECT_AFTER_MESSAGES > 0
  /\ IsFiniteSet(Threads)
  /\ Cardinality(Threads) <= COUNTER_WINDOW_SIZE + 1

VARIABLES
  kp_nonce_send,  \* the next counter
  kp_can_send,    \* cleared once and for all when the keypair is retired
  pc,             \* where each thread is in noise_keypair_nonce_next
  send,           \* each thread's *send
  issued,         \* history: how often a counter was returned with 0
  over            \* history: the threads that drew a counter at the limit

vars == <<kp_nonce_send, kp_can_send, pc, send, issued, over>>

U64 == 0 .. UINT64_MAX
Issuable == 0 .. REJECT_AFTER_MESSAGES - 1

Init ==
  /\ kp_nonce_send = 0
  /\ kp_can_send = TRUE
  /\ pc = [t \in Threads |-> "idle"]
  /\ send = [t \in Threads |-> 0]
  /\ issued = [n \in Issuable |-> 0]
  /\ over = {}

\* The first test; a thread that finds kp_can_send cleared returns EINVAL.
LoadCanSend(t) ==
  /\ pc[t] = "idle"
  /\ kp_can_send
  /\ pc' = [pc EXCEPT ![t] = "add"]
  /\ UNCHANGED <<kp_nonce_send, kp_can_send, send, issued, over>>

\* Mutant: the addition of the 32-bit builds without kp_nonce_lock around it,
\* a load and a later store.
FetchAddUnlocked(t) ==
  \/ /\ pc[t] = "add"
     /\ send' = [send EXCEPT ![t] = kp_nonce_send]
     /\ pc' = [pc EXCEPT ![t] = "store"]
     /\ UNCHANGED <<kp_nonce_send, kp_can_send, issued, over>>
  \/ /\ pc[t] = "store"
     /\ kp_nonce_send' = (send[t] + 1) % (UINT64_MAX + 1)
     /\ pc' = [pc EXCEPT ![t] = "test"]
     /\ over' = IF send[t] < REJECT_AFTER_MESSAGES THEN over ELSE over \cup {t}
     /\ UNCHANGED <<kp_can_send, send, issued>>

\* The addition: one atomic access, or a critical section of kp_nonce_lock.
FetchAdd(t) ==
  /\ pc[t] = "add"
  /\ send' = [send EXCEPT ![t] = kp_nonce_send]
  /\ kp_nonce_send' = (kp_nonce_send + 1) % (UINT64_MAX + 1)
  /\ pc' = [pc EXCEPT ![t] = "test"]
  /\ over' = IF kp_nonce_send < REJECT_AFTER_MESSAGES THEN over ELSE over \cup {t}
  /\ UNCHANGED <<kp_can_send, issued>>

Return(t) ==
  /\ pc[t] = "test"
  /\ send[t] < REJECT_AFTER_MESSAGES
  /\ issued' = [issued EXCEPT ![send[t]] = @ + 1]
  /\ pc' = [pc EXCEPT ![t] = "idle"]
  /\ UNCHANGED <<kp_nonce_send, kp_can_send, send, over>>

\* Mutant: the keypair is not retired.
StoreNothing(t) ==
  /\ pc[t] = "test"
  /\ ~(send[t] < REJECT_AFTER_MESSAGES)
  /\ pc' = [pc EXCEPT ![t] = "idle"]
  /\ UNCHANGED <<kp_nonce_send, kp_can_send, send, issued, over>>

\* Mutant: it is retired one counter late.
StoreLate(t) ==
  /\ pc[t] = "test"
  /\ ~(send[t] < REJECT_AFTER_MESSAGES)
  /\ kp_can_send' = (kp_can_send /\ send[t] = REJECT_AFTER_MESSAGES)
  /\ pc' = [pc EXCEPT ![t] = "idle"]
  /\ UNCHANGED <<kp_nonce_send, send, issued, over>>

\* Mutant: it is retired one counter early.
StoreEarly(t) ==
  /\ pc[t] = "test"
  /\ ~(send[t] < REJECT_AFTER_MESSAGES - 1)
  /\ kp_can_send' = FALSE
  /\ pc' = [pc EXCEPT ![t] = "idle"]
  /\ UNCHANGED <<kp_nonce_send, send, issued, over>>

StoreCanSend(t) ==
  /\ pc[t] = "test"
  /\ ~(send[t] < REJECT_AFTER_MESSAGES)
  /\ kp_can_send' = FALSE
  /\ pc' = [pc EXCEPT ![t] = "idle"]
  /\ UNCHANGED <<kp_nonce_send, send, issued, over>>

\* Another thread retires the keypair: noise_remote_expire_current, or
\* noise_keypair_current on one older than REJECT_AFTER_TIME.
Expire ==
  /\ kp_can_send
  /\ kp_can_send' = FALSE
  /\ UNCHANGED <<kp_nonce_send, pc, send, issued, over>>

NonceNext(t) == LoadCanSend(t) \/ FetchAdd(t) \/ Return(t) \/ StoreCanSend(t)

Next == Expire \/ \E t \in Threads : NonceNext(t)

\* A thread inside the function goes on; none has to call it again.
Fairness == \A t \in Threads : WF_vars(FetchAdd(t) \/ Return(t) \/ StoreCanSend(t))

Spec == Init /\ [][Next]_vars

FairSpec == Spec /\ Fairness
-----------------------------------------------------------------------------
\* The types, for the proofs.
TypeOK ==
  /\ kp_nonce_send \in U64
  /\ kp_can_send \in BOOLEAN
  /\ pc \in [Threads -> {"idle", "add", "test"}]
  /\ send \in [Threads -> U64]
  /\ issued \in [Issuable -> Nat]
  /\ over \subseteq Threads

(* No counter is handed out twice for one key, even when every thread      *)
(* passes the test of kp_can_send before any of them retires the keypair   *)
(* at the limit (wg_noise.c:795-808).                                      *)
NoNonceReuse == \A n \in Issuable : issued[n] <= 1

(* Every counter drawn below the limit was returned to a caller or is      *)
(* still held by a thread inside: noise_keypair_nonce_next skips none      *)
(* (wg_noise.c:798-806).  What the caller then does with it is not meant:  *)
(* wg_peer_send_staged may drop counters it has drawn.                     *)
NoLostNonce ==
  \A n \in Issuable :
    n < kp_nonce_send /\ issued[n] = 0 =>
      \E t \in Threads : pc[t] = "test" /\ send[t] = n

(* A counter is drawn above every counter handed out before it and every   *)
(* one another thread still holds (wg_noise.c:798-804): a call that starts *)
(* after another one returned gets a greater counter, whichever threads    *)
(* make them.                                                              *)
CountersOrdered ==
  [][\A t \in Threads : pc[t] = "add" /\ pc'[t] # "add" =>
       /\ \A n \in Issuable : issued[n] # 0 => n < send'[t]
       /\ \A u \in Threads : pc[u] = "test" => send[u] < send'[t]]_vars

(* Overshoot is bounded: the counter never passes the limit by more than   *)
(* the number of threads that drew a counter there, so it never wraps.     *)
BoundedOvershoot ==
  kp_nonce_send <= REJECT_AFTER_MESSAGES + Cardinality(over)

(* A keypair whose counter is used up is retired, and stays retired.       *)
ExhaustedIsRetired == kp_nonce_send > REJECT_AFTER_MESSAGES ~> []~kp_can_send
=============================================================================

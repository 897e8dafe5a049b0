----------------------------- MODULE NonceWindow -----------------------------
(***************************************************************************)
(* The receiving counter of a keypair: noise_keypair_nonce_check           *)
(* (wg_noise.c).  kp_backtrack is a ring of COUNTER_WORDS words of         *)
(* COUNTER_BITS bits; a word is modelled by the set of its bits that are   *)
(* 1.  The handler runs under kp_nonce_lock, so one call is one step.      *)
(* Counters are uint64_t: sums wrap at UINT64_MAX.                         *)
(***************************************************************************)
EXTENDS Integers

CONSTANTS
  COUNTER_BITS,   \* bits in a word
  COUNTER_WORDS,  \* words in the ring, COUNTER_BITS_TOTAL / COUNTER_BITS
  UINT64_MAX      \* the greatest counter value

COUNTER_BITS_TOTAL == COUNTER_BITS * COUNTER_WORDS
COUNTER_WINDOW_SIZE == COUNTER_BITS_TOTAL - COUNTER_BITS
REJECT_AFTER_MESSAGES == UINT64_MAX - COUNTER_WINDOW_SIZE - 1

ASSUME CounterAssumption ==
  /\ COUNTER_BITS \in Nat \ {0}
  /\ COUNTER_WORDS \in Nat \ {0}
  /\ UINT64_MAX \in Nat
  /\ REJECT_AFTER_MESSAGES > 0

VARIABLES
  kp_nonce_recv,  \* one more than the greatest counter accepted, or 0
  kp_backtrack,   \* the bitmap
  accepted,       \* history: the counters for which 0 was returned
  result          \* history: the argument and outcome of the last call

vars == <<kp_nonce_recv, kp_backtrack, accepted, result>>

U64 == 0 .. UINT64_MAX
Words == 0 .. COUNTER_WORDS - 1
Bits == 0 .. COUNTER_BITS - 1

Add64(a, b) == (a + b) % (UINT64_MAX + 1)

\* index and index_current, where unsigned long has 64 bits.
IndexOf(recv) == recv \div COUNTER_BITS
WordOf(index) == index % COUNTER_WORDS
BitOf(recv) == recv % COUNTER_BITS

BitSet(recv) == BitOf(recv) \in kp_backtrack[WordOf(IndexOf(recv))]
-----------------------------------------------------------------------------
Init ==
  /\ kp_nonce_recv = 0
  /\ kp_backtrack = [w \in Words |-> {}]
  /\ accepted = {}
  /\ result = [nonce |-> 0, ok |-> FALSE]

\* Mutant: the last counter is one too late.
OutOfRangeLate(n) ==
  kp_nonce_recv >= REJECT_AFTER_MESSAGES + 1 \/ n > REJECT_AFTER_MESSAGES

OutOfRange(n) ==
  kp_nonce_recv >= REJECT_AFTER_MESSAGES + 1 \/ n >= REJECT_AFTER_MESSAGES

\* Mutant: the window is the whole ring.
BehindRing(recv) == Add64(recv, COUNTER_BITS_TOTAL) < kp_nonce_recv

BehindWindow(recv) == Add64(recv, COUNTER_WINDOW_SIZE) < kp_nonce_recv

\* Mutant: the word slid into last keeps the bits of the previous lap.
StepsOneShort(recv) ==
  LET distance == IndexOf(recv) - IndexOf(kp_nonce_recv)
  IN  1 .. (IF distance < COUNTER_WORDS THEN distance - 1 ELSE COUNTER_WORDS)

\* The offsets, from the current word, of the words the window slides over.
Steps(recv) ==
  LET distance == IndexOf(recv) - IndexOf(kp_nonce_recv)
  IN  1 .. (IF distance < COUNTER_WORDS THEN distance ELSE COUNTER_WORDS)

ClearedWords(recv) == {WordOf(i + IndexOf(kp_nonce_recv)) : i \in Steps(recv)}

\* The bitmap after the window has slid forward to recv, if it has to.
Slid(recv) ==
  IF recv > kp_nonce_recv
  THEN [w \in Words |-> IF w \in ClearedWords(recv) THEN {} ELSE kp_backtrack[w]]
  ELSE kp_backtrack

Refuse(n) == result' = [nonce |-> n, ok |-> FALSE] /\ UNCHANGED accepted

Newest(recv) == IF recv > kp_nonce_recv THEN recv ELSE kp_nonce_recv

TestAndSet(n, recv) ==
  /\ kp_nonce_recv' = Newest(recv)
  /\ \/ /\ BitOf(recv) \in Slid(recv)[WordOf(IndexOf(recv))]
        /\ kp_backtrack' = Slid(recv)
        /\ Refuse(n)
     \/ /\ BitOf(recv) \notin Slid(recv)[WordOf(IndexOf(recv))]
        /\ kp_backtrack' = [Slid(recv) EXCEPT ![WordOf(IndexOf(recv))] =
                              @ \cup {BitOf(recv)}]
        /\ accepted' = accepted \cup {n}
        /\ result' = [nonce |-> n, ok |-> TRUE]

NonceCheck(n) ==
  \/ /\ OutOfRange(n) \/ BehindWindow(Add64(n, 1))
     /\ Refuse(n)
     /\ UNCHANGED <<kp_nonce_recv, kp_backtrack>>
  \/ /\ ~OutOfRange(n) /\ ~BehindWindow(Add64(n, 1))
     /\ TestAndSet(n, Add64(n, 1))

Next == \E n \in U64 : NonceCheck(n)

Spec == Init /\ [][Next]_vars
-----------------------------------------------------------------------------
(* Type correctness: the counter stays one above a counter in range and    *)
(* the bitmap within its words.                                            *)
TypeOK ==
  /\ kp_nonce_recv \in 0 .. REJECT_AFTER_MESSAGES
  /\ kp_backtrack \in [Words -> SUBSET Bits]
  /\ accepted \subseteq 0 .. REJECT_AFTER_MESSAGES - 1
  /\ result \in [nonce : U64, ok : BOOLEAN]

\* kp_nonce_recv is one more than the greatest counter accepted so far.
NewestRecorded ==
  /\ \A n \in accepted : n < kp_nonce_recv
  /\ kp_nonce_recv # 0 => kp_nonce_recv - 1 \in accepted

\* The words the ring holds: the one of kp_nonce_recv and those before it.
HeldIndexes ==
  IndexOf(kp_nonce_recv) - COUNTER_WORDS + 1 .. IndexOf(kp_nonce_recv)

(* For every counter whose word the ring holds, its bit is 1 exactly when  *)
(* the counter was accepted: sliding the window (wg_noise.c:830-842) leaves*)
(* no stale bit of an older lap of the ring behind and erases no bit of a  *)
(* counter that may still arrive late.                                     *)
BitmapExact ==
  \A recv \in U64 :
    IndexOf(recv) \in HeldIndexes => (BitSet(recv) <=> recv - 1 \in accepted)

Filter == INSTANCE ReplayFilter WITH
  Limit <- REJECT_AFTER_MESSAGES, Window <- COUNTER_WINDOW_SIZE,
  MaxCounter <- UINT64_MAX

(* noise_keypair_nonce_check implements the replay filter: no counter is   *)
(* accepted twice, and no fresh counter inside the window is refused.      *)
ImplementsReplayFilter == Filter!Spec
=============================================================================

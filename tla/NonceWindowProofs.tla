-------------------------- MODULE NonceWindowProofs --------------------------
(***************************************************************************)
(* For every word size, ring length and counter width, the bitmap of       *)
(* NonceWindow is exact and nonce_check implements the replay filter.      *)
(***************************************************************************)
EXTENDS NonceWindow, TLAPS

-----------------------------------------------------------------------------
(* Arithmetic of the ring.                                                 *)

(* Quotient and remainder of a natural number, as wg_noise.c computes them *)
(* with a shift and a mask.                                                *)
LEMMA DivMod ==
  ASSUME NEW n \in Nat, NEW d \in Nat \ {0}
  PROVE  /\ n \div d \in Nat
         /\ n % d \in 0 .. d - 1
         /\ n = d * (n \div d) + (n % d)
  BY SMT

(* A number has one quotient and one remainder: a counter is determined by *)
(* its word and its bit.                                                   *)
LEMMA QuotientUnique ==
  ASSUME NEW d \in Nat \ {0}, NEW p \in Nat, NEW q \in Nat,
         NEW r \in Int, NEW s \in Int,
         d * p + r = d * q + s, r < s + d, s < r + d
  PROVE  p = q /\ r = s
<1>1. CASE p < q
  <2>1. PICK k \in Nat : q = p + 1 + k
    BY <1>1
  <2>2. d * q = d * p + d + d * k
    BY <2>1
  <2>3. d * k >= 0
    BY <2>1
  <2> QED
    BY <2>2, <2>3
<1>2. CASE q < p
  <2>1. PICK k \in Nat : p = q + 1 + k
    BY <1>2
  <2>2. d * p = d * q + d + d * k
    BY <2>1
  <2>3. d * k >= 0
    BY <2>1
  <2> QED
    BY <2>2, <2>3
<1> QED
  BY <1>1, <1>2

(* Two numbers less than d apart with the same remainder are equal: two    *)
(* words the ring holds never share a slot.                                *)
LEMMA ModUnique ==
  ASSUME NEW a \in Nat, NEW b \in Nat, NEW d \in Nat \ {0},
         a % d = b % d, a < b + d, b < a + d
  PROVE  a = b
<1> DEFINE p == a \div d
           q == b \div d
           r == a % d
<1>1. p \in Nat /\ r \in 0 .. d - 1 /\ a = d * p + r
  BY DivMod
<1>2. q \in Nat /\ b = d * q + r
  BY DivMod
<1> HIDE DEF p, q, r
<1>4. CASE p < q
  <2>1. PICK k \in Nat : q = p + 1 + k
    BY <1>1, <1>2, <1>4
  <2>2. d * q = d * p + d + d * k /\ d * k >= 0
    BY <2>1, <1>1
  <2> QED
    BY <2>2, <1>1, <1>2
<1>5. CASE q < p
  <2>1. PICK k \in Nat : p = q + 1 + k
    BY <1>1, <1>2, <1>5
  <2>2. d * p = d * q + d + d * k /\ d * k >= 0
    BY <2>1, <1>2
  <2> QED
    BY <2>2, <1>1, <1>2
<1> QED
  BY <1>1, <1>2, <1>4, <1>5

(* Every slot is hit by one of any d consecutive numbers: a jump of a      *)
(* whole lap clears every word.                                            *)
LEMMA EverySlotHit ==
  ASSUME NEW base \in Nat, NEW d \in Nat \ {0}, NEW w \in 0 .. d - 1
  PROVE  \E i \in 1 .. d : (i + base) % d = w
<1> DEFINE p == base \div d
           r == base % d
           i == IF w > r THEN w - r ELSE w - r + d
           k == IF w > r THEN p ELSE p + 1
<1>1. p \in Nat /\ r \in 0 .. d - 1 /\ base = d * p + r
  BY DivMod
<1> HIDE DEF p, r
<1>2. i \in 1 .. d /\ k \in Nat
  BY <1>1
<1>3. i + base = d * k + w
  <2>1. d * (p + 1) = d * p + d
    BY <1>1
  <2> QED
    BY <1>1, <2>1
<1> HIDE DEF i, k
<1> DEFINE x == i + base
           q == x \div d
           s == x % d
<1>4. x \in Nat
  BY <1>1, <1>2
<1>5. q \in Nat /\ s \in 0 .. d - 1 /\ x = d * q + s
  BY <1>4, DivMod
<1>6. x = d * k + w
  BY <1>3
<1> HIDE DEF x, q, s
<1>7. s = w
  <2>1. d * q + s = d * k + w /\ s < w + d /\ w < s + d /\ s \in Int /\ w \in Int
    BY <1>5, <1>6
  <2> QED
    BY <1>2, <1>5, <2>1, QuotientUnique
<1> QED
  BY <1>2, <1>7 DEF x, s


-----------------------------------------------------------------------------
(* What the operators of NonceWindow compute.                              *)

USE CounterAssumption

(* The constants of wg_noise.c:28-41 are consistent: no sum the handler    *)
(* forms below the limit overflows a uint64_t.                             *)
LEMMA Constants ==
  /\ COUNTER_BITS \in Nat \ {0}
  /\ COUNTER_WORDS \in Nat \ {0}
  /\ COUNTER_WINDOW_SIZE \in Nat
  /\ COUNTER_WINDOW_SIZE = COUNTER_BITS * COUNTER_WORDS - COUNTER_BITS
  /\ REJECT_AFTER_MESSAGES \in Nat \ {0}
  /\ REJECT_AFTER_MESSAGES + COUNTER_WINDOW_SIZE + 1 = UINT64_MAX
<1>1. COUNTER_BITS * COUNTER_WORDS >= COUNTER_BITS
      /\ COUNTER_BITS * COUNTER_WORDS \in Nat
  OBVIOUS
<1> QED
  BY <1>1 DEF COUNTER_WINDOW_SIZE, COUNTER_BITS_TOTAL, REJECT_AFTER_MESSAGES

(* Below the limit the 64-bit sums are the plain ones.                     *)
LEMMA NoWrap ==
  ASSUME NEW n \in U64, n < REJECT_AFTER_MESSAGES
  PROVE  /\ Add64(n, 1) = n + 1
         /\ Add64(n + 1, COUNTER_WINDOW_SIZE) = n + 1 + COUNTER_WINDOW_SIZE
<1>1. ASSUME NEW x \in 0 .. UINT64_MAX
      PROVE  x % (UINT64_MAX + 1) = x
  BY SMT
<1>2. n + 1 \in 0 .. UINT64_MAX /\ n + 1 + COUNTER_WINDOW_SIZE \in 0 .. UINT64_MAX
  BY Constants DEF U64
<1> QED
  BY <1>1, <1>2 DEF Add64

(* The parts of a counter: its word's index and its bit.                   *)
LEMMA Parts ==
  ASSUME NEW m \in Nat
  PROVE  /\ IndexOf(m) \in Nat
         /\ WordOf(IndexOf(m)) \in Words
         /\ BitOf(m) \in Bits
         /\ m = COUNTER_BITS * IndexOf(m) + BitOf(m)
<1>1. IndexOf(m) \in Nat /\ BitOf(m) \in Bits
      /\ m = COUNTER_BITS * IndexOf(m) + BitOf(m)
  BY DivMod DEF IndexOf, BitOf, Bits
<1>2. WordOf(IndexOf(m)) \in Words
  BY <1>1, DivMod DEF WordOf, Words
<1> QED
  BY <1>1, <1>2

(* A later counter is in the same word or a later one.                     *)
LEMMA IndexMonotone ==
  ASSUME NEW a \in Nat, NEW b \in Nat, IndexOf(a) < IndexOf(b)
  PROVE  a < b
<1> DEFINE p == IndexOf(a)
           q == IndexOf(b)
<1>1. /\ p \in Nat /\ q \in Nat /\ BitOf(a) \in Bits /\ BitOf(b) \in Bits
      /\ a = COUNTER_BITS * p + BitOf(a) /\ b = COUNTER_BITS * q + BitOf(b)
      /\ p < q
  BY Parts
<1> HIDE DEF p, q
<1>2. PICK k \in Nat : q = p + 1 + k
  BY <1>1
<1>3. COUNTER_BITS * q = COUNTER_BITS * p + COUNTER_BITS + COUNTER_BITS * k
      /\ COUNTER_BITS * k >= 0
  BY <1>1, <1>2
<1> QED
  BY <1>1, <1>3 DEF Bits

(* A counter that is not behind the window has its word in the ring.       *)
LEMMA WindowHeld ==
  ASSUME NEW a \in Nat, NEW b \in Nat, b <= a + COUNTER_WINDOW_SIZE
  PROVE  IndexOf(b) < IndexOf(a) + COUNTER_WORDS
<1> SUFFICES ASSUME IndexOf(b) >= IndexOf(a) + COUNTER_WORDS
             PROVE  FALSE
  BY Parts
<1> DEFINE p == IndexOf(a)
           q == IndexOf(b)
<1>1. /\ p \in Nat /\ q \in Nat /\ BitOf(a) \in Bits /\ BitOf(b) \in Bits
      /\ a = COUNTER_BITS * p + BitOf(a) /\ b = COUNTER_BITS * q + BitOf(b)
      /\ q >= p + COUNTER_WORDS
  BY Parts
<1> HIDE DEF p, q
<1>2. PICK k \in Nat : q = p + COUNTER_WORDS + k
  BY <1>1
<1>3. COUNTER_BITS * q
        = COUNTER_BITS * p + COUNTER_BITS * COUNTER_WORDS + COUNTER_BITS * k
      /\ COUNTER_BITS * k >= 0
  BY <1>1, <1>2
<1> QED
  BY <1>1, <1>3, Constants DEF Bits

(* Two counters whose words the ring holds at once and that share a bit    *)
(* are the same counter.                                                   *)
LEMMA SameBit ==
  ASSUME NEW a \in Nat, NEW b \in Nat,
         IndexOf(a) < IndexOf(b) + COUNTER_WORDS,
         IndexOf(b) < IndexOf(a) + COUNTER_WORDS,
         WordOf(IndexOf(a)) = WordOf(IndexOf(b)), BitOf(a) = BitOf(b)
  PROVE  a = b
<1>1. IndexOf(a) \in Nat /\ IndexOf(b) \in Nat
  BY Parts
<1>2. IndexOf(a) = IndexOf(b)
  BY <1>1, ModUnique DEF WordOf
<1> QED
  BY <1>2, Parts

-----------------------------------------------------------------------------
(* The inductive invariant.                                                *)

IInv == TypeOK /\ NewestRecorded /\ BitmapExact

(* Sliding the window to recv makes the bitmap exact for the words the     *)
(* ring holds from then on.                                                *)
LEMMA SlidExact ==
  ASSUME IInv, NEW recv \in Nat,
         NEW m \in U64,
         IndexOf(m) <= IndexOf(Newest(recv)),
         IndexOf(Newest(recv)) < IndexOf(m) + COUNTER_WORDS
  PROVE  BitOf(m) \in Slid(recv)[WordOf(IndexOf(m))] <=> m - 1 \in accepted
<1> DEFINE q == IndexOf(recv)
           ic == IndexOf(kp_nonce_recv)
           im == IndexOf(m)
<1>1. /\ kp_nonce_recv \in Nat /\ m \in Nat
      /\ q \in Nat /\ ic \in Nat /\ im \in Nat
      /\ WordOf(im) \in Words
  BY Parts, Constants DEF IInv, TypeOK, U64
<1>2. CASE recv <= kp_nonce_recv
  <2>1. Newest(recv) = kp_nonce_recv /\ Slid(recv) = kp_backtrack
    BY <1>1, <1>2 DEF Newest, Slid
  <2>2. im \in HeldIndexes
    BY <1>1, <2>1 DEF HeldIndexes
  <2> QED
    BY <2>1, <2>2 DEF IInv, BitmapExact, BitSet
<1>3. CASE recv > kp_nonce_recv
  <2>1. /\ Newest(recv) = recv
        /\ Slid(recv)[WordOf(im)] =
             IF WordOf(im) \in ClearedWords(recv) THEN {} ELSE kp_backtrack[WordOf(im)]
    BY <1>1, <1>3 DEF Newest, Slid
  <2>2. im <= q /\ q < im + COUNTER_WORDS
    BY <2>1
  <2>3. CASE im > ic
    <3>1. m > kp_nonce_recv
      BY <1>1, <2>3, IndexMonotone
    <3>2. m - 1 \notin accepted
      BY <1>1, <3>1 DEF IInv, NewestRecorded
    <3>3. WordOf(im) \in ClearedWords(recv)
      <4>1. CASE q - ic < COUNTER_WORDS
        <5>1. im - ic \in Steps(recv) /\ WordOf((im - ic) + ic) = WordOf(im)
          BY <1>1, <2>2, <2>3, <4>1 DEF Steps
        <5> QED
          BY <5>1 DEF ClearedWords
      <4>2. CASE q - ic >= COUNTER_WORDS
        <5>1. Steps(recv) = 1 .. COUNTER_WORDS
          BY <1>1, <4>2 DEF Steps
        <5>2. \E i \in 1 .. COUNTER_WORDS : (i + ic) % COUNTER_WORDS = WordOf(im)
          BY <1>1, EverySlotHit DEF Words
        <5> QED
          BY <5>1, <5>2 DEF ClearedWords, WordOf
      <4> QED
        BY <1>1, <4>1, <4>2
    <3> QED
      BY <2>1, <3>2, <3>3
  <2>4. CASE im <= ic
    <3>1. WordOf(im) \notin ClearedWords(recv)
      <4> SUFFICES ASSUME NEW i \in Steps(recv), WordOf(im) = WordOf(i + ic)
                   PROVE  FALSE
        BY DEF ClearedWords
      <4>1. i \in Nat /\ i >= 1 /\ i <= q - ic
        BY <1>1, <2>2, <2>4 DEF Steps
      <4>2. im < i + ic /\ i + ic < im + COUNTER_WORDS
        BY <1>1, <2>2, <2>4, <4>1
      <4> QED
        BY <1>1, <4>1, <4>2, ModUnique DEF WordOf
    <3>2. im \in HeldIndexes
      <4>1. q >= ic
        <5> SUFFICES ASSUME q < ic PROVE FALSE
          BY <1>1
        <5> QED
          BY <1>1, <1>3, IndexMonotone
      <4> QED
        BY <1>1, <2>2, <2>4, <4>1 DEF HeldIndexes
    <3> QED
      BY <2>1, <3>1, <3>2 DEF IInv, BitmapExact, BitSet
  <2> QED
    BY <1>1, <2>3, <2>4
<1> QED
  BY <1>1, <1>2, <1>3

(* The handler's first two early returns, wg_noise.c:819-826, are taken    *)
(* exactly for the counters over the limit or behind the window.           *)
LEMMA EarlyReturn ==
  ASSUME IInv, NEW n \in U64
  PROVE  OutOfRange(n) \/ BehindWindow(Add64(n, 1))
           <=> n >= REJECT_AFTER_MESSAGES \/ ~Filter!InWindow(n)
<1>1. /\ kp_nonce_recv \in 0 .. REJECT_AFTER_MESSAGES
      /\ accepted \subseteq 0 .. REJECT_AFTER_MESSAGES - 1
      /\ n \in Nat
  BY DEF IInv, TypeOK, U64
<1>2. OutOfRange(n) <=> n >= REJECT_AFTER_MESSAGES
  BY <1>1, Constants DEF OutOfRange
<1>3. ASSUME n < REJECT_AFTER_MESSAGES
      PROVE  BehindWindow(Add64(n, 1)) <=> ~Filter!InWindow(n)
  <2>1. BehindWindow(Add64(n, 1)) <=> n + 1 + COUNTER_WINDOW_SIZE < kp_nonce_recv
    BY <1>3, NoWrap DEF BehindWindow
  <2>2. ASSUME n + 1 + COUNTER_WINDOW_SIZE < kp_nonce_recv
        PROVE  ~Filter!InWindow(n)
    <3>1. kp_nonce_recv - 1 \in accepted /\ ~(kp_nonce_recv - 1 <= n + COUNTER_WINDOW_SIZE)
      BY <1>1, <2>2, Constants DEF IInv, NewestRecorded
    <3> QED
      BY <3>1 DEF Filter!InWindow
  <2>3. ASSUME ~(n + 1 + COUNTER_WINDOW_SIZE < kp_nonce_recv)
        PROVE  Filter!InWindow(n)
    <3>1. ASSUME NEW m \in accepted
          PROVE  m <= n + COUNTER_WINDOW_SIZE
      BY <1>1, <2>3, Constants DEF IInv, NewestRecorded
    <3> QED
      BY <3>1 DEF Filter!InWindow
  <2> QED
    BY <2>1, <2>2, <2>3
<1> QED
  BY <1>1, <1>2, <1>3, Constants

(* One call of noise_keypair_nonce_check keeps the invariant and answers   *)
(* as the replay filter does.                                              *)
LEMMA NonceCheckStep ==
  ASSUME IInv, NEW n \in U64, NonceCheck(n)
  PROVE  IInv' /\ Filter!Check(n)
<1>1. /\ kp_nonce_recv \in 0 .. REJECT_AFTER_MESSAGES
      /\ kp_backtrack \in [Words -> SUBSET Bits]
      /\ accepted \subseteq 0 .. REJECT_AFTER_MESSAGES - 1
      /\ n \in Nat
  BY DEF IInv, TypeOK, U64
<1>2. CASE OutOfRange(n) \/ BehindWindow(Add64(n, 1))
  <2>1. Refuse(n) /\ UNCHANGED <<kp_nonce_recv, kp_backtrack>>
    BY <1>2 DEF NonceCheck
  <2>2. Filter!Acceptable(n) = FALSE
    BY <1>1, <1>2, EarlyReturn, Constants DEF Filter!Acceptable
  <2>3. Filter!Check(n)
    BY <2>1, <2>2 DEF Filter!Check, Refuse
  <2>4. IInv'
    BY <2>1 DEF Refuse, IInv, TypeOK, NewestRecorded, BitmapExact, HeldIndexes, BitSet
  <2> QED
    BY <2>3, <2>4
<1>3. CASE ~OutOfRange(n) /\ ~BehindWindow(Add64(n, 1))
  <2> DEFINE recv == n + 1
             w == WordOf(IndexOf(recv))
             b == BitOf(recv)
  <2>1. n < REJECT_AFTER_MESSAGES /\ Filter!InWindow(n)
    BY <1>1, <1>3, EarlyReturn, Constants
  <2>2. TestAndSet(n, recv)
    BY <1>3, <2>1, NoWrap DEF NonceCheck
  <2>3. recv \in U64 /\ recv \in Nat /\ n = recv - 1 /\ w \in Words /\ b \in Bits
    BY <1>1, <2>1, Constants, Parts DEF U64
  <2>4. kp_nonce_recv <= recv + COUNTER_WINDOW_SIZE
    BY <1>1, <1>3, <2>1, NoWrap, Constants DEF BehindWindow
  <2>5. IndexOf(recv) <= IndexOf(Newest(recv))
        /\ IndexOf(Newest(recv)) < IndexOf(recv) + COUNTER_WORDS
        /\ Newest(recv) \in 0 .. REJECT_AFTER_MESSAGES
    <3>1. kp_nonce_recv \in Nat /\ IndexOf(recv) \in Nat /\ IndexOf(kp_nonce_recv) \in Nat
      BY <1>1, <2>3, Parts, Constants
    <3>2. recv <= kp_nonce_recv => IndexOf(recv) <= IndexOf(kp_nonce_recv)
      BY <2>3, <3>1, IndexMonotone
    <3>3. IndexOf(kp_nonce_recv) < IndexOf(recv) + COUNTER_WORDS
      BY <2>3, <2>4, <3>1, WindowHeld
    <3> QED
      BY <1>1, <2>1, <3>1, <3>2, <3>3, Constants DEF Newest
  <2>6. b \in Slid(recv)[w] <=> n \in accepted
    BY <2>3, <2>5, SlidExact
  <2>7. Slid(recv) \in [Words -> SUBSET Bits]
    BY <1>1 DEF Slid
  <2>8. CASE b \in Slid(recv)[w]
    <3>1. n \in accepted /\ recv <= kp_nonce_recv
      BY <1>1, <2>3, <2>6, <2>8 DEF IInv, NewestRecorded
    <3>2. UNCHANGED <<kp_nonce_recv, kp_backtrack>> /\ Refuse(n)
      BY <1>1, <2>2, <2>3, <2>8, <3>1, Constants DEF TestAndSet, Newest, Slid
    <3>3. Filter!Check(n)
      BY <3>1, <3>2 DEF Filter!Check, Filter!Acceptable, Refuse
    <3>4. IInv'
      BY <3>2 DEF Refuse, IInv, TypeOK, NewestRecorded, BitmapExact, HeldIndexes, BitSet
    <3> QED
      BY <3>3, <3>4
  <2>9. CASE b \notin Slid(recv)[w]
    <3>1. /\ kp_nonce_recv' = Newest(recv)
          /\ kp_backtrack' = [Slid(recv) EXCEPT ![w] = @ \cup {b}]
          /\ accepted' = accepted \cup {n}
          /\ result' = [nonce |-> n, ok |-> TRUE]
      BY <2>2, <2>9 DEF TestAndSet
    <3>2. Filter!Check(n)
      BY <2>1, <2>6, <2>9, <3>1 DEF Filter!Check, Filter!Acceptable
    <3>3. TypeOK'
      <4>1. kp_nonce_recv' \in 0 .. REJECT_AFTER_MESSAGES
        BY <2>5, <3>1
      <4>2. kp_backtrack' \in [Words -> SUBSET Bits]
        BY <2>3, <2>7, <3>1
      <4>3. accepted' \subseteq 0 .. REJECT_AFTER_MESSAGES - 1
        BY <1>1, <2>1, <3>1, Constants
      <4>4. result' \in [nonce : U64, ok : BOOLEAN]
        BY <3>1
      <4> QED
        BY <4>1, <4>2, <4>3, <4>4 DEF TypeOK
    <3>4. NewestRecorded'
      BY <1>1, <2>3, <3>1, Constants DEF IInv, NewestRecorded, Newest
    <3>5. BitmapExact'
      <4> SUFFICES ASSUME NEW m \in U64, IndexOf(m) \in HeldIndexes'
                   PROVE  BitOf(m) \in kp_backtrack'[WordOf(IndexOf(m))]
                            <=> m - 1 \in accepted'
        BY DEF BitmapExact, BitSet
      <4>1. m \in Nat /\ IndexOf(m) \in Nat /\ IndexOf(recv) \in Nat
            /\ IndexOf(Newest(recv)) \in Nat /\ WordOf(IndexOf(m)) \in Words
        BY <2>3, <2>5, Parts, Constants DEF U64
      <4>2. IndexOf(m) <= IndexOf(Newest(recv))
            /\ IndexOf(Newest(recv)) < IndexOf(m) + COUNTER_WORDS
        BY <3>1, <4>1 DEF HeldIndexes
      <4>3. BitOf(m) \in Slid(recv)[WordOf(IndexOf(m))] <=> m - 1 \in accepted
        BY <2>3, <4>2, SlidExact
      <4>4. BitOf(m) \in kp_backtrack'[WordOf(IndexOf(m))]
              <=> \/ BitOf(m) \in Slid(recv)[WordOf(IndexOf(m))]
                  \/ WordOf(IndexOf(m)) = w /\ BitOf(m) = b
        BY <2>7, <3>1, <4>1
      <4>5. WordOf(IndexOf(m)) = w /\ BitOf(m) = b <=> m = recv
        BY <2>3, <2>5, <4>1, <4>2, SameBit
      <4>6. m = recv <=> m - 1 = n
        BY <2>3, <4>1
      <4> QED
        BY <3>1, <4>3, <4>4, <4>5, <4>6
    <3> QED
      BY <3>2, <3>3, <3>4, <3>5 DEF IInv
  <2> QED
    BY <2>8, <2>9
<1> QED
  BY <1>2, <1>3

-----------------------------------------------------------------------------
(* The invariant holds throughout.                                         *)
THEOREM Invariance == Spec => []IInv
<1>1. Init => IInv
  <2> SUFFICES ASSUME Init PROVE IInv
    OBVIOUS
  <2>1. TypeOK /\ NewestRecorded
    BY Constants DEF Init, TypeOK, NewestRecorded, U64
  <2>2. BitmapExact
    BY Parts DEF Init, BitmapExact, BitSet, U64
  <2> QED
    BY <2>1, <2>2 DEF IInv
<1>2. IInv /\ [Next]_vars => IInv'
  <2> SUFFICES ASSUME IInv, [Next]_vars PROVE IInv'
    OBVIOUS
  <2>1. ASSUME NEW n \in U64, NonceCheck(n) PROVE IInv'
    BY <2>1, NonceCheckStep
  <2>2. CASE UNCHANGED vars
    BY <2>2 DEF vars, IInv, TypeOK, NewestRecorded, BitmapExact, HeldIndexes, BitSet
  <2> QED
    BY <2>1, <2>2 DEF Next
<1> QED
  BY <1>1, <1>2, PTL DEF Spec

(* kp_nonce_recv, the bitmap and the outcomes keep their types: in         *)
(* particular kp_nonce_recv never passes REJECT_AFTER_MESSAGES.            *)
THEOREM TypeCorrect == Spec => []TypeOK
<1>1. IInv => TypeOK
  BY DEF IInv
<1> QED
  BY <1>1, Invariance, PTL

(* For every counter whose word the ring holds, the bitmap says exactly    *)
(* whether it was accepted.                                                *)
THEOREM BitmapCorrect == Spec => []BitmapExact
<1>1. IInv => BitmapExact
  BY DEF IInv
<1> QED
  BY <1>1, Invariance, PTL

(* noise_keypair_nonce_check implements the replay filter.                 *)
THEOREM Refinement == Spec => ImplementsReplayFilter
<1>1. Init => Filter!Init
  BY DEF Init, Filter!Init
<1>2. IInv /\ [Next]_vars => [Filter!Next]_(Filter!vars)
  <2> SUFFICES ASSUME IInv, [Next]_vars PROVE [Filter!Next]_(Filter!vars)
    OBVIOUS
  <2>1. ASSUME NEW n \in U64, NonceCheck(n) PROVE Filter!Next
    BY <2>1, NonceCheckStep DEF Filter!Next, U64
  <2>2. CASE UNCHANGED vars
    BY <2>2 DEF vars, Filter!vars
  <2> QED
    BY <2>1, <2>2 DEF Next
<1> QED
  BY <1>1, <1>2, Invariance, PTL DEF Spec, ImplementsReplayFilter, Filter!Spec
=============================================================================

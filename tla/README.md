# Verification of the FreeBSD WireGuard kernel module

TLA+ models of the WireGuard implementation in `src/src/` (`wg_noise.c`,
`wg_cookie.c`, `if_wg.c`), configurations that check them with TLC on small
instances, and proofs that TLAPS checks for every value of the constants.
`PROJECT.json` lists the components, runs, mutants, theorems and hazards, and
maps every definition to the lines it models.

## The system

| Part | Code | State | Operations |
|---|---|---|---|
| Receiving counter | `wg_noise.c` 811-854 | `kp_nonce_recv`, `kp_backtrack` (a ring of bitmap words) | `noise_keypair_nonce_check` |
| Sending counter | `wg_noise.c` 792-809 | `kp_nonce_send`, `kp_can_send` | `noise_keypair_nonce_next`, retirement by others |
| Handshake and keypairs | `wg_noise.c` 377-747, 942-1191 | `r_handshake(_state)`, `r_index`, `r_timestamp`, `r_last_sent`, `r_next/current/previous` | create/consume initiation and response, begin session, received-with, clear, expire |
| Rate limiter | `wg_cookie.c` 339-486 | table of token buckets, its size, a callout | `ratelimit_allow`, `ratelimit_gc` |
| Cookies | `wg_cookie.c` 104-337 | secret and birthdate; last MAC, cookie and birthdate | make, consume, validate |
| Lifetime | `wg_noise.c` 178-495, 749-790 | reference counts, remote and index tables, deferred frees | alloc, enable, disable, ref, put, free |
| Timers | `if_wg.c` 966-1220 | five callouts, `p_enabled`, retries | events and callouts |
| Queues and tasks | `if_wg.c` 1508-2068 | staged, serial, parallel and handshake queues, packet states, group tasks | stage, queue, encrypt, decrypt, deliver |
| Allowed IPs | `if_wg.c` 555-686 | two radix trees, a list and a count per peer | add (or move), look up, remove all |
| Configuration and lifecycle | `if_wg.c` 405-516, 2240-2975 | peer list and count, sockets, flags, identity | `wgc_set`, `wg_peer_add`, up, down, create, destroy, jail removal |

How they interact.  Traffic is staged at a peer.  When there is no usable
`r_current` the timers ask for an initiation; the peer's handshake task
consumes it and answers; the initiator's task consumes the response and has a
keypair in `r_current` at once, the responder in `r_next` until the first
packet under it is delivered.  Packets take a sending counter and go through
encryption tasks and a serial queue that keeps their order; on the other side
they go through decryption tasks and a serial queue, and only then are the
receiving counter checked and `r_next` confirmed.  Under load the handshake
task demands a cookie and consults the rate limiter.

What is hard.  Handshake functions release their lock half way (between
consuming an initiation and answering it; between reading and completing a
handshake).  Messages are lost, duplicated and reordered.  Timers, the
configuration path and packet delivery move or drop keypairs meanwhile.
Sending counters are drawn without a lock.  The bitmap is a ring that is
cleared lazily and its counters are close to wrapping at the limit.  The rate
limiter forgets entries and must not thereby give tokens away.

What is to hold: the two ends of a session agree; an initiation gives one
session; a side sends only under keys its peer has; indexes are unambiguous;
sending only moves to newer keys; no counter is used or accepted twice and no
fresh one refused; the limiter is a token bucket whose table stays bounded.

## Modules

| Module | What it is |
|---|---|
| `NonceWindow` | the receiving counter; `ReplayFilter` is what it promises |
| `NonceSend` | the sending counter, one step per atomic access of each thread |
| `NoiseSession` | two interfaces, their handshakes, keypair slots and the network |
| `Ratelimit` | the rate limiter; `TokenBucket` is what it promises |
| `MC*` | the instances TLC checks |
| `*Proofs`, `NoiseSessionInv`, `NoiseSessionSteps`, `NoiseSessionBegin` | the theorems and their lemmas |

**NonceWindow.**  A word of `kp_backtrack` is the set of its bits that are 1;
sums wrap at `UINT64_MAX` as in the code.  `NonceCheck(n)` is the whole handler,
which runs under `kp_nonce_lock`: `OutOfRange` and `BehindWindow` are the two
early returns, `Slid` the clearing loop, `TestAndSet` the rest.  `accepted` and
`result` are history.  The abstract `ReplayFilter` accepts a counter exactly
when it is below the limit, not behind the window and not accepted before.
Word indexes have no width here: that is exact where `unsigned long` has 64
bits.  On 32-bit builds `index` and `index_current` (814, 828-832) are truncated
and their distance can wrap on very long jumps, which is not modelled.

**NonceSend.**  `LoadCanSend`, `FetchAdd`, `Return` and `StoreCanSend` are the
accesses of `noise_keypair_nonce_next`, `Expire` another thread that retires
the keypair.  `FetchAdd` is one step in both builds: an atomic addition, or an
addition under `kp_nonce_lock`.  `issued` and `over` are history.

**NoiseSession.**  One action per function, or per stretch of a function under
`r_handshake_lock`: `CreateInitiation`, `ConsumeInitiation`, `CreateResponse`,
`ReadResponse` and `ConsumeResponse` (the two halves of
`noise_consume_response`), `SendData` (`noise_keypair_current`, encryption),
`Decrypt` (lookup, decryption), `DeliverIn` (`wg_deliver_in` with
`noise_keypair_received_with`), `HandshakeClear`, `KeypairsClear`,
`ExpireCurrent`, time and loss.  `net` only loses messages in `Lose`, so every
message may also be delivered again, late and in any order.

- Cryptography is ideal.  An ephemeral key is a name; a session key is the pair
  of ephemerals; a message decrypts exactly under the transcript it was made
  with.  Diffie-Hellman operations do not fail.  The identity keys and the
  preshared key stay the same; setting the private key still retires keypairs
  and clears handshakes (`ExpireCurrent`), which is also what happens when a
  key is set again that differs from the stored one only in its clamped bits.
- A unit of time is the resolution of a timestamp, so two initiations in one
  unit have equal timestamps.  The flood check compares uptimes that the model
  does not resolve: it may refuse any initiation but the first.  `m.ts > Never`
  stands for the comparison with a zeroed `r_timestamp`.
- The index lookup at the start of `noise_consume_response` is merged with the
  read of the handshake: what was looked up and has gone since fails either
  there or in decryption.  The loads of `noise_remote_expire_current` are
  likewise one step.
- A handshake that is dead has no index and is zeroed; the code leaves stale
  values there that nothing reads before they are set again.
- There is one handshake task for an interface, so `task[n]` is sequential, and
  each interface has one remote.
- `BeginSession` is one step where `noise_add_new_keypair` has two critical
  sections: the slots under `r_keypair_mtx` (607-629), then the index table under
  `l_index_mtx` (634-642).  So the model does not show what `KeypairsClear` or a
  sender that takes no lock may do between them, nor the moment within the second
  one (635-641) when a reader without the lock can find the handshake and the
  keypair under one index.  Both belong to the lifetime model planned below.
- `noise_begin_session` may fail for want of memory, after the transcript was
  extended; the model keeps that state.
- Counters are left to the other two modules.  `Decrypt` has no limit on received
  counters, and `DeliverIn` may find any counter refused by
  `noise_keypair_nonce_check` (1720); such a packet confirms nothing.
- Of `wg_handshake` the order of the calls is modelled (an initiation is consumed,
  then answered); MACs, cookies and load are not.

**Ratelimit.**  Every function runs under `rl_mtx`.  A unit of time is what one
token is worth.  Times are relative: an entry has been idle for so long, and the
callout is due in so long.  `idle` stops at the first value that makes the entry
stale, where the bucket is full already; that keeps the state finite.
`uma_zalloc` may fail.  A callout that is due first leaves softclock's queue
(`Dispatch`) and then waits for `rl_mtx`, no longer pending; an entry added
meanwhile sets it anew, which cancels that run.  The abstract `TokenBucket` has a
level for every endpoint that exists and never forgets one.  Granting takes
`Cost` tokens that must be there.  An endpoint is refused only when they are
missing, or when its bucket is full: it then may have no entry and find no room.

## Runs

| Run | Instance | Distinct states | Shows |
|---|---|---|---|
| `nonce_window` | 4 words of 2 bits, counters to 19 | 81,921 | `BitmapExact`, refinement of `ReplayFilter` |
| `nonce_send` | 3 threads, 3 values above the limit | 3,242 | `NoNonceReuse`, `NoLostNonce`, `BoundedOvershoot`, `CountersOrdered`, `ExhaustedIsRetired` |
| `noise_session` | both sides initiate, 2 ephemerals each, 1 fault, time to 1 | 414,326 | `Agreement`, `OneSessionPerInitiation`, `Confirmed`, `IndexesDistinct`, `CurrentAdvances` |
| `noise_rotation` | one side initiates, 3 ephemerals each, time to 2 | 313,249 | the same but `Agreement`, over three sessions and expiry |
| `ratelimit` | 3 endpoints, room for 2, 2 requests in a bucket | 17,586 | `TableCounted`, `GcPending`, refinement of `TokenBucket`, `SilentIsForgotten` |
| `ratelimit_comment` | as `ratelimit` | | a comment in the code does not hold (below) |

Why the bounds are enough.  In `nonce_window` the ring wraps twice before the
limit, a jump can be longer than the ring, and the limit is within a window of
`UINT64_MAX` as in the code.  In `nonce_send` there are as many threads as
values above the limit, the boundary of the argument.  In `noise_session` two
handshakes cross, one of them is overtaken by a second initiation or reset, and
all their messages are replayed; a keypair reaches every slot from both roles.
Three sessions in a row and the expiry of a keypair need more time and are in
`noise_rotation`, with one initiator.  Larger instances were run once without an
error: both initiators with `REKEY_TIMEOUT` 1 and time to 2 (1,052,429 states),
one initiator with `REKEY_TIMEOUT` 1 and time to 3 (751,018 states).
`Indexes` has one value more than a side can have in use.  In `ratelimit` an
endpoint is shut out, collection makes room, and entries are collected as soon
as the bucket has had time to fill.

Deadlock is not checked where the bounds (time, ephemerals) or the program
(a keypair that is used up) end the behaviour.  Symmetry is over both nodes and
the indexes when both initiate, else over the indexes only, and no run with
symmetry checks liveness.

Fairness.  `NonceSend`: a thread inside `noise_keypair_nonce_next` goes on (it
waits for nobody: `kp_nonce_lock`, where it is taken, is held for one addition);
none has to call it.  `Ratelimit`: time passes, a callout that is due leaves its
queue, and one that waits for `rl_mtx` gets it unless it is cancelled.  That is
enough for `SilentIsForgotten`: only a new entry cancels a run, and the table
fills up after `RATELIMIT_SIZE_MAX` of them.

**A comment the code contradicts.**  `wg_cookie.c` 440-442 says that a request is
blocked when `tokens <= INITIATION_COST`; the code (453) allows it when
`tokens >= INITIATION_COST`.  The run `ratelimit_comment` states the comment as
`BlockedAtCost` and shows an endpoint with exactly that many tokens being
allowed.  The self test agrees with the code, which is the token bucket
`TokenBucket` describes: the comment is off by one.

## Proofs

Every safety property the passing runs check is a theorem for all values of the
constants, under the named assumptions of each module.

**NonceWindowProofs.**  `IInv` is `TypeOK`, `NewestRecorded` (`kp_nonce_recv` is
one more than the greatest accepted counter) and `BitmapExact`.  The step lemma
`SlidExact` rests on arithmetic of quotients and remainders: every word of the
ring is the image of exactly one of `COUNTER_WORDS` consecutive indexes
(`EverySlotHit`), so clearing the words passed leaves exactly the bits of
counters still held.  `NoWrap` shows the sums cannot wrap below the limit.  From
the invariant follow `TypeCorrect`, `BitmapCorrect` and `Refinement`.
Assumed: at least one word of at least one bit, and a limit above 0.  That word
and bit counts are powers of two is not needed, as masks and shifts are `%` and
`\div` here.

**NonceSendProofs.**  `HeldOnce` (no counter is in the hands of two threads, or in
a thread's and already issued), `IssuedDrawn` and `OverStops` (a thread that drew
a counter at or above the limit is still at the test with it, or idle with
`kp_can_send` cleared) make `NoNonceReuse` and `BoundedOvershoot` inductive.
`NoGaps` proves `NoLostNonce` on top of that invariant: since the addition does
not wrap, the one counter a step draws is held by the thread that drew it.
`DrawnInOrder` proves `CountersOrdered`: a counter is drawn above every one handed
out before or held, so the packets of calls that do not overlap are numbered in
order.  The types are part of the invariant and no theorem of their own.
Assumed: at most `COUNTER_WINDOW_SIZE + 1` threads, 8129 in the code, far above
the number of CPUs; with more the counter could wrap.

**NoiseSession proofs.**  `IInv` (in `NoiseSessionInv`) says: an ephemeral of an
initiator is tied to one index wherever it occurs, in a message, a handshake, a
task or a session (`InitiatorAgreed`, and `ResponderAgreed` for a key and the
responder's index); ephemerals are in the roles their owners gave them
(`Roles`); whatever is under a key comes from a side that installed it
(`Known`); an ephemeral that can still give a session has not given one
(`Unused`), and what was taken from an initiation is no newer than
`r_timestamp` (`Stamped`); the slots are in order of installation (`Ordered`).
`NoiseSessionSteps`, `NoiseSessionBegin` and `NoiseSessionProofs` show that each
action preserves it.  Theorems: `TypeCorrect`, `SessionsAgree`, `SessionOnce`,
`KeyConfirmed`, `IndexesUnambiguous`, `SendingAdvances`.  Assumed: two nodes, and
natural numbers for the bounds; the bounds only restrict behaviours, so the
theorems hold for runs of any length.

**RatelimitProofs.**  `IInv` is `TypeOK`, `TableCounted` and `GcPending`.  The
refinement shows that time fills the buckets, a known or new endpoint pays, and
collection changes no level (`GcGivesNothing`): a stale entry has been idle for
longer than it takes to fill a bucket.  This uses the assumption
`ELEMENT_TIMEOUT >= TOKEN_MAX` (1 s against 250 ms in the code).

**Only model-checked.**  Liveness (`ExhaustedIsRetired`, `SilentIsForgotten`) is
beyond the prover.

## Not modelled yet, and the plan

In this order; each comes with its runs and, after that, proofs.

1. `WgQueues`: staged, serial and parallel queues as operators;
   then the transmit and the receive path over them with group tasks.  Packets
   leave a peer in the order they were queued; each is freed once; a packet that
   was encrypted is delivered; queue lengths are right.  Cases to look at: the
   parallel queue is full and the dead packet starts no delivery
   (`if_wg.c` 1910); staged packets put back while a handshake completes (2066).
2. `WgTimers`: callouts, `p_enabled`, retries and `wg_timers_disable`, over an
   abstract handshake.  Retries end; an established session stays fresh while
   there is traffic; after disable no callout runs that could start a handshake
   (`if_wg.c` 976-987 says so); a staged packet leads to a session or is purged.
   Case to look at: a response moves `r_last_sent` and silences the retry (1132).
3. `WgCookie`: maker and checker with the two lifetimes and the released lock in
   `cookie_maker_consume_payload`; a cookie is accepted while maker and secret
   agree; a peer under load gets through.
4. `NoiseLifetime`: lock-level steps of keypair insertion, lookup, drop and
   remote free with reference counts and epochs: nothing reachable is freed,
   everything dropped is freed.
5. `AllowedIPs`: prefixes against a longest-prefix definition; list and count
   per peer agree with the trees; errors release the lock (602).
6. `WgConfig`: `wg_peer_add` with its failures (2355), `wgc_set`, up, down,
   jail removal and destruction: peer list, count, remote table and sockets agree.

Left out for good: the ciphers (`crypto.c`) are arithmetic on long words, taken
as ideal; packet layout, padding and mbuf handling carry no state; statistics
counters and debug output are observations; self tests and scripts are tests.

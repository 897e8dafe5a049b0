----------------------------- MODULE NoiseSession -----------------------------
(***************************************************************************)
(* The Noise handshake and the keypairs it makes, between two interfaces   *)
(* that are each other's peer (wg_noise.c, driven as if_wg.c drives it),   *)
(* over a network that loses, duplicates and reorders messages.            *)
(*                                                                         *)
(* A function that holds r_handshake_lock for writing is one step; the     *)
(* handshake task releases it between consuming an initiation and creating *)
(* the response, and between reading and completing a handshake when a     *)
(* response arrives, so those are two steps each, and timers, the          *)
(* configuration path and the data path run in between.                    *)
(*                                                                         *)
(* Cryptography is abstract: an ephemeral key is a name used once, a       *)
(* transcript is the ephemerals (the initiator's e, the responder's f)     *)
(* mixed into hs_ck and hs_hash, and a message decrypts exactly under the  *)
(* transcript it was made with.                                            *)
(* One unit of time is the resolution of a timestamp (REJECT_INTERVAL).    *)
(***************************************************************************)
EXTENDS Integers, FiniteSets

CONSTANTS
  Nodes,              \* the two interfaces
  Initiators,         \* those that have traffic, so that they initiate
  Indexes,            \* values of i_local_index
  REKEY_TIMEOUT,      \* the pause between initiations, in units of time
  REJECT_AFTER_TIME,  \* the life of a keypair, in units of time
  None,               \* a NULL pointer, a zeroed key
  MaxTime,            \* bound: units of time
  MaxEphemerals,      \* bound: ephemeral keys a node generates
  MaxFaults           \* bound: losses, failed allocations and resets

ASSUME SessionAssumption ==
  /\ \E a, b \in Nodes : a # b /\ Nodes = {a, b}
  /\ Initiators \subseteq Nodes
  /\ REKEY_TIMEOUT \in Nat /\ REJECT_AFTER_TIME \in Nat
  /\ MaxTime \in Nat /\ MaxEphemerals \in Nat /\ MaxFaults \in Nat

Ephemerals == Nodes \X Nat
Keys == [e : Ephemerals, f : Ephemerals]
Sessions == [key : Keys, init : BOOLEAN, local : Indexes, remote : Indexes, serial : Nat]
Keypairs == [session : Sessions, birthdate : Nat, can_send : BOOLEAN]
Handshakes ==
  [state : {"DEAD", "INITIATOR", "RESPONDER"}, e : Ephemerals \cup {None},
   f : Ephemerals \cup {None}, local : Indexes \cup {None}, remote : Indexes \cup {None}]
Initiation == [type : {"initiation"}, from : Nodes, e : Ephemerals, s_idx : Indexes, ts : Nat]
Response == [type : {"response"}, from : Nodes, key : Keys, s_idx : Indexes, r_idx : Indexes]
Data == [type : {"data"}, from : Nodes, key : Keys, r_idx : Indexes]

ASSUME NoneAssumption ==
  None \notin Indexes /\ None \notin Ephemerals /\ None \notin Keypairs /\ None \notin Response

VARIABLES
  now,          \* getsbinuptime() and getnanotime()
  hs,           \* r_handshake_state, r_handshake and r_index of each side
  r_last_sent,  \* when each side last sent an initiation or a response
  r_timestamp,  \* the greatest timestamp each side consumed
  slots,        \* r_next, r_current and r_previous of each side
  task,         \* where each side's handshake task is
  rx,           \* the keypairs of packets decrypted and not delivered
  net,          \* the messages in the network
  fresh,        \* how many ephemerals each side has generated
  sessions,     \* history: the sessions each side has ever installed
  serial,       \* history: how many
  faults        \* how many faults have happened

time == <<now, r_last_sent, r_timestamp>>
history == <<sessions, serial>>
vars == <<time, hs, slots, task, rx, net, fresh, history, faults>>

Peer(n) == CHOOSE p \in Nodes : p # n

\* A zeroed handshake whose index is in no table.
Dead == [state |-> "DEAD", e |-> None, f |-> None, local |-> None, remote |-> None]
Idle == [pc |-> "idle", msg |-> None]
Empty == [next |-> None, current |-> None, previous |-> None]
Live(s) == {s.next, s.current, s.previous} \ {None}

\* A timer that has expired whatever the time is.
TIMER_RESET == -(REKEY_TIMEOUT + 1)

\* The initial r_timestamp: before every timestamp.
Never == -1

\* Mutant: an index is not looked up before it is used.
TakenByNone(n) == {}

\* Mutant: a keypair in r_previous no longer holds its index.
TakenNotPrevious(n) ==
  {kp.session.local : kp \in {slots[n].next, slots[n].current} \ {None}}

\* The local indexes noise_remote_index_insert finds taken: those of the
\* keypairs, r_index itself having been removed first.
Taken(n) == {kp.session.local : kp \in Live(slots[n])}

Fault == faults < MaxFaults /\ faults' = faults + 1
-----------------------------------------------------------------------------
Init ==
  /\ now = 0
  /\ r_last_sent = [n \in Nodes |-> TIMER_RESET]
  /\ r_timestamp = [n \in Nodes |-> Never]
  /\ hs = [n \in Nodes |-> Dead]
  /\ slots = [n \in Nodes |-> Empty]
  /\ task = [n \in Nodes |-> Idle]
  /\ rx = [n \in Nodes |-> {}]
  /\ net = {}
  /\ fresh = [n \in Nodes |-> 0]
  /\ sessions = [n \in Nodes |-> {}]
  /\ serial = [n \in Nodes |-> 0]
  /\ faults = 0

Tick ==
  /\ now < MaxTime
  /\ now' = now + 1
  /\ UNCHANGED <<r_last_sent, r_timestamp, hs, slots, task, net, fresh, history, faults, rx>>

Lose(m) ==
  /\ Fault
  /\ net' = net \ {m}
  /\ UNCHANGED <<time, hs, slots, task, fresh, history, rx>>

\* A new ephemeral of n.
Generate(n) ==
  /\ fresh[n] < MaxEphemerals
  /\ fresh' = [fresh EXCEPT ![n] = @ + 1]

Ephemeral(n) == <<n, fresh[n]>>

\* noise_create_initiation, from a timer or for waiting traffic.
CreateInitiation(n) ==
  /\ now > r_last_sent[n] + REKEY_TIMEOUT
  /\ Generate(n)
  /\ \E i \in Indexes \ Taken(n) :
       /\ hs' = [hs EXCEPT ![n] = [state |-> "INITIATOR", e |-> Ephemeral(n), f |-> None,
                                   local |-> i, remote |-> None]]
       /\ net' = net \cup {[type |-> "initiation", from |-> n, e |-> Ephemeral(n),
                            s_idx |-> i, ts |-> now]}
  /\ r_last_sent' = [r_last_sent EXCEPT ![n] = now]
  /\ UNCHANGED <<now, r_timestamp, slots, task, history, faults, rx>>

\* Mutant: a replayed timestamp is as good as a new one.
NotOlder(n, m) == m.ts >= r_timestamp[n]

\* The replay check: memcmp(timestamp, r_timestamp) > 0.
Newer(n, m) == m.ts > r_timestamp[n]

\* noise_consume_initiation.  A timestamp not above r_timestamp is refused;
\* an initiation within REJECT_INTERVAL of the last is refused once its
\* timestamp has been kept.
ConsumeInitiation(n, m) ==
  /\ m.type = "initiation" /\ m.from = Peer(n)
  /\ task[n] = Idle
  /\ Newer(n, m)
  /\ r_timestamp' = [r_timestamp EXCEPT ![n] = m.ts]
  /\ \/ \E i \in Indexes \ Taken(n) :
          /\ hs' = [hs EXCEPT ![n] = [state |-> "RESPONDER", e |-> m.e, f |-> None,
                                      local |-> i, remote |-> m.s_idx]]
          /\ task' = [task EXCEPT ![n] = [pc |-> "respond", msg |-> None]]
     \/ r_timestamp[n] # Never /\ UNCHANGED <<hs, task>>
  /\ UNCHANGED <<now, r_last_sent, slots, net, fresh, history, faults, rx>>

\* Mutant: an unconfirmed r_next survives a session we initiated.
AddKeepingNext(s, kp) ==
  IF kp.session.init
  THEN [next |-> s.next, current |-> kp, previous |-> s.current]
  ELSE [next |-> kp, current |-> s.current, previous |-> None]

\* Mutant: a responder's keypair is used before it is confirmed.
AddUnconfirmed(s, kp) == [next |-> None, current |-> kp, previous |-> s.current]

\* noise_add_new_keypair: the slots s after keypair kp was added to them.
AddNewKeypair(s, kp) ==
  IF kp.session.init
  THEN [next |-> None, current |-> kp,
        previous |-> IF s.next # None THEN s.next ELSE s.current]
  ELSE [next |-> kp, current |-> s.current, previous |-> None]

\* Mutant: kp_is_initiator is read after the handshake was reset.
BeginAsResponder(n, init, key, local, remote) ==
  LET session == [key |-> key, init |-> FALSE, local |-> local, remote |-> remote,
                  serial |-> serial[n]]
      kp == [session |-> session, birthdate |-> now, can_send |-> TRUE]
  IN  /\ slots' = [slots EXCEPT ![n] = AddNewKeypair(@, kp)]
      /\ hs' = [hs EXCEPT ![n] = Dead]
      /\ sessions' = [sessions EXCEPT ![n] = @ \cup {session}]
      /\ serial' = [serial EXCEPT ![n] = @ + 1]

\* noise_begin_session: the keypair takes the index over from the handshake.
\* One step for two critical sections, r_keypair_mtx and then l_index_mtx.
BeginSession(n, init, key, local, remote) ==
  LET session == [key |-> key, init |-> init, local |-> local, remote |-> remote,
                  serial |-> serial[n]]
      kp == [session |-> session, birthdate |-> now, can_send |-> TRUE]
  IN  /\ slots' = [slots EXCEPT ![n] = AddNewKeypair(@, kp)]
      /\ hs' = [hs EXCEPT ![n] = Dead]
      /\ sessions' = [sessions EXCEPT ![n] = @ \cup {session}]
      /\ serial' = [serial EXCEPT ![n] = @ + 1]

\* Mutant: the state is not checked again.
RespondingAnyway(n) == TRUE

\* The handshake consumed is still the one to answer.
Responding(n) == hs[n].state = "RESPONDER"

\* noise_create_response, the second half of handling an initiation; the
\* allocation of the keypair may fail after the transcript was extended.
CreateResponse(n) ==
  /\ task[n].pc = "respond"
  /\ task' = [task EXCEPT ![n] = Idle]
  /\ \/ /\ ~Responding(n)
        /\ UNCHANGED <<hs, r_last_sent, slots, net, fresh, history, faults>>
     \/ LET key == [e |-> hs[n].e, f |-> Ephemeral(n)]
        IN  /\ Responding(n)
            /\ Generate(n)
            /\ \/ /\ BeginSession(n, FALSE, key, hs[n].local, hs[n].remote)
                  /\ net' = net \cup {[type |-> "response", from |-> n, key |-> key,
                                       s_idx |-> hs[n].local, r_idx |-> hs[n].remote]}
                  /\ r_last_sent' = [r_last_sent EXCEPT ![n] = now]
                  /\ UNCHANGED faults
               \/ /\ Fault
                  /\ hs' = [hs EXCEPT ![n].f = key.f]
                  /\ UNCHANGED <<r_last_sent, slots, net, history>>
  /\ UNCHANGED <<now, r_timestamp, rx>>

\* noise_consume_response up to the release of the read lock and the
\* decryption with the handshake as it was read.
ReadResponse(n, m) ==
  /\ m.type = "response" /\ m.from = Peer(n)
  /\ task[n] = Idle
  /\ hs[n].state = "INITIATOR" /\ hs[n].local = m.r_idx
  /\ hs[n].e = m.key.e /\ hs[n].f = None
  /\ task' = [task EXCEPT ![n] = [pc |-> "response", msg |-> m]]
  /\ UNCHANGED <<time, hs, slots, net, fresh, history, faults, rx>>

\* The rest of it, under the write lock: the handshake may have changed.
ConsumeResponse(n) ==
  LET m == task[n].msg
  IN  /\ task[n].pc = "response"
      /\ task' = [task EXCEPT ![n] = Idle]
      /\ \/ /\ ~(hs[n].state = "INITIATOR" /\ hs[n].local = m.r_idx)
            /\ UNCHANGED <<hs, slots, history, faults>>
         \/ /\ hs[n].state = "INITIATOR" /\ hs[n].local = m.r_idx
            /\ \/ /\ BeginSession(n, TRUE, m.key, m.r_idx, m.s_idx)
                  /\ UNCHANGED faults
               \/ /\ Fault
                  /\ hs' = [hs EXCEPT ![n].e = m.key.e, ![n].f = m.key.f,
                                      ![n].remote = m.s_idx]
                  /\ UNCHANGED <<slots, history>>
      /\ UNCHANGED <<time, net, fresh, rx>>

Expired(kp) == now > kp.birthdate + REJECT_AFTER_TIME

\* noise_keypair_current and noise_keypair_encrypt.
SendData(n) ==
  LET kp == slots[n].current
  IN  /\ kp # None /\ kp.can_send
      /\ \/ /\ Expired(kp)
            /\ slots' = [slots EXCEPT ![n].current.can_send = FALSE]
            /\ UNCHANGED net
         \/ /\ ~Expired(kp)
            /\ net' = net \cup {[type |-> "data", from |-> n, key |-> kp.session.key,
                                 r_idx |-> kp.session.remote]}
            /\ UNCHANGED slots
      /\ UNCHANGED <<time, hs, task, fresh, history, faults, rx>>

\* noise_keypair_lookup and noise_keypair_decrypt, in a decryption task: the
\* packet waits in p_decrypt_serial with a reference to its keypair.
Decrypt(n, m) ==
  /\ m.type = "data" /\ m.from = Peer(n)
  /\ \E kp \in Live(slots[n]) :
       /\ kp.session.local = m.r_idx
       /\ kp.session.key = m.key /\ ~Expired(kp)
       /\ rx' = [rx EXCEPT ![n] = @ \cup {kp.session}]
  /\ UNCHANGED <<time, hs, slots, task, net, fresh, history, faults>>

\* Mutant: any packet confirms r_next.
ReceivedWithAny(s, session) ==
  IF s.next # None
  THEN [next |-> None, current |-> s.next, previous |-> s.current]
  ELSE s

\* Mutant: a packet under r_previous brings that keypair back.
ReceivedWithOlder(s, session) ==
  IF s.next # None /\ s.next.session = session
  THEN [next |-> None, current |-> s.next, previous |-> s.current]
  ELSE IF s.previous # None /\ s.previous.session = session
  THEN [s EXCEPT !.current = s.previous, !.previous = s.current]
  ELSE s

\* noise_keypair_received_with: the first packet under r_next confirms it.
ReceivedWith(s, session) ==
  IF s.next # None /\ s.next.session = session
  THEN [next |-> None, current |-> s.next, previous |-> s.current]
  ELSE s

\* wg_deliver_in: by now the keypair may be in another slot, or in none.  A
\* packet whose counter noise_keypair_nonce_check refuses confirms nothing.
DeliverIn(n) ==
  /\ \E session \in rx[n] :
       /\ rx' = [rx EXCEPT ![n] = @ \ {session}]
       /\ \/ slots' = [slots EXCEPT ![n] = ReceivedWith(@, session)]
          \/ UNCHANGED slots
  /\ UNCHANGED <<time, hs, task, net, fresh, history, faults>>

\* noise_remote_handshake_clear, as wg_down calls it.
HandshakeClear(n) ==
  /\ Fault
  /\ hs' = [hs EXCEPT ![n] = Dead]
  /\ r_last_sent' = [r_last_sent EXCEPT ![n] = TIMER_RESET]
  /\ UNCHANGED <<now, r_timestamp, slots, task, net, fresh, history, rx>>

\* noise_remote_keypairs_clear: p_zero_key_material, wg_down.
KeypairsClear(n) ==
  /\ Fault
  /\ slots' = [slots EXCEPT ![n] = Empty]
  /\ UNCHANGED <<time, hs, task, net, fresh, history, rx>>

Retire(kp) == IF kp = None THEN None ELSE [kp EXCEPT !.can_send = FALSE]

\* noise_remote_expire_current, when the private key is set: not during
\* noise_consume_response, which holds l_identity_lock throughout.
ExpireCurrent(n) ==
  /\ Fault
  /\ task[n].pc # "response"
  /\ hs' = [hs EXCEPT ![n] = Dead]
  /\ r_last_sent' = [r_last_sent EXCEPT ![n] = TIMER_RESET]
  /\ slots' = [slots EXCEPT ![n].next = Retire(@), ![n].current = Retire(@)]
  /\ UNCHANGED <<now, r_timestamp, task, net, fresh, history, rx>>

Step(n) ==
  \/ n \in Initiators /\ CreateInitiation(n)
  \/ \E m \in net : ConsumeInitiation(n, m) \/ ReadResponse(n, m) \/ Decrypt(n, m)
  \/ CreateResponse(n) \/ ConsumeResponse(n)
  \/ SendData(n) \/ DeliverIn(n)
  \/ HandshakeClear(n) \/ KeypairsClear(n) \/ ExpireCurrent(n)

Next == Tick \/ (\E m \in net : Lose(m)) \/ \E n \in Nodes : Step(n)

Spec == Init /\ [][Next]_vars
-----------------------------------------------------------------------------
(* Type correctness; a session is always between two complete ephemerals   *)
(* and two indexes, however the handshake was interrupted.                 *)
TypeOK ==
  /\ now \in Nat
  /\ r_last_sent \in [Nodes -> Nat \cup {TIMER_RESET}]
  /\ r_timestamp \in [Nodes -> Nat \cup {Never}]
  /\ hs \in [Nodes -> Handshakes]
  /\ slots \in [Nodes -> [next : Keypairs \cup {None}, current : Keypairs \cup {None},
                          previous : Keypairs \cup {None}]]
  /\ task \in [Nodes -> [pc : {"idle", "respond"}, msg : {None}]
                        \cup [pc : {"response"}, msg : Response]]
  /\ rx \in [Nodes -> SUBSET Sessions]
  /\ net \subseteq Initiation \cup Response \cup Data
  /\ fresh \in [Nodes -> Nat]
  /\ sessions \in [Nodes -> SUBSET Sessions]
  /\ serial \in [Nodes -> Nat]
  /\ faults \in Nat

(* Two sessions of the two sides with the same key are the two ends of one *)
(* handshake: one initiated it, and each sends to the other's index.       *)
Agreement ==
  \A n \in Nodes : \A s \in sessions[n], t \in sessions[Peer(n)] :
    s.key = t.key => s.init # t.init /\ s.local = t.remote /\ s.remote = t.local

(* An initiation gives at most one session on each side, whatever is       *)
(* replayed: a key is never installed twice, so its counters never restart.*)
OneSessionPerInitiation ==
  \A n \in Nodes : \A s, t \in sessions[n] : s.key.e = t.key.e => s = t

(* A responder sends only under a key its peer has derived too: r_next     *)
(* becomes r_current only by a packet under it (wg_noise.c:724-747).       *)
Confirmed ==
  \A n \in Nodes :
    LET kp == slots[n].current
    IN  kp # None => \E t \in sessions[Peer(n)] : t.key = kp.session.key

(* The index table is unambiguous: a handshake in progress and the         *)
(* keypairs have distinct local indexes.                                   *)
IndexesDistinct ==
  \A n \in Nodes :
    /\ hs[n].state # "DEAD" =>
         hs[n].local \notin {kp.session.local : kp \in Live(slots[n])}
    /\ \A kp, kq \in Live(slots[n]) : kp.session.local = kq.session.local => kp = kq

(* The keypair for sending is never replaced by one installed before it:   *)
(* an unconfirmed r_next that a newer session overtook is not revived.     *)
CurrentAdvances ==
  [][\A n \in Nodes :
       LET old == slots[n].current
           new == slots'[n].current
       IN  old # None /\ new # None => new.session.serial >= old.session.serial]_slots
=============================================================================

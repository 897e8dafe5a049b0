-------------------------- MODULE NoiseSessionInv ---------------------------
(***************************************************************************)
(* The inductive invariant IInv of NoiseSession, what steps that touch     *)
(* little leave of it, and the first steps that preserve it.               *)
(***************************************************************************)
EXTENDS NoiseSession, TLAPS

\* Whoever holds the initiator's ephemeral e together with an index takes i
\* to be the index the initiator chose for e.
InitiatorIndex(e, i) ==
  \/ \E m \in net : m.type = "initiation" /\ m.e = e /\ m.s_idx = i
  \/ \E m \in net : m.type = "response" /\ m.key.e = e /\ m.r_idx = i
  \/ \E n \in Nodes : hs[n].state = "INITIATOR" /\ hs[n].e = e /\ hs[n].local = i
  \/ \E n \in Nodes : hs[n].state = "RESPONDER" /\ hs[n].e = e /\ hs[n].remote = i
  \/ \E n \in Nodes : task[n].pc = "response" /\ task[n].msg.key.e = e /\ task[n].msg.r_idx = i
  \/ \E n \in Nodes : \E s \in sessions[n] : s.init /\ s.key.e = e /\ s.local = i
  \/ \E n \in Nodes : \E s \in sessions[n] : ~s.init /\ s.key.e = e /\ s.remote = i

\* Likewise for the index the responder chose for the session with key k.
ResponderIndex(k, i) ==
  \/ \E m \in net : m.type = "response" /\ m.key = k /\ m.s_idx = i
  \/ \E n \in Nodes : task[n].pc = "response" /\ task[n].msg.key = k /\ task[n].msg.s_idx = i
  \/ \E n \in Nodes : \E s \in sessions[n] : s.init /\ s.key = k /\ s.remote = i
  \/ \E n \in Nodes : \E s \in sessions[n] : ~s.init /\ s.key = k /\ s.local = i

\* One ephemeral has one index, and it has been generated.
InitiatorAgreed ==
  /\ \A e, i, j : InitiatorIndex(e, i) /\ InitiatorIndex(e, j) => i = j
  /\ \A e, i : InitiatorIndex(e, i) => e \in Ephemerals /\ e[2] < fresh[e[1]]

ResponderAgreed ==
  /\ \A k, i, j : ResponderIndex(k, i) /\ ResponderIndex(k, j) => i = j
  /\ \A k, i : ResponderIndex(k, i) => k \in Keys /\ k.f[2] < fresh[k.f[1]]

\* The ephemerals in a node's state and in its messages are where their
\* owners put them.
MessageRoles ==
  \A m \in net :
    /\ m.type = "initiation" => m.e[1] = m.from
    /\ m.type = "response" => m.key.e[1] = Peer(m.from) /\ m.key.f[1] = m.from

NodeRoles ==
  \A n \in Nodes :
    /\ hs[n].state = "INITIATOR" => /\ hs[n].e \in Ephemerals /\ hs[n].e[1] = n
                                    /\ hs[n].local \in Indexes
    /\ hs[n].state = "RESPONDER" => /\ hs[n].e \in Ephemerals /\ hs[n].e[1] = Peer(n)
                                    /\ hs[n].local \in Indexes /\ hs[n].remote \in Indexes
    /\ task[n].pc = "response" => /\ task[n].msg.from = Peer(n)
                                  /\ task[n].msg.key.e[1] = n
                                  /\ task[n].msg.key.f[1] = Peer(n)
    /\ \A s \in sessions[n] :
         /\ s.init => s.key.e[1] = n /\ s.key.f[1] = Peer(n)
         /\ ~s.init => s.key.e[1] = Peer(n) /\ s.key.f[1] = n

Roles == MessageRoles /\ NodeRoles

Has(n, k) == \E s \in sessions[n] : s.key = k

\* Whatever is under a key comes from a side that installed that key.
Known ==
  /\ \A m \in net : m.type \in {"response", "data"} => Has(m.from, m.key)
  /\ \A n \in Nodes :
       /\ task[n].pc = "response" => Has(Peer(n), task[n].msg.key)
       /\ \A s \in rx[n] : s \in sessions[n] /\ Has(Peer(n), s.key)
       /\ \A kp \in Live(slots[n]) : kp.session \in sessions[n]

Used(n, e) == \E s \in sessions[n] : s.key.e = e

\* An ephemeral that can still lead to a session at n has not led to one.
Unused ==
  \A n \in Nodes :
    /\ hs[n].state = "RESPONDER" => ~Used(n, hs[n].e)
    /\ hs[n].state = "INITIATOR" /\ hs[n].f = None => ~Used(n, hs[n].e)
    /\ task[n].pc = "response" => ~Used(n, task[n].msg.key.e)

\* What n has taken from an initiation is no newer than r_timestamp.
Stamped ==
  /\ \A m1, m2 \in net :
       m1.type = "initiation" /\ m2.type = "initiation" /\ m1.e = m2.e => m1 = m2
  /\ \A n \in Nodes : \A m \in net :
       /\ m.type = "initiation" /\ m.from = Peer(n)
       /\ Used(n, m.e) \/ (hs[n].state = "RESPONDER" /\ hs[n].e = m.e)
       => m.ts <= r_timestamp[n]

\* The slots hold keypairs in the order they were installed.
Ordered ==
  \A n \in Nodes :
    LET s == slots[n]
    IN  /\ s.next # None => s.next.session.serial < serial[n]
        /\ s.current # None => s.current.session.serial < serial[n]
        /\ s.previous # None => s.previous.session.serial < serial[n]
        /\ s.next # None /\ s.current # None
             => s.current.session.serial < s.next.session.serial
        /\ s.current # None /\ s.previous # None
             => s.previous.session.serial < s.current.session.serial
        /\ s.next # None => s.previous = None

IInv ==
  /\ TypeOK
  /\ InitiatorAgreed /\ ResponderAgreed /\ Roles
  /\ Known /\ Confirmed
  /\ Unused /\ Stamped /\ OneSessionPerInitiation
  /\ Ordered /\ IndexesDistinct
-----------------------------------------------------------------------------
(* Peer is the other of the two nodes.                                     *)
LEMMA PeerFacts ==
  ASSUME NEW n \in Nodes
  PROVE  /\ Peer(n) \in Nodes /\ Peer(n) # n /\ Peer(Peer(n)) = n
         /\ \A p \in Nodes : p = n \/ p = Peer(n)
<1>1. PICK a, b \in Nodes : a # b /\ Nodes = {a, b}
  BY SessionAssumption
<1>2. \A x \in Nodes : Peer(x) \in Nodes /\ Peer(x) # x
  <2>1. SUFFICES ASSUME NEW x \in Nodes PROVE Peer(x) \in Nodes /\ Peer(x) # x
    OBVIOUS
  <2>2. \E p \in Nodes : p # x
    BY <1>1
  <2>3. QED
    BY <2>2 DEF Peer
<1>3. QED
  BY <1>1, <1>2

(* The initial state satisfies the invariant: nothing has happened.        *)
LEMMA InitIInv == Init => IInv
<1>1. SUFFICES ASSUME Init PROVE IInv
  OBVIOUS
<1>2. TypeOK
  BY <1>1, SessionAssumption DEF Init, TypeOK, Handshakes, Dead, Idle, Empty, Never, TIMER_RESET
<1>3. InitiatorAgreed /\ ResponderAgreed
  BY <1>1 DEF Init, InitiatorAgreed, ResponderAgreed, InitiatorIndex, ResponderIndex, Dead, Idle
<1>4. Roles
  BY <1>1 DEF Init, Roles, MessageRoles, NodeRoles, Dead, Idle
<1>5. Known /\ Confirmed
  BY <1>1 DEF Init, Known, Confirmed, Dead, Idle, Empty, Live
<1>6. Unused /\ Stamped /\ OneSessionPerInitiation
  BY <1>1 DEF Init, Unused, Stamped, OneSessionPerInitiation, Dead, Idle, Used
<1>7. Ordered /\ IndexesDistinct
  BY <1>1 DEF Init, Ordered, IndexesDistinct, Dead, Empty, Live, Taken
<1>8. QED
  BY <1>2, <1>3, <1>4, <1>5, <1>6, <1>7 DEF IInv

(* A step that at most resets handshakes and sends data leaves what is     *)
(* known of ephemerals, indexes and timestamps as it was.                  *)
LEMMA HandshakeFrame ==
  ASSUME IInv,
         UNCHANGED <<task, fresh, sessions, r_timestamp>>,
         \A m \in net' : m \in net \/ m.type = "data",
         \A p \in Nodes : hs'[p] = hs[p] \/ hs'[p] = Dead
  PROVE  /\ InitiatorAgreed' /\ ResponderAgreed' /\ Roles'
         /\ Unused' /\ Stamped' /\ OneSessionPerInitiation'
<1>1. Dead.state = "DEAD"
  BY DEF Dead
<1>2. \A p \in Nodes : hs'[p].state # "DEAD" => hs'[p] = hs[p]
  BY <1>1
<1>3. InitiatorAgreed'
  <2>1. \A e, j : InitiatorIndex(e, j)' => InitiatorIndex(e, j)
    BY <1>2 DEF InitiatorIndex
  <2>2. QED
    BY <2>1 DEF IInv, InitiatorAgreed
<1>4. ResponderAgreed'
  <2>1. \A k, j : ResponderIndex(k, j)' => ResponderIndex(k, j)
    BY DEF ResponderIndex
  <2>2. QED
    BY <2>1 DEF IInv, ResponderAgreed
<1>5. Roles'
  BY <1>2 DEF IInv, Roles, MessageRoles, NodeRoles
<1>6. Unused' /\ OneSessionPerInitiation'
  BY <1>2 DEF IInv, Unused, Used, OneSessionPerInitiation
<1>7. Stamped'
  BY <1>2 DEF IInv, Stamped, Used
<1>8. QED
  BY <1>3, <1>4, <1>5, <1>6, <1>7

SlotsType == [next : Keypairs \cup {None}, current : Keypairs \cup {None},
              previous : Keypairs \cup {None}]

SameSession(kp, kq) == (kp = None <=> kq = None) /\ (kp # None => kp.session = kq.session)

(* A step that changes no session of a slot leaves the slots as ordered,   *)
(* as distinct and as confirmed as they were.                              *)
LEMMA SlotFrame ==
  ASSUME IInv, slots' \in [Nodes -> SlotsType],
         UNCHANGED <<sessions, serial>>,
         \A p \in Nodes : hs'[p] = hs[p] \/ hs'[p] = Dead,
         \A p \in Nodes : /\ SameSession(slots[p].next, slots'[p].next)
                          /\ SameSession(slots[p].current, slots'[p].current)
                          /\ SameSession(slots[p].previous, slots'[p].previous)
  PROVE  /\ Confirmed' /\ Ordered' /\ IndexesDistinct'
         /\ \A p \in Nodes : \A kp \in Live(slots'[p]) : kp.session \in sessions'[p]
<1>1. Confirmed'
  BY DEF IInv, Confirmed, SameSession
<1>2. Ordered'
  BY DEF IInv, Ordered, SameSession
<1>3. \A p \in Nodes : \A kp \in Live(slots'[p]) : \E kq \in Live(slots[p]) : kq.session = kp.session
  BY DEF Live, SameSession
<1>4. \A p \in Nodes : \A kp, kq \in Live(slots'[p]) : kp.session = kq.session => kp = kq
  <2>1. SUFFICES ASSUME NEW p \in Nodes, NEW kp \in Live(slots'[p]), NEW kq \in Live(slots'[p]),
                        kp.session = kq.session, kp # kq
                 PROVE  FALSE
    OBVIOUS
  <2>2. kp.session.serial \in Nat
    BY DEF Live, SlotsType, Keypairs, Sessions
  <2>3. QED
    BY <1>2, <2>1, <2>2 DEF Ordered, Live
<1>5. IndexesDistinct'
  <2>1. \A p \in Nodes : \A kp, kq \in Live(slots'[p]) :
          kp.session.local = kq.session.local => kp = kq
    BY <1>3, <1>4 DEF IInv, IndexesDistinct
  <2>2. \A p \in Nodes : hs'[p].state # "DEAD" => hs'[p] = hs[p]
    BY DEF Dead
  <2>3. \A p \in Nodes : hs'[p].state # "DEAD" => hs'[p].local \notin Taken(p)'
    BY <1>3, <2>2 DEF IInv, IndexesDistinct, Taken
  <2>4. QED
    BY <2>1, <2>3 DEF IndexesDistinct, Taken
<1>6. \A p \in Nodes : \A kp \in Live(slots'[p]) : kp.session \in sessions'[p]
  BY <1>3 DEF IInv, Known
<1>7. QED
  BY <1>1, <1>2, <1>5, <1>6

(* A step that changes neither handshakes nor slots, and delivers at most. *)
LEMMA QuietFrame ==
  ASSUME IInv, TypeOK', net' \subseteq net, \A p \in Nodes : rx'[p] \subseteq rx[p],
         UNCHANGED <<hs, task, slots, fresh, sessions, serial, r_timestamp>>
  PROVE  IInv'
<1>1. /\ InitiatorAgreed' /\ ResponderAgreed' /\ Roles'
      /\ Unused' /\ Stamped' /\ OneSessionPerInitiation'
  BY HandshakeFrame
<1>2. Known'
  BY DEF IInv, Known, Has
<1>3. Confirmed' /\ Ordered'
  BY DEF IInv, Confirmed, Ordered
<1>4. IndexesDistinct'
  BY DEF IInv, IndexesDistinct, Taken
<1>5. QED
  BY <1>1, <1>2, <1>3, <1>4 DEF IInv

(* Passing time changes nothing the invariant speaks of.                   *)
LEMMA TickStep == IInv /\ Tick => IInv'
<1>1. SUFFICES ASSUME IInv, Tick PROVE IInv'
  OBVIOUS
<1>2. /\ UNCHANGED <<r_last_sent, r_timestamp, hs, slots, task, rx, net, fresh, sessions, serial, faults>>
      /\ now' = now + 1
  BY <1>1 DEF Tick, history
<1>3. TypeOK'
  BY <1>1, <1>2 DEF IInv, TypeOK
<1>4. QED
  BY <1>1, <1>2, <1>3, QuietFrame

(* Losing a message removes facts and adds none.                           *)
LEMMA LoseStep == ASSUME NEW m, IInv, Lose(m) PROVE IInv'
<1>1. /\ UNCHANGED <<now, r_last_sent, r_timestamp, hs, slots, task, rx, fresh, sessions, serial>>
      /\ net' \subseteq net /\ faults' = faults + 1
  BY DEF Lose, Fault, time, history
<1>2. TypeOK'
  BY <1>1 DEF IInv, TypeOK
<1>3. QED
  BY <1>1, <1>2, QuietFrame

(* Clearing the handshake removes an index and an ephemeral.               *)
LEMMA HandshakeClearStep ==
  ASSUME NEW n \in Nodes, IInv, HandshakeClear(n)
  PROVE  IInv'
<1>1. /\ hs' = [hs EXCEPT ![n] = Dead] /\ faults' = faults + 1
      /\ r_last_sent' = [r_last_sent EXCEPT ![n] = TIMER_RESET]
      /\ UNCHANGED <<now, r_timestamp, slots, task, net, fresh, sessions, serial, rx>>
  BY DEF HandshakeClear, Fault, history
<1>2. TypeOK
  BY DEF IInv
<1>3. \A p \in Nodes : hs'[p] = hs[p] \/ hs'[p] = Dead
  BY <1>1, <1>2 DEF TypeOK
<1>4. TypeOK'
  <2>1. hs' \in [Nodes -> Handshakes]
    BY SMTT(20), <1>1, <1>2 DEF TypeOK, Handshakes, Dead
  <2>2. QED
    BY <1>1, <1>2, <2>1 DEF TypeOK
<1>5. Known'
  BY <1>1 DEF IInv, Known, Has
<1>6. Confirmed' /\ Ordered' /\ IndexesDistinct'
  BY <1>1, <1>2, <1>3, SlotFrame DEF TypeOK, SlotsType, SameSession
<1>7. QED
  BY <1>1, <1>3, <1>4, <1>5, <1>6, HandshakeFrame DEF IInv

(* Clearing the keypairs empties the slots.                                *)
LEMMA KeypairsClearStep ==
  ASSUME NEW n \in Nodes, IInv, KeypairsClear(n)
  PROVE  IInv'
<1>1. /\ slots' = [slots EXCEPT ![n] = Empty] /\ faults' = faults + 1
      /\ UNCHANGED <<now, r_last_sent, r_timestamp, hs, task, net, fresh, sessions, serial, rx>>
  BY DEF KeypairsClear, Fault, time, history
<1>2. TypeOK
  BY DEF IInv
<1>3. \A p \in Nodes : slots'[p] = slots[p] \/ slots'[p] = Empty
  BY <1>1, <1>2 DEF TypeOK
<1>4. TypeOK'
  BY <1>1, <1>2 DEF TypeOK, Empty
<1>5. Live(Empty) = {} /\ Empty.next = None /\ Empty.current = None /\ Empty.previous = None
  BY SMTT(20) DEF Empty, Live
<1>6. Known' /\ Confirmed'
  BY SMTT(20), <1>1, <1>3, <1>5 DEF IInv, Known, Has, Confirmed
<1>7. Ordered'
  BY <1>1, <1>3, <1>5 DEF IInv, Ordered
<1>8. IndexesDistinct'
  BY <1>1, <1>3, <1>5 DEF IInv, IndexesDistinct, Taken
<1>9. QED
  BY <1>1, <1>4, <1>6, <1>7, <1>8, HandshakeFrame DEF IInv

(* Expiring the keypairs stops sending and changes no session.             *)
LEMMA ExpireCurrentStep ==
  ASSUME NEW n \in Nodes, IInv, ExpireCurrent(n)
  PROVE  IInv'
<1>1. /\ hs' = [hs EXCEPT ![n] = Dead] /\ faults' = faults + 1
      /\ r_last_sent' = [r_last_sent EXCEPT ![n] = TIMER_RESET]
      /\ slots' = [slots EXCEPT ![n].next = Retire(@), ![n].current = Retire(@)]
      /\ UNCHANGED <<now, r_timestamp, task, net, fresh, sessions, serial, rx>>
  BY DEF ExpireCurrent, Fault, history
<1>2. TypeOK /\ slots[n] \in SlotsType
  BY DEF IInv, TypeOK, SlotsType
<1>3. \A p \in Nodes : hs'[p] = hs[p] \/ hs'[p] = Dead
  BY <1>1, <1>2 DEF TypeOK
<1>4. \A kp \in Keypairs \cup {None} : Retire(kp) \in Keypairs \cup {None} /\ SameSession(kp, Retire(kp))
  <2>1. SUFFICES ASSUME NEW kp \in Keypairs, kp # None
                 PROVE  Retire(kp) \in Keypairs /\ SameSession(kp, Retire(kp))
    BY ZenonT(20) DEF Retire, SameSession
  <2>2. Retire(kp) = [kp EXCEPT !.can_send = FALSE]
    BY <2>1 DEF Retire
  <2>3. Retire(kp) \in Keypairs /\ Retire(kp).session = kp.session
    BY Zenon, <2>2 DEF Keypairs
  <2>4. QED
    BY <2>1, <2>3, NoneAssumption DEF SameSession
<1>5. /\ slots'[n].next = Retire(slots[n].next) /\ slots'[n].current = Retire(slots[n].current)
      /\ slots'[n].previous = slots[n].previous /\ slots'[n] \in SlotsType
      /\ \A p \in Nodes : p # n => slots'[p] = slots[p]
  BY Zenon, <1>1, <1>2, <1>4 DEF TypeOK, SlotsType
<1>6. slots' \in [Nodes -> SlotsType]
  BY Zenon, <1>1, <1>2, <1>4 DEF TypeOK, SlotsType
<1>7. TypeOK'
  <2>1. hs' \in [Nodes -> Handshakes]
    BY <1>1, <1>2 DEF TypeOK, Handshakes, Dead
  <2>2. QED
    BY <1>1, <1>2, <1>6, <2>1 DEF TypeOK, SlotsType
<1>8. /\ Confirmed' /\ Ordered' /\ IndexesDistinct'
      /\ \A p \in Nodes : \A kp \in Live(slots'[p]) : kp.session \in sessions'[p]
  <2>1. \A p \in Nodes : /\ SameSession(slots[p].next, slots'[p].next)
                         /\ SameSession(slots[p].current, slots'[p].current)
                         /\ SameSession(slots[p].previous, slots'[p].previous)
    BY <1>2, <1>4, <1>5 DEF SlotsType, SameSession
  <2>2. QED
    BY <1>1, <1>3, <1>6, <2>1, SlotFrame
<1>9. Known'
  <2>1. \A m \in net' : m.type \in {"response", "data"} => \E s \in sessions'[m.from] : s.key = m.key
    BY Zenon, <1>1 DEF IInv, Known, Has
  <2>2. \A p \in Nodes :
          /\ task'[p].pc = "response" => \E s \in sessions'[Peer(p)] : s.key = task'[p].msg.key
          /\ \A s \in rx'[p] : s \in sessions'[p] /\ \E t \in sessions'[Peer(p)] : t.key = s.key
    BY Zenon, <1>1 DEF IInv, Known, Has
  <2>3. QED
    BY Zenon, <1>8, <2>1, <2>2 DEF Known, Has
<1>10. QED
  BY <1>1, <1>3, <1>7, <1>8, <1>9, HandshakeFrame DEF IInv

(* A new initiation carries an ephemeral nobody has seen and an index no   *)
(* keypair holds.                                                          *)
LEMMA CreateInitiationStep ==
  ASSUME NEW n \in Nodes, IInv, CreateInitiation(n)
  PROVE  IInv'
<1> DEFINE e0 == Ephemeral(n)
<1>1. PICK i0 \in Indexes \ Taken(n) :
        /\ hs' = [hs EXCEPT ![n] = [state |-> "INITIATOR", e |-> e0, f |-> None,
                                    local |-> i0, remote |-> None]]
        /\ net' = net \cup {[type |-> "initiation", from |-> n, e |-> e0,
                             s_idx |-> i0, ts |-> now]}
  BY Zenon DEF CreateInitiation
<1>2. /\ UNCHANGED <<now, r_timestamp, slots, task, rx, sessions, serial, faults>>
      /\ fresh' = [fresh EXCEPT ![n] = @ + 1]
      /\ r_last_sent' = [r_last_sent EXCEPT ![n] = now]
  BY DEF CreateInitiation, Generate, history
<1>3. TypeOK
  BY DEF IInv
<1>4. e0 \in Ephemerals /\ e0[1] = n /\ e0[2] = fresh[n]
  BY <1>3 DEF TypeOK, Ephemerals, Ephemeral
<1>5. \A j : ~InitiatorIndex(e0, j)
  BY <1>3, <1>4 DEF IInv, InitiatorAgreed, TypeOK
<1>6. \A p \in Nodes : fresh[p] \in Nat /\ fresh'[p] \in Nat /\ fresh[p] <= fresh'[p]
  BY <1>2, <1>3 DEF TypeOK
<1>7. fresh'[n] = fresh[n] + 1
  BY <1>2, <1>3 DEF TypeOK
<1> HIDE DEF e0
<1>8. TypeOK'
  <2>1. hs' \in [Nodes -> Handshakes]
    BY SMTT(20), <1>1, <1>3, <1>4 DEF TypeOK, Handshakes
  <2>2. net' \subseteq Initiation \cup Response \cup Data
    BY <1>1, <1>3, <1>4 DEF TypeOK, Initiation
  <2>3. QED
    BY <1>2, <1>3, <2>1, <2>2 DEF TypeOK
<1>9. InitiatorAgreed'
  <2>1. \A e, j : InitiatorIndex(e, j)' => InitiatorIndex(e, j) \/ (e = e0 /\ j = i0)
    BY <1>1, <1>2, <1>3 DEF InitiatorIndex, TypeOK
  <2>2. \A e, j : InitiatorIndex(e, j) => e \in Ephemerals /\ e[2] < fresh'[e[1]]
    BY <1>6 DEF IInv, InitiatorAgreed, Ephemerals
  <2>3. QED
    BY SMTT(20), <1>4, <1>5, <1>6, <1>7, <2>1, <2>2 DEF IInv, InitiatorAgreed
<1>10. ResponderAgreed'
  <2>1. \A k, j : ResponderIndex(k, j)' => ResponderIndex(k, j)
    BY <1>1, <1>2 DEF ResponderIndex
  <2>2. \A k, j : ResponderIndex(k, j) => k \in Keys /\ k.f[2] < fresh'[k.f[1]]
    BY <1>6 DEF IInv, ResponderAgreed, Keys, Ephemerals
  <2>3. QED
    BY SMTT(20), <2>1, <2>2 DEF IInv, ResponderAgreed
<1>11. Roles'
  <2>1. MessageRoles'
    BY SMTT(20), <1>1, <1>4 DEF IInv, Roles, MessageRoles
  <2>2. NodeRoles'
    <3>1. /\ \A p \in Nodes : p # n => hs'[p] = hs[p]
          /\ hs'[n].state = "INITIATOR" /\ hs'[n].e = e0 /\ hs'[n].local = i0
      BY <1>1, <1>3 DEF TypeOK
    <3>2. \A p \in Nodes :
            /\ hs'[p].state = "INITIATOR" => /\ hs'[p].e \in Ephemerals /\ hs'[p].e[1] = p
                                             /\ hs'[p].local \in Indexes
            /\ hs'[p].state = "RESPONDER" => /\ hs'[p].e \in Ephemerals /\ hs'[p].e[1] = Peer(p)
                                             /\ hs'[p].local \in Indexes /\ hs'[p].remote \in Indexes
      BY <1>4, <3>1 DEF IInv, Roles, NodeRoles
    <3>3. QED
      BY <1>2, <3>2 DEF IInv, Roles, NodeRoles
  <2>3. QED
    BY <2>1, <2>2 DEF Roles
<1>12. Known' /\ Confirmed'
  <2>1. Known'
    <3>1. \A m \in net' : m \in net \/ m.type = "initiation"
      BY <1>1
    <3>2. \A m \in net' : m.type \in {"response", "data"} => Has(m.from, m.key)
      BY <3>1 DEF IInv, Known
    <3>3. QED
      BY <1>2, <3>2 DEF IInv, Known, Has
  <2>2. Confirmed'
    BY <1>2 DEF IInv, Confirmed
  <2>3. QED
    BY <2>1, <2>2
<1>13. \A p \in Nodes : ~Used(p, e0)
  BY ZenonT(20), <1>5 DEF Used, InitiatorIndex
<1>14. Unused'
  BY SMTT(20), <1>1, <1>2, <1>3, <1>13 DEF IInv, Unused, Used, TypeOK
<1>15. Stamped'
  <2>1. \A m \in net : m.type = "initiation" => m.e # e0
    BY <1>5 DEF InitiatorIndex
  <2>2. \A m1, m2 \in net' :
          m1.type = "initiation" /\ m2.type = "initiation" /\ m1.e = m2.e => m1 = m2
    BY SMTT(20), <1>1, <2>1 DEF IInv, Stamped
  <2>3. ASSUME NEW p \in Nodes, NEW m \in net', m.type = "initiation", m.from = Peer(p),
               Used(p, m.e)' \/ (hs'[p].state = "RESPONDER" /\ hs'[p].e = m.e)
        PROVE  m.ts <= r_timestamp'[p]
    <3>1. hs'[p].state = "RESPONDER" => hs[p].state = "RESPONDER" /\ hs'[p] = hs[p]
      <4>1. p # n => hs'[p] = hs[p]
        BY <1>1, <1>3 DEF TypeOK
      <4>2. hs'[n].state = "INITIATOR"
        BY <1>1, <1>3 DEF TypeOK
      <4>3. QED
        BY <4>1, <4>2
    <3>2. Used(p, m.e) \/ (hs[p].state = "RESPONDER" /\ hs[p].e = m.e)
      BY <1>2, <2>3, <3>1 DEF Used
    <3>3. m.e # e0
      BY Zenon, <1>5, <1>13, <3>2 DEF InitiatorIndex
    <3>4. QED
      BY SMTT(20), <1>1, <1>2, <2>3, <3>2, <3>3 DEF IInv, Stamped
  <2>4. QED
    BY <2>2, <2>3 DEF Stamped
<1>16. OneSessionPerInitiation' /\ Ordered'
  BY ZenonT(20), <1>2 DEF IInv, OneSessionPerInitiation, Ordered
<1>17. IndexesDistinct'
  BY ZenonT(20), <1>1, <1>2, <1>3 DEF IInv, IndexesDistinct, Taken, TypeOK
<1>18. QED
  BY <1>8, <1>9, <1>10, <1>11, <1>12, <1>14, <1>15, <1>16, <1>17 DEF IInv
=============================================================================

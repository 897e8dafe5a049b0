------------------------- MODULE NoiseSessionBegin --------------------------
(***************************************************************************)
(* What beginning a session does to the slots, and that responding to an   *)
(* initiation preserves IInv.                                              *)
(***************************************************************************)
EXTENDS NoiseSessionSteps

\* What noise_begin_session leaves behind.
Begun(n, init, key, local, remote) ==
  /\ slots' \in [Nodes -> SlotsType] /\ hs' \in [Nodes -> Handshakes]
  /\ sessions' \in [Nodes -> SUBSET Sessions] /\ serial' \in [Nodes -> Nat]
  /\ hs' = [hs EXCEPT ![n] = Dead]
  /\ sessions' = [sessions EXCEPT ![n] = @ \cup
       {[key |-> key, init |-> init, local |-> local, remote |-> remote,
         serial |-> serial[n]]}]
  /\ \A p \in Nodes : \A kp \in Live(slots'[p]) : kp.session \in sessions'[p]
  /\ \A p \in Nodes : p # n => slots'[p] = slots[p]
  /\ init => slots'[n].current # None /\ slots'[n].current.session.key = key
  /\ ~init => slots'[n].current = slots[n].current
  /\ Ordered' /\ IndexesDistinct'

(* What noise_begin_session does to the slots: they stay ordered, the new  *)
(* keypair's index is its own, and only an initiator's becomes current.    *)
LEMMA BeginSessionFacts ==
  ASSUME NEW n \in Nodes, IInv, NEW init \in BOOLEAN, NEW key \in Keys,
         NEW local \in Indexes, NEW remote \in Indexes, local \notin Taken(n),
         BeginSession(n, init, key, local, remote)
  PROVE  Begun(n, init, key, local, remote)
<1> DEFINE ses == [key |-> key, init |-> init, local |-> local, remote |-> remote,
                   serial |-> serial[n]]
           kp0 == [session |-> ses, birthdate |-> now, can_send |-> TRUE]
           s0 == slots[n]
           s1 == AddNewKeypair(s0, kp0)
<1>1. TypeOK /\ Ordered /\ IndexesDistinct /\ Known
  BY DEF IInv
<1>2. /\ hs' = [hs EXCEPT ![n] = Dead]
      /\ slots' = [slots EXCEPT ![n] = s1]
      /\ sessions' = [sessions EXCEPT ![n] = @ \cup {ses}]
      /\ serial' = [serial EXCEPT ![n] = @ + 1]
  BY DEF BeginSession
<1>3. ses \in Sessions /\ ses.init = init /\ ses.serial = serial[n] /\ ses.local = local
      /\ ses.key = key
  BY <1>1 DEF TypeOK, Sessions
<1>4. kp0 \in Keypairs /\ kp0.session = ses
  BY <1>1, <1>3 DEF TypeOK, Keypairs
<1>5. kp0 # None
  BY Zenon, <1>4, NoneAssumption
<1>6. s0 \in SlotsType /\ serial[n] \in Nat
  BY <1>1 DEF TypeOK, SlotsType
<1> HIDE DEF ses, kp0, s0
<1> DEFINE Shape == \/ /\ init
                       /\ s1.next = None /\ s1.current = kp0
                       /\ s1.previous = IF s0.next # None THEN s0.next ELSE s0.current
                    \/ /\ ~init
                       /\ s1.next = kp0 /\ s1.current = s0.current /\ s1.previous = None
<1>7. s1 \in SlotsType /\ Shape
  BY <1>3, <1>4, <1>6 DEF AddNewKeypair, SlotsType
<1> HIDE DEF s1
<1>8. /\ \A p \in Nodes : slots'[p] = IF p = n THEN s1 ELSE slots[p]
      /\ \A p \in Nodes : sessions'[p] = IF p = n THEN sessions[n] \cup {ses} ELSE sessions[p]
      /\ \A p \in Nodes : serial'[p] = IF p = n THEN serial[n] + 1 ELSE serial[p]
      /\ \A p \in Nodes : hs'[p] = IF p = n THEN Dead ELSE hs[p]
  BY <1>1, <1>2 DEF TypeOK
<1>9. slots' \in [Nodes -> SlotsType] /\ hs' \in [Nodes -> Handshakes]
       /\ sessions' \in [Nodes -> SUBSET Sessions] /\ serial' \in [Nodes -> Nat]
  <2>1. slots' \in [Nodes -> SlotsType]
    BY <1>1, <1>2, <1>7 DEF TypeOK, SlotsType
  <2>2. hs' \in [Nodes -> Handshakes]
    BY <1>1, <1>2 DEF TypeOK, Handshakes, Dead
  <2>3. sessions' \in [Nodes -> SUBSET Sessions] /\ serial' \in [Nodes -> Nat]
    BY <1>1, <1>2, <1>3 DEF TypeOK
  <2>4. QED
    BY <2>1, <2>2, <2>3
<1>10. Live(s1) \subseteq Live(s0) \cup {kp0}
  BY <1>7 DEF Live
<1>11. \A p \in Nodes : \A kp \in Live(slots'[p]) : kp.session \in sessions'[p]
  BY <1>1, <1>4, <1>8, <1>10 DEF Known, s0
<1>12. init => slots'[n].current # None /\ slots'[n].current.session.key = key
  BY Zenon, <1>3, <1>4, <1>5, <1>7, <1>8
<1>13. ~init => slots'[n].current = slots[n].current
  BY <1>7, <1>8 DEF s0
<1>14. Ordered'
  <2>1. /\ s0.next # None => s0.next.session.serial < serial[n]
        /\ s0.current # None => s0.current.session.serial < serial[n]
    BY <1>1 DEF Ordered, s0
  <2>2. /\ s0.next # None => s0.next.session.serial \in Nat
        /\ s0.current # None => s0.current.session.serial \in Nat
    BY <1>6 DEF SlotsType, Keypairs, Sessions
  <2>3. /\ s1.next # None => s1.next.session.serial < serial[n] + 1
        /\ s1.current # None => s1.current.session.serial < serial[n] + 1
        /\ s1.previous # None => s1.previous.session.serial < serial[n] + 1
    BY <1>3, <1>4, <1>6, <1>7, <2>1, <2>2
  <2>4. /\ s1.next # None /\ s1.current # None
             => s1.current.session.serial < s1.next.session.serial
        /\ s1.current # None /\ s1.previous # None
             => s1.previous.session.serial < s1.current.session.serial
        /\ s1.next # None => s1.previous = None
    BY <1>3, <1>4, <1>7, <2>1
  <2>5. QED
    BY <1>1, <1>8, <2>3, <2>4 DEF Ordered
<1>15. IndexesDistinct'
  <2>1. \A kp \in Live(s0) : kp.session.local # local
    BY DEF Taken, s0
  <2>2. \A kp, kq \in Live(s1) : kp.session.local = kq.session.local => kp = kq
    BY <1>1, <1>3, <1>4, <1>10, <2>1 DEF IndexesDistinct, s0
  <2>3. ASSUME NEW p \in Nodes, hs'[p].state # "DEAD" PROVE hs'[p].local \notin Taken(p)'
    BY <1>1, <1>8, <2>3 DEF Dead, IndexesDistinct, Taken
  <2>4. QED
    BY <1>1, <1>8, <2>2, <2>3 DEF IndexesDistinct, Taken
<1>16. QED
  BY <1>2, <1>8, <1>9, <1>11, <1>12, <1>13, <1>14, <1>15 DEF ses, Begun
(* Responding: the session's key has a new ephemeral of ours, and its      *)
(* indexes are the handshake's.                                            *)
LEMMA CreateResponseStep ==
  ASSUME NEW n \in Nodes, IInv, CreateResponse(n)
  PROVE  IInv'
<1> DEFINE f0 == Ephemeral(n)
<1>1. /\ task[n].pc = "respond" /\ task' = [task EXCEPT ![n] = Idle]
      /\ UNCHANGED <<now, r_timestamp, rx>>
  BY DEF CreateResponse
<1>2. TypeOK
  BY DEF IInv
<1>3. /\ \A p \in Nodes : task'[p].pc = "response" => task[p].pc = "response" /\ task'[p] = task[p]
      /\ task' \in [Nodes -> [pc : {"idle", "respond"}, msg : {None}]
                             \cup [pc : {"response"}, msg : Response]]
  BY SMTT(20), <1>1, <1>2 DEF TypeOK, Idle
<1>4. CASE UNCHANGED <<hs, r_last_sent, slots, net, fresh, sessions, serial, faults>>
  <2>1. TypeOK'
    BY <1>1, <1>2, <1>3, <1>4 DEF TypeOK
  <2>2. InitiatorAgreed'
    <3>1. \A e, j : InitiatorIndex(e, j)' => InitiatorIndex(e, j)
      BY <1>3, <1>4 DEF InitiatorIndex
    <3>2. QED
      BY <1>4, <3>1 DEF IInv, InitiatorAgreed
  <2>3. ResponderAgreed'
    <3>1. \A k, j : ResponderIndex(k, j)' => ResponderIndex(k, j)
      BY <1>3, <1>4 DEF ResponderIndex
    <3>2. QED
      BY <1>4, <3>1 DEF IInv, ResponderAgreed
  <2>4. Roles'
    BY <1>3, <1>4 DEF IInv, Roles, MessageRoles, NodeRoles
  <2>5. Known'
    BY <1>1, <1>3, <1>4 DEF IInv, Known, Has
  <2>6. Unused' /\ Stamped'
    BY <1>1, <1>3, <1>4 DEF IInv, Unused, Used, Stamped
  <2>7. OneSessionPerInitiation' /\ Confirmed' /\ Ordered' /\ IndexesDistinct'
    BY <1>4 DEF IInv, OneSessionPerInitiation, Confirmed, Ordered, IndexesDistinct, Taken
  <2>8. QED
    BY <2>1, <2>2, <2>3, <2>4, <2>5, <2>6, <2>7 DEF IInv
<1>5. CASE hs[n].state = "RESPONDER" /\ Generate(n)
  <2>1. hs[n].e \in Ephemerals /\ hs[n].e[1] = Peer(n) /\ hs[n].local \in Indexes
        /\ hs[n].remote \in Indexes
    BY <1>5 DEF IInv, Roles, NodeRoles
  <2>2. f0 \in Ephemerals /\ f0[1] = n /\ f0[2] = fresh[n]
    BY <1>2 DEF TypeOK, Ephemerals, Ephemeral
  <2>3. fresh' \in [Nodes -> Nat] /\ fresh'[n] = fresh[n] + 1
        /\ \A p \in Nodes : fresh[p] \in Nat /\ fresh'[p] \in Nat /\ fresh[p] <= fresh'[p]
    BY <1>2, <1>5 DEF TypeOK, Generate
  <2> HIDE DEF f0
  <2>4. PICK key \in Keys : key = [e |-> hs[n].e, f |-> f0] /\ key.e = hs[n].e /\ key.f = f0
    <3>1. [e |-> hs[n].e, f |-> f0] \in Keys
      BY <2>1, <2>2 DEF Keys
    <3>2. QED
      BY <3>1
  <2>5. InitiatorIndex(key.e, hs[n].remote)
    BY <1>5, <2>4 DEF InitiatorIndex
  <2>6. \A j : ~ResponderIndex(key, j)
    BY <2>2, <2>3, <2>4 DEF IInv, ResponderAgreed
  <2>7. /\ \A e, j : InitiatorIndex(e, j) => e \in Ephemerals /\ e[2] < fresh'[e[1]]
        /\ \A k, j : ResponderIndex(k, j) => k \in Keys /\ k.f[2] < fresh'[k.f[1]]
    BY <2>3 DEF IInv, InitiatorAgreed, ResponderAgreed, Keys, Ephemerals
  <2>8. CASE /\ BeginSession(n, FALSE, key, hs[n].local, hs[n].remote)
             /\ net' = net \cup {[type |-> "response", from |-> n, key |-> key,
                                  s_idx |-> hs[n].local, r_idx |-> hs[n].remote]}
             /\ r_last_sent' = [r_last_sent EXCEPT ![n] = now]
             /\ UNCHANGED faults
    <3> DEFINE ses == [key |-> key, init |-> FALSE, local |-> hs[n].local,
                       remote |-> hs[n].remote, serial |-> serial[n]]
               msg == [type |-> "response", from |-> n, key |-> key,
                       s_idx |-> hs[n].local, r_idx |-> hs[n].remote]
    <3>1. hs[n].local \notin Taken(n)
      BY <1>5 DEF IInv, IndexesDistinct, Taken
    <3>2. /\ slots' \in [Nodes -> SlotsType] /\ hs' \in [Nodes -> Handshakes]
          /\ sessions' \in [Nodes -> SUBSET Sessions] /\ serial' \in [Nodes -> Nat]
          /\ hs' = [hs EXCEPT ![n] = Dead]
          /\ sessions' = [sessions EXCEPT ![n] = @ \cup {ses}]
          /\ \A p \in Nodes : \A kp \in Live(slots'[p]) : kp.session \in sessions'[p]
          /\ \A p \in Nodes : p # n => slots'[p] = slots[p]
          /\ slots'[n].current = slots[n].current
          /\ Ordered' /\ IndexesDistinct'
      <4>1. Begun(n, FALSE, key, hs[n].local, hs[n].remote)
        BY ZenonT(20), <2>1, <2>4, <2>8, <3>1, BeginSessionFacts
      <4>2. QED
        BY <4>1 DEF Begun
    <3>3. /\ ses.key = key /\ ses.init = FALSE /\ ses.local = hs[n].local /\ ses.remote = hs[n].remote
          /\ msg.type = "response" /\ msg.from = n /\ msg.key = key /\ msg.s_idx = hs[n].local
          /\ msg.r_idx = hs[n].remote /\ msg \in Response /\ net' = net \cup {msg}
      BY SMTT(20), <2>1, <2>4, <2>8 DEF Response
    <3> HIDE DEF ses, msg
    <3>4. /\ \A p \in Nodes : sessions'[p] = IF p = n THEN sessions[n] \cup {ses} ELSE sessions[p]
          /\ \A p \in Nodes : hs'[p].state # "DEAD" => hs'[p] = hs[p]
      BY SMTT(20), <1>2, <3>2 DEF TypeOK, Dead
    <3>5. TypeOK'
      <4>1. net' \subseteq Initiation \cup Response \cup Data
        BY SMTT(20), <1>2, <3>3 DEF TypeOK
      <4>2. r_last_sent' \in [Nodes -> Nat \cup {TIMER_RESET}]
        BY SMTT(20), <1>2, <2>8 DEF TypeOK
      <4>3. QED
        BY <1>1, <1>2, <1>3, <2>3, <2>8, <3>2, <4>1, <4>2 DEF TypeOK, SlotsType
    <3>6. InitiatorAgreed'
      <4>1. \A e, j : InitiatorIndex(e, j)' => InitiatorIndex(e, j)
        <5>1. SUFFICES ASSUME NEW e, NEW j, InitiatorIndex(e, j)' PROVE InitiatorIndex(e, j)
          OBVIOUS
        <5>2. CASE e = key.e /\ j = hs[n].remote
          BY SMTT(20), <2>5, <5>2
        <5>3. CASE ~(e = key.e /\ j = hs[n].remote)
          BY <1>3, <3>3, <3>4, <5>1, <5>3 DEF InitiatorIndex
        <5>4. QED
          BY <5>2, <5>3
      <4>2. QED
        BY <2>7, <4>1 DEF IInv, InitiatorAgreed
    <3>7. ResponderAgreed'
      <4>1. \A k, j : ResponderIndex(k, j)' => ResponderIndex(k, j) \/ (k = key /\ j = hs[n].local)
        BY <1>3, <3>3, <3>4 DEF ResponderIndex
      <4>2. QED
        BY <2>2, <2>3, <2>4, <2>6, <2>7, <4>1 DEF IInv, ResponderAgreed
    <3>8. Roles'
      <4>1. MessageRoles'
        BY SMTT(20), <2>1, <2>2, <2>4, <3>3 DEF IInv, Roles, MessageRoles
      <4>2. NodeRoles'
        BY <1>3, <2>1, <2>2, <2>4, <3>3, <3>4 DEF IInv, Roles, NodeRoles
      <4>3. QED
        BY <4>1, <4>2 DEF Roles
    <3>9. \A p \in Nodes : \A k : Has(p, k) => \E s \in sessions'[p] : s.key = k
      BY <3>4 DEF Has
    <3>10. Known'
      <4>1. \E s \in sessions'[n] : s.key = key
        BY <3>3, <3>4
      <4>2. \A m \in net' : m.type \in {"response", "data"} => \E s \in sessions'[m.from] : s.key = m.key
        <5>1. \A m \in net : m.type \in {"response", "data"} => m.from \in Nodes
          BY <1>2 DEF TypeOK, Response, Data, Initiation
        <5>2. QED
          BY <3>3, <3>9, <4>1, <5>1 DEF IInv, Known
      <4>3. \A p \in Nodes : task'[p].pc = "response" => \E s \in sessions'[Peer(p)] : s.key = task'[p].msg.key
        BY <1>3, <3>9, PeerFacts DEF IInv, Known
      <4>4. \A p \in Nodes : \A s \in rx'[p] : s \in sessions'[p] /\ \E t \in sessions'[Peer(p)] : t.key = s.key
        BY <1>1, <3>4, <3>9, PeerFacts DEF IInv, Known
      <4>5. \A p \in Nodes : \A kp \in Live(slots'[p]) : kp.session \in sessions'[p]
        BY <3>2
      <4>6. QED
        BY <4>2, <4>3, <4>4, <4>5 DEF Known, Has
    <3>11. Confirmed'
      <4>1. \A p \in Nodes : slots'[p].current = slots[p].current
        BY <3>2
      <4>2. QED
        BY <3>4, <4>1, PeerFacts DEF IInv, Confirmed
    <3>12. ~Used(n, key.e)
      BY <1>5, <2>4 DEF IInv, Unused
    <3>13. \A p \in Nodes : \A e : Used(p, e)' => Used(p, e) \/ (p = n /\ e = key.e)
      BY <3>3, <3>4 DEF Used
    <3>14. Unused'
      <4>1. ASSUME NEW p \in Nodes, task'[p].pc = "response"
            PROVE  ~\E s \in sessions'[p] : s.key.e = task'[p].msg.key.e
        <5>1. p # n
          BY <1>1, <1>2, <4>1 DEF TypeOK, Idle
        <5>2. ~Used(p, task[p].msg.key.e) /\ task'[p] = task[p]
          BY <1>3, <4>1 DEF IInv, Unused
        <5>3. QED
          BY <3>4, <5>1, <5>2 DEF Used
      <4>2. \A p \in Nodes : hs'[p].state # "DEAD" => p # n
        BY SMTT(20), <1>2, <3>2 DEF TypeOK, Dead
      <4>3. QED
        BY <3>4, <3>13, <4>1, <4>2 DEF IInv, Unused, Used
    <3>15. Stamped'
      BY SMTT(20), <1>1, <1>5, <2>4, <3>3, <3>4, <3>13 DEF IInv, Stamped
    <3>16. OneSessionPerInitiation'
      BY <3>3, <3>4, <3>12 DEF IInv, OneSessionPerInitiation, Used
    <3>17. QED
      BY <3>2, <3>5, <3>6, <3>7, <3>8, <3>10, <3>11, <3>14, <3>15, <3>16 DEF IInv
  <2>9. CASE /\ Fault
             /\ hs' = [hs EXCEPT ![n].f = key.f]
             /\ UNCHANGED <<r_last_sent, slots, net, sessions, serial>>
    <3>1. /\ \A p \in Nodes : /\ hs'[p].state = hs[p].state /\ hs'[p].e = hs[p].e
                              /\ hs'[p].local = hs[p].local /\ hs'[p].remote = hs[p].remote
                              /\ hs[p].state # "RESPONDER" => hs'[p].f = hs[p].f
          /\ hs' \in [Nodes -> Handshakes]
      <4>1. \A p \in Nodes : p # n => hs'[p] = hs[p]
        BY <1>2, <2>9 DEF TypeOK
      <4>2. /\ hs'[n].state = hs[n].state /\ hs'[n].e = hs[n].e
            /\ hs'[n].local = hs[n].local /\ hs'[n].remote = hs[n].remote
        BY <1>2, <2>9 DEF TypeOK, Handshakes
      <4>3. hs' \in [Nodes -> Handshakes]
        <5>1. key.f \in Ephemerals
          BY <2>2, <2>4
        <5>2. hs[n] \in Handshakes
          BY <1>2 DEF TypeOK
        <5>3. [hs[n] EXCEPT !.f = key.f] \in Handshakes
          BY <5>1, <5>2 DEF Handshakes
        <5>4. hs' = [hs EXCEPT ![n] = [hs[n] EXCEPT !.f = key.f]]
          BY <2>9
        <5>5. QED
          BY <1>2, <5>3, <5>4 DEF TypeOK
      <4>4. QED
        BY <1>5, <4>1, <4>2, <4>3
    <3>2. TypeOK'
      BY <1>1, <1>2, <1>3, <2>3, <2>9, <3>1 DEF TypeOK, Fault
    <3>3. InitiatorAgreed'
      <4>1. \A e, j : InitiatorIndex(e, j)' => InitiatorIndex(e, j)
        BY <1>3, <2>9, <3>1 DEF InitiatorIndex
      <4>2. QED
        BY <2>7, <4>1 DEF IInv, InitiatorAgreed
    <3>4. ResponderAgreed'
      <4>1. \A k, j : ResponderIndex(k, j)' => ResponderIndex(k, j)
        BY <1>3, <2>9 DEF ResponderIndex
      <4>2. QED
        BY <2>7, <4>1 DEF IInv, ResponderAgreed
    <3>5. Roles' /\ Known' /\ Confirmed'
      BY <1>1, <1>3, <2>9, <3>1 DEF IInv, Roles, MessageRoles, NodeRoles, Known, Has, Confirmed
    <3>6. Unused' /\ Stamped' /\ OneSessionPerInitiation'
      BY <1>1, <1>3, <2>9, <3>1 DEF IInv, Unused, Used, Stamped, OneSessionPerInitiation
    <3>7. Ordered' /\ IndexesDistinct'
      BY <2>9, <3>1 DEF IInv, Ordered, IndexesDistinct, Taken
    <3>8. QED
      BY <3>2, <3>3, <3>4, <3>5, <3>6, <3>7 DEF IInv
  <2>10. QED
    BY Zenon, <1>5, <2>4, <2>8, <2>9 DEF CreateResponse, Responding, history, f0
<1>6. QED
  BY Zenon, <1>4, <1>5 DEF CreateResponse, Responding, history
=============================================================================

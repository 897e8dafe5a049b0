------------------------- MODULE NoiseSessionProofs -------------------------
(***************************************************************************)
(* Completing a handshake preserves IInv, and the theorems about           *)
(* NoiseSession, for every number of retries, faults and indexes.          *)
(***************************************************************************)
EXTENDS NoiseSessionBegin

(* Completing a handshake: the session is the one the response names, and  *)
(* the index it takes is the handshake's, whichever handshake that is.     *)
LEMMA ConsumeResponseStep ==
  ASSUME NEW n \in Nodes, IInv, ConsumeResponse(n)
  PROVE  IInv'
<1>1. /\ task[n].pc = "response" /\ task' = [task EXCEPT ![n] = Idle]
      /\ UNCHANGED <<now, r_last_sent, r_timestamp, net, fresh, rx>>
  BY DEF ConsumeResponse, time
<1>2. TypeOK
  BY DEF IInv
<1>3. PICK m0 \in Response : m0 = task[n].msg
  BY <1>1, <1>2 DEF TypeOK
<1>4. m0.key \in Keys /\ m0.s_idx \in Indexes /\ m0.r_idx \in Indexes
  BY <1>3 DEF Response
<1>5. /\ m0.from = Peer(n) /\ m0.key.e[1] = n /\ m0.key.f[1] = Peer(n)
      /\ Has(Peer(n), m0.key) /\ ~Used(n, m0.key.e)
      /\ InitiatorIndex(m0.key.e, m0.r_idx) /\ ResponderIndex(m0.key, m0.s_idx)
  BY <1>1, <1>3 DEF IInv, Roles, NodeRoles, Known, Unused, InitiatorIndex, ResponderIndex
<1>6. /\ \A p \in Nodes : task'[p].pc = "response" => p # n /\ task[p].pc = "response" /\ task'[p] = task[p]
      /\ task' \in [Nodes -> [pc : {"idle", "respond"}, msg : {None}]
                             \cup [pc : {"response"}, msg : Response]]
  BY SMTT(20), <1>1, <1>2 DEF TypeOK, Idle
<1>7. CASE UNCHANGED <<hs, slots, sessions, serial, faults>>
  <2>1. TypeOK'
    BY <1>1, <1>2, <1>6, <1>7 DEF TypeOK
  <2>2. InitiatorAgreed'
    <3>1. \A e, j : InitiatorIndex(e, j)' => InitiatorIndex(e, j)
      BY <1>1, <1>6, <1>7 DEF InitiatorIndex
    <3>2. QED
      BY <1>1, <3>1 DEF IInv, InitiatorAgreed
  <2>3. ResponderAgreed'
    <3>1. \A k, j : ResponderIndex(k, j)' => ResponderIndex(k, j)
      BY <1>1, <1>6, <1>7 DEF ResponderIndex
    <3>2. QED
      BY <1>1, <3>1 DEF IInv, ResponderAgreed
  <2>4. Roles'
    BY <1>1, <1>6, <1>7 DEF IInv, Roles, MessageRoles, NodeRoles
  <2>5. Known'
    BY <1>1, <1>6, <1>7 DEF IInv, Known, Has
  <2>6. Unused' /\ Stamped'
    BY <1>1, <1>6, <1>7 DEF IInv, Unused, Used, Stamped
  <2>7. OneSessionPerInitiation' /\ Confirmed' /\ Ordered' /\ IndexesDistinct'
    BY <1>7 DEF IInv, OneSessionPerInitiation, Confirmed, Ordered, IndexesDistinct, Taken
  <2>8. QED
    BY <2>1, <2>2, <2>3, <2>4, <2>5, <2>6, <2>7 DEF IInv
<1>8. CASE /\ hs[n].state = "INITIATOR" /\ hs[n].local = m0.r_idx
           /\ BeginSession(n, TRUE, m0.key, m0.r_idx, m0.s_idx)
           /\ UNCHANGED faults
  <2> DEFINE ses == [key |-> m0.key, init |-> TRUE, local |-> m0.r_idx,
                     remote |-> m0.s_idx, serial |-> serial[n]]
  <2>1. m0.r_idx \notin Taken(n)
    BY <1>8 DEF IInv, IndexesDistinct, Taken
  <2>2. /\ slots' \in [Nodes -> SlotsType] /\ hs' \in [Nodes -> Handshakes]
        /\ sessions' \in [Nodes -> SUBSET Sessions] /\ serial' \in [Nodes -> Nat]
        /\ hs' = [hs EXCEPT ![n] = Dead]
        /\ sessions' = [sessions EXCEPT ![n] = @ \cup {ses}]
        /\ \A p \in Nodes : \A kp \in Live(slots'[p]) : kp.session \in sessions'[p]
        /\ \A p \in Nodes : p # n => slots'[p] = slots[p]
        /\ slots'[n].current.session.key = m0.key
        /\ Ordered' /\ IndexesDistinct'
    <3>1. Begun(n, TRUE, m0.key, m0.r_idx, m0.s_idx)
      BY Zenon, <1>4, <1>8, <2>1, BeginSessionFacts
    <3>2. QED
      BY <3>1 DEF Begun
  <2>3. ses.key = m0.key /\ ses.init = TRUE /\ ses.local = m0.r_idx /\ ses.remote = m0.s_idx
    OBVIOUS
  <2> HIDE DEF ses
  <2>4. /\ \A p \in Nodes : sessions'[p] = IF p = n THEN sessions[n] \cup {ses} ELSE sessions[p]
        /\ \A p \in Nodes : hs'[p].state # "DEAD" => p # n /\ hs'[p] = hs[p]
    BY <1>2, <2>2 DEF TypeOK, Dead
  <2>5. TypeOK'
    BY <1>1, <1>2, <1>6, <1>8, <2>2 DEF TypeOK, SlotsType
  <2>6. InitiatorAgreed'
    <3>1. \A e, j : InitiatorIndex(e, j)' => InitiatorIndex(e, j)
      <4>1. SUFFICES ASSUME NEW e, NEW j, InitiatorIndex(e, j)' PROVE InitiatorIndex(e, j)
        OBVIOUS
      <4>2. CASE e = m0.key.e /\ j = m0.r_idx
        BY SMTT(20), <1>5, <4>2
      <4>3. CASE ~(e = m0.key.e /\ j = m0.r_idx)
        BY <1>1, <1>6, <2>3, <2>4, <4>1, <4>3 DEF InitiatorIndex
      <4>4. QED
        BY <4>2, <4>3
    <3>2. QED
      BY <1>1, <3>1 DEF IInv, InitiatorAgreed
  <2>7. ResponderAgreed'
    <3>1. \A k, j : ResponderIndex(k, j)' => ResponderIndex(k, j)
      <4>1. SUFFICES ASSUME NEW k, NEW j, ResponderIndex(k, j)' PROVE ResponderIndex(k, j)
        OBVIOUS
      <4>2. CASE k = m0.key /\ j = m0.s_idx
        BY <1>5, <4>2
      <4>3. CASE ~(k = m0.key /\ j = m0.s_idx)
        BY SMTT(20), <1>1, <1>6, <2>3, <2>4, <4>1, <4>3 DEF ResponderIndex
      <4>4. QED
        BY <4>2, <4>3
    <3>2. QED
      BY <1>1, <3>1 DEF IInv, ResponderAgreed
  <2>8. Roles'
    <3>1. MessageRoles'
      BY <1>1 DEF IInv, Roles, MessageRoles
    <3>2. NodeRoles'
      BY <1>5, <1>6, <2>3, <2>4 DEF IInv, Roles, NodeRoles
    <3>3. QED
      BY <3>1, <3>2 DEF Roles
  <2>9. \A p \in Nodes : \A k : Has(p, k) => \E s \in sessions'[p] : s.key = k
    BY <2>4 DEF Has
  <2>10. Known'
    <3>1. \A m \in net' : m.type \in {"response", "data"} => \E s \in sessions'[m.from] : s.key = m.key
      <4>1. \A m \in net : m.type \in {"response", "data"} => m.from \in Nodes
        BY <1>2 DEF TypeOK, Response, Data, Initiation
      <4>2. QED
        BY <1>1, <2>9, <4>1 DEF IInv, Known
    <3>2. \A p \in Nodes : task'[p].pc = "response" => \E s \in sessions'[Peer(p)] : s.key = task'[p].msg.key
      BY <1>6, <2>9, PeerFacts DEF IInv, Known
    <3>3. \A p \in Nodes : \A s \in rx'[p] : s \in sessions'[p] /\ \E t \in sessions'[Peer(p)] : t.key = s.key
      BY <1>1, <2>4, <2>9, PeerFacts DEF IInv, Known
    <3>4. \A p \in Nodes : \A kp \in Live(slots'[p]) : kp.session \in sessions'[p]
      BY <2>2
    <3>5. QED
      BY <3>1, <3>2, <3>3, <3>4 DEF Known, Has
  <2>11. Confirmed'
    <3>1. \E t \in sessions'[Peer(n)] : t.key = m0.key
      BY <1>5, <2>9, PeerFacts
    <3>2. ASSUME NEW p \in Nodes, p # n, slots'[p].current # None
          PROVE  \E t \in sessions'[Peer(p)] : t.key = slots'[p].current.session.key
      BY <2>2, <2>4, <3>2, PeerFacts DEF IInv, Confirmed
    <3>3. QED
      BY <2>2, <3>1, <3>2 DEF Confirmed
  <2>12. \A p \in Nodes : \A e : Used(p, e)' => Used(p, e) \/ (p = n /\ e = m0.key.e)
    BY <2>3, <2>4 DEF Used
  <2>13. Unused'
    <3>1. ASSUME NEW p \in Nodes, task'[p].pc = "response"
          PROVE  ~\E s \in sessions'[p] : s.key.e = task'[p].msg.key.e
      <4>1. ~Used(p, task[p].msg.key.e) /\ task'[p] = task[p] /\ p # n
        BY <1>6, <3>1 DEF IInv, Unused
      <4>2. QED
        BY <2>4, <4>1 DEF Used
    <3>2. QED
      BY <2>4, <2>12, <3>1 DEF IInv, Unused, Used
  <2>14. Stamped'
    <3>1. ASSUME NEW p \in Nodes, NEW m \in net, m.type = "initiation", m.from = Peer(p)
          PROVE  ~(p = n /\ m.e = m0.key.e)
      BY <1>5, <3>1, PeerFacts DEF IInv, Roles, MessageRoles
    <3>2. QED
      BY <1>1, <2>4, <2>12, <3>1 DEF IInv, Stamped
  <2>15. OneSessionPerInitiation'
    BY <1>5, <2>3, <2>4 DEF IInv, OneSessionPerInitiation, Used
  <2>16. QED
    BY <2>2, <2>5, <2>6, <2>7, <2>8, <2>10, <2>11, <2>13, <2>14, <2>15 DEF IInv
<1>9. CASE /\ hs[n].state = "INITIATOR" /\ hs[n].local = m0.r_idx
           /\ Fault
           /\ hs' = [hs EXCEPT ![n].e = m0.key.e, ![n].f = m0.key.f, ![n].remote = m0.s_idx]
           /\ UNCHANGED <<slots, sessions, serial>>
  <2>1. m0.key.e \in Ephemerals /\ m0.key.f \in Ephemerals /\ m0.key.f # None
    BY <1>4, NoneAssumption DEF Keys
  <2>2. /\ \A p \in Nodes : p # n => hs'[p] = hs[p]
        /\ hs'[n].state = "INITIATOR" /\ hs'[n].e = m0.key.e /\ hs'[n].f = m0.key.f
        /\ hs'[n].local = m0.r_idx
        /\ hs' \in [Nodes -> Handshakes]
    <3>1. hs[n] \in Handshakes
      BY <1>2 DEF TypeOK
    <3> DEFINE h == [hs[n] EXCEPT !.e = m0.key.e, !.f = m0.key.f, !.remote = m0.s_idx]
    <3>2. /\ h \in Handshakes /\ h.state = hs[n].state /\ h.local = hs[n].local
          /\ h.e = m0.key.e /\ h.f = m0.key.f
      BY Zenon, <1>4, <2>1, <3>1 DEF Handshakes
    <3>3. hs' = [hs EXCEPT ![n] = h]
      BY Zenon, <1>2, <1>9 DEF TypeOK
    <3> HIDE DEF h
    <3>4. hs' \in [Nodes -> Handshakes] /\ hs'[n] = h /\ \A p \in Nodes : p # n => hs'[p] = hs[p]
      BY <1>2, <3>2, <3>3 DEF TypeOK
    <3>5. hs[n].state = "INITIATOR" /\ hs[n].local = m0.r_idx
      BY <1>9
    <3>6. QED
      BY <3>2, <3>4, <3>5
  <2>3. TypeOK'
    BY <1>1, <1>2, <1>6, <1>9, <2>2 DEF TypeOK, Fault
  <2>4. InitiatorAgreed'
    <3>1. \A e, j : InitiatorIndex(e, j)' => InitiatorIndex(e, j)
      <4>1. SUFFICES ASSUME NEW e, NEW j, InitiatorIndex(e, j)' PROVE InitiatorIndex(e, j)
        OBVIOUS
      <4>2. CASE e = m0.key.e /\ j = m0.r_idx
        BY <1>5, <4>2
      <4>3. CASE ~(e = m0.key.e /\ j = m0.r_idx)
        BY ZenonT(20), <1>1, <1>6, <1>9, <2>2, <4>1, <4>3 DEF InitiatorIndex
      <4>4. QED
        BY <4>2, <4>3
    <3>2. QED
      BY <1>1, <3>1 DEF IInv, InitiatorAgreed
  <2>5. ResponderAgreed'
    <3>1. \A k, j : ResponderIndex(k, j)' => ResponderIndex(k, j)
      BY <1>1, <1>6, <1>9 DEF ResponderIndex
    <3>2. QED
      BY <1>1, <3>1 DEF IInv, ResponderAgreed
  <2>6. Roles'
    <3>1. MessageRoles'
      BY <1>1 DEF IInv, Roles, MessageRoles
    <3>2. NodeRoles'
      <4>1. m0.key.e \in Ephemerals /\ m0.key.e[1] = n
        BY <1>4, <1>5 DEF Keys
      <4>2. \A p \in Nodes :
              /\ hs'[p].state = "INITIATOR" => /\ hs'[p].e \in Ephemerals /\ hs'[p].e[1] = p
                                               /\ hs'[p].local \in Indexes
              /\ hs'[p].state = "RESPONDER" => /\ hs'[p].e \in Ephemerals /\ hs'[p].e[1] = Peer(p)
                                               /\ hs'[p].local \in Indexes /\ hs'[p].remote \in Indexes
        BY <1>4, <2>2, <4>1 DEF IInv, Roles, NodeRoles
      <4>3. \A p \in Nodes : task'[p].pc = "response" =>
              task'[p].msg.from = Peer(p) /\ task'[p].msg.key.e[1] = p /\ task'[p].msg.key.f[1] = Peer(p)
        BY <1>6, <1>9 DEF IInv, Roles, NodeRoles
      <4>4. \A p \in Nodes : \A s \in sessions'[p] :
              /\ s.init => s.key.e[1] = p /\ s.key.f[1] = Peer(p)
              /\ ~s.init => s.key.e[1] = Peer(p) /\ s.key.f[1] = p
        BY <1>9 DEF IInv, Roles, NodeRoles
      <4>5. QED
        BY Zenon, <4>2, <4>3, <4>4 DEF NodeRoles
    <3>3. QED
      BY <3>1, <3>2 DEF Roles
  <2>7. Known' /\ Confirmed'
    BY <1>1, <1>6, <1>9 DEF IInv, Known, Has, Confirmed
  <2>8. Unused'
    BY <1>6, <1>9, <2>1, <2>2 DEF IInv, Unused, Used
  <2>9. Stamped' /\ OneSessionPerInitiation'
    BY SMTT(20), <1>1, <1>9, <2>2 DEF IInv, Stamped, Used, OneSessionPerInitiation
  <2>10. Ordered' /\ IndexesDistinct'
    BY <1>9, <2>2 DEF IInv, Ordered, IndexesDistinct, Taken
  <2>11. QED
    BY <2>3, <2>4, <2>5, <2>6, <2>7, <2>8, <2>9, <2>10 DEF IInv
<1>10. QED
  BY Zenon, <1>3, <1>7, <1>8, <1>9 DEF ConsumeResponse, history
-----------------------------------------------------------------------------
(* The invariant holds in every reachable state.                           *)
THEOREM Invariance == Spec => []IInv
<1>1. IInv /\ [Next]_vars => IInv'
  <2>1. SUFFICES ASSUME IInv, [Next]_vars PROVE IInv'
    OBVIOUS
  <2>2. CASE UNCHANGED vars
    <3>1. UNCHANGED <<now, r_last_sent, r_timestamp, hs, slots, task, rx, net, fresh, sessions, serial, faults>>
      BY <2>2 DEF vars, time, history
    <3>2. TypeOK'
      BY <2>1, <3>1 DEF IInv, TypeOK
    <3>3. QED
      BY <2>1, <3>1, <3>2, QuietFrame
  <2>3. ASSUME NEW n \in Nodes, Step(n) PROVE IInv'
    <3>1. CASE CreateInitiation(n)
      BY <2>1, <3>1, CreateInitiationStep
    <3>2. CASE \E m \in net : ConsumeInitiation(n, m) \/ ReadResponse(n, m) \/ Decrypt(n, m)
      BY <2>1, <3>2, ConsumeInitiationStep, ReadResponseStep, DecryptStep
    <3>3. CASE CreateResponse(n) \/ ConsumeResponse(n)
      BY <2>1, <3>3, CreateResponseStep, ConsumeResponseStep
    <3>4. CASE SendData(n) \/ DeliverIn(n)
      BY <2>1, <3>4, SendDataStep, DeliverInStep
    <3>5. CASE HandshakeClear(n) \/ KeypairsClear(n) \/ ExpireCurrent(n)
      BY <2>1, <3>5, HandshakeClearStep, KeypairsClearStep, ExpireCurrentStep
    <3>6. QED
      BY <2>3, <3>1, <3>2, <3>3, <3>4, <3>5 DEF Step
  <2>4. CASE Tick
    BY <2>1, <2>4, TickStep
  <2>5. CASE \E m \in net : Lose(m)
    BY <2>1, <2>5, LoseStep
  <2>6. QED
    BY <2>1, <2>2, <2>3, <2>4, <2>5 DEF Next
<1>2. QED
  BY <1>1, InitIInv, PTL DEF Spec

(* Type correctness of the handshake and its keypairs.                     *)
THEOREM TypeCorrect == Spec => []TypeOK
  BY Invariance, PTL DEF IInv

(* The two ends of every session agree on its roles and indexes            *)
(* (noise_begin_session on both sides), for any number of handshakes.      *)
THEOREM SessionsAgree == Spec => []Agreement
<1>1. IInv => Agreement
  <2>1. SUFFICES ASSUME IInv, NEW n \in Nodes, NEW s \in sessions[n],
                        NEW t \in sessions[Peer(n)], s.key = t.key
                 PROVE  s.init # t.init /\ s.local = t.remote /\ s.remote = t.local
    BY DEF Agreement
  <2>2. Peer(n) \in Nodes /\ Peer(n) # n /\ Peer(Peer(n)) = n
    BY PeerFacts
  <2>3. s.init \in BOOLEAN /\ t.init \in BOOLEAN
    BY <2>1, <2>2 DEF IInv, TypeOK, Sessions
  <2>4. (s.init /\ ~t.init) \/ (~s.init /\ t.init)
    BY <2>1, <2>2, <2>3 DEF IInv, Roles, NodeRoles
  <2>5. CASE s.init /\ ~t.init
    <3>1. InitiatorIndex(s.key.e, s.local) /\ InitiatorIndex(s.key.e, t.remote)
      BY <2>1, <2>2, <2>5 DEF InitiatorIndex
    <3>2. ResponderIndex(s.key, s.remote) /\ ResponderIndex(s.key, t.local)
      BY <2>1, <2>2, <2>5 DEF ResponderIndex
    <3>3. QED
      BY Zenon, <2>1, <2>5, <3>1, <3>2 DEF IInv, InitiatorAgreed, ResponderAgreed
  <2>6. CASE ~s.init /\ t.init
    <3>1. InitiatorIndex(s.key.e, s.remote) /\ InitiatorIndex(s.key.e, t.local)
      BY <2>1, <2>2, <2>6 DEF InitiatorIndex
    <3>2. ResponderIndex(s.key, s.local) /\ ResponderIndex(s.key, t.remote)
      BY <2>1, <2>2, <2>6 DEF ResponderIndex
    <3>3. QED
      BY Zenon, <2>1, <2>6, <3>1, <3>2 DEF IInv, InitiatorAgreed, ResponderAgreed
  <2>7. QED
    BY <2>4, <2>5, <2>6
<1>2. QED
  BY <1>1, Invariance, PTL

(* No initiation, however often it is replayed, gives two sessions on one  *)
(* side (noise_consume_initiation, noise_consume_response).                *)
THEOREM SessionOnce == Spec => []OneSessionPerInitiation
  BY Invariance, PTL DEF IInv

(* A side sends only under keys its peer has installed.                    *)
THEOREM KeyConfirmed == Spec => []Confirmed
  BY Invariance, PTL DEF IInv

(* The index table is unambiguous.                                         *)
THEOREM IndexesUnambiguous == Spec => []IndexesDistinct
  BY Invariance, PTL DEF IInv

(* r_current is only ever replaced by a keypair installed later.           *)
THEOREM SendingAdvances == Spec => CurrentAdvances
<1> DEFINE Advances == \A n \in Nodes :
             LET old == slots[n].current
                 new == slots'[n].current
             IN  old # None /\ new # None => new.session.serial >= old.session.serial
<1>1. IInv /\ [Next]_vars => [Advances]_slots
  <2>1. SUFFICES ASSUME IInv, Next, NEW n \in Nodes, slots[n].current # None, slots'[n].current # None
                 PROVE  slots'[n].current.session.serial >= slots[n].current.session.serial
    BY SMTT(20) DEF vars
  <2> DEFINE s0 == slots[n]
  <2>2. s0 \in SlotsType /\ TypeOK /\ serial[n] \in Nat
    BY <2>1 DEF IInv, TypeOK, SlotsType
  <2>3. s0.current.session.serial \in Nat /\ (s0.next # None => s0.next.session.serial \in Nat)
    BY <2>1, <2>2 DEF SlotsType, Keypairs, Sessions
  <2>4. CASE slots'[n].current = slots[n].current
    BY <2>3, <2>4
  <2>5. ASSUME NEW p \in Nodes, NEW init, NEW key, NEW local, NEW remote,
               BeginSession(p, init, key, local, remote)
        PROVE  slots'[n].current.session.serial >= s0.current.session.serial
    <3>1. CASE p = n
      <4> DEFINE ses == [key |-> key, init |-> init, local |-> local, remote |-> remote,
                         serial |-> serial[n]]
                 kp0 == [session |-> ses, birthdate |-> now, can_send |-> TRUE]
      <4>1. slots'[n] = AddNewKeypair(s0, kp0)
        BY <2>2, <2>5, <3>1 DEF BeginSession, TypeOK
      <4>2. slots'[n].current = kp0 \/ slots'[n].current = s0.current
        BY <4>1 DEF AddNewKeypair
      <4>3. kp0.session.serial = serial[n]
        OBVIOUS
      <4>4. s0.current.session.serial < serial[n]
        BY <2>1 DEF IInv, Ordered
      <4>5. QED
        BY SMTT(20), <2>2, <2>3, <4>2, <4>3, <4>4
    <3>2. CASE p # n
      <4>1. slots'[n] = slots[n]
        BY <2>2, <2>5, <3>2 DEF BeginSession, TypeOK
      <4>2. QED
        BY SMTT(20), <2>4, <4>1
    <3>3. QED
      BY <3>1, <3>2
  <2>6. ASSUME NEW p \in Nodes, CreateResponse(p) \/ ConsumeResponse(p)
        PROVE  slots'[n].current.session.serial >= s0.current.session.serial
    BY Zenon, <2>4, <2>5, <2>6 DEF CreateResponse, ConsumeResponse
  <2>7. ASSUME NEW p \in Nodes, DeliverIn(p)
        PROVE  slots'[n].current.session.serial >= s0.current.session.serial
    <3>1. PICK ses : slots' = [slots EXCEPT ![p] = ReceivedWith(@, ses)] \/ slots' = slots
      BY ZenonT(20), <2>7 DEF DeliverIn
    <3>2. slots'[n].current = s0.current \/ (s0.next # None /\ slots'[n].current = s0.next)
      BY <2>2, <3>1 DEF ReceivedWith, TypeOK
    <3>3. s0.next # None => s0.current.session.serial < s0.next.session.serial
      BY <2>1 DEF IInv, Ordered
    <3>4. QED
      BY <2>3, <3>2, <3>3
  <2>8. ASSUME NEW p \in Nodes, SendData(p)
        PROVE  slots'[n].current.session = s0.current.session
    <3>1. slots' = slots \/ slots' = [slots EXCEPT ![p].current.can_send = FALSE]
      BY <2>8 DEF SendData
    <3>2. s0.current \in Keypairs
      BY <2>1, <2>2 DEF SlotsType
    <3>3. [s0.current EXCEPT !.can_send = FALSE].session = s0.current.session
      BY <3>2 DEF Keypairs
    <3>4. slots'[n].current = s0.current \/ slots'[n].current = [s0.current EXCEPT !.can_send = FALSE]
      <4>1. slots' = [slots EXCEPT ![p].current.can_send = FALSE] =>
              slots'[n] = IF p = n THEN [s0 EXCEPT !.current.can_send = FALSE] ELSE s0
        BY Zenon, <2>2 DEF TypeOK
      <4>2. [s0 EXCEPT !.current.can_send = FALSE].current = [s0.current EXCEPT !.can_send = FALSE]
        BY <2>2 DEF SlotsType
      <4>3. QED
        BY Zenon, <3>1, <4>1, <4>2
    <3>5. QED
      BY Zenon, <3>3, <3>4
  <2>9. ASSUME NEW p \in Nodes, KeypairsClear(p)
        PROVE  slots'[n].current = s0.current
    BY <2>1, <2>2, <2>9 DEF KeypairsClear, TypeOK, Empty
  <2>10. ASSUME NEW p \in Nodes, ExpireCurrent(p)
         PROVE  slots'[n].current.session = s0.current.session
    <3>1. slots'[n].current = s0.current \/ slots'[n].current = Retire(s0.current)
      BY <2>2, <2>10 DEF ExpireCurrent, TypeOK, SlotsType
    <3>2. Retire(s0.current).session = s0.current.session
      BY <2>1, <2>2 DEF Retire, SlotsType, Keypairs
    <3>3. QED
      BY <3>1, <3>2
  <2>11. QED
    BY <2>1, <2>3, <2>4, <2>6, <2>7, <2>8, <2>9, <2>10 DEF Next, Step, Tick, Lose, CreateInitiation,
      ConsumeInitiation, ReadResponse, Decrypt, HandshakeClear
<1>2. QED
  BY <1>1, Invariance, PTL DEF Spec, CurrentAdvances
=============================================================================

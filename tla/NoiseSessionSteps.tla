------------------------- MODULE NoiseSessionSteps --------------------------
(***************************************************************************)
(* The steps that begin no session preserve IInv.                          *)
(***************************************************************************)
EXTENDS NoiseSessionInv

(* Consuming an initiation copies its ephemeral and index, and only when   *)
(* its timestamp shows that it was never consumed.                         *)
LEMMA ConsumeInitiationStep ==
  ASSUME NEW n \in Nodes, NEW m0 \in net, IInv, ConsumeInitiation(n, m0)
  PROVE  IInv'
<1>1. /\ m0.type = "initiation" /\ m0.from = Peer(n) /\ m0.ts > r_timestamp[n]
      /\ task[n] = Idle
      /\ r_timestamp' = [r_timestamp EXCEPT ![n] = m0.ts]
      /\ UNCHANGED <<now, r_last_sent, slots, net, fresh, sessions, serial, faults, rx>>
  BY DEF ConsumeInitiation, Newer, history
<1>2. TypeOK
  BY DEF IInv
<1>3. m0 \in Initiation
  BY <1>1, <1>2 DEF TypeOK, Response, Data
<1>4. m0.e \in Ephemerals /\ m0.s_idx \in Indexes /\ m0.ts \in Nat
  BY <1>3 DEF Initiation
<1>5. m0.e[1] = Peer(n)
  BY <1>1 DEF IInv, Roles, MessageRoles
<1>6. \A p \in Nodes : r_timestamp[p] \in Int /\ r_timestamp'[p] \in Int
                       /\ r_timestamp[p] <= r_timestamp'[p]
  BY <1>1, <1>2, <1>4 DEF TypeOK, Never
<1>7. r_timestamp' \in [Nodes -> Nat \cup {Never}]
  BY <1>1, <1>2, <1>4 DEF TypeOK
<1>8. ~Used(n, m0.e)
  BY <1>1, <1>4, <1>6 DEF IInv, Stamped
<1>9. \A m \in net : m \in Initiation \/ m.type # "initiation"
  BY SMTT(20), <1>2 DEF TypeOK, Response, Data
<1>10. CASE UNCHANGED <<hs, task>>
  <2>1. TypeOK'
    BY <1>1, <1>2, <1>7, <1>10 DEF TypeOK
  <2>2. Stamped'
    BY SMTT(20), <1>1, <1>6, <1>9, <1>10 DEF IInv, Stamped, Used, Initiation
  <2>3. InitiatorAgreed'
    BY <1>1, <1>10 DEF IInv, InitiatorAgreed, InitiatorIndex
  <2>4. ResponderAgreed'
    BY <1>1, <1>10 DEF IInv, ResponderAgreed, ResponderIndex
  <2>5. Roles'
    BY <1>1, <1>10 DEF IInv, Roles, MessageRoles, NodeRoles
  <2>6. Known' /\ Confirmed'
    BY <1>1, <1>10 DEF IInv, Known, Has, Confirmed
  <2>7. Unused' /\ OneSessionPerInitiation' /\ Ordered' /\ IndexesDistinct'
    BY <1>1, <1>10 DEF IInv, Unused, Used, OneSessionPerInitiation, Ordered, IndexesDistinct, Taken
  <2>8. QED
    BY <2>1, <2>2, <2>3, <2>4, <2>5, <2>6, <2>7 DEF IInv
<1>11. CASE \E i \in Indexes \ Taken(n) :
              /\ hs' = [hs EXCEPT ![n] = [state |-> "RESPONDER", e |-> m0.e, f |-> None,
                                          local |-> i, remote |-> m0.s_idx]]
              /\ task' = [task EXCEPT ![n] = [pc |-> "respond", msg |-> None]]
  <2>1. PICK i0 \in Indexes \ Taken(n) :
              /\ hs' = [hs EXCEPT ![n] = [state |-> "RESPONDER", e |-> m0.e, f |-> None,
                                          local |-> i0, remote |-> m0.s_idx]]
              /\ task' = [task EXCEPT ![n] = [pc |-> "respond", msg |-> None]]
    BY ZenonT(20), <1>11
  <2>2. /\ \A p \in Nodes : hs'[p] = IF p = n THEN [state |-> "RESPONDER", e |-> m0.e, f |-> None,
                                               local |-> i0, remote |-> m0.s_idx] ELSE hs[p]
        /\ \A p \in Nodes : task'[p].pc = "response" => task[p].pc = "response" /\ task'[p] = task[p]
    BY <1>2, <2>1 DEF TypeOK
  <2>3. TypeOK'
    <3>1. hs' \in [Nodes -> Handshakes]
      BY <1>2, <1>4, <2>1 DEF TypeOK, Handshakes
    <3>2. task' \in [Nodes -> [pc : {"idle", "respond"}, msg : {None}]
                             \cup [pc : {"response"}, msg : Response]]
      BY <1>2, <2>1 DEF TypeOK
    <3>3. QED
      BY <1>1, <1>2, <1>7, <3>1, <3>2 DEF TypeOK
  <2>4. InitiatorAgreed'
    <3>1. \A e, j : InitiatorIndex(e, j)' => InitiatorIndex(e, j)
      BY <1>1, <2>2 DEF InitiatorIndex
    <3>2. QED
      BY SMTT(20), <1>1, <3>1 DEF IInv, InitiatorAgreed
  <2>5. ResponderAgreed'
    <3>1. \A k, j : ResponderIndex(k, j)' => ResponderIndex(k, j)
      BY SMTT(20), <1>1, <2>2 DEF ResponderIndex
    <3>2. QED
      BY <1>1, <3>1 DEF IInv, ResponderAgreed
  <2>6. Roles'
    BY SMTT(20), <1>1, <1>4, <1>5, <2>2 DEF IInv, Roles, MessageRoles, NodeRoles
  <2>7. Known' /\ Confirmed'
    BY <1>1, <2>2 DEF IInv, Known, Confirmed, Has
  <2>8. Unused'
    BY <1>1, <1>8, <2>2 DEF IInv, Unused, Used
  <2>9. Stamped'
    <3>1. ASSUME NEW p \in Nodes, NEW m \in net, m.type = "initiation", m.from = Peer(p),
                 Used(p, m.e) \/ (hs'[p].state = "RESPONDER" /\ hs'[p].e = m.e)
          PROVE  m.ts <= r_timestamp'[p]
      <4>1. CASE p = n /\ m.e = m0.e
        <5>1. m = m0
          BY <1>1, <3>1, <4>1 DEF IInv, Stamped
        <5>2. QED
          BY <1>1, <1>2, <1>4, <4>1, <5>1 DEF TypeOK
      <4>2. CASE ~(p = n /\ m.e = m0.e)
        <5>1. m.ts <= r_timestamp[p]
          BY SMTT(20), <2>2, <3>1, <4>2 DEF IInv, Stamped
        <5>2. QED
          BY SMTT(20), <1>6, <1>9, <3>1, <5>1 DEF Initiation
      <4>3. QED
        BY <4>1, <4>2
    <3>2. QED
      BY <1>1, <3>1 DEF IInv, Stamped, Used
  <2>10. OneSessionPerInitiation' /\ Ordered'
    BY SMTT(20), <1>1 DEF IInv, OneSessionPerInitiation, Ordered
  <2>11. IndexesDistinct'
    BY <1>1, <2>2 DEF IInv, IndexesDistinct, Taken
  <2>12. QED
    BY <2>3, <2>4, <2>5, <2>6, <2>7, <2>8, <2>9, <2>10, <2>11 DEF IInv
<1>12. QED
  BY <1>10, <1>11 DEF ConsumeInitiation

(* Reading a response copies it to the task; the handshake it completes    *)
(* has not been completed.                                                 *)
LEMMA ReadResponseStep ==
  ASSUME NEW n \in Nodes, NEW m0 \in net, IInv, ReadResponse(n, m0)
  PROVE  IInv'
<1>1. /\ m0.type = "response" /\ m0.from = Peer(n)
      /\ hs[n].state = "INITIATOR" /\ hs[n].e = m0.key.e /\ hs[n].f = None
      /\ task' = [task EXCEPT ![n] = [pc |-> "response", msg |-> m0]]
      /\ UNCHANGED <<now, r_last_sent, r_timestamp, hs, slots, net, fresh, sessions, serial, faults, rx>>
  BY DEF ReadResponse, time, history
<1>2. TypeOK
  BY DEF IInv
<1>3. m0 \in Response
  BY <1>1, <1>2 DEF TypeOK, Initiation, Data
<1>4. \A p \in Nodes : task'[p] = IF p = n THEN [pc |-> "response", msg |-> m0] ELSE task[p]
  BY SMTT(20), <1>1, <1>2 DEF TypeOK
<1>5. TypeOK'
  BY SMTT(20), <1>1, <1>2, <1>3 DEF TypeOK
<1>6. InitiatorAgreed'
  <2>1. \A e, j : InitiatorIndex(e, j)' => InitiatorIndex(e, j)
    BY <1>1, <1>4 DEF InitiatorIndex
  <2>2. QED
    BY SMTT(20), <1>1, <2>1 DEF IInv, InitiatorAgreed
<1>7. ResponderAgreed'
  <2>1. \A k, j : ResponderIndex(k, j)' => ResponderIndex(k, j)
    BY SMTT(20), <1>1, <1>4 DEF ResponderIndex
  <2>2. QED
    BY <1>1, <2>1 DEF IInv, ResponderAgreed
<1>8. Roles'
  <2>1. MessageRoles'
    BY <1>1 DEF IInv, Roles, MessageRoles
  <2>2. m0.from = Peer(n) /\ m0.key.e[1] = n /\ m0.key.f[1] = Peer(n)
    BY <1>1, PeerFacts DEF IInv, Roles, MessageRoles
  <2>3. NodeRoles'
    BY <1>1, <1>4, <2>2 DEF IInv, Roles, NodeRoles
  <2>4. QED
    BY <2>1, <2>3 DEF Roles
<1>9. Known' /\ Confirmed'
  <2>1. Known'
    BY <1>1, <1>4 DEF IInv, Known, Has
  <2>2. Confirmed'
    BY <1>1 DEF IInv, Confirmed
  <2>3. QED
    BY <2>1, <2>2
<1>10. Unused'
  BY <1>1, <1>4 DEF IInv, Unused, Used
<1>11. Stamped' /\ OneSessionPerInitiation' /\ Ordered' /\ IndexesDistinct'
  BY ZenonT(20), <1>1 DEF IInv, Stamped, Used, OneSessionPerInitiation, Ordered, IndexesDistinct, Taken
<1>12. QED
  BY SMTT(20), <1>5, <1>6, <1>7, <1>8, <1>9, <1>10, <1>11 DEF IInv

(* Sending: data goes out under the current session, or it is retired.     *)
LEMMA SendDataStep ==
  ASSUME NEW n \in Nodes, IInv, SendData(n)
  PROVE  IInv'
<1> DEFINE kp0 == slots[n].current
<1>1. /\ kp0 # None
      /\ UNCHANGED <<now, r_last_sent, r_timestamp, hs, task, fresh, sessions, serial, faults, rx>>
  BY SMTT(20) DEF SendData, time, history
<1>2. TypeOK /\ slots[n] \in SlotsType
  BY DEF IInv, TypeOK, SlotsType
<1>3. kp0 \in Keypairs /\ kp0.session \in sessions[n]
  BY <1>1, <1>2 DEF SlotsType, IInv, Known, Live
<1>4. CASE UNCHANGED net /\ slots' = [slots EXCEPT ![n].current.can_send = FALSE]
  <2>1. slots' \in [Nodes -> SlotsType]
    BY Zenon, <1>2, <1>3, <1>4 DEF TypeOK, SlotsType, Keypairs
  <2>2. slots'[n].current = [kp0 EXCEPT !.can_send = FALSE] /\ slots'[n].next = slots[n].next
        /\ slots'[n].previous = slots[n].previous /\ \A p \in Nodes : p # n => slots'[p] = slots[p]
    BY <1>2, <1>4 DEF TypeOK, SlotsType
  <2>3. [kp0 EXCEPT !.can_send = FALSE] \in Keypairs
        /\ [kp0 EXCEPT !.can_send = FALSE].session = kp0.session
    BY Zenon, <1>3 DEF Keypairs
  <2>4. /\ Confirmed' /\ Ordered' /\ IndexesDistinct'
        /\ \A p \in Nodes : \A kp \in Live(slots'[p]) : kp.session \in sessions'[p]
    BY Zenon, <1>1, <2>1, <2>2, <2>3, NoneAssumption, SlotFrame DEF SameSession
  <2>5. TypeOK'
    BY <1>1, <1>2, <1>4, <2>1 DEF TypeOK, SlotsType
  <2>6. Known'
    BY ZenonT(20), <1>1, <1>4, <2>4 DEF IInv, Known, Has
  <2>7. QED
    BY <1>1, <1>4, <2>4, <2>5, <2>6, HandshakeFrame DEF IInv
<1>5. CASE /\ net' = net \cup {[type |-> "data", from |-> n, key |-> kp0.session.key,
                                r_idx |-> kp0.session.remote]}
           /\ UNCHANGED slots
  <2>1. [type |-> "data", from |-> n, key |-> kp0.session.key, r_idx |-> kp0.session.remote] \in Data
    BY <1>3 DEF Keypairs, Sessions, Data
  <2>2. TypeOK'
    BY <1>1, <1>2, <1>5, <2>1 DEF TypeOK
  <2>3. Known'
    BY SMTT(20), <1>1, <1>3, <1>5 DEF IInv, Known, Has
  <2>4. Confirmed' /\ Ordered' /\ IndexesDistinct'
    BY <1>1, <1>5 DEF IInv, Confirmed, Ordered, IndexesDistinct, Taken
  <2>5. QED
    BY <1>1, <1>5, <2>2, <2>3, <2>4, HandshakeFrame DEF IInv
<1>6. QED
  BY <1>4, <1>5 DEF SendData

(* Decrypting: the packet's key is one the sender installed.               *)
LEMMA DecryptStep ==
  ASSUME NEW n \in Nodes, NEW m \in net, IInv, Decrypt(n, m)
  PROVE  IInv'
<1>1. PICK kp \in Live(slots[n]) :
        kp.session.key = m.key /\ rx' = [rx EXCEPT ![n] = @ \cup {kp.session}]
  BY ZenonT(20), Zenon DEF Decrypt
<1>2. /\ m.type = "data" /\ m.from = Peer(n)
      /\ UNCHANGED <<now, r_last_sent, r_timestamp, hs, slots, task, net, fresh, sessions, serial, faults>>
  BY DEF Decrypt, time, history
<1>3. TypeOK /\ kp.session \in sessions[n]
  BY DEF IInv, Known
<1>4. Has(Peer(n), kp.session.key)
  BY SMTT(20), <1>1, <1>2 DEF IInv, Known
<1>5. TypeOK'
  BY SMTT(20), <1>1, <1>2, <1>3 DEF TypeOK
<1>6. Known'
  <2>1. \A p \in Nodes : \A s \in rx'[p] : s \in rx[p] \/ (p = n /\ s = kp.session)
    BY SMTT(20), <1>1, <1>3 DEF TypeOK
  <2>2. QED
    BY SMTT(20), <1>2, <1>3, <1>4, <2>1 DEF IInv, Known, Has
<1>7. Confirmed' /\ Ordered' /\ IndexesDistinct'
  BY <1>2 DEF IInv, Confirmed, Ordered, IndexesDistinct, Taken
<1>8. QED
  BY ZenonT(20), <1>2, <1>5, <1>6, <1>7, HandshakeFrame DEF IInv

(* Delivering: r_next becomes current by a packet under its own key, which *)
(* the peer therefore has; its predecessor is older.                       *)
LEMMA DeliverInStep ==
  ASSUME NEW n \in Nodes, IInv, DeliverIn(n)
  PROVE  IInv'
<1>1. PICK ses \in rx[n] : /\ rx' = [rx EXCEPT ![n] = @ \ {ses}]
                           /\ \/ slots' = [slots EXCEPT ![n] = ReceivedWith(@, ses)]
                              \/ UNCHANGED slots
  BY Zenon DEF DeliverIn
<1>2. UNCHANGED <<now, r_last_sent, r_timestamp, hs, task, net, fresh, sessions, serial, faults>>
  BY DEF DeliverIn, time, history
<1>3. TypeOK /\ Known
  BY SMTT(20) DEF IInv
<1>4. rx' \in [Nodes -> SUBSET Sessions] /\ \A p \in Nodes : rx'[p] \subseteq rx[p]
  BY <1>1, <1>3 DEF TypeOK
<1>5. CASE UNCHANGED slots
  <2>1. TypeOK'
    BY <1>2, <1>3, <1>4, <1>5 DEF TypeOK
  <2>2. QED
    BY SMTT(20), <1>2, <1>4, <1>5, <2>1, QuietFrame
<1>6. CASE /\ slots[n].next # None /\ slots[n].next.session = ses
           /\ slots' = [slots EXCEPT ![n] = [next |-> None, current |-> slots[n].next,
                                             previous |-> slots[n].current]]
  <2>1. slots[n] \in SlotsType
    BY SMTT(20), <1>3 DEF TypeOK, SlotsType
  <2>2. slots' \in [Nodes -> SlotsType]
    BY SMTT(20), <1>3, <1>6, <2>1 DEF TypeOK, SlotsType
  <2>3. /\ \A p \in Nodes : p # n => slots'[p] = slots[p]
        /\ slots'[n].next = None /\ slots'[n].current = slots[n].next
        /\ slots'[n].previous = slots[n].current
    BY SMTT(20), <1>3, <1>6 DEF TypeOK
  <2>4. TypeOK'
    BY <1>2, <1>3, <1>4, <2>2 DEF TypeOK, SlotsType
  <2>5. \A p \in Nodes : Live(slots'[p]) \subseteq Live(slots[p])
    BY <2>3 DEF Live
  <2>6. Known'
    BY ZenonT(20), <1>2, <1>3, <1>4, <2>5 DEF Known, Has
  <2>7. Confirmed'
    BY SMTT(20), <1>2, <1>3, <1>6, <2>3 DEF IInv, Known, Has, Confirmed
  <2>8. Ordered'
    BY SMTT(20), <1>2, <2>3 DEF IInv, Ordered
  <2>9. IndexesDistinct'
    <3>1. \A p \in Nodes : \A kp \in Live(slots[p]) :
            hs[p].state # "DEAD" => hs[p].local # kp.session.local
      BY DEF IInv, IndexesDistinct
    <3>2. QED
      BY <1>2, <2>5, <3>1 DEF IInv, IndexesDistinct
  <2>10. QED
    BY ZenonT(20), <1>2, <2>4, <2>6, <2>7, <2>8, <2>9, HandshakeFrame DEF IInv
<1>7. QED
  <2>1. CASE slots' = [slots EXCEPT ![n] = ReceivedWith(@, ses)]
    <3>1. CASE slots[n].next # None /\ slots[n].next.session = ses
      BY <1>6, <2>1, <3>1 DEF ReceivedWith
    <3>2. CASE ~(slots[n].next # None /\ slots[n].next.session = ses)
      <4>1. slots' = slots
        BY <1>3, <2>1, <3>2 DEF ReceivedWith, TypeOK
      <4>2. QED
        BY SMTT(20), <1>5, <4>1
    <3>3. QED
      BY <3>1, <3>2
  <2>2. QED
    BY <1>1, <1>5, <2>1
=============================================================================

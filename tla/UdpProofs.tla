------------------------------ MODULE UdpProofs ------------------------------
(***************************************************************************)
(* The id check of ModbusUdpTransport::transact, for every modulus and     *)
(* whatever the network does.                                              *)
(***************************************************************************)
EXTENDS UdpTransport, TLAPS

\* The time SMT may take for a step.
USE SMTT(60)

\* A request made `lag` requests before the one with id t, counting modulo
\* IdModulus, has id i; its true age is the lag, or the ids have come round.
Dated(i, age, t) ==
  \E lag \in 0..(IdModulus - 1) :
    /\ i + lag = t \/ i + lag = t + IdModulus
    /\ age = lag \/ age >= IdModulus

\* Every datagram, wherever it is, is dated by its id.
DatagramsDated ==
  /\ \A r \in requests : Dated(r.tid, r.age, tid)
  /\ \A d \in answers : Dated(d.tid, d.age, tid)
  /\ \A i \in DOMAIN buffer : Dated(buffer[i].tid, buffer[i].age, tid)

\* The id after tid is the one transaction_id_ holds.
IdsConsecutive ==
  transaction_id_ = IF tid = IdModulus - 1 THEN 0 ELSE tid + 1

IInv == TypeOK /\ IdsConsecutive /\ DatagramsDated /\ OwnOrAncient

-----------------------------------------------------------------------------
\* One more request makes every datagram one older, by age and by id.
LEMMA OlderDated ==
  ASSUME NEW t \in Ids, NEW i \in Ids, NEW age \in Ages, Dated(i, age, t),
         NEW age1, age1 = IF age = MaxAge THEN MaxAge ELSE age + 1
  PROVE  Dated(i, age1, IF t = IdModulus - 1 THEN 0 ELSE t + 1)
<1> DEFINE t1 == IF t = IdModulus - 1 THEN 0 ELSE t + 1
<1>1. PICK lag \in 0..(IdModulus - 1) :
        /\ i + lag = t \/ i + lag = t + IdModulus
        /\ age = lag \/ age >= IdModulus
  BY DEF Dated
<1>2. CASE lag = IdModulus - 1
  <2>1. /\ i + 0 = t1 \/ i + 0 = t1 + IdModulus
        /\ age1 = 0 \/ age1 >= IdModulus
    BY <1>1, <1>2, ModulusAssumption, AgeAssumption DEF Ids, Ages
  <2>2. 0 \in 0..(IdModulus - 1)
    BY ModulusAssumption
  <2> QED BY <2>1, <2>2 DEF Dated
<1>3. CASE lag # IdModulus - 1
  <2>1. lag + 1 \in 0..(IdModulus - 1)
    BY <1>1, <1>3, ModulusAssumption
  <2>2. /\ i + (lag + 1) = t1 \/ i + (lag + 1) = t1 + IdModulus
        /\ age1 = lag + 1 \/ age1 >= IdModulus
    BY <1>1, <1>3, ModulusAssumption, AgeAssumption DEF Ids, Ages
  <2> QED BY <2>1, <2>2 DEF Dated
<1> QED BY <1>2, <1>3

\* A datagram with the id of the request in progress is its own or ancient.
LEMMA SameIdIsOwn ==
  ASSUME NEW i \in Ids, NEW age \in Ages, Dated(i, age, i)
  PROVE  age = 0 \/ age >= IdModulus
BY ModulusAssumption DEF Dated, Ids, Ages

\* The request just made is dated.
LEMMA FreshDated ==
  ASSUME NEW t \in Ids
  PROVE  Dated(t, 0, t)
BY ModulusAssumption DEF Dated, Ids

LEMMA OlderFields ==
  ASSUME NEW d, d \in Requests \/ d \in Datagrams
  PROVE  /\ Older(d).tid = d.tid
         /\ Older(d).age = IF d.age = MaxAge THEN MaxAge ELSE d.age + 1
         /\ d \in Requests => Older(d) \in Requests
         /\ d \in Datagrams => Older(d) \in Datagrams
         /\ d.tid \in Ids /\ d.age \in Ages
BY AgeAssumption DEF Older, Requests, Datagrams, Ages

-----------------------------------------------------------------------------
LEMMA InitIInv == UdpInit => IInv
<1> SUFFICES ASSUME UdpInit PROVE IInv
  OBVIOUS
<1>1. 1 % IdModulus = IF 0 = IdModulus - 1 THEN 0 ELSE 1
  BY ModulusAssumption
<1>2. TypeOK
  <2>1. transaction_id_ \in Ids /\ tid \in Ids
    BY <1>1, ModulusAssumption DEF UdpInit, Ids
  <2>2. result \in [kind : Kinds, age : Ages]
    BY AgeAssumption DEF UdpInit, Returned, Kinds, Ages
  <2>3. fd_open \in BOOLEAN /\ waiting \in BOOLEAN /\ clean \in BOOLEAN
    BY Zenon DEF UdpInit
  <2>4. requests \subseteq Requests /\ answers \subseteq Datagrams /\ buffer \in Seq(Datagrams)
    BY DEF UdpInit
  <2>5. faults \in 0..MaxFaults
    BY FaultsAssumption DEF UdpInit
  <2> QED BY <2>1, <2>2, <2>3, <2>4, <2>5 DEF TypeOK
<1>3. IdsConsecutive
  BY <1>1 DEF UdpInit, IdsConsecutive
<1>4. DatagramsDated /\ OwnOrAncient
  BY DEF UdpInit, DatagramsDated, OwnOrAncient, Returned
<1> QED BY <1>2, <1>3, <1>4 DEF IInv

\* Taking an id ages everything under way by one request.
LEMMA TakeIdAges ==
  ASSUME IInv, TakeId
  PROVE  /\ tid' \in Ids /\ transaction_id_' \in Ids
         /\ IdsConsecutive'
         /\ answers' \subseteq Datagrams
         /\ buffer' \in Seq(Datagrams)
         /\ \A d \in answers' : Dated(d.tid, d.age, tid')
         /\ \A i \in DOMAIN buffer' : Dated(buffer'[i].tid, buffer'[i].age, tid')
         /\ \A r \in requests : /\ Older(r) \in Requests
                                /\ Dated(Older(r).tid, Older(r).age, tid')
<1>1. tid' = IF tid = IdModulus - 1 THEN 0 ELSE tid + 1
  BY DEF TakeId, IInv, IdsConsecutive
<1>2. tid' \in Ids /\ transaction_id_' \in Ids /\ IdsConsecutive'
  BY ModulusAssumption DEF TakeId, IInv, TypeOK, IdsConsecutive, NextId, Ids
<1>3. ASSUME NEW d \in Datagrams, Dated(d.tid, d.age, tid)
      PROVE  Older(d) \in Datagrams /\ Dated(Older(d).tid, Older(d).age, tid')
  <2>1. d.tid \in Ids /\ d.age \in Ages /\ tid \in Ids
    BY OlderFields DEF IInv, TypeOK
  <2> QED BY <1>1, <1>3, <2>1, OlderFields, OlderDated
<1>4. ASSUME NEW r \in requests
      PROVE  Older(r) \in Requests /\ Dated(Older(r).tid, Older(r).age, tid')
  <2>1. r \in Requests /\ Dated(r.tid, r.age, tid)
    BY DEF IInv, TypeOK, DatagramsDated
  <2>2. r.tid \in Ids /\ r.age \in Ages /\ tid \in Ids
    BY <2>1, OlderFields DEF IInv, TypeOK
  <2> QED BY <1>1, <2>1, <2>2, OlderFields, OlderDated
<1>5. answers' \subseteq Datagrams /\ \A d \in answers' : Dated(d.tid, d.age, tid')
  BY <1>3 DEF TakeId, IInv, TypeOK, DatagramsDated
<1>6. /\ buffer' \in Seq(Datagrams)
      /\ \A i \in DOMAIN buffer' : Dated(buffer'[i].tid, buffer'[i].age, tid')
  <2>1. \A i \in DOMAIN buffer : buffer[i] \in Datagrams
    BY DEF IInv, TypeOK
  <2>2. \A i \in DOMAIN buffer :
          /\ Older(buffer[i]) \in Datagrams
          /\ Dated(Older(buffer[i]).tid, Older(buffer[i]).age, tid')
    BY <1>3, <2>1 DEF IInv, DatagramsDated
  <2>3. DOMAIN buffer = 1..Len(buffer) /\ Len(buffer) \in Nat
    BY DEF IInv, TypeOK
  <2> QED BY <2>2, <2>3 DEF TakeId
<1> QED BY <1>2, <1>4, <1>5, <1>6

\* Every step keeps the datagrams dated.
LEMMA StepIInv == IInv /\ [UdpNext]_udpVars => IInv'
<1> SUFFICES ASSUME IInv, [UdpNext]_udpVars PROVE IInv'
  OBVIOUS
<1> USE DEF IInv
<1>1. CASE connect_ok \/ connect_fails \/ close
  <2>1. \/ result' = result
        \/ \E code \in Kinds \ {"answer"} : result' = Returned(code, 0)
    BY <1>1 DEF connect_ok, connect_fails, close, Kinds
  <2>2. UNCHANGED <<transaction_id_, tid, waiting, faults>> /\ Closed
    BY <1>1 DEF connect_ok, connect_fails, close
  <2>3. fd_open' \in BOOLEAN /\ clean' \in BOOLEAN
    BY <1>1, Zenon DEF connect_ok, connect_fails, close, TypeOK
  <2>4. result' \in [kind : Kinds, age : Ages] /\ OwnOrAncient'
    BY <2>1, AgeAssumption DEF TypeOK, OwnOrAncient, Returned, Ages
  <2>5. TypeOK'
    BY <2>2, <2>3, <2>4 DEF Closed, TypeOK
  <2> QED BY <2>2, <2>4, <2>5 DEF Closed, IdsConsecutive, DatagramsDated
<1>2. CASE transact_not_connected
  <2>1. result' \in [kind : Kinds, age : Ages] /\ OwnOrAncient'
    BY <1>2, AgeAssumption DEF transact_not_connected, OwnOrAncient, Returned, Kinds, Ages
  <2> QED BY <1>2, <2>1 DEF transact_not_connected, net, TypeOK, IdsConsecutive, DatagramsDated
<1>3. CASE transact_send
  <2>1. TakeId
    BY <1>3 DEF transact_send
  <2> DEFINE fresh == [tid |-> transaction_id_, age |-> 0]
  <2>2. fresh \in Requests /\ Dated(fresh.tid, fresh.age, tid')
    BY <2>1, FreshDated, AgeAssumption DEF TakeId, TypeOK, Requests, Ages
  <2>3. /\ requests' \subseteq Requests
        /\ \A r \in requests' : Dated(r.tid, r.age, tid')
    <3>1. requests' = {Older(r) : r \in requests} \cup {fresh}
      BY <1>3 DEF transact_send
    <3>2. \A r \in requests : /\ Older(r) \in Requests
                              /\ Dated(Older(r).tid, Older(r).age, tid')
      BY <2>1, TakeIdAges
    <3> HIDE DEF fresh
    <3> QED BY <2>2, <3>1, <3>2
  <2>4. TypeOK' /\ OwnOrAncient'
    BY <1>3, <2>1, <2>3, TakeIdAges DEF transact_send, TypeOK, OwnOrAncient
  <2> QED BY <2>1, <2>3, <2>4, TakeIdAges DEF DatagramsDated
<1>4. CASE transact_send_fails
  <2>1. TakeId
    BY <1>4 DEF transact_send_fails
  <2>2. /\ requests' \subseteq Requests
        /\ \A r \in requests' : Dated(r.tid, r.age, tid')
    BY <1>4, <2>1, TakeIdAges DEF transact_send_fails
  <2>3. TypeOK' /\ OwnOrAncient'
    BY <1>4, <2>1, <2>2, TakeIdAges, AgeAssumption, FaultsAssumption
    DEF transact_send_fails, TypeOK, OwnOrAncient, Returned, Kinds, Ages
  <2> QED BY <2>1, <2>2, <2>3, TakeIdAges DEF DatagramsDated
<1>5. CASE transact_recv
  <2> DEFINE d == Head(buffer)
  <2>1. /\ buffer # <<>> /\ buffer \in Seq(Datagrams)
        /\ d \in Datagrams /\ 1 \in DOMAIN buffer /\ d = buffer[1]
    BY <1>5 DEF transact_recv, TypeOK
  <2>2. d.tid \in Ids /\ d.age \in Ages /\ d.shape \in Shapes
    BY <2>1 DEF Datagrams
  <2>3. Dated(d.tid, d.age, tid)
    BY <2>1 DEF DatagramsDated
  <2>4. result' = Returned(Verdict(d), d.age)
    BY <1>5 DEF transact_recv, Returns
  <2>5. Verdict(d) \in Kinds /\ (Verdict(d) = "answer" => d.tid = tid)
    <3> HIDE DEF d
    <3> QED BY <2>2 DEF Verdict, Kinds, Shapes
  <2>6. OwnOrAncient' /\ result' \in [kind : Kinds, age : Ages]
    <3> HIDE DEF d
    <3>1. Verdict(d) = "answer" => d.age = 0 \/ d.age >= IdModulus
      BY <2>2, <2>3, <2>5, SameIdIsOwn
    <3> QED BY <2>2, <2>4, <2>5, <3>1 DEF OwnOrAncient, Returned
  <2>7. /\ buffer' \in Seq(Datagrams)
        /\ \A i \in DOMAIN buffer' : i + 1 \in DOMAIN buffer /\ buffer'[i] = buffer[i + 1]
    BY <1>5, <2>1 DEF transact_recv
  <2>8. TypeOK'
    BY <1>5, <2>6, <2>7, Zenon DEF transact_recv, Returns, TypeOK
  <2>9. DatagramsDated' /\ IdsConsecutive'
    BY <1>5, <2>7 DEF transact_recv, Returns, DatagramsDated, IdsConsecutive
  <2> QED BY <2>6, <2>8, <2>9
<1>6. CASE transact_timeout \/ transact_recv_fails
  <2>1. \E kind \in {"Timeout", "Connection"} : Returns(kind, 0)
    BY <1>6 DEF transact_timeout, transact_recv_fails
  <2>2. result' \in [kind : Kinds, age : Ages] /\ OwnOrAncient'
    BY <2>1, AgeAssumption DEF Returns, OwnOrAncient, Returned, Kinds, Ages
  <2>3. UNCHANGED <<fd_open, transaction_id_, tid, requests, answers>>
    BY <2>1 DEF Returns
  <2>4. waiting' \in BOOLEAN /\ clean' \in BOOLEAN
    BY <1>6, Zenon DEF transact_timeout, transact_recv_fails, Returns, TypeOK
  <2>5. faults' \in 0..MaxFaults /\ UNCHANGED buffer
    BY <1>6, FaultsAssumption DEF transact_timeout, transact_recv_fails, TypeOK
  <2>6. TypeOK'
    BY <2>2, <2>3, <2>4, <2>5 DEF TypeOK
  <2> QED BY <2>2, <2>3, <2>5, <2>6 DEF IdsConsecutive, DatagramsDated
<1>7. CASE DeviceAnswers
  <2>1. PICK r \in requests, shape \in Shapes \ {"malformed"} :
          /\ requests' = requests \ {r}
          /\ answers' = answers \cup {[tid |-> r.tid, age |-> r.age, shape |-> shape]}
          /\ UNCHANGED <<client, buffer, faults, clean>>
    BY <1>7 DEF DeviceAnswers
  <2> DEFINE d == [tid |-> r.tid, age |-> r.age, shape |-> shape]
  <2>2. d \in Datagrams /\ Dated(d.tid, d.age, tid)
    BY DEF TypeOK, DatagramsDated, Requests, Datagrams
  <2> HIDE DEF d
  <2> QED BY <2>1, <2>2 DEF d, client, TypeOK, IdsConsecutive, DatagramsDated, OwnOrAncient
<1>8. CASE Arrives \/ Duplicated
  <2>1. PICK d \in answers : buffer' = Append(buffer, d)
    BY <1>8 DEF Arrives, Duplicated
  <2>2. /\ buffer' \in Seq(Datagrams)
        /\ \A i \in DOMAIN buffer' :
             \/ i \in DOMAIN buffer /\ buffer'[i] = buffer[i]
             \/ buffer'[i] = d
    BY <2>1 DEF TypeOK
  <2>3. /\ answers' \subseteq answers
        /\ UNCHANGED <<client, requests>>
        /\ faults' \in 0..MaxFaults /\ clean' \in BOOLEAN
    <3>1. faults' \in 0..MaxFaults
      BY <1>8, FaultsAssumption DEF Arrives, Duplicated, Fault, TypeOK
    <3>2. clean' \in BOOLEAN
      BY <1>8, Zenon DEF Arrives, Duplicated, Fault, TypeOK
    <3> QED BY <1>8, <3>1, <3>2 DEF Arrives, Duplicated
  <2> QED BY <2>2, <2>3 DEF client, TypeOK, IdsConsecutive, DatagramsDated, OwnOrAncient
<1>9. CASE Lost
  <2>1. requests' \subseteq requests /\ answers' \subseteq answers
    BY <1>9 DEF Lost
  <2>2. faults' \in 0..MaxFaults
    BY <1>9, FaultsAssumption DEF Lost, Fault, TypeOK
  <2>3. clean' \in BOOLEAN
    BY <1>9, Zenon DEF Lost, Fault
  <2> QED BY <1>9, <2>1, <2>2, <2>3
          DEF Lost, client, TypeOK, IdsConsecutive, DatagramsDated, OwnOrAncient
<1>10. CASE Garbled
  <2>1. PICK d \in answers :
          answers' = (answers \ {d}) \cup {[d EXCEPT !.shape = "malformed"]}
    BY <1>10 DEF Garbled
  <2> DEFINE g == [d EXCEPT !.shape = "malformed"]
  <2>2. g \in Datagrams /\ g.tid = d.tid /\ g.age = d.age
    BY DEF TypeOK, Datagrams, Shapes
  <2> HIDE DEF g
  <2>3. /\ answers' \subseteq Datagrams
        /\ \A e \in answers' : Dated(e.tid, e.age, tid)
    BY <2>1, <2>2, Zenon DEF g, TypeOK, DatagramsDated
  <2>4. faults' \in 0..MaxFaults
    BY <1>10, FaultsAssumption DEF Garbled, Fault, TypeOK
  <2>5. clean' \in BOOLEAN
    BY <1>10, Zenon DEF Garbled, Fault
  <2> QED BY <1>10, <2>3, <2>4, <2>5
          DEF Garbled, client, TypeOK, IdsConsecutive, DatagramsDated, OwnOrAncient
<1>11. CASE UNCHANGED udpVars
  BY <1>11 DEF udpVars, TypeOK, IdsConsecutive, DatagramsDated, OwnOrAncient
<1> QED
  BY <1>1, <1>2, <1>3, <1>4, <1>5, <1>6, <1>7, <1>8, <1>9, <1>10, <1>11
  DEF UdpNext, Client

\* ModbusUdpTransport::transact returns a response only to the request it
\* answers, or to one made at least IdModulus requests later, whatever datagrams
\* are lost, late, duplicated or reordered.
THEOREM UdpAnswers == SafeSpec => []OwnOrAncient
<1>1. SafeSpec => []IInv
  BY InitIInv, StepIInv, PTL DEF SafeSpec
<1>2. IInv => OwnOrAncient
  BY DEF IInv
<1> QED BY <1>1, <1>2, PTL

\* The state of the transport and of the network stays well-formed; the
\* transaction id never leaves its width.
THEOREM UdpTypes == SafeSpec => []TypeOK
<1>1. SafeSpec => []IInv
  BY InitIInv, StepIInv, PTL DEF SafeSpec
<1>2. IInv => TypeOK
  BY DEF IInv
<1> QED BY <1>1, <1>2, PTL

-----------------------------------------------------------------------------
(* Without faults, one exchange at a time.                                 *)

AnswerNow(shape) == [tid |-> tid, age |-> 0, shape |-> shape]
WellShaped == Shapes \ {"malformed"}

\* The only datagram there is belongs to the request in progress.
OneUnderWay ==
  \/ requests = {[tid |-> tid, age |-> 0]} /\ answers = {} /\ buffer = <<>>
  \/ /\ requests = {} /\ buffer = <<>>
     /\ \E shape \in WellShaped : answers = {AnswerNow(shape)}
  \/ /\ requests = {} /\ answers = {}
     /\ \E shape \in WellShaped : buffer = <<AnswerNow(shape)>>

NothingUnderWay == requests = {} /\ answers = {} /\ buffer = <<>>

CInv ==
  clean =>
    /\ IF waiting THEN OneUnderWay ELSE NothingUnderWay
    /\ result.age = 0
    /\ result.kind # "Decoding"

LEMMA InitCInv == UdpInit => CInv
BY DEF UdpInit, CInv, NothingUnderWay, Returned

LEMMA StepCInv == TypeOK /\ CInv /\ [UdpNext]_udpVars => CInv'
<1> SUFFICES ASSUME TypeOK, CInv, [UdpNext]_udpVars, clean' PROVE CInv'
  BY DEF CInv
<1>1. CASE connect_ok \/ connect_fails \/ close
  <2>1. NothingUnderWay' /\ ~waiting'
    <3>1. NothingUnderWay'
      BY <1>1, Zenon DEF connect_ok, connect_fails, close, Closed, NothingUnderWay
    <3>2. ~waiting /\ waiting' = waiting
      BY <1>1, Zenon DEF connect_ok, connect_fails, close
    <3> QED BY <3>1, <3>2
  <2>2. \/ clean /\ result' = result
        \/ \E code \in {"ok", "Connection", "InvalidArgument"} : result' = Returned(code, 0)
    BY <1>1, Zenon DEF connect_ok, connect_fails, close
  <2> QED BY <2>1, <2>2 DEF CInv, Returned
<1>2. CASE transact_not_connected
  BY <1>2 DEF transact_not_connected, net, CInv, NothingUnderWay, Returned
<1>3. CASE transact_send
  <2>1. NothingUnderWay /\ clean /\ UNCHANGED result /\ waiting' /\ tid' = transaction_id_
    BY <1>3 DEF transact_send, TakeId, CInv
  <2>2. answers' = {} /\ buffer' = <<>>
    BY <1>3, <2>1 DEF transact_send, TakeId, NothingUnderWay
  <2>3. requests' = {[tid |-> tid', age |-> 0]}
    BY <1>3, <2>1 DEF transact_send, NothingUnderWay
  <2> QED BY <2>1, <2>2, <2>3 DEF CInv, OneUnderWay
<1>4. CASE transact_send_fails
  <2>1. NothingUnderWay /\ clean /\ ~waiting' /\ result' = Returned("Connection", 0)
    BY <1>4 DEF transact_send_fails, CInv
  <2>2. NothingUnderWay'
    BY <1>4, <2>1 DEF transact_send_fails, TakeId, NothingUnderWay
  <2> QED BY <2>1, <2>2 DEF CInv, Returned
<1>5. CASE transact_recv
  <2>1. OneUnderWay /\ buffer # <<>> /\ clean /\ ~waiting'
    BY <1>5 DEF transact_recv, Returns, CInv
  <2>2. PICK shape \in WellShaped : requests = {} /\ answers = {} /\ buffer = <<AnswerNow(shape)>>
    BY <2>1 DEF OneUnderWay
  <2>3. Head(buffer) = AnswerNow(shape) /\ Tail(buffer) = <<>>
    BY <2>2
  <2>4. NothingUnderWay'
    BY <1>5, <2>2, <2>3 DEF transact_recv, Returns, NothingUnderWay
  <2>5. /\ AnswerNow(shape).age = 0 /\ AnswerNow(shape).tid = tid
        /\ AnswerNow(shape).shape \in {"response", "exception"}
    BY DEF AnswerNow, WellShaped, Shapes
  <2>6. Verdict(AnswerNow(shape)) \in {"answer", "ModbusException"}
    BY <2>5 DEF Verdict
  <2>7. result' = Returned(Verdict(AnswerNow(shape)), 0)
    BY <1>5, <2>3, <2>5 DEF transact_recv, Returns
  <2> QED BY <2>1, <2>4, <2>6, <2>7 DEF CInv, Returned
<1>6. CASE transact_timeout \/ transact_recv_fails
  <2>1. waiting /\ clean /\ buffer = <<>> /\ requests = {} /\ answers = {}
    BY <1>6, Zenon DEF transact_timeout, transact_recv_fails, Returns
  <2>2. OneUnderWay
    BY <2>1 DEF CInv
  <2> QED BY <2>1, <2>2, Zenon DEF OneUnderWay
<1>7. CASE DeviceAnswers
  <2>1. PICK r \in requests, shape \in WellShaped :
          /\ requests' = requests \ {r}
          /\ answers' = answers \cup {[tid |-> r.tid, age |-> r.age, shape |-> shape]}
          /\ UNCHANGED <<client, buffer, faults, clean>>
    BY <1>7, Zenon DEF DeviceAnswers, WellShaped
  <2>2. /\ requests = {[tid |-> tid, age |-> 0]} /\ answers = {} /\ buffer = <<>>
        /\ waiting /\ clean
    BY <2>1 DEF CInv, OneUnderWay, NothingUnderWay
  <2>3. r.tid = tid /\ r.age = 0 /\ requests' = {}
    BY <2>1, <2>2
  <2>4. answers' = {AnswerNow(shape)}
    BY <2>1, <2>2, <2>3 DEF AnswerNow
  <2>5. OneUnderWay'
    BY <2>1, <2>2, <2>3, <2>4 DEF OneUnderWay, AnswerNow, client
  <2> QED BY <2>1, <2>2, <2>5 DEF CInv, client
<1>8. CASE Arrives
  <2>1. PICK d \in answers :
          /\ answers' = answers \ {d}
          /\ buffer' = Append(buffer, d)
          /\ UNCHANGED <<client, requests, faults, clean>>
    BY <1>8, Zenon DEF Arrives
  <2>2. PICK shape \in WellShaped :
          /\ requests = {} /\ buffer = <<>> /\ answers = {AnswerNow(shape)}
          /\ waiting /\ clean
    BY <2>1 DEF CInv, OneUnderWay, NothingUnderWay
  <2>3. answers' = {} /\ buffer' = <<AnswerNow(shape)>>
    BY <2>1, <2>2
  <2>4. OneUnderWay'
    BY <2>1, <2>2, <2>3 DEF OneUnderWay, AnswerNow, client
  <2> QED BY <2>1, <2>2, <2>4 DEF CInv, client
<1>9. CASE Lost \/ Duplicated \/ Garbled
  BY <1>9 DEF Lost, Duplicated, Garbled, Fault
<1>10. CASE UNCHANGED udpVars
  BY <1>10 DEF udpVars, CInv, OneUnderWay, NothingUnderWay, AnswerNow
<1> QED BY <1>1, <1>2, <1>3, <1>4, <1>5, <1>6, <1>7, <1>8, <1>9, <1>10 DEF UdpNext, Client

\* While no datagram has been lost, late, duplicated or garbled since the socket
\* was opened, each recv() takes the answer of its own request and leaves nothing
\* behind: the id check can only fail after a fault.
THEOREM UdpInSync == SafeSpec => []CleanIsInSync
<1>1. SafeSpec => []CInv
  BY UdpTypes, InitCInv, StepCInv, PTL DEF SafeSpec
<1>2. CInv => CleanIsInSync
  BY DEF CInv, CleanIsInSync, NothingUnderWay
<1> QED BY <1>1, <1>2, PTL
\* transact() accepts the response to its own request, or after id wrap-around
\* one that is a whole round old; and as long as the network drops, repeats,
\* delays and garbles nothing, nothing is left in the socket between requests.
THEOREM UdpAnswersMatch == SafeSpec => []AnswersMatch
BY UdpAnswers, UdpInSync, PTL DEF AnswersMatch
=============================================================================

---------------------------- MODULE UdpTransport ----------------------------
(***************************************************************************)
(* ModbusUdpTransport: one request per datagram, one recv per request, and *)
(* a 16-bit transaction id that tells answers apart.  The network may lose,*)
(* delay, duplicate and reorder datagrams.                                 *)
(*                                                                         *)
(* A datagram carries its transaction id and, as history, its age: how     *)
(* many requests have been made since the one it belongs to.               *)
(***************************************************************************)
EXTENDS Naturals, Sequences

CONSTANTS
  IdModulus,   \* 2^16 in the code: transaction_id_ is a uint16_t
  MaxAge,      \* bound: ages are counted up to here
  MaxFaults    \* bound: timeouts before the answer, duplicates, losses, errors

ASSUME ModulusAssumption == IdModulus \in Nat /\ IdModulus > 0
ASSUME AgeAssumption == MaxAge \in Nat /\ MaxAge >= IdModulus
ASSUME FaultsAssumption == MaxFaults \in Nat

VARIABLES
  fd_open,          \* fd_ >= 0
  transaction_id_,  \* the id of the next request
  tid,              \* the id of the request in progress, or of the last one
  waiting,          \* transact() is in recv()
  result,           \* what the last operation returned
  requests,         \* datagrams on their way to the device
  answers,          \* datagrams on their way back
  buffer,           \* datagrams received by the socket
  faults,           \* faults so far
  clean             \* no fault since the socket was opened

udpVars == <<fd_open, transaction_id_, tid, waiting, result, requests, answers,
             buffer, faults, clean>>
net == <<requests, answers, buffer>>

Ids == 0..(IdModulus - 1)
Ages == 0..MaxAge
Requests == [tid : Ids, age : Ages]
\* An answer is a response, an exception response or not a frame at all.
Shapes == {"response", "exception", "malformed"}
Datagrams == [tid : Ids, age : Ages, shape : Shapes]
Returned(kind, age) == [kind |-> kind, age |-> age]
Kinds == {"none", "ok", "answer", "Timeout", "Connection", "Decoding",
          "ModbusException", "InvalidArgument"}

TypeOK ==
  /\ fd_open \in BOOLEAN
  /\ transaction_id_ \in Ids
  /\ tid \in Ids
  /\ waiting \in BOOLEAN
  /\ result \in [kind : Kinds, age : Ages]
  /\ requests \subseteq Requests
  /\ answers \subseteq Datagrams
  /\ buffer \in Seq(Datagrams)
  /\ faults \in 0..MaxFaults
  /\ clean \in BOOLEAN

UdpInit ==
  /\ fd_open = FALSE
  /\ transaction_id_ = 1 % IdModulus
  /\ tid = 0
  /\ waiting = FALSE
  /\ result = Returned("none", 0)
  /\ requests = {}
  /\ answers = {}
  /\ buffer = <<>>
  /\ faults = 0
  /\ clean = TRUE

-----------------------------------------------------------------------------
(* connect() and close().  A new socket has a new port: what was sent to   *)
(* the old one does not reach it.                                          *)

Closed ==
  /\ requests' = {}
  /\ answers' = {}
  /\ buffer' = <<>>

connect_ok ==
  /\ ~waiting /\ ~fd_open
  /\ fd_open' = TRUE
  /\ Closed
  /\ result' = Returned("ok", 0)
  /\ clean' = TRUE
  /\ UNCHANGED <<transaction_id_, tid, waiting, faults>>

connect_fails ==
  /\ ~waiting /\ ~fd_open
  /\ fd_open' = FALSE
  /\ Closed
  /\ \E code \in {"Connection", "InvalidArgument"} : result' = Returned(code, 0)
  /\ UNCHANGED <<transaction_id_, tid, waiting, faults, clean>>

close ==
  /\ ~waiting /\ fd_open
  /\ fd_open' = FALSE
  /\ Closed
  /\ UNCHANGED <<transaction_id_, tid, waiting, result, faults, clean>>

-----------------------------------------------------------------------------
(* transact().                                                             *)

Older(d) == [d EXCEPT !.age = IF @ = MaxAge THEN MaxAge ELSE @ + 1]

NextId == IF transaction_id_ = IdModulus - 1 THEN 0 ELSE transaction_id_ + 1

transact_not_connected ==
  /\ ~waiting /\ ~fd_open
  /\ result' = Returned("Connection", 0)
  /\ UNCHANGED <<fd_open, transaction_id_, tid, waiting, net, faults, clean>>

TakeId ==
  /\ tid' = transaction_id_
  /\ transaction_id_' = NextId
  /\ answers' = {Older(d) : d \in answers}
  /\ buffer' = [i \in DOMAIN buffer |-> Older(buffer[i])]

transact_send ==
  /\ ~waiting /\ fd_open
  /\ TakeId
  /\ requests' = {Older(r) : r \in requests} \cup {[tid |-> transaction_id_, age |-> 0]}
  /\ waiting' = TRUE
  /\ UNCHANGED <<fd_open, result, faults, clean>>

transact_send_fails ==
  /\ ~waiting /\ fd_open
  /\ faults < MaxFaults
  /\ faults' = faults + 1
  /\ TakeId
  /\ requests' = {Older(r) : r \in requests}
  /\ result' = Returned("Connection", 0)
  /\ UNCHANGED <<fd_open, waiting, clean>>

Returns(kind, age) ==
  /\ waiting
  /\ waiting' = FALSE
  /\ result' = Returned(kind, age)
  /\ UNCHANGED <<fd_open, transaction_id_, tid, requests, answers>>

VerdictUnchecked(d) ==
  CASE d.shape = "malformed" -> "Decoding"
    [] d.shape = "exception" -> "ModbusException"
    [] d.shape = "response" -> "answer"

\* recv() takes one datagram.  unpack_adu refuses a malformed one and an
\* exception before the transaction id is looked at.
Verdict(d) ==
  CASE d.shape = "malformed" -> "Decoding"
    [] d.shape = "exception" -> "ModbusException"
    [] d.shape = "response" /\ d.tid # tid -> "Decoding"
    [] d.shape = "response" /\ d.tid = tid -> "answer"

transact_recv ==
  /\ buffer # <<>>
  /\ Returns(Verdict(Head(buffer)), Head(buffer).age)
  /\ buffer' = Tail(buffer)
  /\ UNCHANGED <<faults, clean>>

\* SO_RCVTIMEO: nothing has arrived, because it is late or because there is
\* nothing left to arrive.
transact_timeout ==
  /\ buffer = <<>>
  /\ Returns("Timeout", 0)
  /\ IF requests = {} /\ answers = {}
     THEN UNCHANGED <<faults, clean>>
     ELSE faults < MaxFaults /\ faults' = faults + 1 /\ clean' = FALSE
  /\ UNCHANGED buffer

\* Any other error of recv(), such as a refused port.
transact_recv_fails ==
  /\ faults < MaxFaults
  /\ faults' = faults + 1
  /\ clean' = FALSE
  /\ Returns("Connection", 0)
  /\ UNCHANGED buffer

-----------------------------------------------------------------------------
(* The network and the device.                                             *)

client == <<fd_open, transaction_id_, tid, waiting, result>>

DeviceAnswers ==
  \E r \in requests, shape \in Shapes \ {"malformed"} :
    /\ requests' = requests \ {r}
    /\ answers' = answers \cup {[tid |-> r.tid, age |-> r.age, shape |-> shape]}
    /\ UNCHANGED <<client, buffer, faults, clean>>

Arrives ==
  \E d \in answers :
    /\ answers' = answers \ {d}
    /\ buffer' = Append(buffer, d)
    /\ UNCHANGED <<client, requests, faults, clean>>

Fault ==
  /\ faults < MaxFaults
  /\ faults' = faults + 1
  /\ clean' = FALSE

Lost ==
  /\ \/ \E r \in requests : requests' = requests \ {r} /\ UNCHANGED answers
     \/ \E d \in answers : answers' = answers \ {d} /\ UNCHANGED requests
  /\ Fault
  /\ UNCHANGED <<client, buffer>>

Duplicated ==
  /\ \E d \in answers : buffer' = Append(buffer, d)
  /\ Fault
  /\ UNCHANGED <<client, requests, answers>>

Garbled ==
  /\ \E d \in answers :
       answers' = (answers \ {d}) \cup {[d EXCEPT !.shape = "malformed"]}
  /\ Fault
  /\ UNCHANGED <<client, requests, buffer>>

-----------------------------------------------------------------------------
Client ==
  \/ transact_send \/ transact_send_fails
  \/ transact_recv \/ transact_timeout \/ transact_recv_fails

UdpNext ==
  \/ connect_ok \/ connect_fails \/ close \/ transact_not_connected
  \/ Client
  \/ DeviceAnswers \/ Arrives \/ Lost \/ Duplicated \/ Garbled

SafeSpec == UdpInit /\ [][UdpNext]_udpVars

-----------------------------------------------------------------------------
(* Properties.                                                             *)

\* A response is accepted only for the request in progress, or for one that is
\* so old that the 16-bit id has come round: the id check in transact().
OwnOrAncient ==
  result.kind = "answer" => result.age = 0 \/ result.age >= IdModulus

\* As long as nothing was lost, late, duplicated or garbled since the socket was
\* opened, what recv() takes belongs to the request in progress: nothing is left
\* in the socket for the next request.
CleanIsInSync ==
  clean =>
    /\ (~waiting => buffer = <<>> /\ answers = {} /\ requests = {})
    /\ result.age = 0
    /\ result.kind # "Decoding"

\* What transact() hands to its caller: never a recent stranger's response,
\* and without network faults always the own one.
AnswersMatch == OwnOrAncient /\ CleanIsInSync
=============================================================================

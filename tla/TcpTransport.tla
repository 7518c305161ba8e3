---------------------------- MODULE TcpTransport ----------------------------
(***************************************************************************)
(* ModbusTcpTransport: one socket, one worker thread that runs the         *)
(* handlers of the transport's strand in order, a deadline per operation,  *)
(* and a transaction made of a write, the read of a header and the read of *)
(* a body.                                                                 *)
(*                                                                         *)
(* Callers are the parties that may have an operation of their own in      *)
(* progress: one for a transport used by nobody else, two when the flush   *)
(* posted by a client write runs while the read of a poll is on the wire.  *)
(* A frame is two cells of the byte stream, its header and its body; a     *)
(* read takes the next cell whatever it is.                                *)
(***************************************************************************)
EXTENDS Naturals, Sequences, FiniteSets

CONSTANTS
  Callers,
  Closers,       \* those of them that call close()
  MaxOps,        \* bound: operations of a behaviour
  MaxMalformed   \* bound: headers with a bad length that the device sends

VARIABLES
  phase,       \* what each caller's operation waits for; "idle" when none
  serial,      \* the number of each caller's last operation
  result,      \* what the completion of that operation was given
  armed,       \* the deadline of the operation has not fired
  issued,      \* operations so far
  connected,   \* Impl::connected
  is_open,     \* the socket is open
  worker,      \* the worker thread runs
  strand,      \* handlers that are ready, in order
  waiting,     \* callers with an operation pending on the socket, in order
  stream,      \* cells received and not read
  requests,    \* requests the device has received and not answered in full
  half,        \* the header of the first of them has been sent
  peer_open,   \* the device has not closed the connection
  malformed    \* bad headers so far

socket == <<is_open, waiting, stream, requests, half, peer_open>>
vars == <<phase, serial, result, armed, issued, connected, socket, worker,
          strand, malformed>>

Parts == {"header", "body", "bad"}
NoCell == [part |-> "none", op |-> 0]
Cells == [part : Parts \cup {"none"}, op : 0..MaxOps]
Failures == {"Timeout", "Connection", "Decoding", "ModbusException", "InvalidArgument"}
Nothing == [kind |-> "none", header |-> 0, body |-> 0]
Failed(code) == [kind |-> code, header |-> 0, body |-> 0]
Succeeded == [kind |-> "ok", header |-> 0, body |-> 0]
Answer(h, b) == [kind |-> "answer", header |-> h, body |-> b]

Phases == {"idle", "connect", "connecting", "start", "writing", "header", "body",
           "close", "stopping"}
Codes == {"ok", "aborted", "error", "eof"}

Handler(c, ec, cell) ==
  [caller |-> c, op |-> serial[c], deadline |-> FALSE, ec |-> ec, cell |-> cell]
DeadlineHandler(c) == [Handler(c, "ok", NoCell) EXCEPT !.deadline = TRUE]

Handlers ==
  [caller : Callers, op : 0..MaxOps, deadline : BOOLEAN, ec : Codes, cell : Cells]
Results ==
  [kind : Failures \cup {"none", "ok", "answer"}, header : 0..MaxOps, body : 0..MaxOps]

is_connected == connected /\ is_open

TypeOK ==
  /\ phase \in [Callers -> Phases]
  /\ serial \in [Callers -> 0..MaxOps]
  /\ result \in [Callers -> Results]
  /\ armed \in [Callers -> BOOLEAN]
  /\ issued \in 0..MaxOps
  /\ {connected, is_open, worker, half, peer_open} \subseteq BOOLEAN
  /\ strand \in Seq(Handlers)
  /\ waiting \in Seq(Callers)
  /\ stream \in Seq(Cells)
  /\ requests \in Seq(0..MaxOps)
  /\ malformed \in 0..MaxMalformed

Init ==
  /\ phase = [c \in Callers |-> "idle"]
  /\ serial = [c \in Callers |-> 0]
  /\ result = [c \in Callers |-> Nothing]
  /\ armed = [c \in Callers |-> FALSE]
  /\ issued = 0
  /\ connected = FALSE
  /\ is_open = FALSE
  /\ worker = FALSE
  /\ strand = <<>>
  /\ waiting = <<>>
  /\ stream = <<>>
  /\ requests = <<>>
  /\ half = FALSE
  /\ peer_open = FALSE
  /\ malformed = 0

-----------------------------------------------------------------------------
(* The socket.                                                             *)

AbortsLost == <<>>

\* What cancel() and close() make of the pending operations.
Aborts == [i \in DOMAIN waiting |-> Handler(waiting[i], "aborted", NoCell)]

\* The socket is closed; nothing more arrives on its connection.
Closed ==
  /\ is_open' = FALSE
  /\ waiting' = <<>>
  /\ stream' = <<>>
  /\ requests' = <<>>
  /\ half' = FALSE
  /\ peer_open' = FALSE

\* The handlers that remain once the first has run.
Rest == Tail(strand)

Runs(c, p) ==
  /\ worker
  /\ strand # <<>>
  /\ Head(strand).caller = c
  /\ ~Head(strand).deadline
  /\ phase[c] = p

Code == Head(strand).ec
Cell == Head(strand).cell

-----------------------------------------------------------------------------
(* Calls: each posts its first handler, starting the worker if need be.    *)
(* The blocking connect() and transact() post the same handlers and wait   *)
(* for the completion; a caller has one operation in progress either way.  *)

ensure_worker == worker' = TRUE

Call(c, p) ==
  /\ phase[c] = "idle"
  /\ issued < MaxOps
  /\ issued' = issued + 1
  /\ serial' = [serial EXCEPT ![c] = issued']
  /\ result' = [result EXCEPT ![c] = Nothing]
  /\ phase' = [phase EXCEPT ![c] = p]

Posted(c) ==
  strand' = Append(strand, [Handler(c, "ok", NoCell) EXCEPT !.op = serial'[c]])

async_connect(c) ==
  /\ Call(c, "connect")
  /\ Posted(c)
  /\ ensure_worker
  /\ UNCHANGED <<armed, connected, socket, malformed>>

async_transact(c) ==
  /\ Call(c, "start")
  /\ Posted(c)
  /\ ensure_worker
  /\ UNCHANGED <<armed, connected, socket, malformed>>

\* close() posts to a running worker and waits, or closes the socket itself.
close(c) ==
  /\ c \in Closers
  /\ IF worker
     THEN /\ Call(c, "close")
          /\ Posted(c)
          /\ UNCHANGED <<connected, socket>>
     ELSE /\ Call(c, "stopping")
          /\ connected' = FALSE
          /\ Closed
          /\ strand' = strand \o Aborts
  /\ UNCHANGED <<armed, worker, malformed>>

-----------------------------------------------------------------------------
(* Completion.                                                             *)

Complete(c, r) ==
  /\ phase' = [phase EXCEPT ![c] = "idle"]
  /\ result' = [result EXCEPT ![c] = r]
  /\ armed' = [armed EXCEPT ![c] = FALSE]
  /\ UNCHANGED <<serial, issued, worker, malformed>>

\* mark_disconnected
mark_disconnected ==
  /\ connected' = FALSE
  /\ Closed
  /\ strand' = Rest \o Aborts

finish_keeping_timed_out(c, r) ==
  /\ Complete(c, r)
  /\ IF r.kind = "Connection"
     THEN mark_disconnected
     ELSE strand' = Rest /\ UNCHANGED <<connected, socket>>

\* finish: a timeout or a connection error also drops the connection.
finish(c, r) ==
  /\ Complete(c, r)
  /\ IF r.kind \in {"Timeout", "Connection"}
     THEN mark_disconnected
     ELSE strand' = Rest /\ UNCHANGED <<connected, socket>>

FailedBy(ec) == Failed(IF ec = "aborted" THEN "Timeout" ELSE "Connection")

Proceed(c, p) ==
  /\ phase' = [phase EXCEPT ![c] = p]
  /\ UNCHANGED <<serial, result, issued, connected, worker, malformed>>

\* An operation on an open socket is pending; on a closed one it fails at once.
Await(c) ==
  IF is_open
  THEN /\ waiting' = Append(waiting, c)
       /\ strand' = Rest
  ELSE /\ strand' = Append(Rest, Handler(c, "error", NoCell))
       /\ UNCHANGED waiting

-----------------------------------------------------------------------------
(* Handlers of the strand.                                                 *)

do_connect(c) ==
  /\ Runs(c, "connect")
  /\ connected' = FALSE
  /\ is_open' = TRUE
  /\ waiting' = <<c>>
  /\ stream' = <<>>
  /\ requests' = <<>>
  /\ half' = FALSE
  /\ peer_open' = FALSE
  /\ strand' = Rest \o Aborts
  /\ phase' = [phase EXCEPT ![c] = "connecting"]
  /\ armed' = [armed EXCEPT ![c] = TRUE]
  /\ UNCHANGED <<serial, result, issued, worker, malformed>>

resolve_failed(c) ==
  /\ Runs(c, "connect")
  /\ connected' = FALSE
  /\ Closed
  /\ strand' = Rest \o Aborts
  /\ Complete(c, Failed("InvalidArgument"))

on_connect(c) ==
  /\ Runs(c, "connecting")
  /\ \/ /\ Code = "ok"
        /\ connected' = TRUE
        /\ strand' = Rest
        /\ Complete(c, Succeeded)
        /\ UNCHANGED socket
     \/ /\ Code # "ok"
        /\ mark_disconnected
        /\ Complete(c, FailedBy(Code))

do_transact(c) ==
  /\ Runs(c, "start")
  /\ \/ /\ ~is_connected
        /\ strand' = Rest
        /\ Complete(c, Failed("Connection"))
        /\ UNCHANGED <<connected, socket>>
     \/ /\ is_connected
        /\ Proceed(c, "writing")
        /\ armed' = [armed EXCEPT ![c] = TRUE]
        /\ Await(c)
        /\ UNCHANGED <<is_open, stream, requests, half, peer_open>>

on_write(c) ==
  /\ Runs(c, "writing")
  /\ \/ /\ Code = "ok"
        /\ Proceed(c, "header")
        /\ Await(c)
        /\ UNCHANGED <<armed, is_open, stream, requests, half, peer_open>>
     \/ /\ Code # "ok"
        /\ finish(c, FailedBy(Code))

\* Only the length field is looked at.  A cell that is not a header has bytes
\* in its place that are a length or are not.
GoodLength == Cell.part # "bad"
BadLength == Cell.part # "header"

\* The number of the frame whose header was read is kept with the operation.
on_header(c) ==
  /\ Runs(c, "header")
  /\ \/ /\ Code # "ok"
        /\ finish(c, FailedBy(Code))
     \/ /\ Code = "ok" /\ BadLength
        /\ finish(c, Failed("Decoding"))
     \/ /\ Code = "ok" /\ GoodLength
        /\ phase' = [phase EXCEPT ![c] = "body"]
        /\ result' = [result EXCEPT ![c].header = Cell.op]
        /\ Await(c)
        /\ UNCHANGED <<serial, armed, issued, connected, worker, malformed,
                       is_open, stream, requests, half, peer_open>>

on_body(c) ==
  /\ Runs(c, "body")
  /\ \/ /\ Code # "ok"
        /\ finish(c, FailedBy(Code))
     \/ /\ Code = "ok"
        /\ \/ finish(c, Failed("ModbusException"))
           \/ finish(c, Answer(result[c].header, Cell.op))

RunsDeadline(c) ==
  /\ worker
  /\ strand # <<>>
  /\ Head(strand).caller = c
  /\ Head(strand).deadline

Finished(c) == phase[c] = "idle" \/ serial[c] # Head(strand).op

on_deadline_once_more(c) ==
  /\ RunsDeadline(c)
  /\ strand' = IF Finished(c) THEN Rest ELSE Rest \o Aborts
  /\ UNCHANGED <<phase, serial, result, armed, issued, connected, worker,
                 malformed, socket>>

\* The deadline cancels what is pending on the socket, unless finished.
on_deadline(c) ==
  /\ RunsDeadline(c)
  /\ IF Finished(c)
     THEN strand' = Rest /\ UNCHANGED waiting
     ELSE strand' = Rest \o Aborts /\ waiting' = <<>>
  /\ UNCHANGED <<phase, serial, result, armed, issued, connected, worker,
                 malformed, is_open, stream, requests, half, peer_open>>

do_close(c) ==
  /\ Runs(c, "close")
  /\ mark_disconnected
  /\ phase' = [phase EXCEPT ![c] = "stopping"]
  /\ UNCHANGED <<serial, result, armed, issued, worker, malformed>>

\* The worker is stopped and joined; handlers that are left wait for the next.
stop_worker(c) ==
  /\ phase[c] = "stopping"
  /\ worker' = FALSE
  /\ phase' = [phase EXCEPT ![c] = "idle"]
  /\ result' = [result EXCEPT ![c] = Succeeded]
  /\ UNCHANGED <<serial, armed, issued, connected, socket, strand, malformed>>

-----------------------------------------------------------------------------
(* The network, the device and the clock.                                  *)

network == <<phase, serial, result, issued, connected, worker, malformed>>

Without(i) ==
  [j \in 1..(Len(waiting) - 1) |-> IF j < i THEN waiting[j] ELSE waiting[j + 1]]

\* What the caller has pending on the socket is done.
Ready(c, ec, cell) ==
  /\ strand' = Append(strand, Handler(c, ec, cell))
  /\ \E i \in DOMAIN waiting : waiting[i] = c /\ waiting' = Without(i)

Pending(c, p) == phase[c] = p /\ \E i \in DOMAIN waiting : waiting[i] = c

Established(c) ==
  /\ Pending(c, "connecting")
  /\ Ready(c, "ok", NoCell)
  /\ peer_open' = TRUE
  /\ UNCHANGED <<network, armed, is_open, stream, requests, half>>

Refused(c) ==
  /\ Pending(c, "connecting")
  /\ Ready(c, "error", NoCell)
  /\ UNCHANGED <<network, armed, is_open, stream, requests, half, peer_open>>

Sent(c) ==
  /\ Pending(c, "writing")
  /\ \/ /\ peer_open
        /\ Ready(c, "ok", NoCell)
        /\ requests' = Append(requests, serial[c])
     \/ /\ ~peer_open
        /\ Ready(c, "error", NoCell)
        /\ UNCHANGED requests
  /\ UNCHANGED <<network, armed, is_open, stream, half, peer_open>>

\* The reads pending on the socket are served in the order they were started.
FirstReader(c) ==
  \E i \in DOMAIN waiting :
    /\ waiting[i] = c
    /\ phase[c] \in {"header", "body"}
    /\ \A j \in 1..(i - 1) : phase[waiting[j]] \notin {"header", "body"}

Received(c) ==
  /\ FirstReader(c)
  /\ \/ /\ stream # <<>>
        /\ Ready(c, "ok", Head(stream))
        /\ stream' = Tail(stream)
     \/ /\ stream = <<>> /\ ~peer_open
        /\ Ready(c, "eof", NoCell)
        /\ UNCHANGED stream
  /\ UNCHANGED <<network, armed, is_open, requests, half, peer_open>>

\* The device answers in order, the header of a frame and then its body.
DeviceSendsHeader ==
  /\ peer_open /\ requests # <<>> /\ ~half
  /\ half' = TRUE
  /\ stream' = Append(stream, [part |-> "header", op |-> Head(requests)])
  /\ UNCHANGED <<network, armed, strand, is_open, waiting, requests, peer_open>>

DeviceSendsBadHeader ==
  /\ peer_open /\ requests # <<>> /\ ~half
  /\ malformed < MaxMalformed
  /\ malformed' = malformed + 1
  /\ half' = TRUE
  /\ stream' = Append(stream, [part |-> "bad", op |-> Head(requests)])
  /\ UNCHANGED <<phase, serial, result, issued, connected, worker, armed, strand,
                 is_open, waiting, requests, peer_open>>

DeviceSendsBody ==
  /\ peer_open /\ requests # <<>> /\ half
  /\ half' = FALSE
  /\ stream' = Append(stream, [part |-> "body", op |-> Head(requests)])
  /\ requests' = Tail(requests)
  /\ UNCHANGED <<network, armed, strand, is_open, waiting, peer_open>>

DeviceCloses ==
  /\ peer_open
  /\ peer_open' = FALSE
  /\ requests' = <<>>
  /\ half' = FALSE
  /\ UNCHANGED <<network, armed, strand, is_open, waiting, stream>>

Expires(c) ==
  /\ armed[c]
  /\ armed' = [armed EXCEPT ![c] = FALSE]
  /\ strand' = Append(strand, DeadlineHandler(c))
  /\ UNCHANGED <<network, socket>>

-----------------------------------------------------------------------------
Worker(c) ==
  \/ do_connect(c) \/ resolve_failed(c) \/ on_connect(c)
  \/ do_transact(c) \/ on_write(c) \/ on_header(c) \/ on_body(c)
  \/ on_deadline(c) \/ do_close(c)

Network(c) == Established(c) \/ Refused(c) \/ Sent(c) \/ Received(c)

Device ==
  DeviceSendsHeader \/ DeviceSendsBadHeader \/ DeviceSendsBody \/ DeviceCloses

Next ==
  \/ \E c \in Callers :
       \/ async_connect(c) \/ async_transact(c) \/ close(c)
       \/ Worker(c) \/ stop_worker(c) \/ Network(c) \/ Expires(c)
  \/ Device

Spec == Init /\ [][Next]_vars

\* The worker runs what is ready, the reactor notices what has happened and the
\* timers fire.  Nothing is assumed of the device.
Fairness ==
  \A c \in Callers :
    /\ WF_vars(Worker(c))
    /\ WF_vars(stop_worker(c))
    /\ WF_vars(Sent(c))
    /\ WF_vars(Received(c))
    /\ WF_vars(Expires(c))

FairSpec == Spec /\ Fairness

-----------------------------------------------------------------------------
(* Properties.                                                             *)

\* The completion of a transaction is given the answer to its own request:
\* async_transact pairs answers with requests by position in the stream alone
\* and never looks at the transaction id.
OwnAnswer ==
  \A c \in Callers :
    result[c].kind = "answer" =>
      result[c].header = serial[c] /\ result[c].body = serial[c]

\* Between operations a usable connection holds no byte and no request of an
\* earlier operation: every way out of a transaction that leaves an answer
\* behind drops the connection.
InSync ==
  (\A c \in Callers : phase[c] \in {"idle", "connect", "start"}) /\ is_connected =>
    stream = <<>> /\ requests = <<>> /\ waiting = <<>>

\* An operation in progress has exactly one continuation, pending on the socket
\* or ready in the strand, and a finished one has none: whatever order aborts,
\* deadlines and completions are queued in, an operation is neither lost nor
\* completed twice.
Continuations(c) ==
  Cardinality({i \in DOMAIN waiting : waiting[i] = c}) +
  Cardinality({i \in DOMAIN strand : strand[i].caller = c /\ ~strand[i].deadline})

OneContinuation ==
  \A c \in Callers :
    Continuations(c) = IF phase[c] \in {"idle", "stopping"} THEN 0 ELSE 1

\* A connection attempt that is pending on the socket has a deadline ahead of
\* it, armed or ready to run.  (A transaction has not: its deadline may run
\* between two of its reads.)
ConnectHasDeadline ==
  \A c \in Callers :
    Pending(c, "connecting") =>
      \/ armed[c]
      \/ \E i \in DOMAIN strand :
           strand[i].caller = c /\ strand[i].deadline /\ strand[i].op = serial[c]

\* Only one caller has used the transport.
OneUser == \E c \in Callers : \A d \in Callers : d # c => serial[d] = 0

\* However operations, aborts, deadlines and closes of the callers overlap, an
\* operation has one continuation and an attempt its deadline; and with a single
\* caller and no bad header answers belong to their requests and the connection
\* is left clean.
TcpOrderly ==
  /\ OneContinuation
  /\ ConnectHasDeadline
  /\ OneUser /\ malformed = 0 => InSync /\ OwnAnswer

\* Every operation completes, whatever the device does: a transaction that is
\* not answered in time ends as Timeout.
Completes ==
  \A c \in Callers : []<>(phase[c] = "idle")

\* A read waits for a device that keeps the connection and sends nothing, and
\* the deadline of its transaction has already run, while no step of it was
\* pending: nothing of the transport ends this wait.
Stranded(c) ==
  /\ Pending(c, "header") \/ Pending(c, "body")
  /\ ~armed[c]
  /\ \A i \in DOMAIN strand :
       ~(strand[i].caller = c /\ strand[i].deadline /\ strand[i].op = serial[c])
  /\ peer_open /\ stream = <<>>

\* Every operation completes, unless its read is stranded; one whose connection
\* another operation closes and one whose peer closes complete as well.
EndsOrStranded ==
  \A c \in Callers : []<>(phase[c] = "idle" \/ Stranded(c))

\* The operation that a caller of the port has in progress.
Operation(p) ==
  CASE p \in {"connect", "connecting"} -> "connect"
    [] p \in {"start", "writing", "header", "body"} -> "transact"
    [] p \in {"close", "stopping"} -> "close"
    [] p = "idle" -> "idle"
=============================================================================

---------------------------- MODULE MCTransports ----------------------------
(***************************************************************************)
(* The two transports side by side.  In a behaviour one of them is used,   *)
(* the other rests: UDP, with a transaction id that comes round after a    *)
(* few requests; TCP by a poll that connects, reads and closes alone; TCP  *)
(* by a poll and by the flush of a client write that overlap, with a       *)
(* device that may send a header with a bad length.                        *)
(***************************************************************************)
EXTENDS UdpTransport

CONSTANTS poll, flush

VARIABLES
  used,    \* "udp", "alone" or "overlap"
  phase, serial, completion, armed, issued, connected, is_open, tcp_worker, strand,
  pending, stream, received, half, peer_open, malformed    \* of TcpTransport

tcpVars == <<phase, serial, completion, armed, issued, connected, is_open, tcp_worker, strand,
             pending, stream, received, half, peer_open, malformed>>

Callers == {poll, flush}

Alone == INSTANCE TcpTransport WITH
  Closers <- {poll}, MaxOps <- 6, MaxMalformed <- 0,
  result <- completion, worker <- tcp_worker, waiting <- pending, requests <- received
Overlap == INSTANCE TcpTransport WITH
  Closers <- {}, MaxOps <- 3, MaxMalformed <- 1,
  result <- completion, worker <- tcp_worker, waiting <- pending, requests <- received

transportVars == <<used, udpVars, tcpVars>>

TransportsInit == used \in {"udp", "alone", "overlap"} /\ UdpInit /\ Alone!Init

TransportsNext ==
  /\ UNCHANGED used
  /\ \/ used = "udp" /\ UdpNext /\ UNCHANGED tcpVars
     \/ used = "alone" /\ Alone!Next /\ phase'[flush] = "idle" /\ UNCHANGED udpVars
     \/ used = "overlap" /\ Overlap!Next /\ UNCHANGED udpVars

\* The fairness of TcpTransport.
TransportsFairness ==
  \A c \in Callers :
    /\ WF_tcpVars(used # "udp" /\ Overlap!Worker(c))
    /\ WF_tcpVars(used # "udp" /\ Overlap!stop_worker(c))
    /\ WF_tcpVars(used # "udp" /\ Overlap!Sent(c))
    /\ WF_tcpVars(used # "udp" /\ Overlap!Received(c))
    /\ WF_tcpVars(used # "udp" /\ Overlap!Expires(c))

-----------------------------------------------------------------------------
(* Alone or overlapped, an operation in progress has exactly one           *)
(* continuation, pending on the socket or ready in the strand, and a       *)
(* finished one has none, so that it is neither lost nor completed twice;  *)
(* and a pending connection attempt has a deadline ahead of it, armed or   *)
(* ready to run.  Used by one caller, with no bad header, a transaction    *)
(* completes with its own answer, and between operations a usable          *)
(* connection holds no byte and no request of an earlier one.              *)
TcpOrderly ==
  IF used = "alone"
  THEN Alone!TypeOK /\ Alone!TcpOrderly
  ELSE Overlap!TypeOK /\ Overlap!TcpOrderly

(* With nothing assumed of the device, every operation of a TCP transport  *)
(* completes, even one whose connection another operation closes, except   *)
(* a read whose deadline ran between two steps of its transaction and      *)
(* whose device then keeps the connection and sends nothing.               *)
EndsOrStranded == Overlap!EndsOrStranded

\* What a caller of the transport used alone sees of it.
Seen(f, rest) == IF used = "alone" THEN f ELSE [c \in Callers |-> rest]
Port == INSTANCE ModbusPort WITH
  MaxOps <- 6,
  op <- Seen([c \in Callers |-> Alone!Operation(phase[c])], "idle"),
  serial <- Seen(serial, 0),
  result <- Seen([c \in Callers |-> IF phase[c] = "idle" THEN completion[c] ELSE Alone!Nothing], Alone!Nothing),
  issued <- IF used = "alone" THEN issued ELSE 0,
  up <- used = "alone" /\ Alone!is_connected

(* The transport keeps the promise its callers rely on: every step is a    *)
(* step of ModbusPort or none, errors drop the connection, answers are     *)
(* one's own and no operation ends twice.                                  *)
ImplementsPort == Port!Spec
=============================================================================

----------------------------- MODULE ModbusPort -----------------------------
(***************************************************************************)
(* What IModbusTransport promises to the poll and write paths: an          *)
(* operation ends at most once, with the answer to its own request or with *)
(* an error, and the transport is connected after it or not as the error   *)
(* says.                                                                   *)
(***************************************************************************)
EXTENDS Naturals

CONSTANTS Callers, MaxOps

VARIABLES
  op,       \* the operation each caller has in progress, "idle" when none
  serial,   \* its number
  result,   \* the result of the last one
  issued,   \* operations so far
  up        \* is_connected()

portVars == <<op, serial, result, issued, up>>

None == [kind |-> "none", header |-> 0, body |-> 0]
Error(code) == [None EXCEPT !.kind = code]
Ok == Error("ok")
OwnAnswerOf(n) == [kind |-> "answer", header |-> n, body |-> n]

\* A lost or silent peer ends the connection; a peer that answered badly or
\* with an exception keeps it.
Disconnecting == {"Timeout", "Connection"}
Refusing == {"ModbusException", "Decoding"}

Init ==
  /\ op = [c \in Callers |-> "idle"]
  /\ serial = [c \in Callers |-> 0]
  /\ result = [c \in Callers |-> None]
  /\ issued = 0
  /\ up = FALSE

Begin(c, kind) ==
  /\ op[c] = "idle"
  /\ issued < MaxOps
  /\ issued' = issued + 1
  /\ op' = [op EXCEPT ![c] = kind]
  /\ serial' = [serial EXCEPT ![c] = issued']
  /\ result' = [result EXCEPT ![c] = None]
  /\ UNCHANGED up

\* A connect or a close first gives up the connection there was.
Drop(c) ==
  /\ op[c] \in {"connect", "close"}
  /\ up' = FALSE
  /\ UNCHANGED <<op, serial, result, issued>>

End(c, r) ==
  /\ op[c] # "idle"
  /\ op' = [op EXCEPT ![c] = "idle"]
  /\ result' = [result EXCEPT ![c] = r]
  /\ UNCHANGED <<serial, issued>>

Connected(c) ==
  /\ op[c] = "connect"
  /\ End(c, Ok)
  /\ up' = TRUE

NotConnected(c) ==
  /\ op[c] = "connect"
  /\ \E code \in Disconnecting \cup {"InvalidArgument"} : End(c, Error(code))
  /\ up' = FALSE

Answered(c) ==
  /\ op[c] = "transact"
  /\ up
  /\ \/ End(c, OwnAnswerOf(serial[c]))
     \/ \E code \in Refusing : End(c, Error(code))
  /\ UNCHANGED up

Lost(c) ==
  /\ op[c] = "transact"
  /\ \E code \in Disconnecting : End(c, Error(code))
  /\ up' = FALSE

Closed(c) ==
  /\ op[c] = "close"
  /\ End(c, Ok)
  /\ up' = FALSE

Ends(c) == Connected(c) \/ NotConnected(c) \/ Answered(c) \/ Lost(c) \/ Closed(c)

Next ==
  \E c \in Callers :
    \/ \E kind \in {"connect", "transact", "close"} : Begin(c, kind)
    \/ Drop(c)
    \/ Ends(c)

Spec == Init /\ [][Next]_portVars
=============================================================================

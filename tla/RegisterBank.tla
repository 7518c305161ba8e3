---------------------------- MODULE RegisterBank ----------------------------
(***************************************************************************)
(* What IModbusTransport promises its caller (Src/ports/i_modbus_transport *)
(* .hpp): the tables of a device can be read and written, one operation at *)
(* a time.  A read returns what the tables hold, a write changes exactly   *)
(* the cells it names, and an operation the device refused changes nothing.*)
(***************************************************************************)
EXTENDS Integers, Sequences

CONSTANTS
  Tables, Addresses,
  Operations,    \* what the caller may ask for
  InitialBank    \* what the tables hold at first

VARIABLES bank, op, result

vars == <<bank, op, result>>

NoOperation == [access |-> "none"]

Init ==
  /\ bank = InitialBank
  /\ op = NoOperation
  /\ result = [kind |-> "none"]

\* o.table, o.address, and o.quantity or o.values.
Read(o) ==
  /\ o.access = "read"
  /\ result' = [kind |-> "ok",
                value |-> [i \in 1..o.quantity |-> bank[o.table][o.address + i - 1]]]
  /\ UNCHANGED bank

Written(cells, o) ==
  [a \in Addresses |->
     IF a \in o.address..(o.address + Len(o.values) - 1)
     THEN o.values[a - o.address + 1] ELSE cells[a]]

Write(o) ==
  /\ o.access = "write"
  /\ bank' = [bank EXCEPT ![o.table] = Written(@, o)]
  /\ result' = [kind |-> "ok", value |-> <<>>]

Refuse ==
  /\ result'.kind = "error"
  /\ UNCHANGED bank

Next == \E o \in Operations : op' = o /\ (Read(o) \/ Write(o) \/ Refuse)

Spec == Init /\ [][Next]_vars
==============================================================================

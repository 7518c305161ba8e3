---------------------------- MODULE MCWriteQueue ----------------------------
(***************************************************************************)
(* Small endpoints for WriteQueue: a holding register, two adjacent coils  *)
(* of one unit and a read-only register.                                   *)
(***************************************************************************)
EXTENDS WriteQueue

CONSTANTS reg, coil0, coil1, input

Register(e, w) == [area |-> "holding", unit |-> 1, address |-> 0, width |-> 1,
                   writable |-> w, encodes |-> e]
Coil(a) == [area |-> "coil", unit |-> 1, address |-> a, width |-> 1,
            writable |-> TRUE, encodes |-> BOOLEAN]

\* The coils are bound to a scaled numeric type, whose range encode() checks.
NumericCoils ==
  [t \in {reg, coil0, coil1, input} |->
     CASE t = reg   -> Register(BOOLEAN, TRUE)
       [] t = input -> Register({TRUE}, FALSE)
       [] t = coil0 -> Coil(0)
       [] t = coil1 -> Coil(1)]

\* As ServerRuntime starts it: the transport is bound before any write.
BoundSpec == (Init /\ bound = TRUE) /\ [][Next]_vars

=============================================================================

-------------------------- MODULE MCEndpointRuntime --------------------------
(***************************************************************************)
(* An endpoint with two adjacent coils, a boolean one and one whose values *)
(* are out of range.  Some behaviours poll the boolean coil alone and take *)
(* two writes to it; the others poll the coils in two groups of different  *)
(* periods, with a longer back-off, and take one write to either.          *)
(***************************************************************************)
EXTENDS EndpointRuntime

CONSTANTS set, in

VARIABLE groups   \* which of the two

Coils ==
  [t \in Tags |-> [area |-> "coil", unit |-> 1,
                   address |-> IF t = set THEN 0 ELSE 1, width |-> 1,
                   writable |-> TRUE, encodes |-> {t = set}]]

SetGroup == <<[period |-> 1, tags |-> <<set>>]>>
TwoGroups == <<[period |-> 1, tags |-> <<set>>], [period |-> 2, tags |-> <<in>>]>>

Two == INSTANCE EndpointRuntime WITH PollGroups <- TwoGroups, ReconnectDelay <- 2, MaxWrites <- 1

RunInit == (groups = 1 /\ Init) \/ (groups = 2 /\ Two!Init)

RunNext ==
  /\ UNCHANGED groups
  /\ \/ groups = 1 /\ Next /\ (ua' # NoUa => ua'.tag = set)
     \/ groups = 2 /\ Two!Next

\* The fairness of EndpointRuntime.
RunSpec ==
  /\ RunInit /\ [][RunNext]_<<vars, groups>>
  /\ WF_vars((groups = 1 /\ tick_endpoint) \/ (groups = 2 /\ Two!tick_endpoint))
  /\ WF_vars((groups = 1 /\ Strand) \/ (groups = 2 /\ Two!Strand))
  /\ WF_vars((groups = 1 /\ Transport) \/ (groups = 2 /\ Two!Transport))
  /\ WF_vars(ua_post \/ ua_get \/ ua_publish)
  /\ WF_vars((groups = 1 /\ Advance) \/ (groups = 2 /\ Two!Advance))

(* Where every operation of the transport ends, every poll does; and once  *)
(* transport errors and writes stop, every polled tag becomes and stays    *)
(* Good with the value of the device, with one group and with two of       *)
(* different periods, or else the connection was mixed by a write issued   *)
(* beside a read, or by an answer that did not decode, and stayed open:    *)
(* then nothing is known.  Any other transport error is recovered from.    *)
EndpointConverges ==
  /\ []<>~inflight
  /\ <>[](/\ connected
          /\ \/ mixed
             \/ \A t \in (IF groups = 1 THEN Polled ELSE Two!Polled) : tags[t] = Good(dev[t]))

=============================================================================

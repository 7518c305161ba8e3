-------------------------- MODULE MCTagDiagnostics --------------------------
(***************************************************************************)
(* A strand that publishes one tag and sweeps both for stale values, and   *)
(* the thread of the OPC UA server, which publishes the other.             *)
(***************************************************************************)
EXTENDS TagDiagnostics

CONSTANTS level, setpoint, strand, server

MCWrites == [p \in Threads |-> IF p = server THEN {setpoint} ELSE {level}]
=============================================================================

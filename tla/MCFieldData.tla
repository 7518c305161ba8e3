---------------------------- MODULE MCFieldData ----------------------------
(***************************************************************************)
(* Field data from the bytes of a frame to the history.  A behaviour is    *)
(* one of:                                                                 *)
(*  - "one flush", "two flushes": the historian, with two recorders and    *)
(*    one endpoint that flushes, or one recorder and two of them, and      *)
(*    "long": more samples than the queue keeps after a failed flush;      *)
(*  - "tcp", "udp": exchanges with a device, on both sides of a byte       *)
(*    boundary of addresses, with bit runs longer than a byte;             *)
(*  - "file", "memory": a journal of exchanges is recorded and replayed;   *)
(*  - "registers": every content of the registers of every kind of tag,    *)
(*    and "path": the way of a tag to a client and back.  Bytes have two   *)
(*    bits there: a register has 16 values, an int32 256.                  *)
(* What a behaviour is not about rests in its initial state.               *)
(***************************************************************************)
EXTENDS Historian, TagPath

CONSTANTS boiler, pump

VARIABLES
  about,
  bank, op, result, frame,                                            \* of ModbusExchange
  recorded, frames, lines, loaded, connected_, next_, replayed        \* and its journal

frameVars == <<bank, op, result, frame, recorded, frames, lines, loaded, connected_, next_, replayed>>

-----------------------------------------------------------------------------
(* Frames.                                                                 *)

Addresses == 250..260
Reads ==
  [table : {"holding", "input"}, address : {254, 255}, quantity : {1, 3}]
  \cup [table : {"coil", "discrete"}, address : {250, 251}, quantity : {1, 10}]
Writes ==
  [table : {"holding"}, address : {255}, values : {<<258>>}]
  \cup [table : {"holding"}, address : {254}, values : {<<65535, 0, 513>>}]
  \cup [table : {"coil"}, address : {251}, values : {<<TRUE>>, <<FALSE>>}]
  \cup [table : {"coil"}, address : {250},
        values : {<<>>} \cup {[i \in 1..10 |-> i = 8], [i \in 1..9 |-> i # 4]}]
FewReads == {r \in Reads : <<r.table, r.address, r.quantity>> \in {<<"holding", 254, 3>>, <<"discrete", 250, 10>>}}
FewWrites == {w \in Writes : w.table = "holding"}

Asked(reads, writes) ==
  {[access |-> "read", table |-> r.table, address |-> r.address, quantity |-> r.quantity] : r \in reads}
  \cup {[access |-> "write", table |-> w.table, address |-> w.address, values |-> w.values] : w \in writes}
Operations == Asked(Reads, Writes)
FewOperations == Asked(FewReads, FewWrites)

Tcp == INSTANCE ModbusExchange WITH
  Transport <- "tcp", Tids <- {1}, Units <- {1}, Exceptions <- {2, 3}, InFile <- FALSE, MaxFrames <- 0
Udp == INSTANCE ModbusExchange WITH
  Transport <- "udp", Tids <- {65535}, Units <- {247}, Exceptions <- {2, 3}, InFile <- FALSE, MaxFrames <- 0
File == INSTANCE ModbusExchange WITH
  Transport <- "tcp", Tids <- {1}, Units <- {1}, Exceptions <- {2}, InFile <- TRUE, MaxFrames <- 2,
  Operations <- FewOperations
Memory == INSTANCE ModbusExchange WITH
  Transport <- "udp", Tids <- {1}, Units <- {1}, Exceptions <- {2}, InFile <- FALSE, MaxFrames <- 2,
  Operations <- FewOperations

-----------------------------------------------------------------------------
(* Tags.                                                                   *)

Half == [n |-> 1, d |-> 2]
ThreeHalves == [n |-> 3, d |-> 2]
One == Real(1)
None == Real(0)
Scales == {One, Half, ThreeHalves, Real(2), Real(-1), [n |-> 1, d |-> 10]}
Offsets == {None, Half, Real(-3)}

T(types, orders, quantities, scales, offsets) ==
  [type: types, order: orders, quantity: quantities, scale: scales, offset: offsets, writable: {TRUE}]

\* Every integer tag, and float32 tags with scales that floats can undo.
AllTags ==
  T(Integers16, {"", "AB", "BA", "CDAB"}, {0, 1}, Scales, Offsets)
    \cup T(Integers16, {"BA"}, {2}, Scales, Offsets)
    \cup T(Integers32, Orders32, {0}, {One, Real(-1)}, {None})
    \cup T(Integers32, {"DCBA"}, {0}, {Half, ThreeHalves}, {Half})
    \cup T(Integers32, {"", "AB"}, {1, 3}, {One}, {None})
    \cup T({"Float32"}, {"DCBA"}, {0}, {One, Half, Real(-1)}, {None})
AllRegisters(t) == [1..regs_for(t) -> IF regs_for(t) = 3 THEN {0, 8, 15} ELSE 0..(Word - 1)]

\* Fewer tags and registers, with writes: edges of the ranges and a value that
\* does not divide.
PathTags ==
  T({"UInt16"}, {"BA"}, {0}, {One, Half, Real(2), None}, {None, Half})
    \cup T({"Int32"}, {"DCBA"}, {0}, {One, Half, Real(-1)}, {None, Real(-3)})
    \cup T({"Bool"}, {""}, {0}, {One}, {None})
    \cup T({"Float64"}, {"ABCD"}, {0}, {One}, {None})
    \cup T({"Float32"}, {"CDAB"}, {0}, {One, Real(2)}, {None})
    \cup {[t EXCEPT !.writable = FALSE] : t \in T({"Bool"}, {""}, {0}, {One}, {None})}
PathRegisters(t) ==
  CASE regs_for(t) = 4 -> {<<0, 7, 8, 15>>}
    [] regs_for(t) = 2 -> {<<0, 7>>, <<8, 0>>, <<7, 15>>, <<15, 15>>}
    [] OTHER -> [1..regs_for(t) -> {0, 7, 8, 15}]
PathVariants ==
  {Scalar("UInt16", Real(i)) : i \in {0, 7, 15}}
    \cup {Scalar("Int32", Real(i)) : i \in {-128, -3, 7, 127}}
    \cup {Scalar("Bool", One), Scalar("Float64", Real(4660))}
    \cup {Scalar("Float32", x) : x \in {Half, Real(15), [n |-> 1, d |-> 0]}}

MCTags == AllTags \cup PathTags
Nothing == {<<0, 0, 0>>}

-----------------------------------------------------------------------------
NoTag == tag = (CHOOSE t \in PathTags : t.type = "Bool") /\ regs = <<0>> /\ PathInit

RunInit ==
  /\ Tcp!JournalInit
  /\ \/ about \in {"one flush", "two flushes", "long"} /\ Init /\ NoTag
     \/ about \in {"tcp", "udp", "file", "memory"} /\ Init /\ db_ /\ NoTag
     \/ about = "registers" /\ Init /\ db_ /\ tag \in AllTags /\ PathInit
     \/ about = "path" /\ Init /\ db_ /\ tag \in PathTags /\ regs \in PathRegisters(tag) /\ PathInit

history ==
  /\ \/ about = "one flush" /\ Next /\ flushing'[pump] = Idle /\ serial' <= 4
     \/ about = "two flushes" /\ Next /\ held'[pump] = 0 /\ serial' <= 4
     \/ about = "long" /\ Next /\ held'[pump] = 0 /\ flushing'[pump] = Idle /\ ~restart
  /\ UNCHANGED <<frameVars, pathVars>>

exchange ==
  /\ \/ about = "tcp" /\ Tcp!Next
     \/ about = "udp" /\ Udp!Next
  /\ UNCHANGED <<recorded, frames, lines, loaded, connected_, next_, replayed>>

replay == (about = "file" /\ File!JournalNext) \/ (about = "memory" /\ Memory!JournalNext)

RunNext ==
  /\ UNCHANGED about
  /\ \/ history
     \/ (exchange \/ replay) /\ UNCHANGED <<vars, pathVars>>
     \/ about = "path" /\ PathNext /\ UNCHANGED <<vars, frameVars>>

\* The fairness of Historian, for the endpoints that flush.
RunSpec ==
  /\ RunInit /\ [][RunNext]_<<about, vars, frameVars, pathVars>>
  /\ \A r \in Recorders : WF_vars(Queue(r))
  /\ WF_vars(Flush(boiler))
  /\ WF_vars(about = "two flushes" /\ Flush(pump))

-----------------------------------------------------------------------------
(* Through the bytes of the frames a client sees the tables of the device  *)
(* themselves: a read returns the cells it names, a write changes the      *)
(* cells it names and no other, a refused operation changes nothing.       *)
BankSpec == Tcp!BankSpec

(* A journal file loads exactly when no exchange in it ended in an error,  *)
(* and an operation replayed from it returns what it returned on the       *)
(* device, the values and the code of every failure.  So does the replay   *)
(* of a journal in memory, but for the operations the device refused: the  *)
(* replay makes each a connection error.  No frame is offered twice.       *)
JournalReplays ==
  /\ about = "file" => File!LoadsWithoutErrors /\ File!ReplayFaithful
  /\ about = "memory" => Memory!ReplayLosesExceptions

(* A recorded Modbus error is replayed as one, with the exception's code.  *)
ErrorsReplayed == about = "memory" => Memory!ReplayFaithful

(* A value written back as it was read changes neither the registers of an *)
(* unscaled integer nor what is read next; a value that a client wrote is  *)
(* read back within the rounding of its scale; and what is told GOOD has   *)
(* the type of its node.                                                   *)
ValuesSurvive == RawKept /\ WriteBackKeeps /\ ReadBackClose /\ GoodIsTyped
=============================================================================

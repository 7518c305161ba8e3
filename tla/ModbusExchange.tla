--------------------------- MODULE ModbusExchange ---------------------------
(***************************************************************************)
(* One Modbus operation of ModbusTcpTransport or ModbusUdpTransport on a   *)
(* device, down to the bytes: the request is packed, the device reads it   *)
(* and changes its tables, its response is unpacked and decoded.  Waiting, *)
(* timeouts and lost or late frames are the subject of TcpTransport and    *)
(* UdpTransport; here every request is answered.                           *)
(*                                                                         *)
(* The tables are bank[table][address]; holding registers and coils can be *)
(* written.                                                                *)
(*                                                                         *)
(* The second half is the frame journal (adapters/frame_log.cpp) and its   *)
(* replay (adapters/frame_replay.cpp): operations are recorded while they  *)
(* run on the device, the journal is loaded and the same operations are    *)
(* run again on a ReplayModbusTransport.                                   *)
(***************************************************************************)
EXTENDS ModbusCodec

CONSTANTS
  Transport,   \* "tcp" or "udp"
  Addresses,   \* addresses of the device, an interval of 0..65535
  Operations,  \* what a client asks for: [access, table, address] and a quantity or values
  Tids, Units, \* transaction ids and unit ids of requests
  Exceptions   \* exception codes the device may answer with

Bits == {"coil", "discrete"}
Tables == Bits \cup {"holding", "input"}

VARIABLES bank, op, result, frame

vars == <<bank, op, result, frame>>

NoFrame == [tx |-> <<>>, rx |-> <<>>]

\* The inputs of the device differ from each other.
InitialBank ==
  [t \in Tables |-> [a \in Addresses |->
     CASE t = "coil" -> FALSE [] t = "discrete" -> a % 3 = 0
       [] t = "holding" -> 0 [] t = "input" -> (a * 259) % 65536]]

Init ==
  /\ bank = InitialBank
  /\ op = [access |-> "none"]
  /\ result = [kind |-> "none"]
  /\ frame = NoFrame

-----------------------------------------------------------------------------
(* The operations of the transports.  A single value is written with FC05  *)
(* or FC06, several with FC15 or FC16.                                     *)

ReadFunction == [coil |-> 1, discrete |-> 2, holding |-> 3, input |-> 4]

read_pdu(o) ==
  IF o.table \in Bits
  THEN make_read_bits_pdu(ReadFunction[o.table], o.address, o.quantity)
  ELSE make_read_registers_pdu(ReadFunction[o.table], o.address, o.quantity)

write_pdu(o) ==
  CASE o.table = "coil" /\ Len(o.values) = 1 ->
         Ok(make_write_single_coil_pdu(o.address, o.values[1]))
    [] o.table = "coil" /\ Len(o.values) # 1 ->
         make_write_multiple_coils_pdu(o.address, o.values)
    [] o.table = "holding" /\ Len(o.values) = 1 ->
         Ok(make_write_single_register_pdu(o.address, o.values[1]))
    [] o.table = "holding" /\ Len(o.values) # 1 ->
         Ok(make_write_multiple_registers_pdu(o.address, o.values))

request_pdu(o) == IF o.access = "read" THEN Ok(read_pdu(o)) ELSE write_pdu(o)

\* What the operation makes of the response PDU: a write only looks at success.
decode(o, pdu) ==
  CASE o.access = "write" -> Ok(<<>>)
    [] o.access = "read" /\ o.table \in Bits -> decode_bits_response(pdu, o.quantity)
    [] o.access = "read" /\ o.table \notin Bits -> decode_register_response(pdu, o.quantity)

\* The TCP transport reads the header and then as many bytes as it announces.
tcp_receive(adu) ==
  LET length == Word(adu[5], adu[6])
      body == SubSeq(adu, 7, 6 + length)
  IN IF length < 2 \/ length > 254 THEN Decoding
     ELSE IF body[2] >= 128
     THEN Failed("ModbusException", IF Len(body) > 2 THEN body[3] ELSE -1)
     ELSE Ok(SubSeq(body, 2, Len(body)))

udp_receive(adu, tid) ==
  LET unpacked == unpack_adu(adu)
  IN IF unpacked.kind = "ok" /\ AduTid(adu) # tid THEN Decoding ELSE unpacked

receive(adu, tid) == IF Transport = "tcp" THEN tcp_receive(adu) ELSE udp_receive(adu, tid)

-----------------------------------------------------------------------------
(* The device: what the Modbus application protocol asks of a server.      *)

TableOf(f) == CASE f \in {1, 5, 15} -> "coil" [] f = 2 -> "discrete"
                [] f \in {3, 6, 16} -> "holding" [] f = 4 -> "input"

\* Bit i (from 0) of the bytes from position first.
BitAt(pdu, first, i) == (pdu[first + i \div 8] \div (2 ^ (i % 8))) % 2 = 1

\* The values a write request carries.
DeviceValues(pdu) ==
  LET quantity == Word(pdu[4], pdu[5]) IN
  CASE pdu[1] = 5 -> <<quantity = 65280>>
    [] pdu[1] = 6 -> <<quantity>>
    [] pdu[1] = 15 -> [i \in 1..quantity |-> BitAt(pdu, 7, i - 1)]
    [] pdu[1] = 16 -> [i \in 1..quantity |-> Word(pdu[5 + 2 * i], pdu[6 + 2 * i])]

DeviceWrites(cells, pdu) ==
  LET first == Word(pdu[2], pdu[3])
      values == DeviceValues(pdu)
  IN [a \in Addresses |-> IF a - first \in 0..(Len(values) - 1)
                          THEN values[a - first + 1] ELSE cells[a]]

\* The bytes of the cells a read request asks for.
DeviceReads(cells, pdu) ==
  LET first == Word(pdu[2], pdu[3])
      quantity == Word(pdu[4], pdu[5])
      cell(i) == cells[first + i]
      weight(b, k) == IF 8 * b + k < quantity /\ cell(8 * b + k) THEN 2 ^ k ELSE 0
  IN IF TableOf(pdu[1]) \in Bits
     THEN [b \in 1..((quantity + 7) \div 8) |->
             weight(b - 1, 0) + weight(b - 1, 1) + weight(b - 1, 2) + weight(b - 1, 3)
             + weight(b - 1, 4) + weight(b - 1, 5) + weight(b - 1, 6) + weight(b - 1, 7)]
     ELSE [k \in 1..(2 * quantity) |->
             IF k % 2 = 1 THEN cell((k - 1) \div 2) \div 256 ELSE cell(k \div 2 - 1) % 256]

DeviceAnswer(cells, pdu) ==
  IF pdu[1] < 5
  THEN LET data == DeviceReads(cells, pdu) IN <<pdu[1], Len(data)>> \o data
  ELSE SubSeq(pdu, 1, 5)

AduPdu(adu) == SubSeq(adu, 8, Len(adu))

-----------------------------------------------------------------------------
\* The operation fails before anything is sent.
Reject(o) ==
  /\ request_pdu(o).kind = "error"
  /\ op' = o
  /\ result' = request_pdu(o)
  /\ UNCHANGED <<bank, frame>>

\* An exchange; only an answered write changes the device.
Exchange(o, tid, unit) ==
  /\ request_pdu(o).kind = "ok"
  /\ LET tx == pack_mbap(tid, unit, request_pdu(o).value)
         pdu == AduPdu(tx)
         cells == bank[TableOf(pdu[1])]
         answer == DeviceAnswer(cells, pdu)
         exchanged(response) ==
           LET rx == SubSeq(tx, 1, 4) \o <<0, 1 + Len(response), unit>> \o response
               received == receive(rx, tid)
           IN /\ frame' = [tx |-> tx, rx |-> rx]
              /\ result' = IF received.kind = "ok" THEN decode(o, received.value) ELSE received
     IN \/ /\ exchanged(answer)
           /\ bank' = IF o.access = "write"
                      THEN [bank EXCEPT ![TableOf(pdu[1])] = DeviceWrites(@, pdu)]
                      ELSE bank
        \/ /\ \E response \in {<<pdu[1] + 128, e>> : e \in Exceptions} : exchanged(response)
           /\ UNCHANGED bank
        \/ /\ o.access = "read"
           /\ exchanged([answer EXCEPT ![2] = @ + 1])
           /\ UNCHANGED bank
  /\ op' = o

Next == \E o \in Operations : Reject(o) \/ \E tid \in Tids, unit \in Units : Exchange(o, tid, unit)

Spec == Init /\ [][Next]_vars

-----------------------------------------------------------------------------
(* Properties.                                                             *)

\* Through the bytes a client sees the tables of the device themselves: a read
\* returns the cells it names, a write changes the cells it names and no other,
\* a refused operation changes nothing.  The frame carries the values of every
\* function the transports offer.
Bank == INSTANCE RegisterBank
BankSpec == Bank!Spec

-----------------------------------------------------------------------------
(* The frame journal.  A line of the text journal is the sequence of what  *)
(* stands between its blanks: numbers, words, a dash, hex digits, the bar. *)

CONSTANTS
  InFile,      \* the journal is a FileFrameLog; otherwise a MemoryFrameLog
  MaxFrames    \* bound: operations recorded

VARIABLES
  recorded,    \* [op, result] of each recorded operation
  frames,      \* FrameRecords kept in memory
  lines,       \* lines of the file
  loaded,      \* what the loading returned
  connected_,  \* ReplayModbusTransport::connected_
  next_,       \* the next frame to replay (from 0)
  replayed     \* results of the replayed operations

journal == <<recorded, frames, lines>>
replay == <<loaded, connected_, next_, replayed>>
jvars == <<vars, journal, replay>>

JournalInit ==
  /\ Init
  /\ recorded = <<>>
  /\ frames = <<>>
  /\ lines = <<>>
  /\ loaded = [kind |-> "none"]
  /\ connected_ = FALSE
  /\ next_ = 0
  /\ replayed = <<>>

-----------------------------------------------------------------------------
(* Recording.                                                              *)

\* finish() of transact: an error of the exchange is recorded by its message,
\* an exception also by its code.  A response that only the decoding refuses is
\* recorded as received.
FrameRecord(tx, rx, received) ==
  [tx |-> tx, rx |-> rx,
   exception |-> IF received.kind = "error" /\ received.value[1] = "ModbusException"
                 THEN <<received.value[2]>> ELSE <<>>,
   error |-> IF received.kind = "error" THEN <<received.value[1]>> ELSE <<>>]

Token(k, v) == [k |-> k, v |-> v]

\* Messages of two or more words: "modbus exception", "transaction id mismatch".
ErrorWords == <<Token("word", 0), Token("word", 0)>>

to_hex(bytes) ==
  [k \in 1..(2 * Len(bytes)) |->
     Token("hex", IF k % 2 = 1 THEN bytes[(k + 1) \div 2] \div 16 ELSE bytes[k \div 2] % 16)]

\* log_frame of the FileFrameLog.
Line(f) ==
  <<Token("number", 0), Token("word", 0), Token("number", 0)>>
  \o (IF f.exception # <<>> THEN <<Token("number", f.exception[1])>> ELSE <<Token("dash", 0)>>)
  \o (IF f.error # <<>> THEN ErrorWords ELSE <<Token("dash", 0)>>)
  \o to_hex(f.tx) \o <<Token("bar", 0)>> \o to_hex(f.rx)

\* An operation on the device, recorded when it reached the wire.
Record ==
  /\ loaded.kind = "none"
  /\ Len(recorded) < MaxFrames
  /\ Next
  /\ request_pdu(op').kind = "ok"
  /\ recorded' = Append(recorded, [op |-> op', result |-> result'])
  /\ LET f == FrameRecord(frame'.tx, frame'.rx, receive(frame'.rx, AduTid(frame'.tx)))
     IN IF InFile
        THEN lines' = Append(lines, Line(f)) /\ UNCHANGED frames
        ELSE frames' = Append(frames, f) /\ UNCHANGED lines
  /\ UNCHANGED replay

-----------------------------------------------------------------------------
(* Loading.                                                                *)

parse_hex_bytes(tokens) ==
  IF \E i \in DOMAIN tokens : tokens[i].k # "hex" THEN Decoding
  ELSE IF Len(tokens) % 2 # 0 THEN Decoding
  ELSE Ok([i \in 1..(Len(tokens) \div 2) |-> 16 * tokens[2 * i - 1].v + tokens[2 * i].v])

\* The prefix is read word by word: the fifth is the error, and what is left
\* before the bar has to be hex.
parse_frame_log_line(line) ==
  LET bar == CHOOSE i \in DOMAIN line : line[i].k = "bar"
      tx == parse_hex_bytes(SubSeq(line, 6, bar - 1))
      rx == parse_hex_bytes(SubSeq(line, bar + 1, Len(line)))
  IN IF line[4].k \notin {"dash", "number"} THEN Decoding
     ELSE IF tx.kind = "error" THEN tx
     ELSE IF rx.kind = "error" THEN rx
     ELSE Ok([tx |-> tx.value, rx |-> rx.value,
              exception |-> IF line[4].k = "number" THEN <<line[4].v>> ELSE <<>>,
              error |-> IF line[5].k = "dash" THEN <<>> ELSE <<"word">>])

\* load_frame_log_file: the first bad line is the result.
load_frame_log_file(text) ==
  LET parsed == [i \in DOMAIN text |-> parse_frame_log_line(text[i])]
      bad == {i \in DOMAIN parsed : parsed[i].kind = "error"}
  IN IF bad = {} THEN Ok([i \in DOMAIN parsed |-> parsed[i].value])
     ELSE parsed[CHOOSE i \in bad : \A j \in bad : i <= j]

Load ==
  /\ loaded.kind = "none"
  /\ recorded # <<>>
  /\ loaded' = IF InFile THEN load_frame_log_file(lines) ELSE Ok(frames)
  /\ UNCHANGED <<vars, journal, connected_, next_, replayed>>

-----------------------------------------------------------------------------
(* Replay.                                                                 *)

Connect ==
  /\ loaded.kind = "ok"
  /\ ~connected_
  /\ connected_' = TRUE
  /\ UNCHANGED <<vars, journal, loaded, next_, replayed>>

Close ==
  /\ connected_
  /\ connected_' = FALSE
  /\ UNCHANGED <<vars, journal, loaded, next_, replayed>>

\* An error is looked at before an exception, and is always a Connection error.
pdu_from_rx(f) ==
  LET length == Word(f.rx[5], f.rx[6])
      offset == IF Len(f.rx) = 7 + length /\ length >= 2 THEN 8 ELSE 7
  IN IF f.error # <<>> THEN Failed("Connection", 0)
     ELSE IF f.exception # <<>> THEN Failed("ModbusException", f.exception[1])
     ELSE IF Len(f.rx) < 8 THEN Decoding
     ELSE IF offset = 7 /\ Len(f.rx) # 6 + length THEN Decoding
     ELSE IF Len(f.rx) <= offset THEN Decoding
     ELSE Ok(SubSeq(f.rx, offset + 1, Len(f.rx)))

\* Mutated form: a refused frame is offered again.
AdvanceOnSuccess(pdu) == IF pdu.kind = "ok" THEN next_ + 1 ELSE next_

\* consume(): every frame is used once, whatever it holds.
Advance(pdu) == next_ + 1

\* The operation recorded next, run on the replay, where a read decodes as on
\* the wire, and at the end one operation more.  Without a connection an
\* operation fails and uses no frame.
Replay ==
  /\ loaded.kind = "ok"
  /\ connected_
  /\ Len(replayed) <= Len(recorded)
  /\ LET o == recorded[(Len(replayed) % Len(recorded)) + 1].op
         pdu == pdu_from_rx(loaded.value[next_ + 1])
     IN IF next_ >= Len(loaded.value)
        THEN replayed' = Append(replayed, Failed("NotFound", 0)) /\ UNCHANGED next_
        ELSE /\ next_' = Advance(pdu)
             /\ replayed' = Append(replayed, IF pdu.kind = "ok" THEN decode(o, pdu.value) ELSE pdu)
  /\ UNCHANGED <<vars, journal, loaded, connected_>>

JournalNext == Record \/ Load \/ Connect \/ Close \/ Replay

JournalSpec == JournalInit /\ [][JournalNext]_jvars

-----------------------------------------------------------------------------
(* Properties.                                                             *)

\* What an exchange of the record came to on the wire, before decoding.
ErrorRecorded(r) == r.result.kind = "error" /\ r.result.value[1] = "ModbusException"

\* A recorded file loads exactly when no exchange in it ended in an error: the
\* message of an error has several words, of which the parser takes the first.
LoadsWithoutErrors ==
  loaded.kind # "none" => (loaded.kind = "ok" <=> \A i \in DOMAIN recorded : ~ErrorRecorded(recorded[i]))

\* What the i-th operation of the replay should return: what it returned on the
\* device, and "replay exhausted" when the journal has ended.
Expected(i) == IF i <= Len(recorded) THEN recorded[i].result ELSE Failed("NotFound", 0)

\* An operation of the replay returns what the same operation returned on the
\* device: the values read, and the code of every failure.  No frame is offered
\* twice.
ReplayFaithful == \A i \in DOMAIN replayed : replayed[i] = Expected(i)

\* The same, but for the operations that the device refused: they fail again,
\* as errors of the connection and without the exception's code.
ReplayLosesExceptions ==
  \A i \in DOMAIN replayed :
    replayed[i] = IF i <= Len(recorded) /\ ErrorRecorded(recorded[i]) THEN Failed("Connection", 0)
                  ELSE Expected(i)
==============================================================================

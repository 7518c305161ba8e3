------------------------------ MODULE TagPath ------------------------------
(***************************************************************************)
(* The way of one tag between the registers of the device and an OPC UA    *)
(* client: the poll decodes the registers into the TagStore                *)
(* (core/dispatcher.cpp, core/translator.cpp), data_source_read gives the  *)
(* entry a status and a variant, data_source_write takes a variant, and    *)
(* the flush encodes it for the device (adapters/opc_ua_server.cpp).       *)
(*                                                                         *)
(* A byte has ByteSize values, 256 in the code.  The code's widths follow: *)
(* a register is two bytes, uint32, int32 and float32 are four, float64 is *)
(* eight.  A float32 has a sign, an exponent and ManBits bits of mantissa, *)
(* 23 in the code.  TLC uses smaller bytes, so that it can go through      *)
(* every register.                                                         *)
(*                                                                         *)
(* A double is a fraction [n, d], without rounding error; d = 0 is an      *)
(* infinity (n # 0) or not a number (n = 0).  A float64 is its bit         *)
(* pattern: the tags of that type have scale 1 and offset 0.               *)
(*                                                                         *)
(* At most one write waits: their order is the subject of WriteQueue.      *)
(***************************************************************************)
EXTENDS Integers, Sequences, FiniteSets

CONSTANTS ByteSize, ManBits

Word == ByteSize * ByteSize
DWord == Word * Word

Ok(v) == [ok |-> TRUE, value |-> v]
Err(code) == [ok |-> FALSE, code |-> code]

Abs(i) == IF i < 0 THEN -i ELSE i

-----------------------------------------------------------------------------
(* Doubles.                                                                *)

Real(i) == [n |-> i, d |-> 1]
isfinite(x) == x.d # 0
Signed(n, d) == IF d < 0 THEN [n |-> -n, d |-> -d] ELSE [n |-> n, d |-> d]
Mul(x, y) == [n |-> x.n * y.n, d |-> x.d * y.d]
Add(x, y) == [n |-> x.n * y.d + y.n * x.d, d |-> x.d * y.d]
Sub(x, y) == Add(x, [n |-> -y.n, d |-> y.d])
Quotient(x, y) == Signed(x.n * y.d, x.d * y.n)
Less(x, y) == x.n * y.d < y.n * x.d
Same(x, y) == x.n * y.d = y.n * x.d /\ (x.d = 0 <=> y.d = 0)
Distance(x, y) == LET z == Sub(x, y) IN [z EXCEPT !.n = Abs(z.n)]

\* std::round: to the nearest integer, halves away from zero.
round(x) ==
  LET m == (2 * Abs(x.n) + x.d) \div (2 * x.d) IN IF x.n < 0 THEN -m ELSE m

\* A float by its bits: sign, exponent, mantissa; 2^p as a table.
Pow2[p \in Nat] == IF p = 0 THEN 1 ELSE 2 * Pow2[p - 1]
ExpSize == DWord \div (2 * Pow2[ManBits])
Bias == ExpSize \div 2 - 1
FloatValue(bits) ==
  LET m == bits % Pow2[ManBits]
      e == (bits \div Pow2[ManBits]) % ExpSize
      s == IF bits >= DWord \div 2 THEN -1 ELSE 1
      unit == Pow2[Bias + ManBits - 1]
  IN IF e = ExpSize - 1 THEN [n |-> IF m = 0 THEN s ELSE 0, d |-> 0]
     ELSE IF e = 0 THEN [n |-> s * m, d |-> unit]
     ELSE [n |-> s * (Pow2[ManBits] + m) * Pow2[e - 1], d |-> unit]

MaxFloat == (ExpSize - 1) * Pow2[ManBits] - 1
\* Beyond half a step above the largest float, a conversion gives infinity.
Overflow == LET top == FloatValue(MaxFloat) IN
            [top EXCEPT !.n = top.n + Pow2[ExpSize - 3] \div 2]

\* static_cast<float>: the nearest float, halves to an even mantissa, a zero
\* without sign.
ToFloat(x) ==
  LET half == DWord \div 2
      a == [x EXCEPT !.n = Abs(x.n)]
      near == CHOOSE b \in 0..MaxFloat :
                \A c \in {b - 1, b + 1} \cap 0..MaxFloat :
                  LET db == Distance(FloatValue(b), a)
                      dc == Distance(FloatValue(c), a)
                  IN Less(db, dc) \/ (Same(db, dc) /\ b % 2 = 0)
      mag == IF x.d = 0 /\ x.n = 0 THEN MaxFloat + 2
             ELSE IF x.d = 0 \/ ~Less(a, Overflow) THEN MaxFloat + 1
             ELSE near
  IN IF x.n < 0 /\ mag # 0 THEN half + mag ELSE mag
-----------------------------------------------------------------------------
(* Registers and bytes.                                                    *)

register_count_for(type) ==
  CASE type \in {"Bool", "UInt16", "Int16"} -> 1
    [] type \in {"UInt32", "Int32", "Float32"} -> 2
    [] type = "Float64" -> 4

\* quantity 0: the project gives none.
regs_for(tag) == IF tag.quantity # 0 THEN tag.quantity
                                     ELSE register_count_for(tag.type)

effective_order(tag) ==
  IF tag.order # "" THEN tag.order
  ELSE CASE tag.type \in {"UInt16", "Int16"} -> "AB"
         [] tag.type = "Bool" -> ""
         [] OTHER -> "ABCD"

reorder_u16(raw, order) ==
  CASE order \in {"", "AB"} -> Ok(raw)
    [] order = "BA" -> Ok((raw % ByteSize) * ByteSize + raw \div ByteSize)
    [] OTHER -> Err("Decoding")

\* The place of each byte of the value in the four bytes of the wire.
BytePlaces(order) ==
  CASE order = "ABCD" -> <<1, 2, 3, 4>>
    [] order = "CDAB" -> <<3, 4, 1, 2>>
    [] order = "BADC" -> <<2, 1, 4, 3>>
    [] order = "DCBA" -> <<4, 3, 2, 1>>
Orders32 == {"ABCD", "CDAB", "BADC", "DCBA"}

regs_to_be_bytes(regs, order) ==
  IF Len(regs) < 2 \/ order \notin Orders32 THEN Err("Decoding")
  ELSE LET wire == <<regs[1] \div ByteSize, regs[1] % ByteSize,
                     regs[2] \div ByteSize, regs[2] % ByteSize>>
       IN Ok([i \in 1..4 |-> wire[BytePlaces(order)[i]]])

be_bytes_to_regs(be, order) ==
  IF order \notin Orders32 THEN Err("Decoding")
  ELSE LET wire == [i \in 1..4 |-> be[BytePlaces(order)[i]]]
       IN Ok(<<wire[1] * ByteSize + wire[2], wire[3] * ByteSize + wire[4]>>)

bytes_to_u32(be) ==
  ((be[1] * ByteSize + be[2]) * ByteSize + be[3]) * ByteSize + be[4]
u32_to_bytes(v) ==
  <<v \div (ByteSize * Word), (v \div Word) % ByteSize,
    (v \div ByteSize) % ByteSize, v % ByteSize>>

\* static_cast between the unsigned and the signed type of the same size.
AsSigned(v, size) == IF v >= size \div 2 THEN v - size ELSE v

AsUnsigned(v, size) == IF v < 0 THEN v + size ELSE v

-----------------------------------------------------------------------------
(* Scaling.                                                                *)

apply_scale(raw, tag) == Add(Mul(raw, tag.scale), tag.offset)

\* Mutated form: the offset has the sign it has when reading.
invert_scale_signs(eng, tag) ==
  IF ~isfinite(eng) \/ tag.scale.n = 0 THEN Err("InvalidArgument")
  ELSE Ok(Quotient(Add(eng, tag.offset), tag.scale))

invert_scale(eng, tag) ==
  IF ~isfinite(eng) \/ tag.scale.n = 0 THEN Err("InvalidArgument")
  ELSE Ok(Quotient(Sub(eng, tag.offset), tag.scale))

Lowest(type) == CASE type \in {"UInt16", "UInt32"} -> 0
                  [] type = "Int16" -> -(Word \div 2)
                  [] type = "Int32" -> -(DWord \div 2)
Highest(type) == CASE type = "UInt16" -> Word - 1
                   [] type = "UInt32" -> DWord - 1
                   [] type = "Int16" -> Word \div 2 - 1
                   [] type = "Int32" -> DWord \div 2 - 1

checked_integral(type, x) ==
  IF ~isfinite(x) \/ round(x) < Lowest(type) \/ round(x) > Highest(type)
  THEN Err("InvalidArgument") ELSE Ok(round(x))

-----------------------------------------------------------------------------
(* A ScalarValue has the type of its tag.                                  *)

Integers16 == {"UInt16", "Int16"}
Integers32 == {"UInt32", "Int32"}
IntegerTypes == Integers16 \cup Integers32

Scalar(type, x) == [type |-> type, x |-> x]
ToScalar(type, result) ==
  IF result.ok THEN Ok(Scalar(type, Real(result.value))) ELSE result

Size(type) == IF type \in Integers16 THEN Word ELSE DWord
Number(type, raw) ==
  IF type \in {"Int16", "Int32"} THEN AsSigned(raw, Size(type)) ELSE raw

\* What lies behind the registers in memory is read when a float64 is decoded
\* from fewer than four of them.
decode(tag, registers, behind) ==
  LET order == effective_order(tag)
      r16 == reorder_u16(registers[1], order)
      be == regs_to_be_bytes(registers, order)
      w == registers \o behind
      bits == ((w[1] * Word + w[2]) * Word + w[3]) * Word + w[4]
      Integral(raw) ==
        ToScalar(tag.type,
                 checked_integral(tag.type,
                   apply_scale(Real(Number(tag.type, raw)), tag)))
  IN IF Len(registers) < regs_for(tag) THEN Err("Decoding")
     ELSE CASE tag.type = "Bool" ->
                 Ok(Scalar("Bool", Real(IF registers[1] # 0 THEN 1 ELSE 0)))
            [] tag.type \in Integers16 ->
                 IF r16.ok THEN Integral(r16.value) ELSE r16
            [] tag.type \in Integers32 ->
                 IF be.ok THEN Integral(bytes_to_u32(be.value)) ELSE be
            [] tag.type = "Float32" ->
                 IF be.ok
                 THEN LET raw == FloatValue(bytes_to_u32(be.value)) IN
                      Ok(Scalar("Float32",
                                FloatValue(ToFloat(apply_scale(raw, tag)))))
                 ELSE be
            [] tag.type = "Float64" -> Ok(Scalar("Float64", Real(bits)))

encode(tag, value) ==
  LET order == effective_order(tag)
      raw == invert_scale(value.x, tag)
      int == checked_integral(tag.type, raw.value)
      r16 == reorder_u16(AsUnsigned(int.value, Word), order)
      w32(bits) == be_bytes_to_regs(u32_to_bytes(bits), order)
  IN CASE tag.type = "Bool" -> IF value.type = "Bool" THEN Ok(<<value.x.n>>)
                               ELSE Err("InvalidArgument")
       [] tag.type # "Bool" /\ ~raw.ok -> raw
       [] tag.type \in IntegerTypes /\ raw.ok /\ ~int.ok -> int
       [] tag.type \in Integers16 /\ raw.ok /\ int.ok ->
            IF r16.ok THEN Ok(<<r16.value>>) ELSE r16
       [] tag.type \in Integers32 /\ raw.ok /\ int.ok ->
            w32(AsUnsigned(int.value, DWord))
       [] tag.type = "Float32" /\ raw.ok ->
            IF Less(FloatValue(MaxFloat), Distance(raw.value, Real(0)))
            THEN Err("InvalidArgument") ELSE w32(ToFloat(raw.value))
       [] tag.type = "Float64" /\ raw.ok ->
            LET b == raw.value.n IN
            Ok(<<b \div (Word * DWord), (b \div DWord) % Word,
                 (b \div Word) % Word, b % Word>>)

-----------------------------------------------------------------------------
(* The tag on its way.                                                     *)

CONSTANTS
  Tags,              \* tags as the project gives them
  Initially(_),      \* contents of the registers of a tag at first
  Registers(_),      \* contents the device may give them later
  Variants,          \* what clients write: [type, x]
  Behind             \* what may lie in memory behind a vector of registers

VARIABLES
  tag,       \* the tag of the binding
  regs,      \* its registers in the device
  entry,     \* its TagStore entry
  queued,    \* the write in the queue
  wrote      \* the last write the device took, until it changes by itself

pathVars == <<tag, regs, entry, queued, wrote>>

NoScalar == Scalar("none", Real(0))
PollErrors == {"Timeout", "ModbusException", "NoCommunication"}

-----------------------------------------------------------------------------
(* The OPC UA side.                                                        *)

bad_status(reason) ==
  CASE reason \in {"Timeout", "NoCommunication"} -> "BADNOCOMMUNICATION"
    [] reason = "DecodingError" -> "BADDECODINGERROR"
    [] reason = "WriteRejected" -> "BADWRITENOTSUPPORTED"
    [] reason = "ModbusException" -> "BADDEVICEFAILURE"
    [] OTHER -> "BADINTERNALERROR"

\* UNCERTAIN and BAD carry the last value.
quality_to_status(quality, reason) ==
  CASE quality = "Good" -> "GOOD"
    [] quality = "Uncertain" -> "UNCERTAINLASTUSABLEVALUE"
    [] OTHER -> bad_status(reason)

\* std::get throws on another alternative: no value.
fill_variant(type, value) == value.type = type

data_source_read(t, e) ==
  IF e.quality = "Absent"
  THEN [status |-> "BADNOCOMMUNICATION", hasValue |-> FALSE]
  ELSE [status |-> quality_to_status(e.quality, e.reason),
        hasValue |-> e.value.type # "none" /\ fill_variant(t.type, e.value)]

variant_to_scalar(type, variant) ==
  IF variant.type = type THEN variant ELSE NoScalar

with_quality(e, quality, reason) ==
  [e EXCEPT !.quality = quality, !.reason = reason]

-----------------------------------------------------------------------------
PathInit ==
  /\ tag \in Tags
  /\ regs \in Initially(tag)
  /\ entry = [value |-> NoScalar, quality |-> "Absent", reason |-> "None"]
  /\ queued = NoScalar
  /\ wrote = NoScalar

DeviceChanges ==
  /\ regs' \in Registers(tag)
  /\ wrote' = NoScalar
  /\ UNCHANGED <<tag, entry, queued>>

\* poll_tag: read, decode, publish.
Poll ==
  /\ \E behind \in Behind :
       LET decoded == decode(tag, regs, behind) IN
       entry' = IF decoded.ok
                THEN [value |-> decoded.value, quality |-> "Good",
                      reason |-> "None"]
                ELSE with_quality(entry, "Bad", "DecodingError")
  /\ UNCHANGED <<tag, regs, queued, wrote>>

PollFails(reason) ==
  /\ entry' = with_quality(entry, "Bad", reason)
  /\ UNCHANGED <<tag, regs, queued, wrote>>

\* Refusals (BADNOTWRITABLE, BADTYPEMISMATCH) change nothing.
data_source_write(variant) ==
  /\ tag.writable
  /\ variant_to_scalar(tag.type, variant) # NoScalar
  /\ queued = NoScalar
  /\ queued' = variant_to_scalar(tag.type, variant)
  /\ entry' = with_quality(entry, "Uncertain", "WritePending")
  /\ UNCHANGED <<tag, regs, wrote>>

\* The device takes as many registers as encode gives.
Taken(encoded) ==
  [i \in 1..Len(regs) |-> IF i <= Len(encoded) THEN encoded[i] ELSE regs[i]]

\* flush_writes for one write.
flush_write ==
  /\ queued # NoScalar
  /\ LET encoded == encode(tag, queued) IN
     \/ /\ ~encoded.ok
        /\ entry' = with_quality(entry, "Bad", "DecodingError")
        /\ UNCHANGED <<regs, wrote>>
     \/ /\ encoded.ok
        /\ regs' = Taken(encoded.value)
        /\ entry' = [value |-> queued, quality |-> "Good", reason |-> "None"]
        /\ wrote' = queued
     \/ /\ encoded.ok
        /\ entry' = with_quality(entry, "Bad", "WriteRejected")
        /\ UNCHANGED <<regs, wrote>>
  /\ queued' = NoScalar
  /\ UNCHANGED tag

PathNext ==
  \/ DeviceChanges
  \/ Poll
  \/ \E reason \in PollErrors : PollFails(reason)
  \/ \E variant \in Variants : data_source_write(variant)
  \/ flush_write

PathSpec == PathInit /\ [][PathNext]_pathVars
-----------------------------------------------------------------------------
Reading(r) == decode(tag, r, <<0, 0, 0>>)

\* For an integer tag without scaling, a client that writes back the value it
\* read leaves every register as it was: encode inverts decode bit for bit,
\* whatever the byte order, the sign and the value (translator.cpp).
RawKept ==
  LET r == Reading(regs) IN
  (/\ tag.type \in IntegerTypes
   /\ Same(tag.scale, Real(1)) /\ tag.offset.n = 0
   /\ r.ok /\ Len(regs) = register_count_for(tag.type))
  => encode(tag, r.value) = Ok(regs)

\* Writing back a value that was read, when encode takes it, leaves the value
\* that is read next: scaling rounds twice, yet a read-modify-write does not
\* drift.
WriteInvertsRead ==
  LET r == Reading(regs)
      e == encode(tag, r.value)
  IN (r.ok /\ tag.type # "Float64" /\ e.ok)
     => LET again == Reading(Taken(e.value)) IN
        again.ok /\ Same(again.value.x, r.value.x)

\* The same for the tags whose scale is not 1 or -1 or whose offset is a whole
\* number (translator.cpp, apply_scale, invert_scale and checked_integral).
WriteBackKeeps ==
  (Abs(tag.scale.n) # tag.scale.d \/ tag.offset.n % tag.offset.d = 0)
    => WriteInvertsRead

\* After a write that the device took, an integer tag that can be read reads
\* back within half a step of the register and half a unit of what the client
\* wrote: no wrapping and no cutting off on the way (flush_writes, encode,
\* decode).
ReadBackClose ==
  LET r == Reading(regs) IN
  (wrote.type \in IntegerTypes /\ r.ok)
  => LET d == Distance(r.value.x, wrote.x) IN
     2 * d.n * tag.scale.d <= d.d * (Abs(tag.scale.n) + tag.scale.d)

\* A client that is told GOOD gets a value of the type of the node: every value
\* that reaches the TagStore, read or written, has the type of its tag
\* (data_source_read, fill_variant).
GoodIsTyped ==
  data_source_read(tag, entry).status = "GOOD"
    => data_source_read(tag, entry).hasValue
=============================================================================

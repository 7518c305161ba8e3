----------------------------- MODULE ModbusCodec -----------------------------
(***************************************************************************)
(* Src/adapters/modbus_protocol.cpp: the MBAP frame, the request PDUs and  *)
(* the decoding of responses, byte by byte.  Bytes are 0..255, words are   *)
(* 0..65535; a byte vector is a sequence, so index i of the code is i + 1  *)
(* here.                                                                   *)
(***************************************************************************)
EXTENDS Integers, Sequences, TLAPS

Bytes == {n \in Nat : n < 256}
Words == {n \in Nat : n < 65536}

\* domain::Result: a value, or an error with the exception code of the device.
Ok(v) == [kind |-> "ok", value |-> v]
Failed(code, status) == [kind |-> "error", value |-> <<code, status>>]
Decoding == Failed("Decoding", 0)

\* (hi << 8) | lo
Word(hi, lo) == hi * 256 + lo

append_u16(out, v) == out \o <<v \div 256, v % 256>>

U16(v) == append_u16(<<>>, v)

pack_mbap(tid, unit, pdu) ==
  U16(tid) \o U16(0) \o U16((1 + Len(pdu)) % 65536) \o <<unit>> \o pdu

\* What the transports take from an ADU: its PDU, an exception, or a refusal.
unpack_adu(adu) ==
  LET length == Word(adu[5], adu[6]) IN
  IF Len(adu) < 8 THEN Decoding
  ELSE IF length < 2 \/ 6 + length # Len(adu) THEN Decoding
  ELSE IF adu[8] >= 128
  THEN Failed("ModbusException", IF length > 2 THEN adu[9] ELSE -1)
  ELSE Ok(SubSeq(adu, 8, Len(adu)))

\* The transaction id of an ADU, which only the UDP transport looks at.
AduTid(adu) == Word(adu[1], adu[2])

-----------------------------------------------------------------------------
(* Requests.                                                               *)

make_read_registers_pdu(function, address, quantity) ==
  append_u16(append_u16(<<function>>, address), quantity)

make_read_bits_pdu(function, address, quantity) ==
  make_read_registers_pdu(function, address, quantity)

make_write_single_register_pdu(address, value) ==
  append_u16(append_u16(<<6>>, address), value)

\* The loop over append_u16: value i at bytes 2i - 1 and 2i.
WordBytes(values) ==
  [k \in 1..(2 * Len(values)) |->
     IF k % 2 = 1 THEN values[(k + 1) \div 2] \div 256 ELSE values[k \div 2] % 256]

make_write_multiple_registers_pdu(address, values) ==
  append_u16(append_u16(<<16>>, address), Len(values) % 65536)
    \o <<(2 * Len(values)) % 256>> \o WordBytes(values)

make_write_single_coil_pdu(address, value) ==
  append_u16(append_u16(<<5>>, address), IF value THEN 65280 ELSE 0)

\* 1u << k
Shifted(k) == CASE k = 0 -> 1 [] k = 1 -> 2 [] k = 2 -> 4 [] k = 3 -> 8
                [] k = 4 -> 16 [] k = 5 -> 32 [] k = 6 -> 64 [] k = 7 -> 128

\* Mutated form: the first bit is the highest of its byte.
PackedByteReversed(values, b) ==
  LET bit(k) == IF 8 * b + k < Len(values) /\ values[8 * b + k + 1]
                THEN Shifted(7 - k) ELSE 0
  IN bit(0) + bit(1) + bit(2) + bit(3) + bit(4) + bit(5) + bit(6) + bit(7)

\* Byte b (from 0) of the packed bits: value 8b + k is bit k.
PackedByte(values, b) ==
  LET bit(k) == IF 8 * b + k < Len(values) /\ values[8 * b + k + 1] THEN Shifted(k) ELSE 0
  IN bit(0) + bit(1) + bit(2) + bit(3) + bit(4) + bit(5) + bit(6) + bit(7)

PackedBits(values) ==
  [b \in 1..((Len(values) + 7) \div 8) |-> PackedByte(values, b - 1)]

MaxCoils == 1968

make_write_multiple_coils_pdu(address, values) ==
  IF values = <<>> \/ Len(values) > MaxCoils
  THEN Failed("InvalidArgument", 0)
  ELSE Ok(append_u16(append_u16(<<15>>, address), Len(values))
            \o <<(Len(values) + 7) \div 8>> \o PackedBits(values))

-----------------------------------------------------------------------------
(* Responses.                                                              *)

decode_register_response(resp, quantity) ==
  IF Len(resp) < 2 THEN Decoding
  ELSE IF Len(resp) < 2 + resp[2] \/ resp[2] # quantity * 2 THEN Decoding
  ELSE Ok([i \in 1..quantity |-> Word(resp[2 * i + 1], resp[2 * i + 2])])

\* The byte count is compared with the length of the response, not with the
\* quantity.
decode_bits_response(resp, quantity) ==
  IF Len(resp) < 2 THEN Decoding
  ELSE IF Len(resp) < 2 + resp[2] THEN Decoding
  ELSE Ok([i \in 1..quantity |->
             (resp[3 + (i - 1) \div 8] \div Shifted((i - 1) % 8)) % 2 = 1])

-----------------------------------------------------------------------------
(* What the codec does for every frame, not only for those TLC enumerates. *)

\* The two bytes append_u16 writes are bytes, and (hi << 8) | lo gives the word
\* back.
LEMMA WordOfItsBytes ==
  ASSUME NEW v \in Words
  PROVE  /\ v \div 256 \in Bytes
         /\ v % 256 \in Bytes
         /\ Word(v \div 256, v % 256) = v
<1> v \in Int /\ 0 <= v /\ v <= 65535
  BY DEF Words
<1>1. v \div 256 \in Int /\ 0 <= v \div 256
  OBVIOUS
<1>2. v \div 256 <= 255
  OBVIOUS
<1>3. v % 256 \in Int /\ 0 <= v % 256 /\ v % 256 <= 255
  OBVIOUS
<1>4. (v \div 256) * 256 + (v % 256) = v
  OBVIOUS
<1> QED BY <1>1, <1>2, <1>3, <1>4 DEF Bytes, Word

\* U16 is the word alone.
LEMMA WordAlone ==
  ASSUME NEW v \in Words
  PROVE  /\ U16(v) \in Seq(Bytes)
         /\ Len(U16(v)) = 2
         /\ U16(v)[1] = v \div 256
         /\ U16(v)[2] = v % 256
<1> DEFINE hi == v \div 256
           lo == v % 256
<1>1. hi \in Bytes /\ lo \in Bytes
  BY WordOfItsBytes
<1>2. U16(v) = <<>> \o <<hi, lo>>
  BY DEF U16, append_u16
<1> HIDE DEF hi, lo
<1>3. /\ <<>> \o <<hi, lo>> \in Seq(Bytes)
      /\ Len(<<>> \o <<hi, lo>>) = 2
      /\ (<<>> \o <<hi, lo>>)[1] = hi
      /\ (<<>> \o <<hi, lo>>)[2] = lo
  BY <1>1
<1> QED BY <1>2, <1>3 DEF hi, lo

\* The header pack_mbap writes, byte by byte, and the PDU behind it.
LEMMA PackedFrame ==
  ASSUME NEW tid \in Words, NEW unit \in Bytes, NEW pdu \in Seq(Bytes),
         1 <= Len(pdu), Len(pdu) <= 65534
  PROVE  LET adu == pack_mbap(tid, unit, pdu) IN
         /\ adu \in Seq(Bytes)
         /\ Len(adu) = 7 + Len(pdu)
         /\ adu[1] = tid \div 256 /\ adu[2] = tid % 256
         /\ adu[5] = (1 + Len(pdu)) \div 256 /\ adu[6] = (1 + Len(pdu)) % 256
         /\ adu[7] = unit
         /\ \A i \in 1..Len(pdu) : adu[7 + i] = pdu[i]
<1> DEFINE n == 1 + Len(pdu)
           a == U16(tid)
           b == U16(0)
           c == U16(n)
           u == <<unit>>
           p1 == a \o b
           p2 == p1 \o c
           p3 == p2 \o u
           adu == p3 \o pdu
<1>0. Len(pdu) \in Nat
  OBVIOUS
<1>1. n \in Words
  BY <1>0 DEF Words
<1>2. n % 65536 = n
  BY <1>0
<1>3. 0 \in Words
  BY DEF Words
<1>4. pack_mbap(tid, unit, pdu) = adu
  BY <1>2 DEF pack_mbap
<1>5. n = 1 + Len(pdu)
  OBVIOUS
<1> HIDE DEF n
<1>a. a \in Seq(Bytes) /\ Len(a) = 2 /\ a[1] = tid \div 256 /\ a[2] = tid % 256
  BY WordAlone
<1>b. b \in Seq(Bytes) /\ Len(b) = 2
  BY <1>3, WordAlone
<1>c. c \in Seq(Bytes) /\ Len(c) = 2 /\ c[1] = n \div 256 /\ c[2] = n % 256
  BY <1>1, WordAlone
<1>u. u \in Seq(Bytes) /\ Len(u) = 1 /\ u[1] = unit
  OBVIOUS
<1> HIDE DEF a, b, c, u
<1>6. p1 \in Seq(Bytes) /\ Len(p1) = 4 /\ \A i \in 1..2 : p1[i] = a[i]
  <2>0. a \in Seq(Bytes) /\ b \in Seq(Bytes)
    BY <1>a, <1>b
  <2>1. /\ a \o b \in Seq(Bytes)
        /\ Len(a \o b) = Len(a) + Len(b)
        /\ \A i \in 1..Len(a) : (a \o b)[i] = a[i]
        /\ \A i \in 1..Len(b) : (a \o b)[Len(a) + i] = b[i]
    BY <2>0
  <2> QED BY <2>1, <1>a, <1>b, SMTT(60) DEF p1
<1> HIDE DEF p1
<1>7. /\ p2 \in Seq(Bytes) /\ Len(p2) = 6
      /\ \A i \in 1..4 : p2[i] = p1[i]
      /\ \A i \in 1..2 : p2[4 + i] = c[i]
  <2>0. p1 \in Seq(Bytes) /\ c \in Seq(Bytes)
    BY <1>6, <1>c
  <2>1. /\ p1 \o c \in Seq(Bytes)
        /\ Len(p1 \o c) = Len(p1) + Len(c)
        /\ \A i \in 1..Len(p1) : (p1 \o c)[i] = p1[i]
        /\ \A i \in 1..Len(c) : (p1 \o c)[Len(p1) + i] = c[i]
    BY <2>0
  <2> QED BY <2>1, <1>6, <1>c, SMTT(60) DEF p2
<1> HIDE DEF p2
<1>8. /\ p3 \in Seq(Bytes) /\ Len(p3) = 7
      /\ \A i \in 1..6 : p3[i] = p2[i]
      /\ \A i \in 1..1 : p3[6 + i] = u[i]
  <2>0. p2 \in Seq(Bytes) /\ u \in Seq(Bytes)
    BY <1>7, <1>u
  <2>1. /\ p2 \o u \in Seq(Bytes)
        /\ Len(p2 \o u) = Len(p2) + Len(u)
        /\ \A i \in 1..Len(p2) : (p2 \o u)[i] = p2[i]
        /\ \A i \in 1..Len(u) : (p2 \o u)[Len(p2) + i] = u[i]
    BY <2>0
  <2> QED BY <2>1, <1>7, <1>u, SMTT(60) DEF p3
<1> HIDE DEF p3
<1>9. /\ adu \in Seq(Bytes) /\ Len(adu) = 7 + Len(pdu)
      /\ \A i \in 1..7 : adu[i] = p3[i]
      /\ \A i \in 1..Len(pdu) : adu[7 + i] = pdu[i]
  <2>0. p3 \in Seq(Bytes) /\ pdu \in Seq(Bytes)
    BY <1>8
  <2>1. /\ p3 \o pdu \in Seq(Bytes)
        /\ Len(p3 \o pdu) = Len(p3) + Len(pdu)
        /\ \A i \in 1..Len(p3) : (p3 \o pdu)[i] = p3[i]
        /\ \A i \in 1..Len(pdu) : (p3 \o pdu)[Len(p3) + i] = pdu[i]
    BY <2>0
  <2> QED BY <2>1, <1>8, SMTT(60) DEF adu
<1> HIDE DEF adu
<1>10. adu[1] = tid \div 256 /\ adu[2] = tid % 256
  BY <1>a, <1>6, <1>7, <1>8, <1>9, SMTT(60)
<1>11. adu[5] = n \div 256 /\ adu[6] = n % 256 /\ adu[7] = unit
  <2>1. adu[5] = p3[5] /\ adu[6] = p3[6] /\ adu[7] = p3[7]
    BY <1>9
  <2>2. p3[5] = p2[5] /\ p3[6] = p2[6] /\ p3[7] = u[1]
    BY <1>8
  <2>3. p2[5] = c[1] /\ p2[6] = c[2]
    BY <1>7
  <2> QED BY <2>1, <2>2, <2>3, <1>c, <1>u
<1> QED BY <1>4, <1>5, <1>9, <1>10, <1>11

-----------------------------------------------------------------------------
\* A frame pack_mbap builds is read back by unpack_adu as the PDU it was built
\* from, with its transaction id, for every id, unit and PDU of up to 65534
\* bytes that is not an exception: the length field never disagrees with the
\* frame (modbus_protocol.cpp, pack_mbap and unpack_adu).
THEOREM UnpackInvertsPack ==
  ASSUME NEW tid \in Words, NEW unit \in Bytes, NEW pdu \in Seq(Bytes),
         1 <= Len(pdu), Len(pdu) <= 65534, pdu[1] < 128
  PROVE  /\ unpack_adu(pack_mbap(tid, unit, pdu)) = Ok(pdu)
         /\ AduTid(pack_mbap(tid, unit, pdu)) = tid
<1> DEFINE adu == pack_mbap(tid, unit, pdu)
           n == 1 + Len(pdu)
           body == SubSeq(adu, 8, Len(adu))
<1>1. /\ adu \in Seq(Bytes) /\ Len(adu) = 7 + Len(pdu)
      /\ adu[1] = tid \div 256 /\ adu[2] = tid % 256
      /\ adu[5] = n \div 256 /\ adu[6] = n % 256
      /\ \A i \in 1..Len(pdu) : adu[7 + i] = pdu[i]
  BY PackedFrame
<1> HIDE DEF adu
<1>2. Len(pdu) \in Nat
  OBVIOUS
<1>3. n \in Words
  BY <1>2 DEF Words
<1>4. Word(adu[5], adu[6]) = n
  BY <1>1, <1>3, WordOfItsBytes
<1>5. AduTid(adu) = tid
  BY <1>1, WordOfItsBytes DEF AduTid
<1>6. adu[8] < 128
  <2>1. 1 \in 1..Len(pdu)
    BY <1>2
  <2>2. adu[7 + 1] = pdu[1]
    BY <1>1, <2>1
  <2> QED BY <2>2
<1>7. body = pdu
  BY <1>1, <1>2
<1>8. unpack_adu(adu) = Ok(body)
  <2>1. ~(Len(adu) < 8)
    BY <1>1, <1>2
  <2>2. ~(n < 2) /\ 6 + n = Len(adu)
    BY <1>1, <1>2
  <2>3. ~(adu[8] >= 128)
    <3>1. adu[8] \in Nat
      BY <1>1, <2>1 DEF Bytes
    <3> QED BY <3>1, <1>6
  <2> HIDE DEF n
  <2> QED BY <1>4, <2>1, <2>2, <2>3 DEF unpack_adu
<1> HIDE DEF body
<1>9. unpack_adu(adu) = Ok(pdu)
  BY <1>7, <1>8 DEF Ok
<1> QED BY <1>5, <1>9 DEF adu

\* The words make_write_multiple_registers_pdu lays out as bytes are the words
\* decode_register_response reads back, for every vector of up to 127 words
\* (the byte count is one byte): both sides are big-endian and agree on the
\* offset of word i.
THEOREM RegistersRoundTrip ==
  ASSUME NEW fn \in Bytes, NEW values \in Seq(Words), Len(values) <= 127
  PROVE  decode_register_response(<<fn, 2 * Len(values)>> \o WordBytes(values),
                                  Len(values)) = Ok(values)
<1> DEFINE n == Len(values)
           h == <<fn, 2 * n>>
           w == WordBytes(values)
           resp == h \o w
<1>1. n \in Nat
  OBVIOUS
<1>2. \A k \in 1..(2 * n) :
        w[k] = IF k % 2 = 1 THEN values[(k + 1) \div 2] \div 256
                            ELSE values[k \div 2] % 256
  BY DEF WordBytes
<1>3. w \in Seq(Bytes) /\ Len(w) = 2 * n
  <2>1. \A k \in 1..(2 * n) : w[k] \in Bytes
    <3> TAKE k \in 1..(2 * n)
    <3>1. CASE k % 2 = 1
      <4>1. (k + 1) \div 2 \in 1..n
        BY <1>1, <3>1
      <4>2. values[(k + 1) \div 2] \in Words
        BY <4>1
      <4> QED BY <4>2, <3>1, <1>2, WordOfItsBytes
    <3>2. CASE k % 2 # 1
      <4>1. k \div 2 \in 1..n
        BY <1>1, <3>2
      <4>2. values[k \div 2] \in Words
        BY <4>1
      <4> QED BY <4>2, <3>2, <1>2, WordOfItsBytes
    <3> QED BY <3>1, <3>2
  <2>2. w = [k \in 1..(2 * n) |-> w[k]]
    BY DEF WordBytes
  <2> HIDE DEF w
  <2> QED BY <1>1, <2>1, <2>2
<1>4. h \in Seq(Nat) /\ Len(h) = 2 /\ h[2] = 2 * n
  BY <1>1 DEF Bytes
<1> HIDE DEF w, h
<1>5. w \in Seq(Nat)
  BY <1>3 DEF Bytes
<1>6. /\ resp \in Seq(Nat) /\ Len(resp) = 2 + 2 * n /\ resp[2] = 2 * n
      /\ \A k \in 1..(2 * n) : resp[2 + k] = w[k]
  <2>0. h \in Seq(Nat) /\ w \in Seq(Nat)
    BY <1>4, <1>5
  <2>1. /\ h \o w \in Seq(Nat)
        /\ Len(h \o w) = Len(h) + Len(w)
        /\ \A k \in 1..Len(h) : (h \o w)[k] = h[k]
        /\ \A k \in 1..Len(w) : (h \o w)[Len(h) + k] = w[k]
    BY <2>0
  <2> QED BY <2>1, <1>1, <1>3, <1>4, SMTT(60) DEF resp
<1> HIDE DEF resp
<1>7. \A i \in 1..n : Word(resp[2 * i + 1], resp[2 * i + 2]) = values[i]
  <2> TAKE i \in 1..n
  <2>1. 2 * i - 1 \in 1..(2 * n) /\ 2 * i \in 1..(2 * n)
    BY <1>1
  <2>2. resp[2 * i + 1] = w[2 * i - 1] /\ resp[2 * i + 2] = w[2 * i]
    <3>1. 2 + (2 * i - 1) = 2 * i + 1 /\ 2 + 2 * i = 2 * i + 2
      OBVIOUS
    <3>2. resp[2 + (2 * i - 1)] = w[2 * i - 1] /\ resp[2 + 2 * i] = w[2 * i]
      BY <1>6, <2>1, Zenon
    <3> QED BY <3>1, <3>2
  <2>3. (2 * i - 1) % 2 = 1 /\ ((2 * i - 1) + 1) \div 2 = i
    OBVIOUS
  <2>4. (2 * i) % 2 # 1 /\ (2 * i) \div 2 = i
    OBVIOUS
  <2>5. w[2 * i - 1] = values[i] \div 256
    BY <1>2, <2>1, <2>3
  <2>6. w[2 * i] = values[i] % 256
    BY <1>2, <2>1, <2>4
  <2>7. values[i] \in Words
    OBVIOUS
  <2> QED BY <2>2, <2>5, <2>6, <2>7, WordOfItsBytes
<1>8. values = [i \in 1..n |-> values[i]]
  OBVIOUS
<1>9. [i \in 1..n |-> Word(resp[2 * i + 1], resp[2 * i + 2])] = values
  BY <1>7, <1>8
<1>10. decode_register_response(resp, n)
         = Ok([i \in 1..n |-> Word(resp[2 * i + 1], resp[2 * i + 2])])
  <2>1. ~(Len(resp) < 2) /\ ~(Len(resp) < 2 + resp[2]) /\ resp[2] = n * 2
    BY <1>1, <1>6
  <2> HIDE DEF n
  <2> QED BY <2>1 DEF decode_register_response
<1> QED BY <1>9, <1>10, Zenon DEF resp, h, w

\* Bit k of a packed byte is value 8b + k, and 0 behind the last value.
LEMMA BitOfPacked ==
  ASSUME NEW values \in Seq(BOOLEAN), NEW b \in Nat
  PROVE  /\ PackedByte(values, b) \in Bytes
         /\ \A k \in 0..7 :
              (PackedByte(values, b) \div Shifted(k)) % 2 = 1
                <=> 8 * b + k < Len(values) /\ values[8 * b + k + 1]
<1> DEFINE on(k) == 8 * b + k < Len(values) /\ values[8 * b + k + 1]
           bit(k) == IF on(k) THEN Shifted(k) ELSE 0
           S == PackedByte(values, b)
<1>1. S = bit(0) + bit(1) + bit(2) + bit(3) + bit(4) + bit(5) + bit(6) + bit(7)
  BY Zenon DEF PackedByte
<1>2. /\ Shifted(0) = 1 /\ Shifted(1) = 2 /\ Shifted(2) = 4 /\ Shifted(3) = 8
      /\ Shifted(4) = 16 /\ Shifted(5) = 32 /\ Shifted(6) = 64 /\ Shifted(7) = 128
  BY DEF Shifted
<1> HIDE DEF on, S
<1>3. /\ bit(0) \in {0, 1} /\ bit(1) \in {0, 2} /\ bit(2) \in {0, 4} /\ bit(3) \in {0, 8}
      /\ bit(4) \in {0, 16} /\ bit(5) \in {0, 32} /\ bit(6) \in {0, 64} /\ bit(7) \in {0, 128}
  BY <1>2, Zenon
<1>4. /\ (bit(0) = 1 <=> on(0)) /\ (bit(1) = 2 <=> on(1)) /\ (bit(2) = 4 <=> on(2))
      /\ (bit(3) = 8 <=> on(3)) /\ (bit(4) = 16 <=> on(4)) /\ (bit(5) = 32 <=> on(5))
      /\ (bit(6) = 64 <=> on(6)) /\ (bit(7) = 128 <=> on(7))
  BY <1>2
<1> HIDE DEF bit
<1> DEFINE x0 == bit(0)
           x1 == bit(1)
           x2 == bit(2)
           x3 == bit(3)
           x4 == bit(4)
           x5 == bit(5)
           x6 == bit(6)
           x7 == bit(7)
<1>a. S = x0 + x1 + x2 + x3 + x4 + x5 + x6 + x7
  BY <1>1
<1>b. /\ x0 \in {0, 1} /\ x1 \in {0, 2} /\ x2 \in {0, 4} /\ x3 \in {0, 8}
      /\ x4 \in {0, 16} /\ x5 \in {0, 32} /\ x6 \in {0, 64} /\ x7 \in {0, 128}
  BY <1>3
<1>c. /\ (x0 = 1 <=> on(0)) /\ (x1 = 2 <=> on(1)) /\ (x2 = 4 <=> on(2)) /\ (x3 = 8 <=> on(3))
      /\ (x4 = 16 <=> on(4)) /\ (x5 = 32 <=> on(5)) /\ (x6 = 64 <=> on(6)) /\ (x7 = 128 <=> on(7))
  BY <1>4
<1> HIDE DEF x0, x1, x2, x3, x4, x5, x6, x7
<1>5. S \in Bytes
  BY <1>a, <1>b DEF Bytes
<1>6. ASSUME NEW k \in 0..7 PROVE (S \div Shifted(k)) % 2 = 1 <=> on(k)
  <2>0. CASE k = 0
    <3>1. (S \div 1) % 2 = 1 <=> x0 = 1
      BY <1>a, <1>b
    <3> QED BY <1>2, <1>c, <2>0, <3>1
  <2>1. CASE k = 1
    <3>1. (S \div 2) % 2 = 1 <=> x1 = 2
      BY <1>a, <1>b
    <3> QED BY <1>2, <1>c, <2>1, <3>1
  <2>2. CASE k = 2
    <3>1. (S \div 4) % 2 = 1 <=> x2 = 4
      BY <1>a, <1>b
    <3> QED BY <1>2, <1>c, <2>2, <3>1
  <2>3. CASE k = 3
    <3>1. (S \div 8) % 2 = 1 <=> x3 = 8
      BY <1>a, <1>b
    <3> QED BY <1>2, <1>c, <2>3, <3>1
  <2>4. CASE k = 4
    <3>1. (S \div 16) % 2 = 1 <=> x4 = 16
      BY <1>a, <1>b
    <3> QED BY <1>2, <1>c, <2>4, <3>1
  <2>5. CASE k = 5
    <3>1. (S \div 32) % 2 = 1 <=> x5 = 32
      BY <1>a, <1>b
    <3> QED BY <1>2, <1>c, <2>5, <3>1
  <2>6. CASE k = 6
    <3>1. (S \div 64) % 2 = 1 <=> x6 = 64
      BY <1>a, <1>b
    <3> QED BY <1>2, <1>c, <2>6, <3>1
  <2>7. CASE k = 7
    <3>1. (S \div 128) % 2 = 1 <=> x7 = 128
      BY <1>a, <1>b
    <3> QED BY <1>2, <1>c, <2>7, <3>1
  <2> QED BY <2>0, <2>1, <2>2, <2>3, <2>4, <2>5, <2>6, <2>7
<1> QED BY <1>5, <1>6, Zenon DEF S, on

\* The coils make_write_multiple_coils_pdu packs are the bits
\* decode_bits_response reads back, for every vector it accepts: both sides put
\* value 8b + k into bit k of byte b, also in a last byte that is not full.
THEOREM BitsRoundTrip ==
  ASSUME NEW fn \in Bytes, NEW values \in Seq(BOOLEAN), Len(values) <= MaxCoils
  PROVE  decode_bits_response(<<fn, (Len(values) + 7) \div 8>> \o PackedBits(values),
                              Len(values)) = Ok(values)
<1> DEFINE n == Len(values)
           m == (n + 7) \div 8
           h == <<fn, m>>
           w == PackedBits(values)
           resp == h \o w
<1>1. n \in Nat /\ m \in Nat
  OBVIOUS
<1>2. w = [b \in 1..m |-> PackedByte(values, b - 1)]
  BY DEF PackedBits
<1>3. w \in Seq(Nat) /\ Len(w) = m
  <2>1. \A b \in 1..m : PackedByte(values, b - 1) \in Nat
    <3> TAKE b \in 1..m
    <3>1. b - 1 \in Nat
      BY <1>1
    <3>2. PackedByte(values, b - 1) \in Bytes
      BY <3>1, BitOfPacked
    <3> QED BY <3>2 DEF Bytes
  <2> HIDE DEF w, m
  <2> QED BY <1>1, <1>2, <2>1
<1>4. h \in Seq(Nat) /\ Len(h) = 2 /\ h[2] = m
  <2> HIDE DEF m
  <2> QED BY <1>1 DEF Bytes
<1>5. ASSUME NEW i \in 1..n
      PROVE  /\ (i - 1) \div 8 \in Nat /\ (i - 1) % 8 \in 0..7
             /\ (i - 1) \div 8 + 1 \in 1..m
             /\ 8 * ((i - 1) \div 8) + ((i - 1) % 8) = i - 1
  <2>1. i - 1 \in Nat /\ i - 1 < n
    BY <1>1
  <2> DEFINE j == i - 1
  <2>2. j \in Nat /\ j < n
    BY <2>1
  <2> HIDE DEF j, n
  <2>a. j \in Nat
    BY <2>2
  <2>3. j \div 8 \in Nat /\ j % 8 \in 0..7 /\ 8 * (j \div 8) + (j % 8) = j
    <3>1. j \div 8 \in Nat
      BY <2>a
    <3>2. j % 8 \in 0..7
      BY <2>a
    <3>3. 8 * (j \div 8) + (j % 8) = j
      BY <2>a
    <3> QED BY <3>1, <3>2, <3>3, Zenon
  <2>4. j \div 8 + 1 \in 1..m
    BY <1>1, <2>2, <2>3
  <2> QED BY <2>3, <2>4 DEF j
<1> HIDE DEF w, h, m
<1>6. /\ Len(resp) = 2 + m /\ resp[2] = m
      /\ \A k \in 1..m : resp[2 + k] = w[k]
  <2>0. h \in Seq(Nat) /\ w \in Seq(Nat)
    BY <1>3, <1>4
  <2>1. /\ Len(h \o w) = Len(h) + Len(w)
        /\ \A k \in 1..Len(h) : (h \o w)[k] = h[k]
        /\ \A k \in 1..Len(w) : (h \o w)[Len(h) + k] = w[k]
    BY <2>0
  <2> QED BY <2>1, <1>1, <1>3, <1>4, SMTT(60) DEF resp
<1> HIDE DEF resp
<1>7. \A i \in 1..n :
        ((resp[3 + (i - 1) \div 8] \div Shifted((i - 1) % 8)) % 2 = 1) = values[i]
  <2> TAKE i \in 1..n
  <2> DEFINE q == (i - 1) \div 8
             r == (i - 1) % 8
  <2>1. q \in Nat /\ r \in 0..7 /\ q + 1 \in 1..m /\ 8 * q + r = i - 1
    BY <1>5
  <2> HIDE DEF q, r
  <2>2. resp[3 + q] = PackedByte(values, q)
    <3>1. 3 + q = 2 + (q + 1) /\ (q + 1) - 1 = q
      BY <2>1
    <3>2. resp[2 + (q + 1)] = w[q + 1] /\ w[q + 1] = PackedByte(values, (q + 1) - 1)
      BY <1>2, <1>6, <2>1, Zenon
    <3> QED BY <3>1, <3>2
  <2>3. (PackedByte(values, q) \div Shifted(r)) % 2 = 1 <=> 8 * q + r < n /\ values[8 * q + r + 1]
    BY <2>1, BitOfPacked, Zenon
  <2>4. 8 * q + r < n /\ 8 * q + r + 1 = i
    BY <1>1, <2>1
  <2>5. values[i] \in BOOLEAN
    OBVIOUS
  <2>6. (resp[3 + q] \div Shifted(r)) % 2 = 1 <=> values[i]
    BY <2>2, <2>3, <2>4, Zenon
  <2>7. ((resp[3 + q] \div Shifted(r)) % 2 = 1) = values[i]
    BY <2>5, <2>6, Zenon
  <2> QED BY <2>7, Zenon DEF q, r
<1>8. values = [i \in 1..n |-> values[i]]
  OBVIOUS
<1>9. [i \in 1..n |-> (resp[3 + (i - 1) \div 8] \div Shifted((i - 1) % 8)) % 2 = 1] = values
  BY <1>7, <1>8, Zenon
<1>10. decode_bits_response(resp, n)
         = Ok([i \in 1..n |-> (resp[3 + (i - 1) \div 8] \div Shifted((i - 1) % 8)) % 2 = 1])
  <2>1. ~(Len(resp) < 2) /\ ~(Len(resp) < 2 + resp[2])
    BY <1>1, <1>6
  <2> HIDE DEF n
  <2> QED BY <2>1, Zenon DEF decode_bits_response
<1> QED BY <1>9, <1>10, Zenon DEF resp, h, w, m
=============================================================================

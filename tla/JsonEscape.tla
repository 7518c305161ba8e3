----------------------------- MODULE JsonEscape -----------------------------
(***************************************************************************)
(* How the vendored JSON library writes a string (serializer::dump_escaped *)
(* and decode in Lib/Json/json.hpp): one step per byte, through a buffer   *)
(* of fixed size, with the three ways to treat bytes that are not UTF-8.   *)
(***************************************************************************)
EXTENDS JsonGrammar

CONSTANTS
  Strings,         \* the strings to write, as bytes
  Handlers,        \* error_handler_t
  BufferSize       \* the size of string_buffer

VARIABLES
  s, ensure_ascii, error_handler,
  i, state, codepoint,
  buffer,                   \* the first bytes of string_buffer
  bytes_after_last_accept, undumped_chars,
  out,                      \* what the output adapter was given
  peak,                     \* the last place of string_buffer written by the step
  outcome                   \* "writing", "ok" or "error"

vars == <<s, ensure_ascii, error_handler, i, state, codepoint, buffer,
          bytes_after_last_accept, undumped_chars, out, peak, outcome>>

UTF8_ACCEPT == 0
UTF8_REJECT == 1

Init ==
  /\ s \in Strings /\ ensure_ascii \in BOOLEAN /\ error_handler \in Handlers
  /\ i = 1 /\ state = UTF8_ACCEPT /\ codepoint = 0
  /\ buffer = <<>> /\ bytes_after_last_accept = 0 /\ undumped_chars = 0
  /\ out = <<>> /\ peak = 0 /\ outcome = "writing"

-----------------------------------------------------------------------------
(* decode: the classes of bytes and the transitions of utf8d.              *)

Type(byte) ==
  CASE byte \in 0..127 -> 0
    [] byte \in 128..143 -> 1
    [] byte \in 144..159 -> 9
    [] byte \in 160..191 -> 7
    [] byte \in 194..223 -> 2
    [] byte = 224 -> 10
    [] byte = 237 -> 4
    [] byte \in 225..239 \ {237} -> 3
    [] byte = 240 -> 11
    [] byte = 244 -> 5
    [] byte \in 241..243 -> 6
    [] OTHER -> 8

Lead == (0 :> 0 @@ 2 :> 2 @@ 3 :> 3 @@ 4 :> 5 @@ 5 :> 8 @@ 6 :> 7 @@ 10 :> 4 @@ 11 :> 6)

Transition(st, type) ==
  CASE st = 0 /\ type \in DOMAIN Lead -> Lead[type]
    [] st = 2 /\ type \in {1, 7, 9} -> 0
    [] st = 3 /\ type \in {1, 7, 9} -> 2
    [] st = 4 /\ type = 7 -> 2
    [] st = 5 /\ type \in {1, 9} -> 2
    [] st = 6 /\ type \in {7, 9} -> 3
    [] st = 7 /\ type \in {1, 7, 9} -> 3
    [] st = 8 /\ type = 1 -> 3
    [] OTHER -> UTF8_REJECT

\* A byte of type t > 0 that starts a character keeps its low 8 - t bits.
Codepoint(byte) ==
  IF state # UTF8_ACCEPT THEN (byte % 64) + codepoint * 64
  ELSE IF Type(byte) > 8 THEN 0 ELSE byte % (2^(8 - Type(byte)))

-----------------------------------------------------------------------------
(* dump_escaped                                                            *)

HexDigit(n) == IF n < 10 THEN 48 + n ELSE 87 + n
U(n) == <<Backslash, 117, HexDigit(n \div 4096), HexDigit((n \div 256) % 16), HexDigit((n \div 16) % 16), HexDigit(n % 16)>>

Named == (8 :> 98 @@ 9 :> 116 @@ 10 :> 110 @@ 12 :> 102 @@ 13 :> 114 @@ Quote :> Quote @@ Backslash :> Backslash)

\* What is written for an accepted code point; snprintf ends its text with a NUL.
Escaped(cp, byte) ==
  CASE cp \in DOMAIN Named -> <<Backslash, Named[cp]>>
    [] cp \notin DOMAIN Named /\ (cp <= 31 \/ (ensure_ascii /\ cp >= 127)) /\ cp <= 65535 -> U(cp)
    [] cp > 65535 /\ ensure_ascii -> U(55232 + cp \div 1024) \o U(56320 + (cp % 1024))
    [] OTHER -> <<byte>>
Reach(text) == Len(text) + (IF Len(text) >= 6 THEN 1 ELSE 0)

\* The buffer is written out when fewer than 13 places are left.
Flush(text) ==
  IF BufferSize - Len(text) < 13
  THEN out' = out \o text /\ buffer' = <<>>
  ELSE out' = out /\ buffer' = text

Byte == s[i]
Decode == Transition(state, Type(Byte))
Writing == outcome = "writing" /\ i <= Len(s)
Same == UNCHANGED <<s, ensure_ascii, error_handler>>

accept ==
  /\ Writing /\ Decode = UTF8_ACCEPT
  /\ codepoint' = Codepoint(Byte) /\ state' = UTF8_ACCEPT
  /\ LET text == Escaped(codepoint', Byte) IN
     /\ Flush(buffer \o text)
     /\ peak' = Len(buffer) + Reach(text)
  /\ bytes_after_last_accept' = Len(buffer')
  /\ undumped_chars' = 0
  /\ i' = i + 1
  /\ UNCHANGED outcome /\ Same

reject_strict ==
  /\ Writing /\ Decode = UTF8_REJECT /\ error_handler = "strict"
  /\ outcome' = "error"
  /\ UNCHANGED <<i, state, codepoint, buffer, bytes_after_last_accept, undumped_chars, out, peak>> /\ Same

Replacement == IF ensure_ascii THEN U(65533) ELSE <<239, 191, 189>>
Accepted == SubSeq(buffer, 1, bytes_after_last_accept)

\* A mutant: the byte that ends an incomplete character is dropped with it.
reject_drop ==
  /\ Writing /\ Decode = UTF8_REJECT /\ error_handler # "strict"
  /\ codepoint' = Codepoint(Byte) /\ state' = UTF8_ACCEPT
  /\ i' = i + 1
  /\ IF error_handler = "replace"
     THEN Flush(Accepted \o Replacement) /\ bytes_after_last_accept' = Len(buffer')
     ELSE buffer' = Accepted /\ UNCHANGED <<out, bytes_after_last_accept>>
  /\ peak' = Len(Accepted) + (IF error_handler = "replace" THEN Len(Replacement) ELSE 0)
  /\ undumped_chars' = 0
  /\ UNCHANGED outcome /\ Same

\* A byte that ends an incomplete character is read again by itself.
reject ==
  /\ Writing /\ Decode = UTF8_REJECT /\ error_handler # "strict"
  /\ codepoint' = Codepoint(Byte) /\ state' = UTF8_ACCEPT
  /\ i' = IF undumped_chars > 0 THEN i ELSE i + 1
  /\ IF error_handler = "replace"
     THEN Flush(Accepted \o Replacement) /\ bytes_after_last_accept' = Len(buffer')
     ELSE buffer' = Accepted /\ UNCHANGED <<out, bytes_after_last_accept>>
  /\ peak' = Len(Accepted) + (IF error_handler = "replace" THEN Len(Replacement) ELSE 0)
  /\ undumped_chars' = 0
  /\ UNCHANGED outcome /\ Same

incomplete ==
  /\ Writing /\ Decode \notin {UTF8_ACCEPT, UTF8_REJECT}
  /\ codepoint' = Codepoint(Byte) /\ state' = Decode
  /\ buffer' = IF ensure_ascii THEN buffer ELSE Append(buffer, Byte)
  /\ peak' = Len(buffer')
  /\ undumped_chars' = undumped_chars + 1
  /\ i' = i + 1
  /\ UNCHANGED <<bytes_after_last_accept, out, outcome>> /\ Same

finish ==
  /\ outcome = "writing" /\ i > Len(s)
  /\ out' = out \o (CASE state = UTF8_ACCEPT -> buffer
                      [] state # UTF8_ACCEPT /\ error_handler = "ignore" -> Accepted
                      [] state # UTF8_ACCEPT /\ error_handler = "replace" -> Accepted \o Replacement
                      [] OTHER -> <<>>)
  /\ outcome' = IF state # UTF8_ACCEPT /\ error_handler = "strict" THEN "error" ELSE "ok"
  /\ UNCHANGED <<i, state, codepoint, buffer, bytes_after_last_accept, undumped_chars, peak>> /\ Same

Next == accept \/ reject_strict \/ reject \/ incomplete \/ finish

Spec == Init /\ [][Next]_vars

-----------------------------------------------------------------------------
(* The reference: the characters of a string; bytes that are no character  *)
(* are taken together as far as some character starts with them.           *)

StartsOne(bytes) ==
  \E n \in 0..(4 - Len(bytes)) : \E rest \in [1..n -> {128, 191}] : IsUtf8(bytes \o rest)

RECURSIVE Repaired(_, _)
Repaired(bytes, instead) ==
  LET w == IF bytes = <<>> THEN 1 ELSE Width(bytes[1])
      after(n) == Repaired(SubSeq(bytes, n + 1, Len(bytes)), instead)
      stub == Max({1} \cup {n \in 1..Min({3, Len(bytes)}) : StartsOne(SubSeq(bytes, 1, n))})
  IN CASE bytes = <<>> -> <<>>
       [] Len(bytes) >= w /\ IsUtf8(SubSeq(bytes, 1, w)) -> SubSeq(bytes, 1, w) \o after(w)
       [] OTHER -> instead \o after(stub)

(* A string read back is the string written, whatever it holds, with       *)
(* characters escaped or not and however often the buffer was written out. *)
(* Bytes that are not UTF-8 are an error under strict, and otherwise are   *)
(* replaced or left out without touching the characters around them.       *)
EscapeExact ==
  outcome # "writing" =>
    LET r == StringOf(Append(out, Quote))
        whole == Repaired(s, <<>>)
    IN CASE error_handler = "strict" -> IF whole = s THEN outcome = "ok" /\ r.ok /\ r.bytes = s ELSE outcome = "error"
         [] error_handler = "ignore" -> outcome = "ok" /\ r.ok /\ r.bytes = whole
         [] OTHER -> outcome = "ok" /\ r.ok /\ r.bytes = Repaired(s, <<239, 191, 189>>)

(* No byte, not the NUL of snprintf either, is written past the end of     *)
(* string_buffer.                                                          *)
BufferHolds == peak <= BufferSize
=============================================================================

---------------------------- MODULE JsonGrammar ----------------------------
(***************************************************************************)
(* What RFC 8259 and the Unicode standard say of a text, for the modules   *)
(* of the vendored JSON library to be compared with: characters and their  *)
(* bytes, strings, numbers.  Characters of a text are byte values.         *)
(***************************************************************************)
EXTENDS Integers, Sequences, SequencesExt, FiniteSets

EOF == -1
NUL == 0
TAB == 9
LF == 10
CR == 13
Space == 32
Quote == 34
Star == 42
Plus == 43
CommaC == 44
Minus == 45
Dot == 46
Slash == 47
Colon == 58
OpenArray == 91
Backslash == 92
CloseArray == 93
OpenObject == 123
CloseObject == 125
Digit == 48..57
White == {Space, TAB, LF, CR}

IsCharacter(cp) == cp \in 0..55295 \/ cp \in 57344..1114111

HexValue(c) ==
  CASE c \in 48..57 -> c - 48 [] c \in 65..70 -> c - 55 [] c \in 97..102 -> c - 87 [] OTHER -> -1

Encoding(cp) ==
  LET n == CASE cp < 128 -> 0 [] cp \in 128..2047 -> 1 [] cp \in 2048..65535 -> 2 [] OTHER -> 3 IN
  [k \in 1..(n + 1) |-> IF k = 1 THEN <<0, 192, 224, 240>>[n + 1] + cp \div 64^n
                        ELSE 128 + ((cp \div 64^(n + 1 - k)) % 64)]

Width(c) == CASE c < 128 -> 1 [] c \in 192..223 -> 2 [] c \in 224..239 -> 3 [] OTHER -> 4

\* The code point n bytes would encode, if they encode one.
Decoded(bytes) ==
  FoldLeft(LAMBDA cp, b : cp * 64 + (b % 64),
           CASE Len(bytes) = 1 -> bytes[1] [] Len(bytes) = 2 -> bytes[1] % 32
             [] Len(bytes) = 3 -> bytes[1] % 16 [] OTHER -> bytes[1] % 8,
           Tail(bytes))

IsUtf8(bytes) ==
  LET cp == Decoded(bytes) IN IsCharacter(cp) /\ Encoding(cp) = bytes

Unit(s) ==
  IF Len(s) >= 6 /\ s[1] = Backslash /\ s[2] = 117 /\ \A k \in 3..6 : HexValue(s[k]) >= 0
  THEN FoldLeft(LAMBDA n, k : 16 * n + HexValue(s[k]), 0, <<3, 4, 5, 6>>)
  ELSE -1

\* The characters with an escape of two: " \\ / b f n r t
Short == [c \in {34, 92, 47, 98, 102, 110, 114, 116} |->
            CASE c = 98 -> 8 [] c = 102 -> 12 [] c = 110 -> 10 [] c = 114 -> 13 [] c = 116 -> 9 [] OTHER -> c]

Broken == [ok |-> FALSE, bytes |-> <<>>, size |-> 0]

\* What s, the text after an opening quote, says.
RECURSIVE StringOf(_)
StringOf(s) ==
  LET then(bytes, n) ==
        LET r == StringOf(SubSeq(s, n + 1, Len(s))) IN
        IF r.ok THEN [ok |-> TRUE, bytes |-> bytes \o r.bytes, size |-> n + r.size] ELSE Broken
      unit == Unit(s)
      second == Unit(SubSeq(s, 7, Len(s)))
      w == Width(s[1])
  IN CASE s = <<>> -> Broken
       [] s # <<>> /\ s[1] = Quote -> [ok |-> TRUE, bytes |-> <<>>, size |-> 1]
       [] s # <<>> /\ s[1] = Backslash ->
           (CASE IsCharacter(unit) -> then(Encoding(unit), 6)
              [] unit \in 55296..56319 /\ second \in 56320..57343
                   -> then(Encoding(65536 + 1024 * (unit - 55296) + (second - 56320)), 12)
              [] unit = -1 /\ Len(s) > 1 /\ s[2] \in DOMAIN Short -> then(<<Short[s[2]]>>, 2)
              [] OTHER -> Broken)
       [] OTHER -> IF s[1] >= 32 /\ Len(s) >= w /\ IsUtf8(SubSeq(s, 1, w))
                   THEN then(SubSeq(s, 1, w), w) ELSE Broken


Digits(s) == s # <<>> /\ ToSet(s) \subseteq Digit
Integer(s) == Digits(s) /\ (Len(s) > 1 => s[1] # 48)
Exp(s) ==
  /\ Len(s) > 1 /\ s[1] \in {69, 101}
  /\ Digits(Tail(s)) \/ (s[2] \in {Plus, Minus} /\ Digits(SubSeq(s, 3, Len(s))))
Fraction(s) == Len(s) > 1 /\ s[1] = Dot /\ Digits(Tail(s))
Unsigned(s) ==
  \E i \in 0..Len(s) : \E j \in i..Len(s) :
    /\ Integer(SubSeq(s, 1, i))
    /\ j = i \/ Fraction(SubSeq(s, i + 1, j))
    /\ j = Len(s) \/ Exp(SubSeq(s, j + 1, Len(s)))
Number(s) == Unsigned(s) \/ (s # <<>> /\ s[1] = Minus /\ Unsigned(Tail(s)))

\* Some number starts with s.
Viable(s) == Number(s) \/ Number(Append(s, 48))

ValueOf(s) == FoldLeft(LAMBDA n, d : 10 * n + d - 48, 0, s)
=============================================================================

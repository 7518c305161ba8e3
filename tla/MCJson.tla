------------------------------- MODULE MCJson -------------------------------
(***************************************************************************)
(* The vendored JSON library, one part at a time: texts read back from     *)
(* what was written ("round trip"), texts for the lexer, tokens for the    *)
(* parser, strings and numbers that are written, loops over values, and    *)
(* values that are built, copied, moved and destroyed ("value").           *)
(***************************************************************************)
EXTENDS JsonRoundTrip

VARIABLES
  about,                 \* the part the behaviour is about
  read,                  \* of JsonParser
  s, ensure_ascii, error_handler, i, state, codepoint, buffer,
  bytes_after_last_accept, undumped_chars, out, peak, written,   \* of JsonEscape
  x, text,               \* a number, and what was written for it
  kind, elems, it, proxy, answer, loop, origin, passed, erased, thrown,   \* of JsonIterator
  heap, named, result, doomed, stack, top                        \* of JsonValue

escapeVars == <<s, ensure_ascii, error_handler, i, state, codepoint, buffer,
                bytes_after_last_accept, undumped_chars, out, peak, written>>
numberVars == <<x, text>>
valueVars == <<heap, named, result, doomed, stack, top>>
loopVars == <<kind, elems, it, proxy, answer, loop, origin, passed, erased, thrown>>

-----------------------------------------------------------------------------
(* Values to write and read: scalars with what is escaped and the edges of *)
(* the integers, in arrays and objects up to two deep.                     *)

V(t, v) == [t |-> t, v |-> v]
Scalars == {V("value_string", <<>>), V("value_string", <<Quote, Backslash, LF, 1, Slash>>),
            V("value_unsigned", 0), V("value_unsigned", 2^Bits - 1),
            V("value_integer", -(2^(Bits - 1))), V("value_integer", -1),
            V("value_float", [negative |-> TRUE, digits |-> <<49, 53>>, exp |-> -1]),
            V("value_float", [negative |-> FALSE, digits |-> <<50>>, exp |-> 0]),
            V("value_float", [negative |-> FALSE, digits |-> <<49, 50>>, exp |-> 20]),
            V("value_float", N!NonFinite),
            V("literal_true", 0), V("literal_false", 0), V("literal_null", 0)}
Arrays(S) == {V("array", a) : a \in SeqOf(S, 2)}
Objects(S, K) == {V("object", [k \in D |-> f[k]]) : D \in SUBSET K, f \in [K -> S]}

Small == {V("value_unsigned", 7), V("array", <<>>), V("object", [k \in {} |-> 0])}
Level1 == Arrays(Small) \cup Objects(Small, {<<97>>, <<97, 98>>})
SomeValues ==
  Scalars \cup {V("array", <<a, b>>) : a \in Scalars, b \in {V("literal_null", 0), V("value_unsigned", 0)}}
    \cup Objects({V("literal_null", 0), V("value_string", <<Quote>>)}, {<<>>, <<97>>, <<97, 98>>})
    \cup Arrays(Level1) \cup {V("object", (<<97>> :> a @@ <<98>> :> a)) : a \in Level1}

-----------------------------------------------------------------------------
(* Texts for the lexer.  Strings: sequences of the bytes at the edges of   *)
(* the ranges of UTF-8, and escapes at the edges of the surrogates.        *)
(* Numbers: short texts over the characters of numbers.  Layout: white     *)
(* space, newlines, comments, marks and literals.                          *)

Edges == {31, 32, 34, 127, 128, 143, 144, 159, 160, 191, 193, 194, 223, 224, 237, 239, 240, 243, 244, 245}
Long == {<<a, b, c, d>> : a \in {240, 243, 244}, b \in {127, 128, 143, 144, 191}, c \in {128, 191, 194}, d \in {34, 128, 191, 240}}
Utf8Inputs == {<<Quote>> \o t \o <<Quote>> : t \in SeqOf(Edges, 3) \cup Long}

\* Four of 0, 8, b, C, d, F and one that is no hex digit.
Unicode == {<<Backslash, 117>> \o d : d \in SeqOf({48, 56, 98, 67, 100, 70, 103}, 4)}
Lows == {<<Backslash, 117, 68, 98, 70, 70>>, <<Backslash, 117, 100, 67, 48, 48>>,
         <<Backslash, 117, 100, 70, 70, 70>>, <<Backslash, 117, 101, 48, 48, 48>>,
         <<Backslash, 117, 100, 70>>, <<Backslash, 110>>, <<117>>, <<>>}
Highs == {u \in Unicode : Len(u) = 6 /\ u[3] = 100 /\ u[6] \in {48, 70}}
EscapeInputs ==
  {<<Quote>> \o u \o <<Quote>> : u \in Unicode} \cup {<<Quote>> \o u \o l \o <<Quote>> : u \in Highs, l \in Lows}
    \cup {<<Quote, Backslash, c>> \o r : c \in 32..126, r \in {<<>>, <<Quote>>}}

NumberInputs ==
  {b \o t : b \in {<<48>>, <<Minus>>, <<49>>, <<49, 56>>, <<Minus, 48>>, <<56, Dot, 48>>},
            t \in SeqOf({Minus, Plus, 48, 49, 56, Dot, 69, 101, CommaC}, 3)}

LayoutInputs ==
  {b \o t : b \in {<<>>, <<239, 187, 191>>, <<239, 187>>, <<Slash, Star>>},
            t \in SeqOf({Space, LF, CR, NUL, Slash, Star, 49, CloseArray}, 4)}
    \cup {b \o t : b \in {<<>>, <<LF>>}, t \in {<<116, 114, 117, 101>>, <<102, 97, 108, 115, 101>>,
            <<110, 117, 108, 108, 49>>, <<116, 114, 101>>, <<110, 117>>, <<OpenObject, Colon, CommaC, OpenArray, CloseObject>>}}

LexerInputs == Utf8Inputs \cup EscapeInputs \cup NumberInputs \cup LayoutInputs

Lex == INSTANCE JsonLexer WITH
         Inputs <- LexerInputs, ignore_comments <- TRUE, UIntMax <- 15, IntMax <- 7

-----------------------------------------------------------------------------
(* Tokens: two keys, which are values too, and one other scalar.  A number *)
(* too large for a double and what the lexer could not read are refused    *)
(* like the tokens that cannot stand where a value is read.                *)

SomeTokens ==
  {[k |-> k, v |-> "none"] : k \in {"begin_object", "end_object", "begin_array", "end_array", "name_separator",
                                    "value_separator", "literal_true", "parse_error", "end_of_input"}}
    \cup {[k |-> "value_string", v |-> n] : n \in {"a", "b"}}

Parser == INSTANCE JsonParser WITH
            Scalars <- {"value_string", "literal_true"}, Tokens <- SomeTokens, MaxTokens <- 10

-----------------------------------------------------------------------------
(* Strings of bytes at the edges of the ranges of UTF-8, and strings of    *)
(* characters of one to four bytes that fill a small buffer to every       *)
(* level.                                                                  *)

Bytes == {31, 34, 65, 128, 159, 160, 191, 193, 194, 224, 237, 240, 244}
Characters == {<<10>>, <<1>>, <<65>>, <<239, 191, 191>>, <<240, 159, 152, 128>>, <<240, 159, 152>>}
SomeStrings ==
  SeqOf(Bytes, 3) \cup {<<a, b, 128, c>> : a \in {240, 244}, b \in {128, 159, 160}, c \in {65, 191, 194}}
    \cup {FlattenSeq(t) : t \in SeqOf(Characters, 4)}

Escape == INSTANCE JsonEscape WITH
            outcome <- written, Strings <- SomeStrings, Handlers <- {"strict", "ignore", "replace"}, BufferSize <- 20

-----------------------------------------------------------------------------
(* Numbers: every integer of twelve bits, signed and unsigned; floats of   *)
(* up to four digits with exponents around every change of notation; and   *)
(* every positive float of nine bits of significand and sixteen exponents, *)
(* the denormal ones included, with diyfp of sixteen bits.                 *)

\* 10^k for k = -2, 0, .., 6 with sixteen bits.
Powers == <<[f |-> 41943, e |-> -22, k |-> -2], [f |-> 32768, e |-> -15, k |-> 0],
            [f |-> 51200, e |-> -9, k |-> 2], [f |-> 40000, e |-> -2, k |-> 4],
            [f |-> 62500, e |-> 4, k |-> 6]>>
MaxDigits == 4

T == INSTANCE JsonNumberText WITH
       Bits <- 12, kMinExp <- -4, kMaxExp <- 2, max_digits10 <- MaxDigits, q <- 16, p <- 9, kBias <- 13,
       kAlpha <- -12, kGamma <- -5, kCachedPowers <- Powers,
       kCachedPowersMinDecExp <- -2, kCachedPowersDecStep <- 2

ExponentEdges == (-12..12) \cup {-324, -110, -101, -100, -99, 99, 100, 101, 308}
DigitsUpTo(n) == {d \in SeqOf({48, 49, 57}, n) : d # <<>> => d[1] # 48 /\ d[Len(d)] # 48}
Floats == {f \in [negative : BOOLEAN, digits : DigitsUpTo(MaxDigits), exp : ExponentEdges] :
             f.digits = <<>> => f.exp = 0}
SomeNumbers ==
  {[kind |-> "integer", n |-> n] : n \in -2048..4095} \cup {[kind |-> "float", n |-> f] : f \in Floats \cup {T!NonFinite}}
    \cup {[kind |-> "bits", n |-> b] : b \in 1..4095}

Unwritten == <<>>
dump_number ==
  /\ text = Unwritten
  /\ text' = CASE x.kind = "integer" -> T!dump_integer(x.n)
               [] x.kind = "float" -> T!dump_float(x.n)
               [] OTHER -> T!grisu2(x.n)
  /\ UNCHANGED x

Loop == INSTANCE JsonIterator WITH Keys <- 1..4, Loops <- {"forward", "items", "backward"}

\* One variable and a heap of three nodes.
Value == INSTANCE JsonValue WITH
           Names <- {"a"}, Keys <- {11}, Numbers <- {7}, Indexes <- {1, 2},
           Addresses <- {1, 2, 3}, MaxSize <- 2, MaxDepth <- 2, MaxNumbered <- 1

-----------------------------------------------------------------------------
Parts == {"round trip", "lexer", "tokens", "escape", "number", "loop", "value"}

RestEscape ==
  /\ s = <<>> /\ ensure_ascii = FALSE /\ error_handler = "strict"
  /\ i = 1 /\ state = 0 /\ codepoint = 0
  /\ buffer = <<>> /\ bytes_after_last_accept = 0 /\ undumped_chars = 0
  /\ out = <<>> /\ peak = 0 /\ written = "writing"
RestLoop ==
  /\ kind = "null" /\ elems = <<>> /\ loop = "forward" /\ it = 1
  /\ proxy = Loop!Fresh(0) /\ answer = Loop!NoAnswer
  /\ origin = <<>> /\ passed = <<>> /\ erased = {} /\ thrown = {}

RunInit ==
  /\ about \in Parts
  /\ fresh = FALSE /\ read = <<>>
  /\ IF about = "round trip" THEN Init
     ELSE /\ val = V("literal_null", 0) /\ pretty_print = FALSE
          /\ input \in IF about = "lexer" THEN LexerInputs ELSE {<<>>}
          /\ Lex!LexStart /\ Parser!ParseInit
  /\ IF about = "escape" THEN Escape!Init ELSE RestEscape
  /\ text = Unwritten
  /\ x \in IF about = "number" THEN SomeNumbers ELSE {[kind |-> "integer", n |-> 0]}
  /\ IF about = "loop" THEN Loop!Init ELSE RestLoop
  /\ Value!Init

RunNext ==
  \/ about = "round trip" /\ Next /\ UNCHANGED <<about, read, escapeVars, numberVars, loopVars, valueVars>>
  \/ about = "lexer" /\ Lex!LexNext
     /\ UNCHANGED <<about, val, pretty_print, fresh, parseVars, read, escapeVars, numberVars, loopVars, valueVars>>
  \/ about = "tokens" /\ Parser!Next
     /\ UNCHANGED <<about, val, pretty_print, fresh, lexVars, escapeVars, numberVars, loopVars, valueVars>>
  \/ about = "escape" /\ Escape!Next /\ UNCHANGED <<about, vars, read, numberVars, loopVars, valueVars>>
  \/ about = "number" /\ dump_number /\ UNCHANGED <<about, vars, read, escapeVars, loopVars, valueVars>>
  \/ about = "loop" /\ Loop!Next /\ UNCHANGED <<about, vars, read, escapeVars, numberVars, valueVars>>
  \/ about = "value" /\ Value!Next /\ UNCHANGED <<about, vars, read, escapeVars, numberVars, loopVars>>

RunSpec == RunInit /\ [][RunNext]_<<about, vars, read, escapeVars, numberVars, loopVars, valueVars>>

-----------------------------------------------------------------------------
(* The properties of the parts.                                            *)

\* A text is accepted exactly when RFC 8259 accepts it, and built as it says:
\* strings, numbers and layout (scan_string, scan_number, scan), the tokens of
\* one value (sax_parse_internal).  Errors are placed where they are, also
\* after unget; no pointer of the builder dangles while it is open, and parser
\* and builder agree on what is open.
ReadExact ==
  /\ about = "lexer" => Lex!StringExact /\ Lex!NumberExact /\ Lex!LayoutExact
  /\ about = "tokens" => Parser!ParseExact
  /\ Lex!PositionTrue /\ Parser!RefsLive /\ Parser!StacksAgree

\* An integer is written as its decimal digits, the smallest one included
\* (dump_integer).
IntegerText ==
  text # Unwritten /\ x.kind = "integer" =>
    text = IF x.n < 0 THEN <<Minus>> \o T!Decimal(-x.n) ELSE T!Decimal(x.n)

\* A finite float is written as a number of the grammar with the same value,
\* always one that is read back as a float, and within the places that to_chars
\* demands of its buffer; what is not finite is written as null (dump_float).
FloatText ==
  text # Unwritten /\ x.kind = "float" =>
    IF x.n = T!NonFinite THEN text = Words["literal_null"] ELSE
    /\ Number(text) /\ T!Float(text)
    /\ T!ReadNumber(text) = x.n
    /\ Len(text) - (IF x.n.negative THEN 1 ELSE 0) <= 2 + 3 + MaxDigits + 1

\* f * 2^e < n * 10^k, without fractions.
Scaled2(f, e, k) == f * 2^(IF e > 0 THEN e ELSE 0) * 10^(IF k < 0 THEN -k ELSE 0)
Scaled10(n, e, k) == n * 10^(IF k > 0 THEN k ELSE 0) * 2^(IF e < 0 THEN -e ELSE 0)
Less(f, e, n, k) == Scaled2(f, e, k) < Scaled10(n, e, k)
Greater(f, e, n, k) == Scaled2(f, e, k) > Scaled10(n, e, k)

\* The text of a float says a number that lies strictly between the middles
\* to the float's neighbours, so reading it back gives the same float,
\* however ties are rounded; also where the lower neighbour is closer and
\* for the smallest floats (grisu2).
FloatRecovered ==
  text # Unwritten /\ x.kind = "bits" =>
    LET r == T!ReadNumber(T!to_chars([negative |-> FALSE, digits |-> text.digits, exp |-> text.exp]))
        n == ValueOf(r.digits)
        f == T!Significand(x.n)
        e == T!Exponent2(x.n)
        lower == IF f = T!kHiddenBit /\ x.n >= 2 * T!kHiddenBit THEN 4 * f - 1 ELSE 4 * f - 2
    IN /\ Less(lower, e - 2, n, r.exp)
       /\ Greater(2 * f + 1, e - 1, n, r.exp)

\* No assertion of grisu2 fails: the cached power always brings the exponent
\* into its range, no digit exceeds nine, no product overflows, a zero is
\* never decremented; and the digits fit max_digits10 places.
AssertsHold ==
  text # Unwritten /\ x.kind = "bits" => text.ok /\ Len(text.digits) <= MaxDigits

\* What dump writes says the value, with and without indentation, but for NaN
\* and the infinities, which are read back as null; strings keep their bytes,
\* those that are not UTF-8 as the handler says, and string_buffer holds what is
\* put in it; integers and finite floats keep their value, and no assertion of
\* grisu2 fails.
WrittenExact ==
  /\ about = "round trip" => ReadsBack
  /\ about = "escape" => Escape!EscapeExact
  /\ Escape!BufferHolds
  /\ IntegerText /\ FloatText /\ FloatRecovered /\ AssertsHold

\* A loop over a value deals with each element once, in order, whatever it
\* erases; what it erased is gone and all else is there; it meets no exception
\* but that for part of a scalar; the key of items() is the index or the name
\* of its element, and it[n] is what it + n points to.
LoopExact ==
  /\ Loop!EachOnce /\ Loop!ErasedGone /\ Loop!NeverRefused
  /\ Loop!KeyTrue /\ Loop!RandomAccess

\* Each node on the heap is owned by exactly one value, and no value owns a node
\* that was freed, after every operation of basic_json and at every moment of
\* json_value::destroy.
OwnedOnce == about = "value" => Value!OwnedOnce

\* Seen from outside each operation of basic_json does what it promises of plain
\* values, also where a value is assigned from or pushed onto a part of itself.
ImplementsStore == Value!ImplementsStore
=============================================================================

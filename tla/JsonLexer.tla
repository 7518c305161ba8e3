----------------------------- MODULE JsonLexer -----------------------------
(***************************************************************************)
(* The lexer of the vendored JSON library (Lib/Json/json.hpp), which reads *)
(* projects, captures and monitor requests: one step per character it      *)
(* gets.  Characters are byte values; EOF is what the input adapter gives  *)
(* after the last one.                                                     *)
(***************************************************************************)
EXTENDS JsonGrammar

CONSTANTS
  Inputs,            \* the texts to scan
  ignore_comments,   \* the parse option of that name
  UIntMax, IntMax    \* the largest number_unsigned_t and number_integer_t

VARIABLES
  input, next,       \* the text and the place the adapter reads from
  current, next_unget,
  position,          \* what error messages say: total, col, lines
  token_string, token_buffer,
  mode,              \* where scan() is; "ready" between two calls
  want,              \* what the mode still waits for
  token,             \* what scan() returned last
  since, from        \* where that call began to read, and where its token starts or 0

lexVars ==
  <<input, next, current, next_unget, position, token_string, token_buffer, mode, want, token, since, from>>

LexStart ==
  /\ next = 1
  /\ current = EOF /\ next_unget = FALSE
  /\ position = [total |-> 0, col |-> 0, lines |-> 0]
  /\ token_string = <<>> /\ token_buffer = <<>>
  /\ mode = "ready" /\ want = <<>>
  /\ token = "uninitialized" /\ since = 0 /\ from = 0

LexInit == input \in Inputs /\ LexStart

-----------------------------------------------------------------------------
(* Input management.  Ch is the character get() returns.                   *)

Ch == IF next_unget THEN current ELSE IF next > Len(input) THEN EOF ELSE input[next]

Got(p) == [total |-> p.total + 1,
           col |-> IF Ch = LF THEN 0 ELSE p.col + 1,
           lines |-> IF Ch = LF THEN p.lines + 1 ELSE p.lines]

Advance ==
  /\ current' = Ch
  /\ next' = IF next_unget \/ next > Len(input) THEN next ELSE next + 1
  /\ UNCHANGED input

get ==
  /\ Advance
  /\ next_unget' = FALSE
  /\ position' = Got(position)
  /\ token_string' = IF Ch = EOF THEN token_string ELSE Append(token_string, Ch)

Ungot(p) ==
  [total |-> p.total - 1,
   lines |-> IF p.col = 0 /\ p.lines > 0 THEN p.lines - 1 ELSE p.lines,
   col |-> IF p.col = 0 THEN 0 ELSE p.col - 1]

\* get() and then unget(): a look at the next character.
get_unget ==
  /\ Advance
  /\ next_unget' = TRUE
  /\ position' = Ungot(Got(position))
  /\ UNCHANGED token_string

\* get() and then reset(): the character starts a token.
get_reset ==
  /\ Advance
  /\ next_unget' = FALSE
  /\ position' = Got(position)
  /\ token_string' = <<Ch>>
  /\ token_buffer' = <<>>

Here == IF next_unget /\ current # EOF THEN next - 1 ELSE next
Enter(m, w) == mode' = m /\ want' = w /\ UNCHANGED token
Leave(t) == mode' = "ready" /\ want' = <<>> /\ token' = t
Start == from' = Here /\ UNCHANGED since
Goto(m, w) == Enter(m, w) /\ UNCHANGED <<since, from>>
Return(t) == Leave(t) /\ UNCHANGED <<since, from>>
Error == Return("parse_error")
Add(bytes) == token_buffer' = token_buffer \o bytes
Keep == UNCHANGED token_buffer

-----------------------------------------------------------------------------
(* scan(): byte order mark, white space, comments, then the token.         *)

scan ==
  /\ mode = "ready" /\ token \notin {"parse_error", "end_of_input"}
  /\ Enter(IF position.total = 0 THEN "bom" ELSE "space", <<>>)
  /\ since' = Here /\ from' = 0
  /\ UNCHANGED <<input, next, current, next_unget, position, token_string, token_buffer>>

skip_bom ==
  /\ mode = "bom" /\ Keep
  /\ \/ Ch = 239 /\ get /\ Goto("bom_rest", <<187, 191>>)
     \/ Ch # 239 /\ get_unget /\ Goto("space", <<>>)

skip_bom_rest ==
  /\ mode = "bom_rest" /\ Keep /\ get
  /\ CASE Ch # Head(want) -> Error
       [] Ch = Head(want) /\ Len(want) > 1 -> Goto("bom_rest", Tail(want))
       [] OTHER -> Goto("space", <<>>)

Structural ==
  (OpenArray :> "begin_array" @@ CloseArray :> "end_array" @@ OpenObject :> "begin_object" @@
   CloseObject :> "end_object" @@ Colon :> "name_separator" @@ CommaC :> "value_separator" @@
   NUL :> "end_of_input" @@ EOF :> "end_of_input")

Literal == (116 :> [rest |-> <<114, 117, 101>>, token |-> "literal_true"] @@
            102 :> [rest |-> <<97, 108, 115, 101>>, token |-> "literal_false"] @@
            110 :> [rest |-> <<117, 108, 108>>, token |-> "literal_null"])

skip_whitespace == mode = "space" /\ Ch \in White /\ get /\ Keep /\ Goto("space", <<>>)

StartsComment == ignore_comments /\ Ch = Slash

scan_structural ==
  /\ mode = "space" /\ Ch \in DOMAIN Structural
  /\ get /\ Keep /\ Leave(Structural[Ch]) /\ Start

scan_literal_start ==
  /\ mode = "space" /\ Ch \in DOMAIN Literal
  /\ get /\ Keep /\ Enter("literal", Literal[Ch]) /\ Start

scan_number_start ==
  /\ mode = "space" /\ Ch \in Digit \cup {Minus}
  /\ Advance /\ next_unget' = FALSE /\ position' = Got(position)
  /\ token_string' = <<Ch>> /\ token_buffer' = <<Ch>>
  /\ Enter(CASE Ch = Minus -> "minus" [] Ch = 48 -> "zero" [] OTHER -> "any1",
           [type |-> IF Ch = Minus THEN "value_integer" ELSE "value_unsigned"])
  /\ Start

scan_string_start ==
  /\ mode = "space" /\ Ch = Quote
  /\ get_reset /\ Enter("string", <<>>)
  /\ Start

scan_comment_start == mode = "space" /\ StartsComment /\ get /\ Keep /\ Goto("comment", <<>>)

scan_other ==
  /\ mode = "space" /\ ~StartsComment
  /\ Ch \notin White \cup DOMAIN Structural \cup DOMAIN Literal \cup Digit \cup {Minus, Quote}
  /\ get /\ Keep /\ Leave("parse_error") /\ Start

scan_literal ==
  /\ mode = "literal" /\ get /\ Keep
  /\ CASE Ch # Head(want.rest) -> Error
       [] Ch = Head(want.rest) /\ Len(want.rest) > 1 -> Goto("literal", [want EXCEPT !.rest = Tail(@)])
       [] OTHER -> Return(want.token)

-----------------------------------------------------------------------------
(* scan_comment                                                            *)

scan_comment ==
  /\ mode = "comment" /\ get /\ Keep
  /\ CASE Ch = Slash -> Goto("line_comment", <<>>)
       [] Ch = Star -> Goto("block_comment", <<>>)
       [] OTHER -> Error

line_comment ==
  /\ mode = "line_comment" /\ get /\ Keep
  /\ Goto(IF Ch \in {LF, CR, EOF, NUL} THEN "space" ELSE "line_comment", <<>>)

block_comment ==
  /\ mode = "block_comment" /\ get /\ Keep
  /\ CASE Ch \in {EOF, NUL} -> Error
       [] Ch = Star -> Goto("block_star", <<>>)
       [] OTHER -> Goto("block_comment", <<>>)

block_star ==
  /\ mode = "block_star" /\ Keep
  /\ \/ Ch = Slash /\ get /\ Goto("space", <<>>)
     \/ Ch # Slash /\ get_unget /\ Goto("block_comment", <<>>)

-----------------------------------------------------------------------------
(* scan_number: one mode per label of the state machine.                   *)

strtoull(ds) == FoldLeft(LAMBDA n, d : IF n > UIntMax THEN n ELSE 10 * n + d - 48, 0, ds)

\* scan_number_done: the integer that fits, otherwise a float.
number_done ==
  /\ get_unget /\ Keep
  /\ LET negative == token_buffer[1] = Minus
         n == strtoull(IF negative THEN Tail(token_buffer) ELSE token_buffer)
         fits == CASE want.type = "value_unsigned" -> n <= UIntMax
                   [] want.type = "value_integer" -> n <= IntMax + 1
                   [] OTHER -> FALSE
     IN Return(IF fits THEN want.type ELSE "value_float")

Next_number(m) == get /\ Add(<<Ch>>) /\ Goto(m, want)
Next_float(m) == get /\ Add(<<Ch>>) /\ Goto(m, [type |-> "value_float"])
Exponent == Ch \in {69, 101}

minus ==
  /\ mode = "minus"
  /\ \/ Ch = 48 /\ Next_number("zero")
     \/ Ch \in Digit \ {48} /\ Next_number("any1")
     \/ Ch \notin Digit /\ get /\ Keep /\ Error

zero ==
  /\ mode = "zero"
  /\ \/ Ch = Dot /\ Next_float("decimal1")
     \/ Exponent /\ Next_float("exponent")
     \/ Ch # Dot /\ ~Exponent /\ number_done

any1 ==
  /\ mode = "any1"
  /\ \/ Ch \in Digit /\ Next_number("any1")
     \/ Ch = Dot /\ Next_float("decimal1")
     \/ Exponent /\ Next_float("exponent")
     \/ Ch \notin Digit \cup {Dot} /\ ~Exponent /\ number_done

decimal1 ==
  /\ mode = "decimal1"
  /\ \/ Ch \in Digit /\ Next_number("decimal2")
     \/ Ch \notin Digit /\ get /\ Keep /\ Error

decimal2 ==
  /\ mode = "decimal2"
  /\ \/ Ch \in Digit /\ Next_number("decimal2")
     \/ Exponent /\ Next_float("exponent")
     \/ Ch \notin Digit /\ ~Exponent /\ number_done

exponent ==
  /\ mode = "exponent"
  /\ \/ Ch \in {Plus, Minus} /\ Next_number("sign")
     \/ Ch \in Digit /\ Next_number("any2")
     \/ Ch \notin Digit \cup {Plus, Minus} /\ get /\ Keep /\ Error

sign ==
  /\ mode = "sign"
  /\ \/ Ch \in Digit /\ Next_number("any2")
     \/ Ch \notin Digit /\ get /\ Keep /\ Error

any2 ==
  /\ mode = "any2"
  /\ \/ Ch \in Digit /\ Next_number("any2")
     \/ Ch \notin Digit /\ number_done

scan_number == minus \/ zero \/ any1 \/ decimal1 \/ decimal2 \/ exponent \/ sign \/ any2

-----------------------------------------------------------------------------
(* scan_string                                                             *)

Tail1 == <<128, 191>>

\* The ranges of the bytes after the first one of a character.
Ranges(c) ==
  CASE c \in 194..223 -> <<Tail1>>
    [] c = 224 -> <<<<160, 191>>, Tail1>>
    [] c \in 225..236 \cup {238, 239} -> <<Tail1, Tail1>>
    [] c = 237 -> <<<<128, 159>>, Tail1>>
    [] c = 240 -> <<<<144, 191>>, Tail1, Tail1>>
    [] c \in 241..243 -> <<Tail1, Tail1, Tail1>>
    [] c = 244 -> <<<<128, 143>>, Tail1, Tail1>>
    [] OTHER -> <<>>

string_end == mode = "string" /\ Ch = Quote /\ get /\ Keep /\ Return("value_string")

string_ascii ==
  /\ mode = "string" /\ Ch \in 32..127 \ {Quote, Backslash}
  /\ get /\ Add(<<Ch>>) /\ Goto("string", <<>>)

string_lead ==
  /\ mode = "string" /\ Ranges(Ch) # <<>>
  /\ get /\ Add(<<Ch>>) /\ Goto("utf8", Ranges(Ch))

string_eof == mode = "string" /\ Ch = EOF /\ get /\ Keep /\ Error

\* A control character must be escaped.
string_control == mode = "string" /\ Ch \in 0..31 /\ get /\ Keep /\ Error

\* A byte no character starts with.
string_ill == mode = "string" /\ Ch \in 128..255 /\ Ranges(Ch) = <<>> /\ get /\ Keep /\ Error

next_byte_in_range ==
  /\ mode = "utf8" /\ get
  /\ LET r == Head(want) IN
     \/ Ch \in r[1]..r[2] /\ Add(<<Ch>>)
        /\ (IF Len(want) > 1 THEN Goto("utf8", Tail(want)) ELSE Goto("string", <<>>))
     \/ Ch \notin r[1]..r[2] /\ Keep /\ Error

string_escape == mode = "string" /\ Ch = Backslash /\ get /\ Keep /\ Goto("escape", <<>>)

Escapes == (Quote :> Quote @@ Backslash :> Backslash @@ Slash :> Slash @@
            98 :> 8 @@ 102 :> 12 @@ 110 :> 10 @@ 114 :> 13 @@ 116 :> 9)

escape ==
  /\ mode = "escape" /\ get
  /\ \/ Ch \in DOMAIN Escapes /\ Add(<<Escapes[Ch]>>) /\ Goto("string", <<>>)
     \/ Ch = 117 /\ Keep /\ Goto("codepoint", [left |-> 4, cp |-> 0, high |-> 0])
     \/ Ch \notin DOMAIN Escapes \cup {117} /\ Keep /\ Error

Hex(c) == CASE c \in Digit -> c - 48
            [] c \in 65..70 -> c - 55
            [] c \in 97..102 -> c - 87
            [] OTHER -> -1

High(cp) == cp \in 55296..56319
Low(cp) == cp \in 56320..57343

translate(cp) ==
  LET low(k) == 128 + ((cp \div k) % 64) IN
  CASE cp < 128 -> <<cp>>
    [] cp \in 128..2047 -> <<192 + cp \div 64, low(1)>>
    [] cp \in 2048..65535 -> <<224 + cp \div 4096, low(64), low(1)>>
    [] OTHER -> <<240 + cp \div 262144, low(4096), low(64), low(1)>>

\* 0x35FDC00 is the noise of the two surrogates' marks.
Paired(high, low) == high * 1024 + low - 56613888

codepoint_done(cp, high) ==
  CASE high # 0 /\ ~Low(cp) -> Keep /\ Error
    [] high # 0 /\ Low(cp) -> Add(translate(Paired(high, cp))) /\ Goto("string", <<>>)
    [] high = 0 /\ High(cp) -> Keep /\ Goto("pair", [left |-> 2, cp |-> 0, high |-> cp])
    [] high = 0 /\ Low(cp) -> Keep /\ Error
    [] OTHER -> Add(translate(cp)) /\ Goto("string", <<>>)

get_codepoint ==
  /\ mode = "codepoint" /\ get
  /\ LET cp == 16 * want.cp + Hex(Ch) IN
     CASE Hex(Ch) = -1 -> Keep /\ Error
       [] Hex(Ch) # -1 /\ want.left > 1 -> Keep /\ Goto("codepoint", [want EXCEPT !.left = @ - 1, !.cp = cp])
       [] OTHER -> codepoint_done(cp, want.high)

\* The backslash and the u of the second half of a pair.
surrogate_pair ==
  /\ mode = "pair" /\ get /\ Keep
  /\ CASE want.left = 2 /\ Ch = Backslash -> Goto("pair", [want EXCEPT !.left = 1])
       [] want.left = 1 /\ Ch = 117 -> Goto("codepoint", [want EXCEPT !.left = 4])
       [] OTHER -> Error

scan_string ==
  \/ string_end \/ string_ascii \/ string_lead \/ string_eof \/ string_control \/ string_ill \/ next_byte_in_range
  \/ string_escape \/ escape \/ get_codepoint \/ surrogate_pair

LexNext ==
  \/ scan \/ skip_bom \/ skip_bom_rest \/ skip_whitespace
  \/ scan_structural \/ scan_literal_start \/ scan_literal \/ scan_other
  \/ scan_comment_start \/ scan_comment \/ line_comment \/ block_comment \/ block_star
  \/ scan_number_start \/ scan_number \/ scan_string_start \/ scan_string

LexSpec == LexInit /\ [][LexNext]_lexVars

-----------------------------------------------------------------------------
Idle == mode = "ready"
Rest == SubSeq(input, from, Len(input))

(* A string is accepted exactly when it is one by RFC 8259 and its bytes   *)
(* are UTF-8: no byte sequence that is overlong, a surrogate or too large, *)
(* no surrogate without its other half; its value is the characters        *)
(* written, and the text goes on after its closing quote.                  *)
StringExact ==
  Idle /\ from \in DOMAIN input /\ input[from] = Quote =>
    LET r == StringOf(Tail(Rest)) IN
    /\ (token = "value_string") <=> r.ok
    /\ r.ok => token_buffer = r.bytes /\ next = from + 1 + r.size

-----------------------------------------------------------------------------
(* A number is the longest text that may start one; it is accepted exactly *)
(* when the grammar accepts that text, the character after it is read      *)
(* again, and it becomes a float only if it is written as one or fits no   *)
(* 64-bit integer.                                                         *)
NumberExact ==
  Idle /\ from \in DOMAIN input /\ input[from] \in Digit \cup {Minus} =>
    LET n == CHOOSE k \in 1..Len(Rest) :
               /\ Viable(SubSeq(Rest, 1, k))
               /\ k = Len(Rest) \/ ~Viable(SubSeq(Rest, 1, k + 1))
        text == SubSeq(Rest, 1, n)
        whole == ToSet(text) \subseteq Digit \cup {Minus}
    IN /\ (token # "parse_error") <=> Number(text)
       /\ Number(text) =>
            /\ token_buffer = text
            /\ next_unget /\ position.total = from + n - 1
            /\ token = CASE whole /\ text[1] # Minus /\ ValueOf(text) <= UIntMax -> "value_unsigned"
                         [] whole /\ text[1] = Minus /\ ValueOf(Tail(text)) <= IntMax + 1 -> "value_integer"
                         [] OTHER -> "value_float"

-----------------------------------------------------------------------------


(* The reference for what stands between tokens: the number of characters  *)
(* of white space and comments s begins with; -1 for a broken comment.     *)
RECURSIVE Blank(_)
Blank(s) ==
  LET then(n) == LET r == Blank(SubSeq(s, n + 1, Len(s))) IN IF r < 0 THEN -1 ELSE n + r
      ends == {k \in 3..Len(s) : s[k] \in {LF, CR, NUL}}
      closes == {k \in 4..Len(s) : s[k - 1] = Star /\ s[k] = Slash /\ \A j \in 3..k : s[j] # NUL}
  IN CASE s # <<>> /\ s[1] \in White -> then(1)
       [] Len(s) > 1 /\ ignore_comments /\ s[1] = Slash /\ s[2] = Slash
            -> then(IF ends = {} THEN Len(s) ELSE Min(ends))
       [] Len(s) > 1 /\ ignore_comments /\ s[1] = Slash /\ s[2] = Star /\ closes # {}
            -> then(Min(closes))
       [] s # <<>> /\ ignore_comments /\ s[1] = Slash -> -1
       [] OTHER -> 0

BomSize == IF since = 1 /\ input # <<>> /\ input[1] = 239 THEN 3 ELSE 0

(* Each token is the one at the first place that is neither white space    *)
(* nor in a comment, after the byte order mark of the text.                *)
LayoutExact ==
  Idle /\ token # "uninitialized" =>
    LET begin == since + BomSize
        blank == Blank(SubSeq(input, begin, Len(input)))
        broken == (BomSize = 3 /\ ~IsPrefix(<<239, 187, 191>>, input)) \/ blank < 0
    IN IF broken THEN token = "parse_error" /\ from = 0 ELSE from = begin + blank

Read == Min({position.total, Len(input)})
Newlines == {k \in 1..Read : input[k] = LF}

(* The line and column an error names are those of the last character     *)
(* read, also after characters were put back and read again; and the text  *)
(* it quotes is the end of what was read.                                  *)
PositionTrue ==
  /\ LET ahead == position.total + (IF next_unget THEN 1 ELSE 0) - (next - 1) IN
     ahead = 0 \/ (ahead \in 1..2 /\ current = EOF /\ next > Len(input))
  /\ position.lines = Cardinality(Newlines)
  /\ ~next_unget => position.col = position.total - (IF Newlines = {} THEN 0 ELSE Max(Newlines))
  /\ IsSuffix(token_string, SubSeq(input, 1, Read))
=============================================================================

--------------------------- MODULE JsonRoundTrip ---------------------------
(***************************************************************************)
(* The vendored JSON library (Lib/Json/json.hpp) put together: a value is  *)
(* written by serializer::dump and the text read by the parser, which      *)
(* drives the lexer.  This is what saving and loading a project does.      *)
(***************************************************************************)
EXTENDS JsonGrammar

CONSTANTS RoundTripValues, ignore_comments, Bits, indent_step

VARIABLES
  val, pretty_print,
  fresh,    \* last_token has not been used yet
  input, next, current, next_unget, position, token_string, token_buffer, mode, want, token, since, from,
  at, states, root, ref_stack, object_element, outcome

lexVars ==
  <<input, next, current, next_unget, position, token_string, token_buffer, mode, want, token, since, from>>
parseVars == <<at, states, root, ref_stack, object_element, outcome>>
vars == <<val, pretty_print, fresh, lexVars, parseVars>>

N == INSTANCE JsonNumberText WITH
       kMinExp <- -4, kMaxExp <- 15, max_digits10 <- 17, q <- 64, p <- 53, kBias <- 1075, kAlpha <- -60, kGamma <- -32,
       kCachedPowers <- <<>>, kCachedPowersMinDecExp <- -300, kCachedPowersDecStep <- 8
E == INSTANCE JsonEscape WITH
       ensure_ascii <- FALSE, s <- <<>>, i <- 1, state <- 0, codepoint <- 0, buffer <- <<>>, error_handler <- "strict",
       bytes_after_last_accept <- 0, undumped_chars <- 0, out <- <<>>, peak <- 0,
       Strings <- {}, Handlers <- {"strict"}, BufferSize <- 512

-----------------------------------------------------------------------------
(* serializer::dump                                                        *)

\* std::map orders the keys by their bytes.
KeyLess(a, b) ==
  \/ IsStrictPrefix(a, b)
  \/ \E k \in DOMAIN a : k \in DOMAIN b /\ a[k] < b[k] /\ \A j \in 1..(k - 1) : a[j] = b[j]

dump_escaped(s) == FlattenSeq([k \in DOMAIN s |-> E!Escaped(s[k], s[k])])
Quoted(s) == <<Quote>> \o dump_escaped(s) \o <<Quote>>

\* The items with a comma between them, each on a line of its own if pretty.
Joined(items, pretty, new_indent) ==
  LET lead == IF pretty THEN [k \in 1..new_indent |-> Space] ELSE <<>>
      break == IF pretty THEN <<LF>> ELSE <<>>
  IN FoldLeft(LAMBDA text, k : text \o (IF k = 1 THEN break ELSE <<CommaC>> \o break) \o lead \o items[k],
              <<>>, [k \in DOMAIN items |-> k])

Closing(pretty, current_indent) ==
  IF pretty THEN <<LF>> \o [k \in 1..current_indent |-> Space] ELSE <<>>

Words == [literal_true |-> <<116, 114, 117, 101>>, literal_false |-> <<102, 97, 108, 115, 101>>, literal_null |-> <<110, 117, 108, 108>>]

RECURSIVE dump(_, _, _)

dump_object(x, pretty, current_indent) ==
  LET keys == SetToSortSeq(DOMAIN x.v, KeyLess)
      new_indent == current_indent + indent_step
      colon == IF pretty THEN <<Colon, Space>> ELSE <<Colon>>
      member(k) == Quoted(keys[k]) \o colon \o dump(x.v[keys[k]], pretty, new_indent)
  IN IF keys = <<>> THEN <<OpenObject, CloseObject>>
     ELSE <<OpenObject>> \o Joined([k \in DOMAIN keys |-> member(k)], pretty, new_indent)
            \o Closing(pretty, current_indent) \o <<CloseObject>>

dump_array(x, pretty, current_indent) ==
  LET new_indent == current_indent + indent_step IN
  IF x.v = <<>> THEN <<OpenArray, CloseArray>>
  ELSE <<OpenArray>> \o Joined([k \in DOMAIN x.v |-> dump(x.v[k], pretty, new_indent)], pretty, new_indent)
         \o Closing(pretty, current_indent) \o <<CloseArray>>

dump(x, pretty, current_indent) ==
  CASE x.t = "object" -> dump_object(x, pretty, current_indent)
    [] x.t = "array" -> dump_array(x, pretty, current_indent)
    [] x.t = "value_string" -> Quoted(x.v)
    [] x.t \in {"value_unsigned", "value_integer"} -> N!dump_integer(x.v)
    [] x.t = "value_float" -> N!dump_float(x.v)
    [] OTHER -> Words[x.t]

-----------------------------------------------------------------------------

L == INSTANCE JsonLexer WITH Inputs <- {},
       UIntMax <- 2^Bits - 1, IntMax <- 2^(Bits - 1) - 1
P == INSTANCE JsonParser WITH Scalars <- {"value_string", "value_unsigned", "value_integer", "value_float",
                                          "literal_true", "literal_false", "literal_null"},
                                read <- <<>>, Tokens <- {}, MaxTokens <- 0

Init ==
  /\ val \in RoundTripValues /\ pretty_print \in BOOLEAN /\ fresh = FALSE
  /\ input = dump(val, pretty_print, 0)
  /\ L!LexStart /\ P!ParseInit

\* strtoull, strtoll and strtod of the text of a number are its value.
Read == [k |-> token,
         v |-> CASE token = "value_string" -> token_buffer
                 [] token = "value_unsigned" -> ValueOf(token_buffer)
                 [] token = "value_integer" -> -ValueOf(Tail(token_buffer))
                 [] token = "value_float" -> N!ReadNumber(token_buffer)
                 [] OTHER -> 0]

get_token ==
  /\ ~fresh /\ outcome = "parsing"
  /\ L!LexNext
  /\ fresh' = (mode' = "ready")
  /\ UNCHANGED <<val, pretty_print, parseVars>>

sax_parse_internal ==
  /\ fresh
  /\ P!sax_parse_internal(Read)
  /\ fresh' = FALSE
  /\ UNCHANGED <<val, pretty_print, lexVars>>

Next == get_token \/ sax_parse_internal

Spec == Init /\ [][Next]_vars

\* The value with null for each float that is not finite.
RECURSIVE Finite(_)
Finite(x) ==
  CASE x.t \in {"object", "array"} -> [x EXCEPT !.v = [k \in DOMAIN x.v |-> Finite(x.v[k])]]
    [] x.t = "value_float" /\ x.v = N!NonFinite -> [t |-> "literal_null", v |-> 0]
    [] OTHER -> x

(* What was written is read back: the same types, the same strings and     *)
(* numbers, the same members, with and without indentation.  NaN and the   *)
(* infinities do not come back: what is read is null.                      *)
ReadsBack == outcome # "parsing" => outcome = "ok" /\ root = Finite(val)
=============================================================================

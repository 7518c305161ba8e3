----------------------------- MODULE JsonParser -----------------------------
(***************************************************************************)
(* The parser of the vendored JSON library (Lib/Json/json.hpp): the stack  *)
(* machine of sax_parse_internal, which drives json_sax_dom_parser, which  *)
(* builds the value through pointers to its open containers.               *)
(*                                                                         *)
(* A token is a kind k and, for scalars and keys, what it says.  A value   *)
(* is [t, v]: v is a sequence of values in an array, a function from keys  *)
(* to values in an object, and the token's v in a scalar.  A pointer is    *)
(* the path to the value from the root.                                    *)
(***************************************************************************)
EXTENDS Integers, Sequences, SequencesExt, FiniteSets

CONSTANTS
  Scalars,          \* the kinds of token that are a value by themselves
  Tokens,           \* the tokens of a text
  MaxTokens         \* a bound on its length

VARIABLES
  at,               \* where sax_parse_internal stands
  states,           \* true = array, false = object
  root, ref_stack, object_element,
  outcome,          \* "parsing", "ok" or "error"
  read              \* the tokens so far

parseVars == <<at, states, root, ref_stack, object_element, outcome>>

Null == [t |-> "null", v |-> 0]

ParseInit ==
  /\ at = "value" /\ states = <<>>
  /\ root = Null /\ ref_stack = <<>> /\ object_element = <<>>
  /\ outcome = "parsing"

RECURSIVE Follow(_, _)
Follow(x, path) == IF path = <<>> THEN x ELSE Follow(x.v[Head(path)], Tail(path))

RECURSIVE Assign(_, _, _)
Assign(x, path, y) ==
  IF path = <<>> THEN y
  ELSE [x EXCEPT !.v = [k \in DOMAIN @ |-> IF k = Head(path) THEN Assign(@[k], Tail(path), y) ELSE @[k]]]

-----------------------------------------------------------------------------
(* json_sax_dom_parser                                                     *)

Top == ref_stack[Len(ref_stack)]
Open == Follow(root, Top)

\* handle_value: where it puts the value and the pointer it returns.
Placed ==
  CASE ref_stack = <<>> -> <<>>
    [] ref_stack # <<>> /\ Open.t = "array" -> Append(Top, Len(Open.v) + 1)
    [] OTHER -> object_element

handle_value(y) ==
  root' = CASE ref_stack = <<>> -> y
            [] ref_stack # <<>> /\ Open.t = "array" -> Assign(root, Top, [Open EXCEPT !.v = Append(@, y)])
            [] OTHER -> Assign(root, object_element, y)

sax_scalar(t) ==
  /\ handle_value([t |-> t.k, v |-> t.v])
  /\ UNCHANGED <<ref_stack, object_element>>

start_object ==
  /\ handle_value([t |-> "object", v |-> [k \in {} |-> Null]])
  /\ ref_stack' = Append(ref_stack, Placed)
  /\ UNCHANGED object_element

start_array ==
  /\ handle_value([t |-> "array", v |-> <<>>])
  /\ ref_stack' = Append(ref_stack, Placed)
  /\ UNCHANGED object_element

\* operator[] adds null under a key that is not there yet.
key(name) ==
  /\ root' = IF name \in DOMAIN Open.v THEN root
             ELSE Assign(root, Top, [Open EXCEPT !.v = [k \in DOMAIN @ \cup {name} |-> IF k = name THEN Null ELSE @[k]]])
  /\ object_element' = Append(Top, name)
  /\ UNCHANGED ref_stack

end_container ==
  /\ ref_stack' = Front(ref_stack)
  /\ UNCHANGED <<root, object_element>>

NoSax == UNCHANGED <<root, ref_stack, object_element>>

-----------------------------------------------------------------------------
(* sax_parse_internal: one step per token.  st is the stack after the      *)
(* token before.                                                           *)

parse_error == outcome' = "error" /\ NoSax /\ UNCHANGED <<at, states>>
Goto(place, st) == at' = place /\ states' = st /\ UNCHANGED outcome

\* What comes after a value, given the containers around it.
After(st) == IF st = <<>> THEN "end" ELSE IF st[Len(st)] THEN "in array" ELSE "in object"
ValueRead(st) == Goto(After(st), st)

value(t, st) ==
  CASE t.k = "begin_object" -> start_object /\ Goto("first key", st)
    [] t.k = "begin_array" -> start_array /\ Goto("first element", st)
    [] t.k \in Scalars -> sax_scalar(t) /\ ValueRead(st)
    [] OTHER -> parse_error

first_key(t) ==
  CASE t.k = "end_object" -> end_container /\ ValueRead(states)
    [] t.k = "value_string" -> key(t.v) /\ Goto("first colon", states)
    [] OTHER -> parse_error

first_colon(t) ==
  IF t.k = "name_separator" THEN NoSax /\ Goto("value", Append(states, FALSE)) ELSE parse_error

first_element(t) ==
  IF t.k = "end_array" THEN end_container /\ ValueRead(states) ELSE value(t, Append(states, TRUE))

in_array(t) ==
  CASE t.k = "value_separator" -> NoSax /\ Goto("value", states)
    [] t.k = "end_array" -> end_container /\ ValueRead(Front(states))
    [] OTHER -> parse_error

in_object(t) ==
  CASE t.k = "value_separator" -> NoSax /\ Goto("next key", states)
    [] t.k = "end_object" -> end_container /\ ValueRead(Front(states))
    [] OTHER -> parse_error

\* A mutant: a comma before the closing brace is let through.
next_key_trailing(t) ==
  CASE t.k = "value_string" -> key(t.v) /\ Goto("next colon", states)
    [] t.k = "end_object" -> end_container /\ ValueRead(Front(states))
    [] OTHER -> parse_error

next_key(t) == IF t.k = "value_string" THEN key(t.v) /\ Goto("next colon", states) ELSE parse_error
next_colon(t) == IF t.k = "name_separator" THEN NoSax /\ Goto("value", states) ELSE parse_error

\* parse() is strict: nothing may follow the value.
end(t) ==
  /\ outcome' = IF t.k = "end_of_input" THEN "ok" ELSE "error"
  /\ NoSax /\ UNCHANGED <<at, states>>

sax_parse_internal(t) ==
  /\ outcome = "parsing"
  /\ CASE at = "value" -> value(t, states)
       [] at = "first key" -> first_key(t)
       [] at = "first colon" -> first_colon(t)
       [] at = "first element" -> first_element(t)
       [] at = "in array" -> in_array(t)
       [] at = "in object" -> in_object(t)
       [] at = "next key" -> next_key(t)
       [] at = "next colon" -> next_colon(t)
       [] OTHER -> end(t)

-----------------------------------------------------------------------------
(* Every sequence of up to MaxTokens tokens.                               *)

vars == <<parseVars, read>>

Init == ParseInit /\ read = <<>>

get_token(t) ==
  /\ Len(read) < MaxTokens
  /\ sax_parse_internal(t)
  /\ read' = Append(read, t)

Next == \E t \in Tokens : get_token(t)

Spec == Init /\ [][Next]_vars

-----------------------------------------------------------------------------
(* The reference: the grammar of RFC 8259 by recursive descent.  st is     *)
(* "ok", "more" if the tokens end before the value does, or "bad" if the   *)
(* token at next cannot stand there.                                       *)

Result(st, n, y) == [st |-> st, next |-> n, val |-> y]

RECURSIVE ValueAt(_, _), Elements(_, _, _), Members(_, _, _)

ValueAt(ts, i) ==
  LET is(j, k) == j <= Len(ts) /\ ts[j].k = k IN
  CASE i > Len(ts) -> Result("more", i, Null)
    [] is(i, "begin_array") -> IF is(i + 1, "end_array") THEN Result("ok", i + 2, [t |-> "array", v |-> <<>>])
                               ELSE Elements(ts, i + 1, <<>>)
    [] is(i, "begin_object") -> IF is(i + 1, "end_object") THEN Result("ok", i + 2, [t |-> "object", v |-> [k \in {} |-> Null]])
                                ELSE Members(ts, i + 1, [k \in {} |-> Null])
    [] i <= Len(ts) /\ ts[i].k \in Scalars -> Result("ok", i + 1, [t |-> ts[i].k, v |-> ts[i].v])
    [] OTHER -> Result("bad", i, Null)

Elements(ts, i, soFar) ==
  LET e == ValueAt(ts, i)
      all == Append(soFar, e.val)
  IN CASE e.st # "ok" -> e
       [] e.st = "ok" /\ e.next > Len(ts) -> Result("more", e.next, Null)
       [] e.st = "ok" /\ e.next <= Len(ts) /\ ts[e.next].k = "value_separator" -> Elements(ts, e.next + 1, all)
       [] e.st = "ok" /\ e.next <= Len(ts) /\ ts[e.next].k = "end_array"
            -> Result("ok", e.next + 1, [t |-> "array", v |-> all])
       [] OTHER -> Result("bad", e.next, Null)

Members(ts, i, soFar) ==
  LET has(j) == j <= Len(ts)
      e == ValueAt(ts, i + 2)
      name == ts[i].v
      all == [k \in DOMAIN soFar \cup {name} |-> IF k = name THEN e.val ELSE soFar[k]]
  IN CASE has(i) /\ ts[i].k # "value_string" -> Result("bad", i, Null)
       [] has(i + 1) /\ ts[i].k = "value_string" /\ ts[i + 1].k # "name_separator" -> Result("bad", i + 1, Null)
       [] ~has(i + 1) -> Result("more", Len(ts) + 1, Null)
       [] OTHER ->
           (CASE e.st # "ok" -> e
              [] e.st = "ok" /\ ~has(e.next) -> Result("more", e.next, Null)
              [] e.st = "ok" /\ has(e.next) /\ ts[e.next].k = "value_separator" -> Members(ts, e.next + 1, all)
              [] e.st = "ok" /\ has(e.next) /\ ts[e.next].k = "end_object"
                   -> Result("ok", e.next + 1, [t |-> "object", v |-> all])
              [] OTHER -> Result("bad", e.next, Null))

\* What the whole text says: a value and nothing after it.
Document(ts) ==
  LET r == ValueAt(ts, 1) IN
  CASE r.st # "ok" -> r
    [] r.st = "ok" /\ r.next > Len(ts) -> Result("more", r.next, Null)
    [] r.st = "ok" /\ r.next = Len(ts) /\ ts[Len(ts)].k = "end_of_input" -> r
    [] OTHER -> Result("bad", r.next, Null)

-----------------------------------------------------------------------------
(* A text is accepted exactly when it is one value, whatever the nesting;  *)
(* it is refused at the first token that cannot stand there, never later;  *)
(* and the value built through the pointers is the one the text says, the  *)
(* last one of a key that is repeated.                                     *)
ParseExact ==
  LET r == Document(read) IN
  CASE outcome = "ok" -> r.st = "ok" /\ root = r.val
    [] outcome = "error" -> r.st = "bad" /\ r.next = Len(read)
    [] OTHER -> r.st = "more"

\* A pointer into an array is dead once the array has grown.
Live(path) ==
  \A n \in DOMAIN path :
    LET c == Follow(root, SubSeq(path, 1, n - 1)) IN
    path[n] \in DOMAIN c.v /\ (c.t = "array" => path[n] = Len(c.v))

(* While the containers are open no pointer of the stack dangles, although *)
(* an array moves its elements when it grows: no array grows while one of  *)
(* its elements is open.                                                   *)
RefsLive ==
  outcome = "parsing" =>
    /\ \A n \in DOMAIN ref_stack : Live(ref_stack[n]) /\ Follow(root, ref_stack[n]).t \in {"array", "object"}
    /\ at \in {"first colon", "next colon"} => Live(object_element)

(* What the parser believes to be in is what the builder has open: the     *)
(* assertions of json_sax_dom_parser hold.                                 *)
StacksAgree ==
  LET opened == [n \in DOMAIN ref_stack |-> Follow(root, ref_stack[n]).t = "array"]
      entered == CASE at \in {"first key", "first colon"} -> <<FALSE>> [] at = "first element" -> <<TRUE>> [] OTHER -> <<>>
  IN outcome = "parsing" => opened = states \o entered
=============================================================================

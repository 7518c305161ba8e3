---------------------------- MODULE JsonIterator ----------------------------
(***************************************************************************)
(* Loops over a JSON value of the vendored library (Lib/Json/json.hpp):    *)
(* for (auto& x : j), it = j.erase(it), j.items() and loops from the end.  *)
(*                                                                         *)
(* An iterator into an array is an index, one into an object is a node of  *)
(* the map (its key, or 0 past the last), one into a scalar or a null is a *)
(* number: 0 at it, 1 past it.                                             *)
(***************************************************************************)
EXTENDS Integers, Sequences, SequencesExt

CONSTANTS
  Keys,         \* positive integers; an element is named by its key
  Loops         \* among "forward", "items", "backward"

VARIABLES
  kind,         \* "array", "object", "scalar" or "null"
  elems,        \* the elements in the order of the container; a scalar is its own
  it,           \* the iterator of the loop
  proxy,        \* of items(): array_index, array_index_last and array_index_str
  answer,       \* the key and the value the loop's body was given last
  loop, origin, \* the loop that runs, and the elements when it began
  passed,       \* the elements the loop has dealt with
  erased,       \* those it erased
  thrown        \* the exception or failed assertion that ended it

vars == <<kind, elems, it, proxy, answer, loop, origin, passed, erased, thrown>>

NoAnswer == [key |-> 0, value |-> 0]

-----------------------------------------------------------------------------
(* iter_impl.  k is the kind of the value, s its elements.                 *)

Position(s, i) == IF i = 0 THEN Len(s) + 1 ELSE CHOOSE n \in DOMAIN s : s[n] = i
Node(s, n) == IF n \in DOMAIN s THEN s[n] ELSE 0

set_begin(k, s) == CASE k = "array" -> 0 [] k = "object" -> Node(s, 1) [] k = "null" -> 1 [] OTHER -> 0

set_end(k, s) == CASE k = "array" -> Len(s) [] k = "object" -> 0 [] OTHER -> 1

\* [ok, v]: the element, or why there is none.
Given(v) == [ok |-> TRUE, v |-> v]
Refused(id) == [ok |-> FALSE, v |-> id]

deref(k, s, i) ==
  CASE k = "object" -> IF i # 0 THEN Given(i) ELSE Refused(0)
    [] k = "array" -> IF i + 1 \in DOMAIN s THEN Given(s[i + 1]) ELSE Refused(0)
    [] k = "null" -> Refused(214)
    [] OTHER -> IF i = 0 THEN Given(s[1]) ELSE Refused(214)

next(k, s, i) == IF k = "object" THEN Node(s, Position(s, i) + 1) ELSE i + 1
prev(k, s, i) == IF k = "object" THEN Node(s, Position(s, i) - 1) ELSE i - 1

plus(k, i, n) == IF k = "object" THEN Refused(209) ELSE Given(i + n)
minus(k, i, j) == IF k = "object" THEN Refused(209) ELSE Given(i - j)
less(k, i, j) == IF k = "object" THEN Refused(213) ELSE Given(i < j)

subscript(k, s, i, n) ==
  CASE k = "object" -> Refused(208)
    [] k = "array" -> Given(s[i + n + 1])
    [] k = "null" -> Refused(214)
    [] OTHER -> IF i = -n THEN Given(s[1]) ELSE Refused(214)

\* The elements from one iterator to another, from the front or from the back.
From(k, s, i) ==
  CASE k = "array" -> SubSeq(s, i + 1, Len(s))
    [] k = "object" -> SubSeq(s, Position(s, i), Len(s))
    [] OTHER -> IF i = 0 THEN s ELSE <<>>
UpTo(k, s, i) == SubSeq(s, 1, Len(s) - Len(From(k, s, i)))

\* basic_json::erase: the value and the iterator it gives back.
erase_range(k, s, first, last) ==
  CASE k = "scalar" -> IF first = 0 /\ last = 1
                       THEN [ok |-> TRUE, k |-> "null", s |-> <<>>, i |-> set_end(k, s)]
                       ELSE [ok |-> FALSE, k |-> k, s |-> s, i |-> 204]
    [] k = "null" -> [ok |-> FALSE, k |-> k, s |-> s, i |-> 307]
    [] OTHER -> [ok |-> TRUE, k |-> k, s |-> UpTo(k, s, first) \o From(k, s, last),
                 i |-> IF k = "array" THEN first ELSE last]

\* A mutant: the iterator that was erased comes back moved on.
erase_skips(k, s, pos) ==
  CASE k = "scalar" -> [ok |-> TRUE, k |-> "null", s |-> <<>>, i |-> set_end(k, s)]
    [] k = "null" -> [ok |-> FALSE, k |-> k, s |-> s, i |-> 307]
    [] k = "array" -> [ok |-> TRUE, k |-> k, s |-> RemoveAt(s, pos + 1), i |-> pos + 1]
    [] OTHER -> [ok |-> TRUE, k |-> k, s |-> Remove(s, pos), i |-> next(k, s, pos)]

erase(k, s, pos) ==
  CASE k = "scalar" -> IF pos = 0
                       THEN [ok |-> TRUE, k |-> "null", s |-> <<>>, i |-> set_end(k, s)]
                       ELSE [ok |-> FALSE, k |-> k, s |-> s, i |-> 205]
    [] k = "null" -> [ok |-> FALSE, k |-> k, s |-> s, i |-> 307]
    [] k = "array" -> [ok |-> TRUE, k |-> k, s |-> RemoveAt(s, pos + 1), i |-> pos]
    [] OTHER -> [ok |-> TRUE, k |-> k, s |-> Remove(s, pos), i |-> next(k, s, pos)]

-----------------------------------------------------------------------------
(* iteration_proxy_value: the key of an array's element is its index, as a *)
(* string that is made again when the index has changed.                   *)

Fresh(n) == [array_index |-> n, array_index_last |-> 0, array_index_str |-> 0]

key(k, i, p) ==
  LET p1 == IF p.array_index # p.array_index_last
            THEN [p EXCEPT !.array_index_str = p.array_index, !.array_index_last = p.array_index]
            ELSE p
  IN CASE k = "array" -> [p |-> p1, key |-> p1.array_index_str]
       [] k = "object" -> [p |-> p, key |-> i]
       [] OTHER -> [p |-> p, key |-> 0]


-----------------------------------------------------------------------------
Values ==
  [kind : {"array", "object"}, elems : {SetToSortSeq(S, <) : S \in SUBSET Keys}]
    \cup [kind : {"scalar"}, elems : {<<k>> : k \in Keys}] \cup {[kind |-> "null", elems |-> <<>>]}

Init ==
  /\ \E x \in Values : kind = x.kind /\ elems = x.elems
  /\ loop \in Loops
  /\ it = IF loop = "backward" THEN set_end(kind, elems) ELSE set_begin(kind, elems)
  /\ proxy = Fresh(0)
  /\ answer = NoAnswer
  /\ origin = elems /\ passed = <<>> /\ erased = {} /\ thrown = {}

\* it != end, compared anew each time round.
Running ==
  /\ thrown = {}
  /\ it # IF loop = "backward" THEN set_begin(kind, elems) ELSE set_end(kind, elems)

visit ==
  LET x == deref(kind, elems, it) IN
  /\ Running /\ loop = "forward"
  /\ IF x.ok
     THEN /\ passed' = Append(passed, x.v) /\ it' = next(kind, elems, it)
          /\ answer' = [NoAnswer EXCEPT !.value = x.v] /\ UNCHANGED thrown
     ELSE thrown' = {x.v} /\ UNCHANGED <<passed, it, answer>>
  /\ UNCHANGED <<kind, elems, proxy, loop, origin, erased>>

erase_at ==
  LET r == erase(kind, elems, it) IN
  /\ Running /\ loop = "forward"
  /\ IF r.ok
     THEN /\ kind' = r.k /\ elems' = r.s /\ it' = r.i
          /\ LET gone == deref(kind, elems, it).v IN erased' = erased \cup {gone} /\ passed' = Append(passed, gone)
          /\ UNCHANGED thrown
     ELSE thrown' = {r.i} /\ UNCHANGED <<kind, elems, it, passed, erased>>
  /\ UNCHANGED <<proxy, answer, loop, origin>>

\* The rest of the loop erased at once, or all but the last.
erase_to(last) ==
  LET r == erase_range(kind, elems, it, last)
      gone == SubSeq(From(kind, elems, it), 1, Len(From(kind, elems, it)) - Len(From(kind, elems, last)))
  IN /\ Running /\ loop = "forward"
     /\ IF r.ok
        THEN /\ kind' = r.k /\ elems' = r.s /\ it' = r.i
             /\ erased' = erased \cup ToSet(gone) /\ passed' = passed \o gone
             /\ UNCHANGED thrown
        ELSE thrown' = {r.i} /\ UNCHANGED <<kind, elems, it, passed, erased>>
     /\ UNCHANGED <<proxy, answer, loop, origin>>

\* One round of a loop over items(): its body may or may not ask for the
\* key, and may ask the copy that post-increment gives.
item(asked, copied) ==
  LET x == deref(kind, elems, it)
      k == key(kind, it, IF copied THEN Fresh(proxy.array_index) ELSE proxy)
  IN /\ Running /\ loop = "items"
     /\ IF x.ok
        THEN /\ answer' = IF asked THEN [key |-> k.key, value |-> x.v] ELSE NoAnswer
             /\ proxy' = [(IF asked /\ ~copied THEN k.p ELSE proxy) EXCEPT !.array_index = @ + 1]
             /\ passed' = Append(passed, x.v) /\ it' = next(kind, elems, it)
             /\ UNCHANGED thrown
        ELSE thrown' = {x.v} /\ UNCHANGED <<answer, proxy, passed, it>>
     /\ UNCHANGED <<kind, elems, loop, origin, erased>>

\* --it and then *it, as back() does at the end.
visit_back ==
  LET i == prev(kind, elems, it)
      x == deref(kind, elems, i)
  IN /\ Running /\ loop = "backward"
     /\ IF x.ok
        THEN passed' = <<x.v>> \o passed /\ it' = i /\ UNCHANGED thrown
        ELSE thrown' = {x.v} /\ UNCHANGED <<passed, it>>
     /\ UNCHANGED <<kind, elems, proxy, answer, loop, origin, erased>>

Next ==
  \/ visit \/ erase_at \/ visit_back
  \/ erase_to(set_end(kind, elems)) \/ erase_to(prev(kind, elems, set_end(kind, elems)))
  \/ \E asked, copied \in BOOLEAN : item(asked, copied)

Spec == Init /\ [][Next]_vars

-----------------------------------------------------------------------------
(* What a loop has dealt with and what is ahead of it are the elements the *)
(* value had, each once and in their order, whatever the loop erased: none *)
(* is skipped and none comes twice.                                        *)
EachOnce ==
  IF loop = "backward" THEN UpTo(kind, elems, it) \o passed = origin
  ELSE passed \o From(kind, elems, it) = origin

(* What a loop erased is gone and everything else is still there, and no   *)
(* body is given an element that is not.                                   *)
ErasedGone == elems = SelectSeq(origin, LAMBDA e : e \notin erased)

(* A loop that keeps to begin and end meets no failed assertion and no     *)
(* exception; only erasing part of a scalar is refused.                    *)
NeverRefused == thrown \subseteq {204}

(* The key items() gives for an element of an array is its index in the    *)
(* array and for a member its name, also when some keys are not asked for  *)
(* and when a copy of the iterator is asked.                               *)
KeyTrue ==
  loop = "items" /\ answer.value # 0 =>
    CASE kind = "array" -> origin[answer.key + 1] = answer.value
      [] kind = "object" -> answer.key = answer.value
      [] OTHER -> answer.key = 0

(* In an array and on a scalar it[n] is what it + n points to, it + n is   *)
(* n away from it and after it exactly when n > 0; an object refuses all   *)
(* of them.                                                                *)
RandomAccess ==
  LET b == set_begin(kind, elems)
      e == set_end(kind, elems)
  IN IF kind = "object"
     THEN ~plus(kind, it, 1).ok /\ ~minus(kind, e, b).ok /\ ~less(kind, b, e).ok /\ ~subscript(kind, elems, it, 0).ok
     ELSE \A n \in (b - it)..(e - it - 1) :
            LET i == plus(kind, it, n).v IN
            /\ subscript(kind, elems, it, n) = deref(kind, elems, i)
            /\ minus(kind, i, it).v = n
            /\ less(kind, it, i).v <=> n > 0
=============================================================================

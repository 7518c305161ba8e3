----------------------------- MODULE JsonStore -----------------------------
(***************************************************************************)
(* What the operations of a JSON value promise: variables hold values, a   *)
(* copy is independent of what it was copied from, and an operation on the *)
(* wrong type changes nothing and throws.                                  *)
(*                                                                         *)
(* A value is [t, v]: v is a sequence in an array, a function on keys in   *)
(* an object.  A place is a variable and the path from its value inwards.  *)
(***************************************************************************)
EXTENDS Integers, Sequences, SequencesExt, FiniteSets

CONSTANTS
  Names,      \* the variables
  Keys,       \* keys, which are texts of strings too; integers no index reaches
  Numbers,
  Indexes     \* the indexes asked for, from 1

VARIABLES
  vals,       \* the value of each variable
  result      \* the last operation and how it ended ("ok", "absent" or the id of
              \* its exception), until its caller took the answer

vars == <<vals, result>>

Null == [t |-> "null", v |-> 0]
Idle == <<>>
Array(s) == [t |-> "array", v |-> s]
Object(f) == [t |-> "object", v |-> f]
Text(k) == [t |-> "string", v |-> k]
Number(n) == [t |-> "number", v |-> n]
EmptyText == 0

Inside(x) == IF x.t \in {"array", "object"} THEN DOMAIN x.v ELSE {}

RECURSIVE At(_, _), Put(_, _, _), Paths(_)
At(x, path) == IF path = <<>> THEN x ELSE At(x.v[Head(path)], Tail(path))
Put(x, path, y) ==
  IF path = <<>> THEN y
  ELSE [x EXCEPT !.v = [k \in DOMAIN @ |-> IF k = Head(path) THEN Put(@[k], Tail(path), y) ELSE @[k]]]
Paths(x) == {<<>>} \cup UNION {{<<k>> \o path : path \in Paths(x.v[k])} : k \in Inside(x)}

Places == UNION {{[n |-> n, path |-> path] : path \in Paths(vals[n])} : n \in Names}
PutAt(vs, l, y) == [vs EXCEPT ![l.n] = Put(@, l.path, y)]
GetAt(vs, l) == At(vs[l.n], l.path)
Within(l, m) == l.n = m.n /\ IsPrefix(m.path, l.path)

Becomes(op, l, y) == result' = <<op, "ok">> /\ vals' = PutAt(vals, l, y)
Throws(op, id) == result' = <<op, id>> /\ vals' = vals

Init == vals = [n \in Names |-> Null] /\ result = Idle

Construct(l) ==
  \/ \E x \in {"null", "array", "object"} :
       Becomes("construct", l, CASE x = "null" -> Null [] x = "array" -> Array(<<>>) [] OTHER -> Object(<<>>))
  \/ \E n \in Numbers : Becomes("construct", l, Number(n))
  \/ \E k \in Keys : Becomes("construct", l, Text(k))

Copy(l, m) == Becomes("copy", l, GetAt(vals, m))

\* The place moved from is null, unless it went with the old value.
Move(l, m) ==
  /\ l = m \/ ~Within(l, m)
  /\ result' = <<"move", "ok">> /\ vals' = PutAt(PutAt(vals, m, Null), l, GetAt(vals, m))

With(f, k, y) == [j \in DOMAIN f \cup {k} |-> IF j = k THEN y ELSE f[j]]
Without(f, k) == [j \in DOMAIN f \ {k} |-> f[j]]

SubscriptKey(l, k) ==
  LET x == GetAt(vals, l) IN
  CASE x.t = "null" -> Becomes("subscript_key", l, Object(With(<<>>, k, Null)))
    [] x.t = "object" -> Becomes("subscript_key", l, IF k \in DOMAIN x.v THEN x ELSE Object(With(x.v, k, Null)))
    [] OTHER -> Throws("subscript_key", "305")

SubscriptIndex(l, i) ==
  LET x == GetAt(vals, l)
      s == IF x.t = "null" THEN <<>> ELSE x.v
  IN IF x.t \in {"null", "array"}
     THEN Becomes("subscript_index", l, Array([j \in 1..(IF i > Len(s) THEN i ELSE Len(s)) |-> IF j <= Len(s) THEN s[j] ELSE Null]))
     ELSE Throws("subscript_index", "305")

\* A null becomes an array before the element is looked at.
AsArray(x) == IF x.t = "null" THEN Array(<<>>) ELSE x

PushBack(l, m) ==
  LET x == GetAt(vals, l) IN
  IF x.t \in {"null", "array"}
  THEN LET ready == PutAt(vals, l, AsArray(x)) IN
       Becomes("push_back", l, Array(Append(GetAt(ready, l).v, GetAt(ready, m))))
  ELSE Throws("push_back", "308")

PushBackMove(l, m) ==
  /\ ~Within(l, m)
  /\ LET left == PutAt(vals, m, Null) IN
     IF GetAt(vals, l).t \in {"null", "array"}
     THEN result' = <<"push_back_move", "ok">> /\ vals' = PutAt(left, l, Array(Append(AsArray(GetAt(left, l)).v, GetAt(vals, m))))
     ELSE Throws("push_back_move", "308")

EraseKey(l, k) ==
  LET x == GetAt(vals, l) IN
  IF x.t = "object" THEN Becomes("erase_key", l, Object(Without(x.v, k))) ELSE Throws("erase_key", "307")

EraseIndex(l, i) ==
  LET x == GetAt(vals, l) IN
  CASE x.t # "array" -> Throws("erase_index", "307")
    [] x.t = "array" /\ i > Len(x.v) -> Throws("erase_index", "401")
    [] OTHER -> Becomes("erase_index", l, Array(RemoveAt(x.v, i)))

Clear(l) ==
  LET x == GetAt(vals, l) IN
  Becomes("clear", l, CASE x.t = "number" -> Number(0)
               [] x.t = "string" -> Text(EmptyText)
               [] x.t = "array" -> Array(<<>>)
               [] x.t = "object" -> Object(<<>>)
               [] OTHER -> Null)

\* A list in braces: an object if each element is a pair with a string first.
IsPair(x) == x.t = "array" /\ Len(x.v) = 2 /\ x.v[1].t = "string"
FirstOf(xs) ==
  Object([k \in {xs[n].v[1].v : n \in DOMAIN xs} |->
            xs[CHOOSE n \in DOMAIN xs : xs[n].v[1].v = k /\ \A j \in 1..(n - 1) : xs[j].v[1].v # k].v[2]])

List(l, ms, manual) ==
  LET xs == [n \in DOMAIN ms |-> GetAt(vals, ms[n])]
      pairs == \A n \in DOMAIN xs : IsPair(xs[n])
  IN CASE manual = "object" /\ ~pairs -> Throws(manual, "301")
       [] manual # "array" /\ pairs -> Becomes(manual, l, FirstOf(xs))
       [] OTHER -> Becomes(manual, l, Array(xs))

\* The operations that only look.
Look(l, k, i) ==
  LET x == GetAt(vals, l)
      has == x.t = "object" /\ k \in DOMAIN x.v
  IN \/ Throws("at_key", CASE x.t # "object" -> "304" [] has -> "ok" [] OTHER -> "403")
     \/ Throws("at_index", CASE x.t # "array" -> "304" [] x.t = "array" /\ i <= Len(x.v) -> "ok" [] OTHER -> "401")
     \/ Throws("value", CASE x.t # "object" -> "306" [] has -> "ok" [] OTHER -> "absent")
     \/ Throws("contains", IF has THEN "ok" ELSE "absent")
     \/ Throws("subscript_key", IF x.t = "object" THEN "ok" ELSE "305")
     \/ Throws("subscript_index", IF x.t = "array" THEN "ok" ELSE "305")

Variables == {[n |-> n, path |-> <<>>] : n \in Names}
Lists == {<<>>} \cup {<<l>> : l \in Places} \cup (Places \X Places)

Next ==
  \/ result' = Idle /\ vals' = vals
  \/ \E l \in Places, k \in Keys, i \in Indexes : Look(l, k, i)
  \/ \E l \in Places, k \in Keys : SubscriptKey(l, k) \/ EraseKey(l, k)
  \/ \E l \in Places, i \in Indexes : SubscriptIndex(l, i) \/ EraseIndex(l, i)
  \/ \E l \in Places : Construct(l) \/ Clear(l)
  \/ \E l, m \in Places : Copy(l, m) \/ Move(l, m) \/ PushBack(l, m) \/ PushBackMove(l, m)
  \/ \E l \in Variables, ms \in Lists, manual \in {"list", "array", "object"} : List(l, ms, manual)

Spec == Init /\ [][Next]_vars
=============================================================================

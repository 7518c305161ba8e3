----------------------------- MODULE JsonValue -----------------------------
(***************************************************************************)
(* basic_json of the vendored JSON library (Lib/Json/json.hpp): a type and *)
(* a union, where strings, arrays and objects are nodes on the heap that   *)
(* the value owns through a raw pointer.  Destroying a container moves its *)
(* contents to a stack of their own first; that is one step per value.     *)
(*                                                                         *)
(* A cell is [t, v]; v is an address for a string, an array or an object.  *)
(***************************************************************************)
EXTENDS Integers, Sequences, SequencesExt, FiniteSets

CONSTANTS
  Names, Keys, Numbers, Indexes,   \* as in JsonStore
  Addresses,                       \* of the heap, integers; a bound on the nodes
  MaxSize, MaxDepth,               \* bounds on arrays and nesting
  MaxNumbered                      \* bound on the nodes when there are numbers

VARIABLES
  heap,          \* the node at each address: its type, or "free", and its contents
  named,         \* the cell of each variable
  result,
  doomed,        \* cells whose destructors are still to run
  stack, top     \* of the running destroy(): what was moved out, and the container

vars == <<heap, named, result, doomed, stack, top>>

Null == [t |-> "null", v |-> 0]
Idle == <<>>
Free == [t |-> "free", v |-> 0]
Owners == {"string", "array", "object"}
Owning(c) == c.t \in Owners

Init ==
  /\ heap = [a \in Addresses |-> Free]
  /\ named = [n \in Names |-> Null]
  /\ result = Idle
  /\ doomed = <<>> /\ stack = <<>> /\ top = Null

-----------------------------------------------------------------------------
(* Cells.  h is a heap; an operation that allocates gives back the heap    *)
(* and the new cell.                                                       *)

Vacant(h) == {a \in Addresses : h[a].t = "free"}

create(h, t, v) ==
  LET a == CHOOSE a \in Vacant(h) : \A b \in Vacant(h) : a <= b
  IN [h |-> [h EXCEPT ![a] = [t |-> t, v |-> v]], c |-> [t |-> t, v |-> a]]

Inside(h, c) == IF c.t \in {"array", "object"} THEN DOMAIN h[c.v].v ELSE {}

\* The cells in a container, in the order of its iterators.
Children(h, c) ==
  IF c.t = "array" THEN h[c.v].v
  ELSE LET ks == SetToSortSeq(Inside(h, c), <) IN [n \in DOMAIN ks |-> h[c.v].v[ks[n]]]

RECURSIVE At(_, _, _), Paths(_, _), Nodes(_, _), Depth(_, _)
At(h, c, path) == IF path = <<>> THEN c ELSE At(h, h[c.v].v[Head(path)], Tail(path))
Paths(h, c) == {<<>>} \cup UNION {{<<k>> \o path : path \in Paths(h, h[c.v].v[k])} : k \in Inside(h, c)}
Nodes(h, c) ==
  (IF Owning(c) THEN 1 ELSE 0)
    + FoldLeft(LAMBDA n, d : n + Nodes(h, d), 0, IF Inside(h, c) = {} THEN <<>> ELSE Children(h, c))
Depth(h, c) == LET ds == {Depth(h, h[c.v].v[k]) : k \in Inside(h, c)} IN
               IF ds = {} THEN 0 ELSE 1 + (CHOOSE d \in ds : \A e \in ds : e <= d)

Places == UNION {{[n |-> n, path |-> path] : path \in Paths(heap, named[n])} : n \in Names}
Within(l, m) == l.n = m.n /\ IsPrefix(m.path, l.path)
Cell(h, ns, l) == At(h, ns[l.n], l.path)

\* The heap and the variables once the cell at l is c.
Stored(h, ns, l, c) ==
  IF l.path = <<>> THEN [h |-> h, ns |-> [ns EXCEPT ![l.n] = c]]
  ELSE [h |-> [h EXCEPT ![At(h, ns[l.n], Front(l.path)).v].v[Last(l.path)] = c], ns |-> ns]

RECURSIVE copied(_, _)
copied(h, c) ==
  LET parts == Children(h, c)
      step(acc, d) == LET r == copied(acc.h, d) IN [h |-> r.h, cs |-> Append(acc.cs, r.c)]
      all == FoldLeft(step, [h |-> h, cs |-> <<>>], parts)
      ks == SetToSortSeq(Inside(h, c), <)
  IN CASE c.t = "array" -> create(all.h, "array", all.cs)
       [] c.t = "object" -> create(all.h, "object", [k \in Inside(h, c) |-> all.cs[CHOOSE n \in DOMAIN ks : ks[n] = k]])
       [] c.t = "string" -> create(h, "string", h[c.v].v)
       [] OTHER -> [h |-> h, c |-> c]

-----------------------------------------------------------------------------
(* An operation runs when no destructor does.  Its caller takes the answer *)
(* before the value it replaced is destroyed.  Doomed cells that own       *)
(* nothing need no destructor.                                             *)

Calm == doomed = <<>> /\ top = Null /\ result = Idle

answered == result # Idle /\ result' = Idle /\ UNCHANGED <<heap, named, doomed, stack, top>>

Numbered(h, ns) ==
  \/ \E n \in Names : ns[n].t = "number"
  \/ \E a \in Addresses : h[a].t \in {"array", "object"} /\ \E k \in DOMAIN h[a].v : h[a].v[k].t = "number"

Fits(h, ns) ==
  /\ \A n \in Names : Depth(h, ns[n]) <= MaxDepth
  /\ \A a \in Addresses : h[a].t = "array" => Len(h[a].v) <= MaxSize
  /\ Numbered(h, ns) => Cardinality(Addresses \ Vacant(h)) <= MaxNumbered

Ends(op, s, dropped) ==
  /\ Fits(s.h, s.ns)
  /\ heap' = s.h /\ named' = s.ns
  /\ doomed' = SelectSeq(dropped, Owning)
  /\ result' = <<op, "ok">>
  /\ UNCHANGED <<stack, top>>

Throws(op, id) == result' = <<op, id>> /\ UNCHANGED <<heap, named, doomed, stack, top>>

Room(n) == Cardinality(Vacant(heap)) >= n

\* operator=: the new value r is swapped in and the old one destroyed.
swapped(op, r, ns, l) == Ends(op, Stored(r.h, ns, l, r.c), <<Cell(r.h, ns, l)>>)

construct(l) ==
  /\ Calm
  /\ \/ \E t \in {"array", "object"} : Room(1) /\ swapped("construct", create(heap, t, <<>>), named, l)
     \/ \E k \in Keys : Room(1) /\ swapped("construct", create(heap, "string", k), named, l)
     \/ \E c \in {Null} \cup {[t |-> "number", v |-> n] : n \in Numbers} : swapped("construct", [h |-> heap, c |-> c], named, l)

copy(l, m) ==
  /\ Calm /\ Room(Nodes(heap, Cell(heap, named, m)))
  /\ swapped("copy", copied(heap, Cell(heap, named, m)), named, l)

\* A mutant: the value that was moved from keeps its pointer.
move_kept(l, m) ==
  /\ Calm /\ (l = m \/ ~Within(l, m))
  /\ swapped("move", [h |-> heap, c |-> Cell(heap, named, m)], named, l)

\* Nobody moves a value into a part of itself.
move(l, m) ==
  /\ Calm /\ (l = m \/ ~Within(l, m))
  /\ LET left == Stored(heap, named, m, Null) IN
     swapped("move", [h |-> left.h, c |-> Cell(heap, named, m)], left.ns, l)

\* The heap and variables after null at l was made an empty container.
made(l, t) ==
  IF Cell(heap, named, l).t = "null"
  THEN LET r == create(heap, t, <<>>) IN Stored(r.h, named, l, r.c)
  ELSE [h |-> heap, ns |-> named]

WithKey(f, k, c) == [j \in DOMAIN f \cup {k} |-> IF j = k THEN c ELSE f[j]]

subscript_key(l, k) ==
  /\ Calm /\ Room(1)
  /\ LET s == made(l, "object")
         x == Cell(s.h, s.ns, l)
     IN IF x.t = "object"
        THEN Ends("subscript_key", [s EXCEPT !.h[x.v].v = IF k \in DOMAIN @ THEN @ ELSE WithKey(@, k, Null)], <<>>)
        ELSE Throws("subscript_key", "305")

subscript_index(l, i) ==
  /\ Calm /\ Room(1)
  /\ LET s == made(l, "array")
         x == Cell(s.h, s.ns, l)
     IN IF x.t = "array"
        THEN Ends("subscript_index", [s EXCEPT !.h[x.v].v = IF i <= Len(@) THEN @ ELSE @ \o [j \in 1..(i - Len(@)) |-> Null]], <<>>)
        ELSE Throws("subscript_index", "305")

-----------------------------------------------------------------------------
\* A mutant: the element is copied before null becomes an array.
push_back_early(l, m) ==
  /\ Calm /\ Room(2 + Nodes(heap, Cell(heap, named, m)))
  /\ IF Cell(heap, named, l).t \in {"null", "array"}
     THEN LET s == made(l, "array")
              r == copied(s.h, Cell(heap, named, m))
              x == Cell(s.h, s.ns, l)
          IN Ends("push_back", [h |-> [r.h EXCEPT ![x.v].v = Append(@, r.c)], ns |-> s.ns], <<>>)
     ELSE Throws("push_back", "308")

push_back(l, m) ==
  /\ Calm /\ Room(2 + Nodes(heap, Cell(heap, named, m)))
  /\ IF Cell(heap, named, l).t \in {"null", "array"}
     THEN LET s == made(l, "array")
              r == copied(s.h, Cell(s.h, s.ns, m))
              x == Cell(s.h, s.ns, l)
          IN Ends("push_back", [h |-> [r.h EXCEPT ![x.v].v = Append(@, r.c)], ns |-> s.ns], <<>>)
     ELSE Throws("push_back", "308")

push_back_move(l, m) ==
  /\ Calm /\ Room(1) /\ ~Within(l, m)
  /\ IF Cell(heap, named, l).t \in {"null", "array"}
     THEN LET s == made(l, "array")
              left == Stored(s.h, s.ns, m, Null)
              x == Cell(s.h, s.ns, l)
          IN Ends("push_back_move", [left EXCEPT !.h[x.v].v = Append(@, Cell(s.h, s.ns, m))], <<>>)
     ELSE Throws("push_back_move", "308")

erase_key(l, k) ==
  LET x == Cell(heap, named, l) IN
  /\ Calm
  /\ CASE x.t # "object" -> Throws("erase_key", "307")
       [] x.t = "object" /\ k \notin DOMAIN heap[x.v].v -> Ends("erase_key", [h |-> heap, ns |-> named], <<>>)
       [] OTHER -> Ends("erase_key", [h |-> [heap EXCEPT ![x.v].v = [j \in DOMAIN @ \ {k} |-> @[j]]], ns |-> named], <<heap[x.v].v[k]>>)

erase_index(l, i) ==
  LET x == Cell(heap, named, l) IN
  /\ Calm
  /\ CASE x.t # "array" -> Throws("erase_index", "307")
       [] x.t = "array" /\ i > Len(heap[x.v].v) -> Throws("erase_index", "401")
       [] OTHER -> Ends("erase_index", [h |-> [heap EXCEPT ![x.v].v = RemoveAt(@, i)], ns |-> named], <<heap[x.v].v[i]>>)

clear(l) ==
  LET x == Cell(heap, named, l) IN
  /\ Calm
  /\ CASE x.t \in {"array", "object"} ->
            Ends("clear", [h |-> [heap EXCEPT ![x.v].v = <<>>], ns |-> named], Children(heap, x))
       [] x.t = "string" -> Ends("clear", [h |-> [heap EXCEPT ![x.v].v = 0], ns |-> named], <<>>)
       [] x.t = "number" -> Ends("clear", Stored(heap, named, l, [x EXCEPT !.v = 0]), <<>>)
       [] OTHER -> Ends("clear", [h |-> heap, ns |-> named], <<>>)

-----------------------------------------------------------------------------
(* The constructor from a list in braces, and the assignment of its value. *)

IsPair(c) == c.t = "array" /\ Len(heap[c.v].v) = 2 /\ heap[c.v].v[1].t = "string"

\* emplace() keeps the first value of a key; the copy of a later one dies with its pair.
emplaced(cs) ==
  LET name(c) == heap[heap[c.v].v[1].v].v
      step(acc, c) == IF name(c) \in DOMAIN acc.f THEN acc
                      ELSE LET r == copied(acc.h, heap[c.v].v[2]) IN [h |-> r.h, f |-> WithKey(acc.f, name(c), r.c)]
      all == FoldLeft(step, [h |-> heap, f |-> <<>>], cs)
  IN create(all.h, "object", all.f)

listed(cs) ==
  LET step(acc, c) == LET r == copied(acc.h, c) IN [h |-> r.h, s |-> Append(acc.s, r.c)]
      all == FoldLeft(step, [h |-> heap, s |-> <<>>], cs)
  IN create(all.h, "array", all.s)

\* l is a variable: its value goes elsewhere by move.
initializer_list(l, ms, manual) ==
  LET cs == [n \in DOMAIN ms |-> Cell(heap, named, ms[n])]
      is_an_object == \A n \in DOMAIN cs : IsPair(cs[n])
      kept == IF manual # "array" /\ is_an_object THEN [n \in DOMAIN cs |-> heap[cs[n].v].v[2]] ELSE cs
  IN /\ Calm /\ Room(1 + FoldLeft(LAMBDA n, c : n + Nodes(heap, c), 0, kept))
     /\ CASE manual = "object" /\ ~is_an_object -> Throws(manual, "301")
          [] manual # "array" /\ is_an_object -> swapped(manual, emplaced(cs), named, l)
          [] OTHER -> swapped(manual, listed(cs), named, l)

-----------------------------------------------------------------------------
(* What only looks.                                                        *)

Has(x, k) == x.t = "object" /\ k \in DOMAIN heap[x.v].v

at_key(x, k) == CASE x.t # "object" -> "304" [] Has(x, k) -> "ok" [] OTHER -> "403"
at_index(x, i) == CASE x.t # "array" -> "304" [] x.t = "array" /\ i <= Len(heap[x.v].v) -> "ok" [] OTHER -> "401"
value(x, k) == CASE x.t # "object" -> "306" [] Has(x, k) -> "ok" [] OTHER -> "absent"
contains(x, k) == IF Has(x, k) THEN "ok" ELSE "absent"

\* The const operator[] is asked only for what is there.
const_key(x, k) == CASE x.t # "object" -> {"305"} [] Has(x, k) -> {"ok"} [] OTHER -> {}
const_index(x, i) == CASE x.t # "array" -> {"305"} [] x.t = "array" /\ i <= Len(heap[x.v].v) -> {"ok"} [] OTHER -> {}

look(l, k, i) ==
  LET x == Cell(heap, named, l) IN
  /\ Calm
  /\ \/ Throws("at_key", at_key(x, k)) \/ Throws("at_index", at_index(x, i))
     \/ Throws("value", value(x, k)) \/ Throws("contains", contains(x, k))
     \/ \E r \in const_key(x, k) : Throws("subscript_key", r)
     \/ \E r \in const_index(x, i) : Throws("subscript_index", r)

-----------------------------------------------------------------------------
(* json_value::destroy                                                     *)

Freed(h, c) == [h EXCEPT ![c.v] = Free]

destroy ==
  /\ doomed # <<>> /\ top = Null /\ result = Idle
  /\ LET c == Head(doomed) IN
     IF c.t = "string"
     THEN heap' = Freed(heap, c) /\ doomed' = Tail(doomed) /\ UNCHANGED <<stack, top>>
     ELSE /\ top' = c /\ stack' = Children(heap, c)
          /\ heap' = [heap EXCEPT ![c.v].v = [k \in DOMAIN @ |-> Null]]
          /\ UNCHANGED doomed
  /\ UNCHANGED <<named, result>>

\* A mutant: an inner container is destroyed with its contents, by destructors in destructors.
RECURSIVE FreedAll(_, _)
FreedAll(h, c) == IF Owning(c) THEN FoldLeft(FreedAll, Freed(h, c), IF c.t = "string" THEN <<>> ELSE Children(h, c)) ELSE h

\* current_item has no contents left when it is destroyed.
destroy_item ==
  /\ top # Null /\ stack # <<>>
  /\ LET c == Last(stack) IN
     /\ heap' = IF Owning(c) THEN Freed(heap, c) ELSE heap
     /\ stack' = Front(stack) \o (IF c.t \in {"array", "object"} THEN Children(heap, c) ELSE <<>>)
  /\ UNCHANGED <<named, result, doomed, top>>

deallocate ==
  /\ top # Null /\ stack = <<>>
  /\ heap' = Freed(heap, top)
  /\ top' = Null /\ doomed' = Tail(doomed)
  /\ UNCHANGED <<named, result, stack>>

Variables == {[n |-> n, path |-> <<>>] : n \in Names}
Lists == {<<>>} \cup {<<l>> : l \in Places} \cup (Places \X Places)

Next ==
  \/ \E l \in Places : construct(l) \/ clear(l)
  \/ \E l, m \in Places : copy(l, m) \/ move(l, m) \/ push_back(l, m) \/ push_back_move(l, m)
  \/ \E l \in Places, k \in Keys : subscript_key(l, k) \/ erase_key(l, k)
  \/ \E l \in Places, i \in Indexes : subscript_index(l, i) \/ erase_index(l, i)
  \/ \E l \in Variables, ms \in Lists, manual \in {"list", "array", "object"} : initializer_list(l, ms, manual)
  \/ \E l \in Places, k \in Keys, i \in Indexes : look(l, k, i)
  \/ answered \/ destroy \/ destroy_item \/ deallocate

Spec == Init /\ [][Next]_vars

-----------------------------------------------------------------------------
(* Each node on the heap is owned by exactly one value, and no value owns  *)
(* a node that was freed: nothing leaks, nothing is shared, nothing        *)
(* dangles, after every operation and at every moment of a destruction.    *)
OwnedOnce ==
  LET containers == {a \in Addresses : heap[a].t \in {"array", "object"}}
      inVariables == {n \in Names : Owning(named[n])}
      inNodes == UNION {{<<a, k>> : k \in {j \in DOMAIN heap[a].v : Owning(heap[a].v[j])}} : a \in containers}
      onStack == {n \in DOMAIN stack : Owning(stack[n])}
      owned == {named[n].v : n \in inVariables} \cup {heap[x[1]].v[x[2]].v : x \in inNodes}
                 \cup {stack[n].v : n \in onStack} \cup {doomed[n].v : n \in DOMAIN doomed}
  IN /\ owned = Addresses \ Vacant(heap)
     /\ Cardinality(owned) = Cardinality(inVariables) + Cardinality(inNodes) + Cardinality(onStack) + Len(doomed)

RECURSIVE Tree(_)
Tree(c) ==
  CASE c.t = "array" -> [t |-> "array", v |-> [n \in DOMAIN heap[c.v].v |-> Tree(heap[c.v].v[n])]]
    [] c.t = "object" -> [t |-> "object", v |-> [k \in DOMAIN heap[c.v].v |-> Tree(heap[c.v].v[k])]]
    [] c.t = "string" -> [t |-> "string", v |-> heap[c.v].v]
    [] OTHER -> c

Store == INSTANCE JsonStore WITH vals <- [n \in Names |-> Tree(named[n])]

(* Seen from outside each operation does what it promises of plain values  *)
(* and nothing else: a copy never changes with what it was copied from,    *)
(* also when a value is assigned from or pushed onto a part of itself.     *)
ImplementsStore == Store!Spec
=============================================================================

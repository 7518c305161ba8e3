------------------------------ MODULE TcpProofs ------------------------------
(***************************************************************************)
(* ModbusTcpTransport for any number of callers and operations: no         *)
(* operation is lost or completed twice; and, used by one caller alone, it *)
(* keeps what ModbusPort promises.                                         *)
(***************************************************************************)
EXTENDS TcpTransport, Integers, TLAPS

\* The time SMT may take for a step.
USE SMTT(60)

-----------------------------------------------------------------------------
(* Continuations.  w is what is pending on the socket, s the strand, and S *)
(* the callers with an operation in progress.                              *)

PendsIn(w, c) == \E i \in DOMAIN w : w[i] = c
ReadyIn(s, c) == \E i \in DOMAIN s : s[i].caller = c /\ ~s[i].deadline

\* Each caller of S has one continuation, the others have none.
Single(w, s, S) ==
  /\ \A i, j \in DOMAIN w : w[i] = w[j] => i = j
  /\ \A i, j \in DOMAIN s :
       ~s[i].deadline /\ ~s[j].deadline /\ s[i].caller = s[j].caller => i = j
  /\ \A c \in Callers : ~(PendsIn(w, c) /\ ReadyIn(s, c))
  /\ \A c \in Callers : c \in S <=> PendsIn(w, c) \/ ReadyIn(s, c)

LEMMA AppendFacts ==
  ASSUME NEW H, NEW s \in Seq(H), NEW h \in H
  PROVE  /\ Append(s, h) \in Seq(H)
         /\ DOMAIN s = 1..Len(s) /\ Len(s) \in Nat
         /\ DOMAIN Append(s, h) = 1..(Len(s) + 1)
         /\ \A i \in 1..Len(s) : Append(s, h)[i] = s[i]
         /\ Append(s, h)[Len(s) + 1] = h
OBVIOUS

LEMMA TailFacts ==
  ASSUME NEW H, NEW s \in Seq(H), s # <<>>
  PROVE  /\ Tail(s) \in Seq(H) /\ Head(s) = s[1] /\ Head(s) \in H
         /\ DOMAIN s = 1..Len(s) /\ Len(s) \in Nat /\ Len(s) > 0
         /\ DOMAIN Tail(s) = 1..(Len(s) - 1)
         /\ \A i \in 1..(Len(s) - 1) : Tail(s)[i] = s[i + 1]
OBVIOUS

LEMMA ConcatFacts ==
  ASSUME NEW H, NEW s \in Seq(H), NEW t \in Seq(H)
  PROVE  /\ s \o t \in Seq(H)
         /\ DOMAIN s = 1..Len(s) /\ Len(s) \in Nat
         /\ DOMAIN t = 1..Len(t) /\ Len(t) \in Nat
         /\ DOMAIN (s \o t) = 1..(Len(s) + Len(t))
         /\ \A i \in 1..Len(s) : (s \o t)[i] = s[i]
         /\ \A i \in 1..Len(t) : (s \o t)[Len(s) + i] = t[i]
         /\ \A i \in 1..(Len(s) + Len(t)) : i > Len(s) => i - Len(s) \in 1..Len(t)
                                                       /\ (s \o t)[i] = t[i - Len(s)]
OBVIOUS

\* A handler is posted for a caller that had nothing in progress.
LEMMA PostSingle ==
  ASSUME NEW w, NEW s \in Seq(Handlers), NEW S, NEW h \in Handlers, Single(w, s, S),
         ~h.deadline, h.caller \notin S
  PROVE  Single(w, Append(s, h), S \cup {h.caller})
<1> DEFINE t == Append(s, h)
<1>1. /\ DOMAIN s = 1..Len(s) /\ Len(s) \in Nat /\ DOMAIN t = 1..(Len(s) + 1)
      /\ \A i \in 1..Len(s) : t[i] = s[i]
      /\ t[Len(s) + 1] = h
  BY AppendFacts
<1> HIDE DEF t
<1>2. \A c : ReadyIn(t, c) <=> ReadyIn(s, c) \/ c = h.caller
  BY <1>1 DEF ReadyIn
<1>3. h.caller \in Callers
  BY Zenon DEF Handlers
<1>4. ~ReadyIn(s, h.caller) /\ ~PendsIn(w, h.caller)
  BY <1>3, Zenon DEF Single
<1>5. ASSUME NEW i \in DOMAIN t, NEW j \in DOMAIN t,
             ~t[i].deadline, ~t[j].deadline, t[i].caller = t[j].caller
      PROVE  i = j
  <2>1. CASE i \in 1..Len(s) /\ j \in 1..Len(s)
    BY <1>1, <1>5, <2>1, Zenon DEF Single
  <2>2. CASE i = Len(s) + 1 /\ j \in 1..Len(s)
    BY <1>1, <1>4, <1>5, <2>2, Zenon DEF ReadyIn
  <2>3. CASE j = Len(s) + 1 /\ i \in 1..Len(s)
    BY <1>1, <1>4, <1>5, <2>3, Zenon DEF ReadyIn
  <2> QED BY <1>1, <2>1, <2>2, <2>3
<1> QED BY <1>2, <1>4, <1>5, Zenon DEF Single, t

\* The deadline of an operation is posted.
LEMMA DeadlineSingle ==
  ASSUME NEW w, NEW s \in Seq(Handlers), NEW S, NEW h \in Handlers, Single(w, s, S),
         h.deadline
  PROVE  Single(w, Append(s, h), S)
<1> DEFINE t == Append(s, h)
<1>1. /\ DOMAIN s = 1..Len(s) /\ Len(s) \in Nat /\ DOMAIN t = 1..(Len(s) + 1)
      /\ \A i \in 1..Len(s) : t[i] = s[i]
      /\ t[Len(s) + 1] = h
  BY AppendFacts
<1> HIDE DEF t
<1>2. \A c : ReadyIn(t, c) <=> ReadyIn(s, c)
  BY <1>1 DEF ReadyIn
<1>3. \A i \in DOMAIN t : ~t[i].deadline => i \in DOMAIN s /\ t[i] = s[i]
  BY <1>1
<1> QED BY <1>2, <1>3, Zenon DEF Single, t

\* The first handler is taken off the strand.
LEMMA TakeSingle ==
  ASSUME NEW w, NEW s \in Seq(Handlers), NEW S, Single(w, s, S), s # <<>>
  PROVE  Single(w, Tail(s), IF Head(s).deadline THEN S ELSE S \ {Head(s).caller})
<1> DEFINE t == Tail(s)
<1>1. /\ DOMAIN s = 1..Len(s) /\ Len(s) \in Nat /\ Len(s) > 0 /\ Head(s) = s[1]
      /\ DOMAIN t = 1..(Len(s) - 1)
      /\ \A i \in 1..(Len(s) - 1) : t[i] = s[i + 1]
  BY TailFacts, Zenon
<1> HIDE DEF t
<1>2. \A i \in DOMAIN t : i + 1 \in DOMAIN s /\ i + 1 # 1 /\ t[i] = s[i + 1]
  BY <1>1
<1>3. \A i \in DOMAIN s : i # 1 => i - 1 \in DOMAIN t /\ t[i - 1] = s[i]
  BY <1>1
<1>4. ASSUME NEW i \in DOMAIN t, NEW j \in DOMAIN t,
             ~t[i].deadline, ~t[j].deadline, t[i].caller = t[j].caller
      PROVE  i = j
  <2>1. i + 1 = j + 1
    BY <1>2, <1>4 DEF Single
  <2> QED BY <1>1, <2>1
<1>5. \A c : ReadyIn(t, c) => ReadyIn(s, c)
  BY <1>2, Zenon DEF ReadyIn
<1>6. \A c : ReadyIn(s, c) => ReadyIn(t, c) \/ (~s[1].deadline /\ s[1].caller = c)
  BY <1>3, Zenon DEF ReadyIn
<1>7. 1 \in DOMAIN s
  BY <1>1
<1>8. ~s[1].deadline => ~ReadyIn(t, s[1].caller)
  BY <1>2, <1>7 DEF ReadyIn, Single
<1>9. ~s[1].deadline => ReadyIn(s, s[1].caller)
  BY <1>7, Zenon DEF ReadyIn
<1> QED BY <1>1, <1>4, <1>5, <1>6, <1>8, <1>9 DEF Single, t

\* What is pending on the socket is aborted.
LEMMA AbortSingle ==
  ASSUME NEW w \in Seq(Callers), NEW s \in Seq(Handlers), NEW S, Single(w, s, S),
         NEW a \in Seq(Handlers), Len(a) = Len(w),
         \A i \in 1..Len(w) : a[i].caller = w[i] /\ ~a[i].deadline
  PROVE  Single(<<>>, s \o a, S)
<1> DEFINE t == s \o a
<1>1. /\ DOMAIN s = 1..Len(s) /\ Len(s) \in Nat /\ DOMAIN a = 1..Len(a) /\ Len(a) \in Nat
      /\ DOMAIN t = 1..(Len(s) + Len(a))
      /\ \A i \in 1..Len(s) : t[i] = s[i]
      /\ \A i \in 1..Len(a) : t[Len(s) + i] = a[i]
      /\ \A i \in 1..(Len(s) + Len(a)) : i > Len(s) => i - Len(s) \in 1..Len(a)
                                                    /\ t[i] = a[i - Len(s)]
  BY ConcatFacts
<1>2. DOMAIN w = 1..Len(w) /\ DOMAIN <<>> = {}
  OBVIOUS
<1> HIDE DEF t
<1>3. \A i \in DOMAIN t :
        \/ i \in DOMAIN s /\ t[i] = s[i]
        \/ i - Len(s) \in DOMAIN w /\ t[i].caller = w[i - Len(s)] /\ ~t[i].deadline
  BY <1>1, <1>2
<1>4. /\ \A i \in DOMAIN s : i \in DOMAIN t /\ t[i] = s[i]
      /\ \A i \in DOMAIN w : /\ Len(s) + i \in DOMAIN t
                             /\ t[Len(s) + i].caller = w[i] /\ ~t[Len(s) + i].deadline
  BY <1>1, <1>2
<1>5. \A c : ReadyIn(t, c) <=> ReadyIn(s, c) \/ PendsIn(w, c)
  BY <1>3, <1>4 DEF ReadyIn, PendsIn
<1>6. \A c : ~PendsIn(<<>>, c)
  BY <1>2, Zenon DEF PendsIn
<1>7. \A i \in DOMAIN s, j \in DOMAIN w : ~s[i].deadline => s[i].caller # w[j]
  <2>1. \A j \in DOMAIN w : w[j] \in Callers
    BY <1>2
  <2> QED BY <2>1, Zenon DEF Single, PendsIn, ReadyIn
<1>8. ASSUME NEW i \in DOMAIN t, NEW j \in DOMAIN t,
             ~t[i].deadline, ~t[j].deadline, t[i].caller = t[j].caller
      PROVE  i = j
  <2>1. i \in Int /\ j \in Int /\ Len(s) \in Int
    BY <1>1
  <2>2. CASE i - Len(s) \in DOMAIN w /\ j - Len(s) \in DOMAIN w
             /\ t[i].caller = w[i - Len(s)] /\ t[j].caller = w[j - Len(s)]
    <3>1. i - Len(s) = j - Len(s)
      BY <1>8, <2>2, Zenon DEF Single
    <3> QED BY <2>1, <3>1
  <2>3. CASE i \in DOMAIN s /\ t[i] = s[i] /\ j \in DOMAIN s /\ t[j] = s[j]
    BY <1>8, <2>3, Zenon DEF Single
  <2> QED BY <1>3, <1>7, <1>8, <2>2, <2>3, Zenon
<1> QED BY <1>2, <1>5, <1>6, <1>8, Zenon DEF Single, t

\* A continuation is started on the socket.
LEMMA WaitSingle ==
  ASSUME NEW w \in Seq(Callers), NEW s, NEW S, Single(w, s, S),
         NEW c \in Callers, c \notin S
  PROVE  Single(Append(w, c), s, S \cup {c})
<1> DEFINE v == Append(w, c)
<1>1. /\ DOMAIN w = 1..Len(w) /\ Len(w) \in Nat /\ DOMAIN v = 1..(Len(w) + 1)
      /\ \A i \in 1..Len(w) : v[i] = w[i]
      /\ v[Len(w) + 1] = c
  BY AppendFacts
<1> HIDE DEF v
<1>2. \A d : PendsIn(v, d) <=> PendsIn(w, d) \/ d = c
  BY <1>1 DEF PendsIn
<1>3. ~PendsIn(w, c) /\ ~ReadyIn(s, c)
  BY Zenon DEF Single
<1>4. ASSUME NEW i \in DOMAIN v, NEW j \in DOMAIN v, v[i] = v[j]
      PROVE  i = j
  <2>1. CASE i \in 1..Len(w) /\ j \in 1..Len(w)
    BY <1>1, <1>4, <2>1, Zenon DEF Single
  <2>2. CASE i = Len(w) + 1 /\ j \in 1..Len(w)
    BY <1>1, <1>3, <1>4, <2>2, Zenon DEF PendsIn
  <2>3. CASE j = Len(w) + 1 /\ i \in 1..Len(w)
    BY <1>1, <1>3, <1>4, <2>3, Zenon DEF PendsIn
  <2> QED BY <1>1, <2>1, <2>2, <2>3
<1> QED BY <1>2, <1>3, <1>4, Zenon DEF Single, v

\* What was pending on the socket is done.
LEMMA DropSingle ==
  ASSUME waiting \in Seq(Callers), NEW i \in DOMAIN waiting, NEW s, NEW S,
         Single(waiting, s, S)
  PROVE  Without(i) \in Seq(Callers) /\ Single(Without(i), s, S \ {waiting[i]})
<1> DEFINE w == waiting
           v == Without(i)
<1>1. /\ DOMAIN w = 1..Len(w) /\ Len(w) \in Nat /\ i \in 1..Len(w) /\ w[i] \in Callers
      /\ \A j \in 1..Len(w) : w[j] \in Callers
  OBVIOUS
<1>2. /\ DOMAIN v = 1..(Len(w) - 1)
      /\ \A j \in 1..(Len(w) - 1) : v[j] = IF j < i THEN w[j] ELSE w[j + 1]
      /\ v = [j \in 1..(Len(w) - 1) |-> v[j]]
  BY Zenon DEF Without
<1>3. v \in Seq(Callers)
  <2>1. Len(w) - 1 \in Nat
    BY <1>1
  <2>2. \A j \in 1..(Len(w) - 1) : v[j] \in Callers
    BY <1>1, <1>2
  <2> QED BY <1>2, <2>1, <2>2
<1> HIDE DEF v, w
<1>4. \A j \in DOMAIN v :
        LET k == IF j < i THEN j ELSE j + 1
        IN k \in DOMAIN w /\ k # i /\ v[j] = w[k]
  BY <1>1, <1>2
<1>5. \A k \in DOMAIN w : k # i =>
        LET j == IF k < i THEN k ELSE k - 1
        IN j \in DOMAIN v /\ v[j] = w[k]
  BY <1>1, <1>2
<1>6. \A j, k \in DOMAIN v : v[j] = v[k] => j = k
  <2> SUFFICES ASSUME NEW j \in DOMAIN v, NEW k \in DOMAIN v, v[j] = v[k]
               PROVE  j = k
    BY Zenon
  <2>1. (IF j < i THEN j ELSE j + 1) = (IF k < i THEN k ELSE k + 1)
    BY <1>4, Zenon DEF Single, w
  <2> QED BY <1>1, <1>2, <2>1
<1>7. \A c : PendsIn(v, c) => PendsIn(w, c) /\ c # w[i]
  BY <1>1, <1>4, Zenon DEF PendsIn, Single, w
<1>8. \A c : PendsIn(w, c) => PendsIn(v, c) \/ c = w[i]
  BY <1>5, Zenon DEF PendsIn
<1>9. PendsIn(w, w[i])
  BY <1>1, Zenon DEF PendsIn
<1> QED BY <1>1, <1>3, <1>6, <1>7, <1>8, <1>9, Zenon DEF Single, v, w

-----------------------------------------------------------------------------
(* The strand and the socket of the transport.                             *)

Bounds == MaxOps \in Nat /\ MaxMalformed \in Nat

InProgress == {c \in Callers : phase[c] \notin {"idle", "stopping"}}

IInv == TypeOK /\ Single(waiting, strand, InProgress)

LEMMA HandlerType ==
  ASSUME Bounds, TypeOK, NEW c \in Callers, NEW ec \in Codes, NEW cell \in Cells
  PROVE  /\ Handler(c, ec, cell) \in Handlers
         /\ Handler(c, ec, cell).caller = c /\ ~Handler(c, ec, cell).deadline
         /\ Handler(c, ec, cell).ec = ec /\ Handler(c, ec, cell).cell = cell
         /\ Handler(c, ec, cell).op = serial[c]
BY Zenon DEF Handler, Handlers, TypeOK

LEMMA NoCellType == ASSUME Bounds PROVE NoCell \in Cells
BY DEF NoCell, Cells, Bounds

LEMMA DeadlineType ==
  ASSUME Bounds, TypeOK, NEW c \in Callers
  PROVE  /\ DeadlineHandler(c) \in Handlers
         /\ DeadlineHandler(c).deadline /\ DeadlineHandler(c).caller = c
         /\ DeadlineHandler(c).op = serial[c]
<1>1. NoCell \in Cells /\ serial[c] \in 0..MaxOps
  BY NoCellType, Zenon DEF TypeOK
<1> QED BY <1>1, Zenon DEF DeadlineHandler, Handler, Handlers, Codes

LEMMA AbortFacts ==
  ASSUME Bounds, TypeOK
  PROVE  /\ Aborts \in Seq(Handlers) /\ Len(Aborts) = Len(waiting)
         /\ \A i \in 1..Len(waiting) :
              /\ Aborts[i].caller = waiting[i] /\ ~Aborts[i].deadline
              /\ Aborts[i].ec = "aborted"
<1>1. DOMAIN waiting = 1..Len(waiting) /\ Len(waiting) \in Nat
  BY DEF TypeOK
<1>2. \A i \in 1..Len(waiting) : waiting[i] \in Callers
  BY <1>1 DEF TypeOK
<1>3. \A i \in 1..Len(waiting) : Aborts[i] = Handler(waiting[i], "aborted", NoCell)
  BY <1>1, Zenon DEF Aborts
<1>4. "aborted" \in Codes
  BY Zenon DEF Codes
<1>5. \A i \in 1..Len(waiting) :
        /\ Aborts[i] \in Handlers /\ Aborts[i].caller = waiting[i] /\ ~Aborts[i].deadline
        /\ Aborts[i].ec = "aborted"
  BY <1>2, <1>3, <1>4, NoCellType, HandlerType
<1>6. Aborts = [i \in 1..Len(waiting) |-> Aborts[i]]
  BY <1>1, Zenon DEF Aborts
<1>7. Aborts \in Seq(Handlers) /\ Len(Aborts) = Len(waiting)
  BY <1>1, <1>5, <1>6
<1> QED BY <1>5, <1>7, Zenon

\* The first handler of the strand runs: what is left, and what is left once
\* the socket is closed.
LEMMA RunFacts ==
  ASSUME Bounds, IInv, NEW c \in Callers, NEW p, Runs(c, p)
  PROVE  /\ Rest \in Seq(Handlers) /\ Rest \o Aborts \in Seq(Handlers)
         /\ Single(waiting, Rest, InProgress \ {c})
         /\ Single(<<>>, Rest \o Aborts, InProgress \ {c})
         /\ Head(strand) \in Handlers
<1>1. strand \in Seq(Handlers) /\ strand # <<>> /\ waiting \in Seq(Callers)
  BY Zenon DEF IInv, TypeOK, Runs
<1>2. ~Head(strand).deadline /\ Head(strand).caller = c
  BY Zenon DEF Runs
<1>3. Rest \in Seq(Handlers) /\ Head(strand) \in Handlers
  BY <1>1, TailFacts, Zenon DEF Rest
<1>4. Single(waiting, Rest, InProgress \ {c})
  BY <1>1, <1>2, TakeSingle, Zenon DEF IInv, Rest
<1>5. Rest \o Aborts \in Seq(Handlers)
  BY <1>3, AbortFacts, ConcatFacts, Zenon DEF IInv
<1>6. Single(<<>>, Rest \o Aborts, InProgress \ {c})
  BY <1>1, <1>3, <1>4, AbortFacts, AbortSingle, Zenon DEF IInv
<1> QED BY <1>3, <1>4, <1>5, <1>6, Zenon

LEMMA ProgressChange ==
  ASSUME TypeOK, NEW c \in Callers, NEW p \in Phases, phase' = [phase EXCEPT ![c] = p]
  PROVE  /\ phase' \in [Callers -> Phases]
         /\ InProgress' = IF p \in {"idle", "stopping"} THEN InProgress \ {c}
                                                        ELSE InProgress \cup {c}
BY Zenon DEF TypeOK, InProgress

\* The type invariant after a step, from its parts.
LEMMA TypeParts ==
  ASSUME phase' \in [Callers -> Phases], serial' \in [Callers -> 0..MaxOps],
         result' \in [Callers -> Results], armed' \in [Callers -> BOOLEAN],
         issued' \in 0..MaxOps, connected' \in BOOLEAN, is_open' \in BOOLEAN,
         worker' \in BOOLEAN, half' \in BOOLEAN, peer_open' \in BOOLEAN,
         strand' \in Seq(Handlers), waiting' \in Seq(Callers), stream' \in Seq(Cells),
         requests' \in Seq(0..MaxOps), malformed' \in 0..MaxMalformed
  PROVE  TypeOK'
BY Zenon DEF TypeOK

\* The same facts about the state before it.
LEMMA TypeFacts ==
  ASSUME TypeOK
  PROVE  /\ phase \in [Callers -> Phases] /\ serial \in [Callers -> 0..MaxOps]
         /\ result \in [Callers -> Results] /\ armed \in [Callers -> BOOLEAN]
         /\ issued \in 0..MaxOps /\ connected \in BOOLEAN /\ is_open \in BOOLEAN
         /\ worker \in BOOLEAN /\ half \in BOOLEAN /\ peer_open \in BOOLEAN
         /\ strand \in Seq(Handlers) /\ waiting \in Seq(Callers) /\ stream \in Seq(Cells)
         /\ requests \in Seq(0..MaxOps) /\ malformed \in 0..MaxMalformed
BY Zenon DEF TypeOK

LEMMA ClosedTypes ==
  ASSUME Closed
  PROVE  /\ is_open' \in BOOLEAN /\ half' \in BOOLEAN /\ peer_open' \in BOOLEAN
         /\ waiting' \in Seq(Callers) /\ stream' \in Seq(Cells)
         /\ requests' \in Seq(0..MaxOps) /\ waiting' = <<>>
<1>1. is_open' \in BOOLEAN /\ half' \in BOOLEAN /\ peer_open' \in BOOLEAN
  BY Zenon DEF Closed
<1>2. waiting' = <<>> /\ stream' = <<>> /\ requests' = <<>>
  BY Zenon DEF Closed
<1> QED BY <1>1, <1>2

\* An operation completes; the socket is closed or is left as it is.
LEMMA FinishIInv ==
  ASSUME Bounds, IInv, NEW c \in Callers, NEW p, Runs(c, p), NEW r \in Results,
         Complete(c, r),
         mark_disconnected \/ (strand' = Rest /\ connected' \in BOOLEAN /\ UNCHANGED socket)
  PROVE  IInv'
<1>1. /\ Rest \in Seq(Handlers) /\ Rest \o Aborts \in Seq(Handlers)
      /\ Single(waiting, Rest, InProgress \ {c})
      /\ Single(<<>>, Rest \o Aborts, InProgress \ {c})
  BY RunFacts, Zenon
<1>2. TypeOK
  BY Zenon DEF IInv
<1>3. "idle" \in Phases
  BY Zenon DEF Phases
<1>4. phase' \in [Callers -> Phases] /\ InProgress' = InProgress \ {c}
  BY <1>2, <1>3, ProgressChange, Zenon DEF Complete
<1>5. /\ result' \in [Callers -> Results] /\ armed' \in [Callers -> BOOLEAN]
      /\ UNCHANGED <<serial, issued, worker, malformed>>
  BY <1>2, TypeFacts, Zenon DEF Complete
<1>6. CASE mark_disconnected
  <2>1. /\ strand' = Rest \o Aborts /\ waiting' = <<>> /\ connected' \in BOOLEAN
        /\ is_open' \in BOOLEAN /\ half' \in BOOLEAN /\ peer_open' \in BOOLEAN
        /\ waiting' \in Seq(Callers) /\ stream' \in Seq(Cells) /\ requests' \in Seq(0..MaxOps)
    BY <1>6, ClosedTypes, Zenon DEF mark_disconnected
  <2>2. TypeOK'
    BY <1>1, <1>2, <1>4, <1>5, <2>1, TypeFacts, TypeParts, Zenon
  <2> QED BY <1>1, <1>4, <2>1, <2>2, Zenon DEF IInv
<1>7. CASE strand' = Rest /\ connected' \in BOOLEAN /\ UNCHANGED socket
  <2>1. TypeOK'
    BY <1>1, <1>2, <1>4, <1>5, <1>7, TypeFacts, TypeParts, Zenon DEF socket
  <2> QED BY <1>1, <1>4, <1>7, <2>1, Zenon DEF IInv, socket
<1> QED BY <1>6, <1>7, Zenon

\* The next part of a transaction is started.
LEMMA AwaitIInv ==
  ASSUME Bounds, IInv, NEW c \in Callers, NEW p, Runs(c, p), NEW q \in Phases,
         q \notin {"idle", "stopping"},
         phase' = [phase EXCEPT ![c] = q], Await(c),
         result' \in [Callers -> Results], armed' \in [Callers -> BOOLEAN],
         UNCHANGED <<serial, issued, connected, worker, malformed, is_open, stream,
                     requests, half, peer_open>>
  PROVE  IInv'
<1>1. /\ Rest \in Seq(Handlers) /\ Single(waiting, Rest, InProgress \ {c})
  BY RunFacts, Zenon
<1>2. TypeOK
  BY Zenon DEF IInv
<1>3. phase' \in [Callers -> Phases] /\ InProgress' = (InProgress \ {c}) \cup {c}
  BY <1>2, ProgressChange, Zenon
<1>4. CASE is_open
  <2>1. waiting' = Append(waiting, c) /\ strand' = Rest
    BY <1>4, Zenon DEF Await
  <2>2. waiting' \in Seq(Callers)
    BY <1>2, <2>1, TypeFacts, AppendFacts, Zenon
  <2>3. Single(waiting', strand', InProgress')
    BY <1>1, <1>2, <1>3, <2>1, TypeFacts, WaitSingle, Zenon
  <2>4. TypeOK'
    BY <1>1, <1>2, <1>3, <2>1, <2>2, TypeFacts, TypeParts, Zenon
  <2> QED BY <2>3, <2>4, Zenon DEF IInv
<1>5. CASE ~is_open
  <2> DEFINE h == Handler(c, "error", NoCell)
  <2>1. waiting' = waiting /\ strand' = Append(Rest, h)
    BY <1>5, Zenon DEF Await
  <2>2. h \in Handlers /\ h.caller = c /\ ~h.deadline
    BY <1>2, NoCellType, HandlerType DEF Codes
  <2> HIDE DEF h
  <2>3. strand' \in Seq(Handlers)
    BY <1>1, <2>1, <2>2, AppendFacts, Zenon
  <2>4. Single(waiting', strand', InProgress')
    BY <1>1, <1>3, <2>1, <2>2, PostSingle, Zenon
  <2>5. TypeOK'
    BY <1>2, <1>3, <2>1, <2>3, TypeFacts, TypeParts, Zenon
  <2> QED BY <2>4, <2>5, Zenon DEF IInv
<1> QED BY <1>4, <1>5, Zenon

LEMMA CallIInv ==
  ASSUME Bounds, IInv, NEW c \in Callers, NEW p \in Phases, p \notin {"idle", "stopping"},
         Call(c, p), Posted(c), worker' \in BOOLEAN,
         UNCHANGED <<armed, connected, socket, malformed>>
  PROVE  IInv'
<1> DEFINE h == [Handler(c, "ok", NoCell) EXCEPT !.op = serial'[c]]
<1>1. TypeOK
  BY Zenon DEF IInv
<1>2. /\ issued' \in 0..MaxOps /\ serial' \in [Callers -> 0..MaxOps]
      /\ result' \in [Callers -> Results]
  <2>1. issued' \in 0..MaxOps
    BY <1>1, TypeFacts DEF Call, Bounds
  <2>2. Nothing \in Results
    BY DEF Nothing, Results, Bounds
  <2> QED BY <1>1, <2>1, <2>2, TypeFacts, Zenon DEF Call
<1>3. phase' \in [Callers -> Phases] /\ InProgress' = InProgress \cup {c}
  BY <1>1, ProgressChange, Zenon DEF Call
<1>4. h \in Handlers /\ h.caller = c /\ ~h.deadline
  <2>1. NoCell \in Cells /\ serial'[c] \in 0..MaxOps
    BY <1>2, NoCellType, Zenon
  <2> QED BY <2>1, Zenon DEF Handler, Handlers, Codes
<1>5. strand' = Append(strand, h)
  BY Zenon DEF Posted
<1> HIDE DEF h
<1>6. strand' \in Seq(Handlers)
  BY <1>1, <1>4, <1>5, TypeFacts, AppendFacts, Zenon
<1>7. c \notin InProgress
  BY Zenon DEF Call, InProgress
<1>8. Single(waiting, strand', InProgress \cup {c})
  BY <1>1, <1>4, <1>5, <1>7, TypeFacts, PostSingle, Zenon DEF IInv
<1>9. TypeOK'
  BY <1>1, <1>2, <1>3, <1>6, TypeFacts, TypeParts, Zenon DEF socket
<1> QED BY <1>3, <1>8, <1>9, Zenon DEF IInv, socket

LEMMA CloseIInv ==
  ASSUME Bounds, IInv, NEW c \in Callers, close(c)
  PROVE  IInv'
<1>1. TypeOK
  BY Zenon DEF IInv
<1>2. CASE worker
  <2>1. /\ Call(c, "close") /\ Posted(c) /\ worker' = worker
        /\ UNCHANGED <<armed, connected, socket, malformed>>
    BY <1>2, Zenon DEF close
  <2>2. worker' \in BOOLEAN
    BY <1>1, <2>1, TypeFacts, Zenon
  <2>3. "close" \in Phases /\ "close" \notin {"idle", "stopping"}
    BY Zenon DEF Phases
  <2> QED BY <2>1, <2>2, <2>3, CallIInv, Zenon
<1>3. CASE ~worker
  <2>1. /\ Call(c, "stopping") /\ connected' = FALSE /\ Closed /\ strand' = strand \o Aborts
        /\ UNCHANGED <<armed, worker, malformed>>
    BY <1>3, Zenon DEF close
  <2>2. connected' \in BOOLEAN
    BY <2>1, Zenon
  <2>3. Single(<<>>, strand', InProgress) /\ strand' \in Seq(Handlers)
    BY <1>1, <2>1, TypeFacts, AbortFacts, ConcatFacts, AbortSingle, Zenon DEF IInv
  <2>4. "stopping" \in Phases
    BY Zenon DEF Phases
  <2>5. phase' \in [Callers -> Phases] /\ InProgress' = InProgress \ {c} /\ c \notin InProgress
    BY <1>1, <2>1, <2>4, ProgressChange, Zenon DEF Call, InProgress
  <2>6. issued' \in 0..MaxOps
    BY <1>1, <2>1, TypeFacts DEF Call, Bounds
  <2>7. Nothing \in Results
    BY DEF Nothing, Results, Bounds
  <2>8. serial' \in [Callers -> 0..MaxOps] /\ result' \in [Callers -> Results]
    BY <1>1, <2>1, <2>6, <2>7, TypeFacts, Zenon DEF Call
  <2>9. /\ is_open' \in BOOLEAN /\ half' \in BOOLEAN /\ peer_open' \in BOOLEAN
        /\ waiting' \in Seq(Callers) /\ stream' \in Seq(Cells)
        /\ requests' \in Seq(0..MaxOps) /\ waiting' = <<>>
    BY <2>1, ClosedTypes, Zenon
  <2>10. TypeOK'
    BY <1>1, <2>1, <2>2, <2>3, <2>5, <2>6, <2>8, <2>9, TypeFacts, TypeParts, Zenon
  <2>11. InProgress' = InProgress
    BY <2>5, Zenon
  <2> QED BY <2>3, <2>9, <2>10, <2>11, Zenon DEF IInv
<1> QED BY <1>2, <1>3, Zenon

LEMMA ConnectIInv ==
  ASSUME Bounds, IInv, NEW c \in Callers, do_connect(c)
  PROVE  IInv'
<1>1. TypeOK /\ Runs(c, "connect")
  BY Zenon DEF IInv, do_connect
<1>2. Rest \o Aborts \in Seq(Handlers) /\ Single(<<>>, Rest \o Aborts, InProgress \ {c})
  BY <1>1, RunFacts, Zenon
<1>3. "connecting" \in Phases
  BY Zenon DEF Phases
<1>4. phase' \in [Callers -> Phases] /\ InProgress' = InProgress \cup {c}
  BY <1>1, <1>3, ProgressChange, Zenon DEF do_connect
<1>5. waiting' = Append(<<>>, c) /\ <<>> \in Seq(Callers) /\ waiting' \in Seq(Callers)
  BY DEF do_connect
<1>6. Single(Append(<<>>, c), Rest \o Aborts, (InProgress \ {c}) \cup {c})
  BY <1>2, <1>5, WaitSingle, Zenon
<1>7. stream' = <<>> /\ requests' = <<>> /\ strand' = Rest \o Aborts
      /\ UNCHANGED <<serial, result, issued, worker, malformed>>
  BY Zenon DEF do_connect
<1>8. /\ connected' \in BOOLEAN /\ is_open' \in BOOLEAN /\ half' \in BOOLEAN
      /\ peer_open' \in BOOLEAN
  BY Zenon DEF do_connect
<1>9. armed' \in [Callers -> BOOLEAN]
  BY <1>1, TypeFacts, Zenon DEF do_connect
<1>10. stream' \in Seq(Cells) /\ requests' \in Seq(0..MaxOps)
  BY <1>7
<1>11. TypeOK'
  BY <1>1, <1>2, <1>4, <1>5, <1>7, <1>8, <1>9, <1>10, TypeFacts, TypeParts, Zenon
<1>12. InProgress' = (InProgress \ {c}) \cup {c}
  BY <1>4, Zenon
<1> QED BY <1>5, <1>6, <1>7, <1>11, <1>12, Zenon DEF IInv

LEMMA ResultTypes ==
  ASSUME Bounds
  PROVE  /\ \A code \in Failures : Failed(code) \in Results
         /\ \A ec : FailedBy(ec) \in Results
         /\ Succeeded \in Results /\ Nothing \in Results
         /\ \A h, b \in 0..MaxOps : Answer(h, b) \in Results
<1>1. \A code \in Failures : Failed(code) \in Results
  BY DEF Bounds, Failures, Failed, Results
<1>2. \A ec : FailedBy(ec) \in Results
  BY <1>1, Zenon DEF FailedBy, Failures
<1> QED BY <1>1, <1>2 DEF Bounds, Results, Succeeded, Nothing, Answer

\* The handlers that complete an operation.
LEMMA CompletingIInv ==
  ASSUME Bounds, IInv, NEW c \in Callers,
         \/ resolve_failed(c) \/ on_connect(c)
         \/ \E p : Runs(c, p) /\ \E r \in Results : finish(c, r)
  PROVE  IInv'
<1>1. CASE resolve_failed(c)
  <2>1. Runs(c, "connect") /\ Complete(c, Failed("InvalidArgument")) /\ mark_disconnected
    BY <1>1, Zenon DEF resolve_failed, mark_disconnected
  <2>2. Failed("InvalidArgument") \in Results
    BY ResultTypes, Zenon DEF Failures
  <2> QED BY <2>1, <2>2, FinishIInv, Zenon
<1>2. CASE on_connect(c)
  <2>1. CASE /\ Code = "ok" /\ connected' = TRUE /\ strand' = Rest /\ Complete(c, Succeeded)
             /\ UNCHANGED socket
    <3>1. connected' \in BOOLEAN
      BY <2>1, Zenon
    <3> QED BY <1>2, <2>1, <3>1, ResultTypes, FinishIInv, Zenon DEF on_connect
  <2>2. CASE mark_disconnected /\ Complete(c, FailedBy(Code))
    BY <1>2, <2>2, ResultTypes, FinishIInv, Zenon DEF on_connect
  <2> QED BY <1>2, <2>1, <2>2, Zenon DEF on_connect
<1>3. ASSUME NEW p, Runs(c, p), NEW r \in Results, finish(c, r)
      PROVE  IInv'
  <2>1. connected \in BOOLEAN
    BY TypeFacts, Zenon DEF IInv
  <2>2. connected' = connected => connected' \in BOOLEAN
    BY <2>1, Zenon
  <2> QED BY <1>3, <2>2, FinishIInv, Zenon DEF finish
<1> QED BY <1>1, <1>2, <1>3, Zenon

LEMMA TransactIInv ==
  ASSUME Bounds, IInv, NEW c \in Callers,
         do_transact(c) \/ on_write(c) \/ on_header(c) \/ on_body(c)
  PROVE  IInv'
<1> TypeOK
  BY Zenon DEF IInv
<1>1. ASSUME NEW p, Runs(c, p), Head(strand) \in Handlers
      PROVE  Cell.op \in 0..MaxOps /\ result[c].header \in 0..MaxOps
  <2>1. Cell \in Cells /\ result[c] \in Results
    BY <1>1, TypeFacts, Zenon DEF Cell, Handlers
  <2> QED BY <2>1, Zenon DEF Cells, Results
<1>2. {"writing", "header", "body"} \subseteq Phases
  BY Zenon DEF Phases
<1>3. CASE do_transact(c)
  <2>1. Runs(c, "start")
    BY <1>3, Zenon DEF do_transact
  <2>2. CASE /\ strand' = Rest /\ Complete(c, Failed("Connection"))
             /\ UNCHANGED <<connected, socket>>
    <3>1. Failed("Connection") \in Results /\ connected' \in BOOLEAN
      BY <2>2, ResultTypes, TypeFacts, Zenon DEF Failures
    <3> QED BY <2>1, <2>2, <3>1, FinishIInv, Zenon
  <2>3. CASE /\ Proceed(c, "writing") /\ armed' = [armed EXCEPT ![c] = TRUE] /\ Await(c)
             /\ UNCHANGED <<is_open, stream, requests, half, peer_open>>
    <3>1. armed' \in [Callers -> BOOLEAN] /\ result' \in [Callers -> Results]
      BY <2>3, TypeFacts, Zenon DEF Proceed
    <3> QED BY <1>2, <2>1, <2>3, <3>1, AwaitIInv, Zenon DEF Proceed
  <2> QED BY <1>3, <2>2, <2>3, Zenon DEF do_transact
<1>4. CASE on_write(c)
  <2>1. Runs(c, "writing")
    BY <1>4, Zenon DEF on_write
  <2>2. CASE /\ Proceed(c, "header") /\ Await(c)
             /\ UNCHANGED <<armed, is_open, stream, requests, half, peer_open>>
    <3>1. armed' \in [Callers -> BOOLEAN] /\ result' \in [Callers -> Results]
      BY <2>2, TypeFacts, Zenon DEF Proceed
    <3> QED BY <1>2, <2>1, <2>2, <3>1, AwaitIInv, Zenon DEF Proceed
  <2>3. CASE finish(c, FailedBy(Code))
    BY <2>1, <2>3, ResultTypes, CompletingIInv, Zenon
  <2> QED BY <1>4, <2>2, <2>3, Zenon DEF on_write
<1>5. CASE on_header(c)
  <2>1. Runs(c, "header") /\ Head(strand) \in Handlers
    BY <1>5, RunFacts, Zenon DEF on_header
  <2>2. CASE finish(c, FailedBy(Code)) \/ finish(c, Failed("Decoding"))
    <3>1. Failed("Decoding") \in Results /\ FailedBy(Code) \in Results
      BY ResultTypes, Zenon DEF Failures
    <3> QED BY <2>1, <2>2, <3>1, CompletingIInv, Zenon
  <2>3. CASE /\ phase' = [phase EXCEPT ![c] = "body"]
             /\ result' = [result EXCEPT ![c].header = Cell.op] /\ Await(c)
             /\ UNCHANGED <<serial, armed, issued, connected, worker, malformed,
                            is_open, stream, requests, half, peer_open>>
    <3>1. Cell.op \in 0..MaxOps
      BY <1>1, <2>1, Zenon
    <3>2. result' \in [Callers -> Results]
      BY <2>3, <3>1, TypeFacts, Zenon DEF Results
    <3>3. armed' \in [Callers -> BOOLEAN]
      BY <2>3, TypeFacts, Zenon
    <3> QED BY <1>2, <2>1, <2>3, <3>2, <3>3, AwaitIInv, Zenon
  <2> QED BY <1>5, <2>2, <2>3, Zenon DEF on_header
<1>6. CASE on_body(c)
  <2>1. Runs(c, "body") /\ Head(strand) \in Handlers
    BY <1>6, RunFacts, Zenon DEF on_body
  <2>2. /\ Failed("ModbusException") \in Results /\ FailedBy(Code) \in Results
        /\ Answer(result[c].header, Cell.op) \in Results
    BY <1>1, <2>1, ResultTypes, Zenon DEF Failures
  <2> QED BY <1>6, <2>1, <2>2, CompletingIInv, Zenon DEF on_body
<1> QED BY <1>3, <1>4, <1>5, <1>6, Zenon

LEMMA DeadlineIInv ==
  ASSUME Bounds, IInv, NEW c \in Callers, on_deadline(c)
  PROVE  IInv'
<1>1. TypeOK
  BY Zenon DEF IInv
<1>2. strand # <<>> /\ Head(strand).deadline
  BY Zenon DEF on_deadline, RunsDeadline
<1>3. Rest \in Seq(Handlers) /\ Single(waiting, Rest, InProgress)
  BY <1>1, <1>2, TypeFacts, TailFacts, TakeSingle, Zenon DEF IInv, Rest
<1>4. Rest \o Aborts \in Seq(Handlers) /\ Single(<<>>, Rest \o Aborts, InProgress)
  BY <1>1, <1>3, TypeFacts, AbortFacts, ConcatFacts, AbortSingle, Zenon
<1>5. <<>> \in Seq(Callers)
  OBVIOUS
<1>6. InProgress' = InProgress
  BY Zenon DEF on_deadline, InProgress
<1>7. \/ strand' = Rest /\ waiting' = waiting
      \/ strand' = Rest \o Aborts /\ waiting' = <<>>
  BY Zenon DEF on_deadline
<1>8. TypeOK'
  BY <1>1, <1>3, <1>4, <1>5, <1>7, TypeFacts, TypeParts, Zenon DEF on_deadline
<1> QED BY <1>3, <1>4, <1>6, <1>7, <1>8, Zenon DEF IInv

LEMMA StopIInv ==
  ASSUME Bounds, IInv, NEW c \in Callers, do_close(c) \/ stop_worker(c)
  PROVE  IInv'
<1>1. TypeOK
  BY Zenon DEF IInv
<1>2. "stopping" \in Phases /\ "idle" \in Phases
  BY Zenon DEF Phases
<1>3. CASE do_close(c)
  <2>1. Rest \o Aborts \in Seq(Handlers) /\ Single(<<>>, Rest \o Aborts, InProgress \ {c})
    BY <1>3, RunFacts, Zenon DEF do_close
  <2>2. phase' \in [Callers -> Phases] /\ InProgress' = InProgress \ {c}
    BY <1>1, <1>2, <1>3, ProgressChange, Zenon DEF do_close
  <2>3. /\ strand' = Rest \o Aborts /\ Closed /\ connected' \in BOOLEAN
        /\ UNCHANGED <<serial, result, armed, issued, worker, malformed>>
    BY <1>3, Zenon DEF do_close, mark_disconnected
  <2>4. TypeOK'
    BY <1>1, <2>1, <2>2, <2>3, ClosedTypes, TypeFacts, TypeParts, Zenon
  <2> QED BY <2>1, <2>2, <2>3, <2>4, ClosedTypes, Zenon DEF IInv
<1>4. CASE stop_worker(c)
  <2>1. phase' \in [Callers -> Phases] /\ InProgress' = InProgress
    BY <1>1, <1>2, <1>4, ProgressChange, Zenon DEF stop_worker, InProgress
  <2>2. result' \in [Callers -> Results] /\ worker' \in BOOLEAN
    BY <1>1, <1>4, TypeFacts, ResultTypes, Zenon DEF stop_worker
  <2>3. UNCHANGED <<serial, armed, issued, connected, is_open, waiting, stream, requests,
                    half, peer_open, strand, malformed>>
    BY <1>4, Zenon DEF stop_worker, socket
  <2>4. TypeOK'
    BY <1>1, <2>1, <2>2, <2>3, TypeFacts, TypeParts, Zenon
  <2> QED BY <2>1, <2>3, <2>4, Zenon DEF IInv
<1> QED BY <1>3, <1>4, Zenon

\* What was pending on the socket becomes ready.
LEMMA ReadyIInv ==
  ASSUME Bounds, IInv, NEW c \in Callers, NEW ec \in Codes, NEW cell \in Cells,
         Ready(c, ec, cell), UNCHANGED <<network, armed, is_open, half>>,
         peer_open' \in BOOLEAN, stream' \in Seq(Cells), requests' \in Seq(0..MaxOps)
  PROVE  IInv'
<1> DEFINE h == Handler(c, ec, cell)
<1>1. TypeOK
  BY Zenon DEF IInv
<1>2. PICK i \in DOMAIN waiting : waiting[i] = c /\ waiting' = Without(i)
  BY Zenon DEF Ready
<1>3. h \in Handlers /\ h.caller = c /\ ~h.deadline /\ strand' = Append(strand, h)
  BY <1>1, HandlerType DEF Ready
<1> HIDE DEF h
<1>4. waiting' \in Seq(Callers) /\ Single(waiting', strand, InProgress \ {c})
  BY <1>1, <1>2, TypeFacts, DropSingle, Zenon DEF IInv
<1>5. Single(waiting', strand', (InProgress \ {c}) \cup {c})
  BY <1>1, <1>3, <1>4, TypeFacts, PostSingle, Zenon
<1>6. c \in InProgress
  BY <1>2, Zenon DEF IInv, Single, PendsIn
<1>7. InProgress' = (InProgress \ {c}) \cup {c}
  BY <1>6, Zenon DEF network, InProgress
<1>8. strand' \in Seq(Handlers)
  BY <1>1, <1>3, TypeFacts, AppendFacts, Zenon
<1>9. TypeOK'
  BY <1>1, <1>4, <1>8, TypeFacts, TypeParts, Zenon DEF network
<1> QED BY <1>5, <1>7, <1>9, Zenon DEF IInv

LEMMA NetworkIInv ==
  ASSUME Bounds, IInv, NEW c \in Callers, Network(c)
  PROVE  IInv'
<1>1. TypeOK
  BY Zenon DEF IInv
<1>2. {"ok", "error", "eof"} \subseteq Codes /\ NoCell \in Cells
  BY NoCellType, Zenon DEF Codes
<1>3. CASE Established(c)
  <2>1. peer_open' \in BOOLEAN
    BY <1>3, Zenon DEF Established
  <2> QED BY <1>1, <1>2, <1>3, <2>1, TypeFacts, ReadyIInv, Zenon DEF Established
<1>4. CASE Refused(c)
  BY <1>1, <1>2, <1>4, TypeFacts, ReadyIInv, Zenon DEF Refused
<1>5. CASE Sent(c)
  <2>1. serial[c] \in 0..MaxOps /\ requests \in Seq(0..MaxOps)
    BY <1>1, TypeFacts, Zenon
  <2>2. Append(requests, serial[c]) \in Seq(0..MaxOps)
    BY <2>1, AppendFacts, Zenon
  <2> QED BY <1>1, <1>2, <1>5, <2>1, <2>2, TypeFacts, ReadyIInv, Zenon DEF Sent
<1>6. CASE Received(c)
  <2>1. stream # <<>> => Head(stream) \in Cells /\ Tail(stream) \in Seq(Cells)
    BY <1>1, TypeFacts, TailFacts, Zenon
  <2> QED BY <1>1, <1>2, <1>6, <2>1, TypeFacts, ReadyIInv, Zenon DEF Received
<1> QED BY <1>3, <1>4, <1>5, <1>6, Zenon DEF Network

LEMMA DeviceIInv ==
  ASSUME Bounds, IInv, Device \/ \E c \in Callers : Expires(c)
  PROVE  IInv'
<1>1. TypeOK
  BY Zenon DEF IInv
<1>2. requests # <<>> => Head(requests) \in 0..MaxOps /\ Tail(requests) \in Seq(0..MaxOps)
  BY <1>1, TypeFacts, TailFacts, Zenon
<1>3. ASSUME NEW part \in Parts, requests # <<>>
      PROVE  Append(stream, [part |-> part, op |-> Head(requests)]) \in Seq(Cells)
  <2>1. [part |-> part, op |-> Head(requests)] \in Cells
    BY <1>2, <1>3, Zenon DEF Cells
  <2> QED BY <1>1, <2>1, TypeFacts, AppendFacts, Zenon
<1>4. ASSUME NEW c \in Callers, Expires(c) PROVE IInv'
  <2>1. DeadlineHandler(c) \in Handlers /\ DeadlineHandler(c).deadline
    BY <1>1, DeadlineType, Zenon
  <2>2. strand' = Append(strand, DeadlineHandler(c)) /\ UNCHANGED <<network, socket>>
    BY <1>4, Zenon DEF Expires
  <2>3. strand' \in Seq(Handlers) /\ Single(waiting, strand', InProgress)
    BY <1>1, <2>1, <2>2, TypeFacts, AppendFacts, DeadlineSingle, Zenon DEF IInv
  <2>4. InProgress' = InProgress
    BY <2>2, Zenon DEF network, InProgress
  <2>5. armed' \in [Callers -> BOOLEAN]
    BY <1>1, <1>4, TypeFacts, Zenon DEF Expires
  <2>6. TypeOK'
    BY <1>1, <2>2, <2>3, <2>5, TypeFacts, TypeParts, Zenon DEF network, socket
  <2> QED BY <2>2, <2>3, <2>4, <2>6, Zenon DEF IInv, socket
<1>5. CASE Device
  <2>1. UNCHANGED <<phase, serial, result, issued, connected, worker, armed, strand, is_open, waiting>>
    BY <1>5, Zenon DEF Device, DeviceSendsHeader, DeviceSendsBadHeader, DeviceSendsBody, DeviceCloses,
                network
  <2>2. half' \in BOOLEAN /\ peer_open' \in BOOLEAN
    <3>1. peer_open \in BOOLEAN
      BY <1>1, TypeFacts, Zenon
    <3> QED BY <1>5, <3>1, Zenon DEF Device, DeviceSendsHeader, DeviceSendsBadHeader, DeviceSendsBody,
                              DeviceCloses
  <2>3. malformed' \in 0..MaxMalformed
    <3>1. malformed \in 0..MaxMalformed
      BY <1>1, TypeFacts, Zenon
    <3> QED BY <1>5, <3>1 DEF Bounds, Device, DeviceSendsHeader, DeviceSendsBadHeader,
                              DeviceSendsBody, DeviceCloses, network
  <2>4. stream' \in Seq(Cells) /\ requests' \in Seq(0..MaxOps)
    <3>1. stream \in Seq(Cells) /\ requests \in Seq(0..MaxOps) /\ <<>> \in Seq(0..MaxOps)
      BY <1>1, TypeFacts
    <3>2. CASE DeviceSendsHeader
      BY <1>3, <3>1, <3>2, Zenon DEF DeviceSendsHeader, Parts
    <3>3. CASE DeviceSendsBadHeader
      BY <1>3, <3>1, <3>3, Zenon DEF DeviceSendsBadHeader, Parts
    <3>4. CASE DeviceSendsBody
      BY <1>2, <1>3, <3>1, <3>4, Zenon DEF DeviceSendsBody, Parts
    <3>5. CASE DeviceCloses
      BY <3>1, <3>5, Zenon DEF DeviceCloses
    <3> QED BY <1>5, <3>2, <3>3, <3>4, <3>5, Zenon DEF Device
  <2>5. TypeOK'
    BY <1>1, <2>1, <2>2, <2>3, <2>4, TypeFacts, TypeParts, Zenon
  <2>6. InProgress' = InProgress
    BY <2>1, Zenon DEF InProgress
  <2> QED BY <2>1, <2>5, <2>6, Zenon DEF IInv
<1> QED BY <1>4, <1>5, Zenon

LEMMA InitIInv == Bounds /\ Init => IInv
<1> SUFFICES ASSUME Bounds, Init PROVE IInv
  BY Zenon
<1>1. "idle" \in Phases /\ 0 \in 0..MaxOps /\ 0 \in 0..MaxMalformed /\ Nothing \in Results
  BY ResultTypes DEF Phases, Bounds
<1>2. /\ phase \in [Callers -> Phases] /\ serial \in [Callers -> 0..MaxOps]
      /\ result \in [Callers -> Results] /\ armed \in [Callers -> BOOLEAN]
      /\ issued \in 0..MaxOps /\ malformed \in 0..MaxMalformed
  BY <1>1, Zenon DEF Init
<1>3. {connected, is_open, worker, half, peer_open} \subseteq BOOLEAN
  BY Zenon DEF Init
<1>4. strand = <<>> /\ waiting = <<>> /\ stream = <<>> /\ requests = <<>>
  BY Zenon DEF Init
<1>5. InProgress = {}
  BY Zenon DEF Init, InProgress
<1>6. Single(waiting, strand, InProgress)
  BY <1>4, <1>5 DEF Single, PendsIn, ReadyIn
<1> QED BY <1>2, <1>3, <1>4, <1>6 DEF IInv, TypeOK

LEMMA NextIInv ==
  ASSUME Bounds, IInv, [Next]_vars
  PROVE  IInv'
<1>1. ASSUME NEW c \in Callers, async_connect(c) \/ async_transact(c) PROVE IInv'
  <2>1. worker' \in BOOLEAN
    BY <1>1, Zenon DEF async_connect, async_transact, ensure_worker
  <2>2. {"connect", "start"} \subseteq Phases
    BY Zenon DEF Phases
  <2> QED BY <1>1, <2>1, <2>2, CallIInv, Zenon DEF async_connect, async_transact
<1>2. ASSUME NEW c \in Callers, Worker(c) PROVE IInv'
  BY <1>2, ConnectIInv, CompletingIInv, TransactIInv, DeadlineIInv, StopIInv, Zenon DEF Worker
<1>3. CASE UNCHANGED vars
  BY <1>3, Zenon DEF vars, socket, IInv, TypeOK, InProgress
<1> QED BY <1>1, <1>2, <1>3, CloseIInv, StopIInv, NetworkIInv, DeviceIInv, Zenon DEF Next

LEMMA TcpIInv == ASSUME Bounds PROVE Spec => []IInv
<1>1. IInv /\ [Next]_vars => IInv'
  BY NextIInv, Zenon
<1> QED BY <1>1, InitIInv, PTL DEF Spec

-----------------------------------------------------------------------------
(* The deadline of a connection attempt.                                   *)

Due(s, c, n) == \E i \in DOMAIN s : s[i].caller = c /\ s[i].deadline /\ s[i].op = n

Connecting(c) == phase[c] = "connecting" /\ PendsIn(waiting, c)

LEMMA DueAppend ==
  ASSUME NEW s \in Seq(Handlers), NEW h \in Handlers, NEW c, NEW n
  PROVE  /\ Due(s, c, n) => Due(Append(s, h), c, n)
         /\ h.caller = c /\ h.deadline /\ h.op = n => Due(Append(s, h), c, n)
<1> DEFINE t == Append(s, h)
<1>1. /\ DOMAIN s = 1..Len(s) /\ Len(s) \in Nat /\ DOMAIN t = 1..(Len(s) + 1)
      /\ \A i \in 1..Len(s) : t[i] = s[i]
      /\ t[Len(s) + 1] = h
  BY AppendFacts
<1> HIDE DEF t
<1>2. /\ \A i \in DOMAIN s : i \in DOMAIN t /\ t[i] = s[i]
      /\ Len(s) + 1 \in DOMAIN t
  BY <1>1
<1> QED BY <1>1, <1>2, Zenon DEF Due, t

LEMMA DueTail ==
  ASSUME NEW s \in Seq(Handlers), s # <<>>, NEW c, NEW n, Due(s, c, n),
         ~(Head(s).deadline /\ Head(s).caller = c /\ Head(s).op = n)
  PROVE  Due(Tail(s), c, n)
<1> DEFINE t == Tail(s)
<1>1. /\ DOMAIN s = 1..Len(s) /\ Len(s) \in Nat /\ Head(s) = s[1]
      /\ DOMAIN t = 1..(Len(s) - 1)
      /\ \A i \in 1..(Len(s) - 1) : t[i] = s[i + 1]
  BY TailFacts, Zenon
<1> HIDE DEF t
<1>2. \A i \in DOMAIN s : i # 1 => i - 1 \in DOMAIN t /\ t[i - 1] = s[i]
  BY <1>1
<1>3. PICK i \in DOMAIN s : s[i].caller = c /\ s[i].deadline /\ s[i].op = n
  BY Zenon DEF Due
<1>4. i - 1 \in DOMAIN t /\ t[i - 1] = s[i]
  BY <1>1, <1>2, <1>3, Zenon
<1>5. Due(t, c, n)
  BY <1>3, <1>4, Zenon DEF Due
<1> QED BY <1>5, Zenon DEF t

\* A step that keeps, for each attempt still pending, the deadline it had.
LEMMA AttemptStep ==
  ASSUME ConnectHasDeadline,
         \A d \in Callers : Connecting(d)' =>
           \/ armed'[d]
           \/ Due(strand', d, serial'[d])
           \/ /\ Connecting(d) /\ serial'[d] = serial[d] /\ armed'[d] = armed[d]
              /\ Due(strand, d, serial[d]) => Due(strand', d, serial[d])
  PROVE  ConnectHasDeadline'
<1>1. \A d \in Callers : Connecting(d) => armed[d] \/ Due(strand, d, serial[d])
  BY Zenon DEF ConnectHasDeadline, Connecting, PendsIn, Pending, Due
<1>2. \A d \in Callers : Connecting(d)' => armed'[d] \/ Due(strand', d, serial'[d])
  BY <1>1, Zenon
<1> QED BY <1>2, Zenon DEF ConnectHasDeadline, Connecting, PendsIn, Pending, Due

LEMMA NothingConnecting ==
  ASSUME waiting' = <<>>
  PROVE  \A d \in Callers : ~Connecting(d)'
<1>1. DOMAIN <<>> = {}
  OBVIOUS
<1> QED BY <1>1, Zenon DEF Connecting, PendsIn

\* The handler of a caller runs and starts no attempt.
LEMMA RunAttempt ==
  ASSUME Bounds, IInv, IInv', ConnectHasDeadline, NEW c \in Callers, NEW p, Runs(c, p),
         NEW q, q # "connecting", phase' = [phase EXCEPT ![c] = q],
         serial' = serial, \A d \in Callers \ {c} : armed'[d] = armed[d],
         \/ waiting' = <<>>
         \/ waiting' = waiting /\ strand' = Rest
         \/ Await(c)
  PROVE  ConnectHasDeadline'
<1>1. TypeOK
  BY Zenon DEF IInv
<1>2. /\ strand \in Seq(Handlers) /\ strand # <<>> /\ waiting \in Seq(Callers)
      /\ ~Head(strand).deadline /\ Rest \in Seq(Handlers)
  BY <1>1, TypeFacts, RunFacts, Zenon DEF Runs
<1>3. \A d, n : Due(strand, d, n) => Due(Rest, d, n)
  BY <1>2, DueTail, Zenon DEF Rest
<1>4. \A d \in Callers : Connecting(d)' => d # c /\ phase[d] = "connecting"
  BY <1>1, TypeFacts, Zenon DEF Connecting
<1>5. CASE waiting' = <<>>
  BY <1>5, NothingConnecting, AttemptStep, Zenon
<1>6. CASE waiting' = waiting /\ strand' = Rest
  BY <1>3, <1>4, <1>6, AttemptStep, Zenon DEF Connecting
<1>7. CASE Await(c)
  <2> DEFINE h == Handler(c, "error", NoCell)
  <2>1. h \in Handlers
    BY <1>1, NoCellType, HandlerType, Zenon DEF Codes
  <2> HIDE DEF h
  <2>2. \/ waiting' = Append(waiting, c) /\ strand' = Rest
        \/ waiting' = waiting /\ strand' = Append(Rest, h)
    BY <1>7, Zenon DEF Await, h
  <2>3. \A d \in Callers : d # c /\ PendsIn(Append(waiting, c), d) => PendsIn(waiting, d)
    <3>1. /\ DOMAIN waiting = 1..Len(waiting) /\ Len(waiting) \in Nat
          /\ DOMAIN Append(waiting, c) = 1..(Len(waiting) + 1)
          /\ \A i \in 1..Len(waiting) : Append(waiting, c)[i] = waiting[i]
          /\ Append(waiting, c)[Len(waiting) + 1] = c
      BY <1>2, AppendFacts
    <3> QED BY <3>1 DEF PendsIn
  <2>4. \A d, n : Due(strand, d, n) => Due(strand', d, n)
    BY <1>2, <1>3, <2>1, <2>2, DueAppend, Zenon
  <2>5. \A d \in Callers : Connecting(d)' => Connecting(d)
    BY <1>4, <2>2, <2>3, Zenon DEF Connecting
  <2> QED BY <1>4, <2>4, <2>5, AttemptStep, Zenon
<1> QED BY <1>5, <1>6, <1>7, Zenon

\* Something is posted, and no attempt becomes pending.
LEMMA PostAttempt ==
  ASSUME TypeOK, ConnectHasDeadline, NEW h \in Handlers, strand' = Append(strand, h),
         \A d \in Callers : Connecting(d)' => Connecting(d) /\ serial'[d] = serial[d],
         armed' = armed
  PROVE  ConnectHasDeadline'
<1>1. \A d, n : Due(strand, d, n) => Due(strand', d, n)
  BY TypeFacts, DueAppend, Zenon
<1> QED BY <1>1, AttemptStep, Zenon

\* The handlers of the strand.
LEMMA WorkerAttempt ==
  ASSUME Bounds, IInv, IInv', ConnectHasDeadline, NEW c \in Callers, Worker(c)
  PROVE  ConnectHasDeadline'
<1>1. TypeOK
  BY Zenon DEF IInv
<1>2. ASSUME NEW p, Runs(c, p), NEW r, Complete(c, r),
             mark_disconnected \/ (strand' = Rest /\ UNCHANGED socket)
      PROVE  ConnectHasDeadline'
  <2>1. /\ phase' = [phase EXCEPT ![c] = "idle"] /\ serial' = serial
        /\ \A d \in Callers \ {c} : armed'[d] = armed[d]
    BY <1>1, <1>2, TypeFacts, Zenon DEF Complete
  <2>2. waiting' = <<>> \/ (waiting' = waiting /\ strand' = Rest)
    BY <1>2, Zenon DEF mark_disconnected, Closed, socket
  <2> QED BY <1>2, <2>1, <2>2, RunAttempt, Zenon
<1>3. ASSUME NEW p, Runs(c, p), NEW r, finish(c, r) PROVE ConnectHasDeadline'
  BY <1>2, <1>3, Zenon DEF finish
<1>4. CASE do_connect(c)
  <2>1. waiting' = <<c>> /\ armed'[c]
    BY <1>1, <1>4, TypeFacts, Zenon DEF do_connect
  <2>2. \A d \in Callers : Connecting(d)' => d = c
    BY <2>1 DEF Connecting, PendsIn
  <2> QED BY <2>1, <2>2, AttemptStep, Zenon
<1>5. CASE resolve_failed(c)
  BY <1>2, <1>5, Zenon DEF resolve_failed, mark_disconnected
<1>6. CASE on_connect(c)
  BY <1>2, <1>6, Zenon DEF on_connect
<1>7. CASE do_transact(c)
  <2>1. CASE strand' = Rest /\ Complete(c, Failed("Connection")) /\ UNCHANGED <<connected, socket>>
    BY <1>2, <1>7, <2>1, Zenon DEF do_transact
  <2>2. CASE Proceed(c, "writing") /\ armed' = [armed EXCEPT ![c] = TRUE] /\ Await(c)
    <3>1. \A d \in Callers \ {c} : armed'[d] = armed[d]
      BY <1>1, <2>2, TypeFacts, Zenon
    <3> QED BY <1>7, <2>2, <3>1, RunAttempt, Zenon DEF do_transact, Proceed
  <2> QED BY <1>7, <2>1, <2>2, Zenon DEF do_transact
<1>8. CASE on_write(c)
  <2>1. CASE Proceed(c, "header") /\ Await(c) /\ armed' = armed
    BY <1>8, <2>1, RunAttempt, Zenon DEF on_write, Proceed
  <2> QED BY <1>3, <1>8, <2>1, Zenon DEF on_write
<1>9. CASE on_header(c)
  <2>1. CASE phase' = [phase EXCEPT ![c] = "body"] /\ Await(c) /\ UNCHANGED <<serial, armed>>
    BY <1>9, <2>1, RunAttempt, Zenon DEF on_header
  <2> QED BY <1>3, <1>9, <2>1, Zenon DEF on_header
<1>10. CASE on_body(c)
  BY <1>3, <1>10, Zenon DEF on_body
<1>11. CASE do_close(c)
  <2>1. waiting' = <<>>
    BY <1>11, Zenon DEF do_close, mark_disconnected, Closed
  <2> QED BY <2>1, NothingConnecting, AttemptStep, Zenon
<1>12. CASE on_deadline(c)
  <2>1. /\ strand \in Seq(Handlers) /\ strand # <<>>
        /\ Head(strand).caller = c /\ UNCHANGED <<phase, serial, armed>>
    BY <1>1, <1>12, TypeFacts, Zenon DEF on_deadline, RunsDeadline
  <2>2. CASE Finished(c) /\ strand' = Rest /\ waiting' = waiting
    <3>1. ASSUME NEW d \in Callers, Connecting(d)', Due(strand, d, serial[d])
          PROVE  Due(strand', d, serial[d])
      <4>1. phase[d] = "connecting"
        BY <2>1, <3>1, Zenon DEF Connecting
      <4>2. ~(Head(strand).caller = d /\ Head(strand).op = serial[d])
        BY <2>1, <2>2, <4>1, Zenon DEF Finished
      <4> QED BY <2>1, <2>2, <3>1, <4>2, DueTail, Zenon DEF Rest
    <3>2. \A d \in Callers : Connecting(d)' => Connecting(d)
      BY <2>1, <2>2, Zenon DEF Connecting
    <3> QED BY <2>1, <3>1, <3>2, AttemptStep, Zenon
  <2>3. CASE waiting' = <<>>
    BY <2>3, NothingConnecting, AttemptStep, Zenon
  <2> QED BY <1>12, <2>2, <2>3, Zenon DEF on_deadline
<1> QED BY <1>4, <1>5, <1>6, <1>7, <1>8, <1>9, <1>10, <1>11, <1>12, Zenon DEF Worker

LEMMA NextAttempt ==
  ASSUME Bounds, IInv, IInv', ConnectHasDeadline, [Next]_vars
  PROVE  ConnectHasDeadline'
<1>1. TypeOK
  BY Zenon DEF IInv
<1>2. ASSUME NEW c \in Callers, NEW p, p # "connecting", Call(c, p), Posted(c),
             UNCHANGED <<armed, waiting>>
      PROVE  ConnectHasDeadline'
  <2> DEFINE h == [Handler(c, "ok", NoCell) EXCEPT !.op = serial'[c]]
  <2>1. TypeOK' /\ strand' = Append(strand, h)
    BY <1>2, Zenon DEF IInv, Posted
  <2>2. serial'[c] \in 0..MaxOps /\ NoCell \in Cells
    BY <2>1, NoCellType, Zenon DEF TypeOK
  <2>3. h \in Handlers
    BY <2>2, Zenon DEF Handler, Handlers, Codes
  <2> HIDE DEF h
  <2>4. \A d \in Callers : Connecting(d)' => Connecting(d) /\ serial'[d] = serial[d]
    BY <1>1, <1>2, TypeFacts, Zenon DEF Connecting, Call
  <2> QED BY <1>1, <1>2, <2>1, <2>3, <2>4, PostAttempt, Zenon
<1>3. ASSUME NEW c \in Callers, async_connect(c) \/ async_transact(c) \/ close(c)
      PROVE  ConnectHasDeadline'
  <2>1. CASE async_connect(c) \/ async_transact(c)
    BY <1>2, <2>1, Zenon DEF async_connect, async_transact, socket
  <2>2. CASE close(c) /\ worker
    BY <1>2, <2>2, Zenon DEF close, socket
  <2>3. CASE close(c) /\ ~worker
    <3>1. waiting' = <<>>
      BY <2>3, Zenon DEF close, Closed
    <3> QED BY <3>1, NothingConnecting, AttemptStep, Zenon
  <2> QED BY <1>3, <2>1, <2>2, <2>3, Zenon
<1>4. ASSUME NEW c \in Callers, stop_worker(c) PROVE ConnectHasDeadline'
  <2>1. UNCHANGED <<serial, armed, strand, waiting>>
    BY <1>4, Zenon DEF stop_worker, socket
  <2>2. \A d \in Callers : phase'[d] = "connecting" => phase[d] = "connecting"
    BY <1>1, <1>4, TypeFacts, Zenon DEF stop_worker
  <2> QED BY <2>1, <2>2, AttemptStep, Zenon DEF Connecting
<1>5. ASSUME NEW c \in Callers, Network(c) PROVE ConnectHasDeadline'
  <2>1. /\ UNCHANGED <<phase, serial, armed>>
        /\ \E ec \in Codes, cell \in Cells : Ready(c, ec, cell)
    <3>1. NoCell \in Cells /\ {"ok", "error", "eof"} \subseteq Codes
      BY NoCellType, Zenon DEF Codes
    <3>2. stream # <<>> => Head(stream) \in Cells
      BY <1>1, TypeFacts, TailFacts, Zenon
    <3> QED BY <1>5, <3>1, <3>2, Zenon DEF Network, Established, Refused, Sent, Received, network
  <2>2. PICK ec \in Codes, cell \in Cells : Ready(c, ec, cell)
    BY <2>1, Zenon
  <2>3. Handler(c, ec, cell) \in Handlers /\ strand' = Append(strand, Handler(c, ec, cell))
    BY <1>1, <2>2, HandlerType, Zenon DEF Ready
  <2>4. \A d \in Callers : PendsIn(waiting', d) => PendsIn(waiting, d)
    <3>1. PICK i \in DOMAIN waiting : waiting' = Without(i)
      BY <2>2, Zenon DEF Ready
    <3>2. /\ DOMAIN waiting = 1..Len(waiting) /\ Len(waiting) \in Nat
      BY <1>1, TypeFacts
    <3>3. \A j \in DOMAIN waiting' :
            LET k == IF j < i THEN j ELSE j + 1
            IN k \in DOMAIN waiting /\ waiting'[j] = waiting[k]
      BY <3>1, <3>2 DEF Without
    <3> QED BY <3>3, Zenon DEF PendsIn
  <2> QED BY <1>1, <2>1, <2>3, <2>4, PostAttempt, Zenon DEF Connecting
<1>6. ASSUME NEW c \in Callers, Expires(c) PROVE ConnectHasDeadline'
  <2>1. /\ UNCHANGED <<phase, serial, waiting>> /\ strand' = Append(strand, DeadlineHandler(c))
        /\ \A d \in Callers \ {c} : armed'[d] = armed[d]
    BY <1>1, <1>6, TypeFacts, Zenon DEF Expires, network, socket
  <2>2. /\ DeadlineHandler(c) \in Handlers /\ DeadlineHandler(c).deadline
        /\ DeadlineHandler(c).caller = c /\ DeadlineHandler(c).op = serial[c]
    BY <1>1, DeadlineType, Zenon
  <2>3. /\ \A d, n : Due(strand, d, n) => Due(strand', d, n)
        /\ Due(strand', c, serial[c])
    BY <1>1, <2>1, <2>2, TypeFacts, DueAppend, Zenon
  <2> QED BY <2>1, <2>3, AttemptStep, Zenon DEF Connecting
<1>7. CASE Device \/ UNCHANGED vars
  <2>1. UNCHANGED <<phase, serial, armed, strand, waiting>>
    BY <1>7, Zenon DEF Device, DeviceSendsHeader, DeviceSendsBadHeader, DeviceSendsBody, DeviceCloses,
                network, vars, socket
  <2> QED BY <2>1, AttemptStep, Zenon DEF Connecting
<1> QED BY <1>3, <1>4, <1>5, <1>6, <1>7, WorkerAttempt, Zenon DEF Next

\* A connection attempt that is pending on the socket always has a deadline ahead
\* of it, armed or ready to run, so that on_deadline can end it.
THEOREM TcpConnectHasDeadline == ASSUME Bounds PROVE Spec => []ConnectHasDeadline
<1>1. Init => ConnectHasDeadline
  <2>1. Init => \A c \in Callers : phase[c] # "connecting"
    BY Zenon DEF Init
  <2> QED BY <2>1, Zenon DEF ConnectHasDeadline, Pending
<1>2. IInv /\ IInv' /\ ConnectHasDeadline /\ [Next]_vars => ConnectHasDeadline'
  BY NextAttempt, Zenon
<1> QED BY <1>1, <1>2, TcpIInv, PTL DEF Spec

-----------------------------------------------------------------------------
(* A transport that one caller uses.  The connection carries at most the   *)
(* frame of the operation in progress, and how much of it is on the wire   *)
(* follows from where the operation stands.                                *)

\* Nobody but c has an operation in progress.
Solo(c) == \A d \in Callers : d # c => phase[d] = "idle"

HeaderOf(n) == [part |-> "header", op |-> n]
BodyOf(n) == [part |-> "body", op |-> n]

\* Of the bytes s, the requests q and the flag b: nothing is on the wire; the
\* answer to n is awaited; what is left of it once its header is read.
Quiet(s, q, b) == s = <<>> /\ q = <<>> /\ ~b
Asked(n, s, q, b) ==
  \/ q = <<n>> /\ ~b /\ s = <<>>
  \/ q = <<n>> /\ b /\ s = <<HeaderOf(n)>>
  \/ q = <<>> /\ ~b /\ s \in {<<>>, <<HeaderOf(n)>>, <<HeaderOf(n), BodyOf(n)>>}
Answering(n, s, q, b) ==
  \/ q = <<n>> /\ b /\ s = <<>>
  \/ q = <<>> /\ ~b /\ s \in {<<>>, <<BodyOf(n)>>}

Transacting == {"writing", "header", "body"}

\* The handler of operation n in phase p brings what the operation waited for.
Fits(h, p, n, s, q, b) ==
  h.ec = "ok" =>
    /\ p = "writing" => Asked(n, s, q, b)
    /\ p = "header" => h.cell = HeaderOf(n) /\ Answering(n, s, q, b)
    /\ p = "body" => h.cell = BodyOf(n) /\ Quiet(s, q, b)

Fitting ==
  \A i \in DOMAIN strand : ~strand[i].deadline =>
    Fits(strand[i], phase[strand[i].caller], serial[strand[i].caller], stream, requests, half)

Waits(c) ==
  PendsIn(waiting, c) =>
    /\ phase[c] = "writing" => Quiet(stream, requests, half)
    /\ phase[c] = "header" => Asked(serial[c], stream, requests, half)
    /\ phase[c] = "body" => Answering(serial[c], stream, requests, half)

Stands(c) ==
  /\ phase[c] \in Transacting => connected /\ is_open
  /\ phase[c] = "connecting" => is_open /\ Quiet(stream, requests, half)
  /\ phase[c] \in {"idle", "connect", "start"} /\ connected /\ is_open =>
       Quiet(stream, requests, half)
  /\ phase[c] = "stopping" => ~connected
  /\ phase[c] \in {"connect", "start"} => ~PendsIn(waiting, c)

Owns(c) ==
  /\ phase[c] # "idle" => result[c].kind = "none"
  /\ phase[c] = "body" => result[c].header = serial[c]
  /\ result[c].kind = "answer" =>
       result[c].header = serial[c] /\ result[c].body = serial[c]

Line(c) == Fitting /\ Waits(c) /\ Stands(c) /\ Owns(c) /\ (~worker => ~connected)

\* The handlers of a strand are those of the one caller with an operation.
LEMMA SoleHandlers ==
  ASSUME NEW s \in Seq(Handlers), NEW w, NEW S, Single(w, s, S), NEW c \in Callers,
         \A d \in Callers : d \in S => d = c
  PROVE  \A i \in DOMAIN s : ~s[i].deadline => s[i].caller = c
<1> SUFFICES ASSUME NEW i \in DOMAIN s, ~s[i].deadline PROVE s[i].caller = c
  BY Zenon
<1>1. s[i] \in Handlers
  OBVIOUS
<1>2. s[i].caller \in Callers
  BY <1>1, Zenon DEF Handlers
<1>3. ReadyIn(s, s[i].caller)
  BY Zenon DEF ReadyIn
<1> QED BY <1>2, <1>3, Zenon DEF Single

\* The first handler, the handlers of one caller.
LEMMA LineFacts ==
  ASSUME Bounds, NEW c \in Callers, IInv, Line(c)
  PROVE  /\ Waits(c) /\ Stands(c) /\ Owns(c) /\ (~worker => ~connected)
         /\ \A p : Runs(c, p) =>
              Fits(Head(strand), phase[c], serial[c], stream, requests, half)
<1>1. ASSUME NEW p, Runs(c, p)
      PROVE  Fits(Head(strand), phase[c], serial[c], stream, requests, half)
  <2>1. strand \in Seq(Handlers) /\ strand # <<>>
    BY <1>1, TypeFacts, Zenon DEF IInv, Runs
  <2>2. 1 \in DOMAIN strand /\ Head(strand) = strand[1]
    BY <2>1, TailFacts
  <2> QED BY <1>1, <2>2, Zenon DEF Runs, Line, Fitting
<1> QED BY <1>1, Zenon DEF Line

\* An operation that is not under way on the wire asks nothing of it.
LEMMA OffTheWire ==
  ASSUME NEW c \in Callers, Solo(c)', IInv', phase'[c] \notin Transacting
  PROVE  Fitting' /\ Waits(c)'
<1>1. \A i \in DOMAIN strand' : strand'[i].caller \in Callers
  <2>1. strand' \in Seq(Handlers)
    BY Zenon DEF IInv, TypeOK
  <2>2. \A i \in DOMAIN strand' : strand'[i] \in Handlers
    BY <2>1
  <2> QED BY <2>2, Zenon DEF Handlers
<1>2. \A i \in DOMAIN strand' : phase'[strand'[i].caller] \notin Transacting
  BY <1>1, Zenon DEF Solo, Transacting
<1> QED BY <1>2, Zenon DEF Fitting, Fits, Waits, Transacting

\* An operation that is pending has no handler.
LEMMA PendingFits ==
  ASSUME NEW c \in Callers, Solo(c)', IInv', PendsIn(waiting', c)
  PROVE  Fitting'
<1>1. strand' \in Seq(Handlers) /\ Single(waiting', strand', InProgress')
  BY Zenon DEF IInv, TypeOK
<1>2. \A d \in Callers : d \in InProgress' => d = c
  BY Zenon DEF Solo, InProgress
<1>3. \A i \in DOMAIN strand' : ~strand'[i].deadline => strand'[i].caller = c
  BY <1>1, <1>2, SoleHandlers
<1>4. ~ReadyIn(strand', c)
  BY <1>1, Zenon DEF Single
<1> QED BY <1>3, <1>4, Zenon DEF Fitting, ReadyIn

\* The wire and the operation are as before, and so are the handlers but for
\* deadlines and aborts.
LEMMA SameFits ==
  ASSUME Fitting, UNCHANGED <<phase, serial, stream, requests, half>>,
         \A i \in DOMAIN strand' :
           \/ strand'[i].deadline \/ strand'[i].ec # "ok"
           \/ \E j \in DOMAIN strand : strand'[i] = strand[j]
  PROVE  Fitting'
<1> SUFFICES ASSUME NEW i \in DOMAIN strand', ~strand'[i].deadline
             PROVE  Fits(strand'[i], phase'[strand'[i].caller], serial'[strand'[i].caller],
                         stream', requests', half')
  BY Zenon DEF Fitting
<1>1. CASE strand'[i].ec # "ok"
  BY <1>1, Zenon DEF Fits
<1>2. CASE \E j \in DOMAIN strand : strand'[i] = strand[j]
  <2>1. PICK j \in DOMAIN strand : strand'[i] = strand[j]
    BY <1>2, Zenon
  <2> QED BY <2>1, Zenon DEF Fitting
<1> QED BY <1>1, <1>2, Zenon

\* A handler becomes ready.
LEMMA ReadyFits ==
  ASSUME NEW c \in Callers, Solo(c), IInv, IInv', PendsIn(waiting, c),
         NEW h \in Handlers, ~h.deadline, h.caller = c, strand' = Append(strand, h),
         Fits(h, phase'[c], serial'[c], stream', requests', half')
  PROVE  Fitting' /\ Waits(c)'
<1>1. strand \in Seq(Handlers)
  BY Zenon DEF IInv, TypeOK
<1>2. /\ DOMAIN strand = 1..Len(strand) /\ Len(strand) \in Nat
      /\ DOMAIN strand' = 1..(Len(strand) + 1)
      /\ \A i \in 1..Len(strand) : strand'[i] = strand[i]
      /\ strand'[Len(strand) + 1] = h
  BY <1>1, AppendFacts
<1>3. \A d \in Callers : d \in InProgress => d = c
  BY Zenon DEF Solo, InProgress
<1>4. \A i \in DOMAIN strand : strand[i].deadline
  <2>1. \A i \in DOMAIN strand : ~strand[i].deadline => strand[i].caller = c
    <3>1. Single(waiting, strand, InProgress)
      BY Zenon DEF IInv
    <3> HIDE DEF InProgress
    <3> QED BY <1>1, <1>3, <3>1, SoleHandlers
  <2> QED BY <2>1, Zenon DEF IInv, Single, ReadyIn
<1>5. \A i \in DOMAIN strand' : strand'[i].deadline \/ strand'[i] = h
  BY <1>2, <1>4
<1>6. ReadyIn(strand', c)
  <2>1. Len(strand) + 1 \in DOMAIN strand'
    BY <1>2
  <2> QED BY <1>2, <2>1, Zenon DEF ReadyIn
<1>7. ~PendsIn(waiting', c)
  BY <1>6, Zenon DEF IInv, Single
<1> QED BY <1>5, <1>7, Zenon DEF Fitting, Waits

\* An operation completes.
LEMMA CompleteLine ==
  ASSUME Bounds, NEW c \in Callers, Solo(c), Solo(c)', IInv, IInv', Line(c), NEW p, Runs(c, p),
         NEW r \in Results, Complete(c, r),
         connected' /\ is_open' => Quiet(stream', requests', half'),
         r.kind = "answer" => r.header = serial[c] /\ r.body = serial[c]
  PROVE  Line(c)'
<1>1. TypeOK
  BY Zenon DEF IInv
<1>2. /\ phase'[c] = "idle" /\ result'[c] = r /\ serial' = serial /\ worker'
  BY <1>1, TypeFacts, Zenon DEF Complete, Runs
<1>3. Fitting' /\ Waits(c)'
  BY <1>2, OffTheWire, Zenon DEF Transacting
<1>4. Stands(c)'
  BY <1>2, Zenon DEF Stands, Transacting
<1>5. Owns(c)'
  BY <1>2, Zenon DEF Owns
<1> QED BY <1>2, <1>3, <1>4, <1>5, Zenon DEF Line

\* A call is made.
LEMMA CallLine ==
  ASSUME Bounds, NEW c \in Callers, Solo(c), Solo(c)', IInv, IInv', Line(c),
         async_connect(c) \/ async_transact(c) \/ close(c)
  PROVE  Line(c)'
<1>1. TypeOK
  BY Zenon DEF IInv
<1>2. Stands(c) /\ (~worker => ~connected)
  BY LineFacts, Zenon
<1>3. PICK p \in {"connect", "start", "close", "stopping"} : Call(c, p)
  BY Zenon DEF async_connect, async_transact, close
<1>4. phase[c] = "idle" /\ phase'[c] = p /\ result'[c] = Nothing
  BY <1>1, <1>3, TypeFacts, Zenon DEF Call
<1>5. Fitting' /\ Waits(c)'
  BY <1>4, OffTheWire, Zenon DEF Transacting
<1>6. Owns(c)'
  BY <1>4 DEF Owns, Nothing
<1>7. CASE async_connect(c) \/ async_transact(c)
  <2>1. phase'[c] \in {"connect", "start"}
    BY <1>1, <1>7, TypeFacts, Zenon DEF async_connect, async_transact, Call
  <2>2. /\ worker' /\ UNCHANGED <<connected, is_open, stream, requests, half>>
    BY <1>7, Zenon DEF async_connect, async_transact, ensure_worker, socket
  <2>3. ~PendsIn(waiting', c)
    <3>1. c \notin InProgress /\ Single(waiting, strand, InProgress)
      BY <1>4, Zenon DEF InProgress, IInv
    <3>2. waiting' = waiting
      BY <1>7 DEF async_connect, async_transact, socket
    <3> QED BY <3>1, <3>2, Zenon DEF Single
  <2>4. Stands(c)'
    BY <1>2, <1>4, <2>1, <2>2, <2>3, Zenon DEF Stands, Transacting
  <2> QED BY <1>5, <1>6, <2>2, <2>4, Zenon DEF Line
<1>8. CASE close(c)
  <2>1. /\ phase'[c] = "close" \/ (phase'[c] = "stopping" /\ ~connected')
    BY <1>1, <1>8, TypeFacts, Zenon DEF close, Call
  <2>2. ~worker' => ~connected'
    BY <1>2, <1>8, Zenon DEF close
  <2>3. Stands(c)'
    BY <2>1, Zenon DEF Stands, Transacting
  <2> QED BY <1>5, <1>6, <2>2, <2>3, Zenon DEF Line
<1> QED BY <1>7, <1>8, Zenon

\* The steps that open and close the connection.
LEMMA OpenLine ==
  ASSUME Bounds, NEW c \in Callers, Solo(c), Solo(c)', IInv, IInv', Line(c),
         do_connect(c) \/ resolve_failed(c) \/ on_connect(c) \/ do_close(c) \/ stop_worker(c)
  PROVE  Line(c)'
<1>1. TypeOK
  BY Zenon DEF IInv
<1>2. Stands(c) /\ Owns(c) /\ (~worker => ~connected)
  BY LineFacts, Zenon
<1>3. ASSUME mark_disconnected PROVE ~connected'
  BY <1>3 DEF mark_disconnected
<1>4. CASE do_connect(c)
  <2>1. /\ phase[c] = "connect" /\ phase'[c] = "connecting" /\ UNCHANGED <<result, serial>>
        /\ is_open' /\ Quiet(stream', requests', half') /\ ~connected'
    BY <1>1, <1>4, TypeFacts, Zenon DEF do_connect, Runs, Quiet
  <2>2. Fitting' /\ Waits(c)'
    BY <2>1, OffTheWire, Zenon DEF Transacting
  <2>3. Stands(c)'
    BY <2>1, Zenon DEF Stands, Transacting
  <2>4. Owns(c)'
    BY <1>2, <2>1, Zenon DEF Owns
  <2> QED BY <2>1, <2>2, <2>3, <2>4, Zenon DEF Line
<1>5. CASE resolve_failed(c)
  <2>1. Failed("InvalidArgument") \in Results
    BY ResultTypes, Zenon DEF Failures
  <2> QED BY <1>5, <2>1, CompleteLine, Zenon DEF resolve_failed, Failed
<1>6. CASE on_connect(c)
  <2>1. CASE Code = "ok" /\ Complete(c, Succeeded) /\ UNCHANGED socket
    <3>1. Runs(c, "connecting") /\ phase[c] = "connecting"
      BY <1>6, Zenon DEF on_connect, Runs
    <3>2. Quiet(stream', requests', half')
      BY <1>2, <2>1, <3>1, Zenon DEF Stands, socket
    <3>3. Succeeded \in Results /\ Succeeded.kind # "answer"
      BY ResultTypes DEF Succeeded
    <3> QED BY <2>1, <3>1, <3>2, <3>3, CompleteLine, Zenon
  <2>2. CASE mark_disconnected /\ Complete(c, FailedBy(Code))
    <3>1. FailedBy(Code) \in Results /\ FailedBy(Code).kind # "answer"
      BY ResultTypes, Zenon DEF FailedBy, Failed
    <3> QED BY <1>3, <1>6, <2>2, <3>1, CompleteLine, Zenon DEF on_connect
  <2> QED BY <1>6, <2>1, <2>2, Zenon DEF on_connect
<1>7. CASE do_close(c) \/ stop_worker(c)
  <2>1. phase'[c] = "stopping" \/ phase'[c] = "idle"
    BY <1>1, <1>2, <1>3, <1>7, TypeFacts DEF do_close, stop_worker, Stands
  <2>2. ~connected'
    BY <1>2, <1>3, <1>7, Zenon DEF do_close, stop_worker, Stands
  <2>3. Fitting' /\ Waits(c)'
    BY <2>1, OffTheWire, Zenon DEF Transacting
  <2>4. Stands(c)'
    BY <2>1, <2>2, Zenon DEF Stands, Transacting
  <2>5. result'[c].kind \in {"none", "ok"} /\ (phase'[c] # "idle" => result'[c].kind = "none")
    <3>1. CASE do_close(c)
      BY <1>2, <3>1, Zenon DEF do_close, Runs, Owns
    <3>2. CASE stop_worker(c)
      <4>1. result'[c] = Succeeded /\ phase'[c] = "idle"
        BY <1>1, <3>2, TypeFacts, Zenon DEF stop_worker
      <4> QED BY <4>1 DEF Succeeded
    <3> QED BY <1>7, <3>1, <3>2, Zenon
  <2>6. Owns(c)'
    BY <2>1, <2>5, Zenon DEF Owns
  <2> QED BY <2>2, <2>3, <2>4, <2>6 DEF Line
<1> QED BY <1>4, <1>5, <1>6, <1>7, Zenon

\* The next part of a transaction is started.
LEMMA AwaitLine ==
  ASSUME Bounds, NEW c \in Callers, Solo(c), Solo(c)', IInv, IInv', Line(c),
         Await(c), connected, is_open, UNCHANGED <<connected, is_open>>,
         phase'[c] \in Transacting,
         phase'[c] = "writing" => Quiet(stream', requests', half'),
         phase'[c] = "header" => Asked(serial'[c], stream', requests', half'),
         phase'[c] = "body" => Answering(serial'[c], stream', requests', half'),
         Owns(c)', worker' = worker
  PROVE  Line(c)'
<1>1. waiting \in Seq(Callers)
  BY TypeFacts, Zenon DEF IInv
<1>2. waiting' = Append(waiting, c)
  BY Zenon DEF Await
<1>3. PendsIn(waiting', c)
  <2>1. Len(waiting) + 1 \in DOMAIN waiting' /\ waiting'[Len(waiting) + 1] = c
    BY <1>1, <1>2, AppendFacts
  <2> QED BY <2>1, ZenonT(40) DEF PendsIn
<1>4. Fitting'
  BY <1>3, PendingFits, Zenon
<1>5. Waits(c)'
  BY Zenon DEF Waits
<1>6. Stands(c)'
  BY Zenon DEF Stands, Transacting
<1>7. ~worker' => ~connected'
  BY LineFacts, Zenon
<1> QED BY <1>4, <1>5, <1>6, <1>7, Zenon DEF Line

\* A transaction fails; the kinds of failure that keep the connection are met
\* with a quiet wire only.
LEMMA FinishLine ==
  ASSUME Bounds, NEW c \in Callers, Solo(c), Solo(c)', IInv, IInv', Line(c), NEW p, Runs(c, p),
         NEW r \in Results, finish(c, r),
         r.kind \notin {"Timeout", "Connection"} => Quiet(stream, requests, half),
         r.kind = "answer" => r.header = serial[c] /\ r.body = serial[c]
  PROVE  Line(c)'
<1>1. connected' /\ is_open' => Quiet(stream', requests', half')
  <2>1. CASE r.kind \in {"Timeout", "Connection"}
    <3>1. ~connected'
      BY <2>1, Zenon DEF finish, mark_disconnected
    <3> QED BY <3>1, Zenon
  <2>2. CASE r.kind \notin {"Timeout", "Connection"}
    BY <2>2, Zenon DEF finish, socket
  <2> QED BY <2>1, <2>2, Zenon
<1>2. Complete(c, r)
  BY Zenon DEF finish
<1> QED BY <1>1, <1>2, CompleteLine, Zenon

LEMMA FailKinds ==
  /\ \A ec : FailedBy(ec).kind \in {"Timeout", "Connection"}
  /\ \A code : Failed(code).kind = code
  /\ \A h, b : /\ Answer(h, b).kind = "answer" /\ Answer(h, b).header = h
               /\ Answer(h, b).body = b
BY Zenon DEF FailedBy, Failed, Answer

LEMMA TransactLine ==
  ASSUME Bounds, NEW c \in Callers, Solo(c), Solo(c)', IInv, IInv', Line(c),
         do_transact(c) \/ on_write(c) \/ on_header(c) \/ on_body(c)
  PROVE  Line(c)'
<1>1. TypeOK
  BY Zenon DEF IInv
<1>2. Stands(c) /\ Owns(c) /\ (~worker => ~connected)
  BY LineFacts, Zenon
<1>3. \A p : Runs(c, p) => Fits(Head(strand), p, serial[c], stream, requests, half)
  BY LineFacts, Zenon DEF Runs
<1>4. ASSUME NEW p, Runs(c, p), finish(c, FailedBy(Code)) PROVE Line(c)'
  <2>1. FailedBy(Code).kind \in {"Timeout", "Connection"} /\ FailedBy(Code) \in Results
    BY FailKinds, ResultTypes, Zenon
  <2> QED BY <1>4, <2>1, FinishLine, Zenon
<1>5. CASE do_transact(c)
  <2>1. Runs(c, "start") /\ phase[c] = "start"
    BY <1>5, Zenon DEF do_transact, Runs
  <2>2. CASE ~is_connected /\ Complete(c, Failed("Connection")) /\ UNCHANGED <<connected, socket>>
    <3>1. Failed("Connection") \in Results /\ Failed("Connection").kind # "answer"
      BY ResultTypes, FailKinds, Zenon DEF Failures
    <3>2. ~(connected' /\ is_open')
      BY <2>2, Zenon DEF is_connected, socket
    <3> QED BY <2>1, <2>2, <3>1, <3>2, CompleteLine, Zenon
  <2>3. CASE /\ is_connected /\ Proceed(c, "writing") /\ Await(c)
             /\ UNCHANGED <<is_open, stream, requests, half, peer_open>>
    <3>1. /\ phase'[c] = "writing" /\ UNCHANGED <<serial, result, connected, worker>>
          /\ connected /\ is_open
      BY <1>1, <2>3, TypeFacts, Zenon DEF Proceed, is_connected
    <3>2. Quiet(stream', requests', half')
      BY <1>2, <2>1, <2>3, <3>1, Zenon DEF Stands
    <3>3. Owns(c)'
      BY <1>2, <2>1, <3>1, Zenon DEF Owns
    <3> QED BY <2>3, <3>1, <3>2, <3>3, AwaitLine, Zenon DEF Transacting
  <2> QED BY <1>5, <2>2, <2>3, Zenon DEF do_transact
<1>6. CASE on_write(c)
  <2>1. Runs(c, "writing") /\ phase[c] = "writing"
    BY <1>6, Zenon DEF on_write, Runs
  <2>2. CASE /\ Code = "ok" /\ Proceed(c, "header") /\ Await(c)
             /\ UNCHANGED <<is_open, stream, requests, half, peer_open>>
    <3>1. /\ phase'[c] = "header" /\ UNCHANGED <<serial, result, connected, worker>>
          /\ connected /\ is_open
      BY <1>1, <1>2, <2>1, <2>2, TypeFacts, Zenon DEF Proceed, Stands, Transacting
    <3>2. Asked(serial'[c], stream', requests', half')
      BY <1>3, <2>1, <2>2, <3>1, Zenon DEF Fits, Code
    <3>3. Owns(c)'
      BY <1>2, <2>1, <3>1, Zenon DEF Owns
    <3> QED BY <2>2, <3>1, <3>2, <3>3, AwaitLine, Zenon DEF Transacting
  <2> QED BY <1>4, <1>6, <2>1, <2>2, Zenon DEF on_write
<1>7. CASE on_header(c)
  <2>1. Runs(c, "header") /\ phase[c] = "header"
    BY <1>7, Zenon DEF on_header, Runs
  <2>2. Code = "ok" => Cell = HeaderOf(serial[c]) /\ Answering(serial[c], stream, requests, half)
    BY <1>3, <2>1, Zenon DEF Fits, Code, Cell
  <2>3. Code = "ok" => ~BadLength /\ Cell.op = serial[c]
    BY <2>2 DEF BadLength, HeaderOf
  <2>4. CASE /\ Code = "ok" /\ phase' = [phase EXCEPT ![c] = "body"]
             /\ result' = [result EXCEPT ![c].header = Cell.op] /\ Await(c)
             /\ UNCHANGED <<serial, connected, worker, is_open, stream, requests, half>>
    <3>1. phase'[c] = "body" /\ connected /\ is_open
      BY <1>1, <1>2, <2>1, <2>4, TypeFacts, Zenon DEF Stands, Transacting
    <3>2. result[c] \in Results
      BY <1>1, TypeFacts, Zenon
    <3>3. result'[c] = [result[c] EXCEPT !.header = Cell.op]
      BY <1>1, <2>4, TypeFacts
    <3>4. result'[c].kind = result[c].kind /\ result'[c].header = Cell.op
      BY <3>2, <3>3, Zenon DEF Results
    <3>5. result[c].kind = "none"
      BY <1>2, <2>1, Zenon DEF Owns
    <3>6. Owns(c)'
      BY <2>3, <2>4, <3>1, <3>4, <3>5 DEF Owns
    <3> QED BY <2>2, <2>4, <3>1, <3>6, AwaitLine, Zenon DEF Transacting
  <2> QED BY <1>4, <1>7, <2>1, <2>3, <2>4, Zenon DEF on_header
<1>8. CASE on_body(c)
  <2>1. Runs(c, "body") /\ phase[c] = "body"
    BY <1>8, Zenon DEF on_body, Runs
  <2>2. Code = "ok" => Cell = BodyOf(serial[c]) /\ Quiet(stream, requests, half)
    BY <1>3, <2>1, Zenon DEF Fits, Code, Cell
  <2>3. Code = "ok" => Cell.op = serial[c]
    BY <2>2 DEF BodyOf
  <2>4. result[c].header = serial[c] /\ serial[c] \in 0..MaxOps
    BY <1>1, <1>2, <2>1, TypeFacts, Zenon DEF Owns
  <2>5. CASE Code = "ok" /\ finish(c, Failed("ModbusException"))
    <3>1. Failed("ModbusException") \in Results /\ Failed("ModbusException").kind = "ModbusException"
      BY ResultTypes, FailKinds, Zenon DEF Failures
    <3> QED BY <2>1, <2>2, <2>5, <3>1, FinishLine, Zenon
  <2>6. CASE Code = "ok" /\ finish(c, Answer(result[c].header, Cell.op))
    <3>1. Answer(serial[c], serial[c]) \in Results
      BY <2>4, ResultTypes, Zenon
    <3>2. finish(c, Answer(serial[c], serial[c]))
      BY <2>3, <2>4, <2>6, Zenon
    <3>3. /\ Answer(serial[c], serial[c]).header = serial[c]
          /\ Answer(serial[c], serial[c]).body = serial[c]
      BY DEF Answer
    <3> QED BY <2>1, <2>2, <2>6, <3>1, <3>2, <3>3, FinishLine, Zenon
  <2> QED BY <1>4, <1>8, <2>1, <2>5, <2>6, Zenon DEF on_body
<1> QED BY <1>5, <1>6, <1>7, <1>8, Zenon

\* The deadline fires, and runs.
LEMMA DeadlineLine ==
  ASSUME Bounds, NEW c \in Callers, Solo(c), Solo(c)', IInv, IInv', Line(c),
         NEW d \in Callers, Expires(d) \/ on_deadline(d)
  PROVE  Line(c)'
<1>1. TypeOK
  BY Zenon DEF IInv
<1>2. Waits(c) /\ Stands(c) /\ Owns(c) /\ (~worker => ~connected) /\ Fitting
  BY LineFacts, Zenon DEF Line
<1>3. UNCHANGED <<phase, serial, result, connected, worker, is_open, stream, requests, half>>
  BY Zenon DEF Expires, on_deadline, network, socket
<1>4. waiting' = waiting \/ waiting' = <<>>
  BY Zenon DEF Expires, on_deadline, socket
<1>5. PendsIn(waiting', c) => PendsIn(waiting, c)
  BY <1>4 DEF PendsIn
<1>6. \A i \in DOMAIN strand' :
        \/ strand'[i].deadline \/ strand'[i].ec # "ok"
        \/ \E j \in DOMAIN strand : strand'[i] = strand[j]
  <2>1. CASE Expires(d)
    <3>1. DeadlineHandler(d) \in Handlers /\ DeadlineHandler(d).deadline
      BY <1>1, DeadlineType, Zenon
    <3>2. /\ DOMAIN strand = 1..Len(strand) /\ Len(strand) \in Nat
          /\ DOMAIN strand' = 1..(Len(strand) + 1)
          /\ \A i \in 1..Len(strand) : strand'[i] = strand[i]
          /\ strand'[Len(strand) + 1] = DeadlineHandler(d)
      BY <1>1, <2>1, <3>1, TypeFacts, AppendFacts DEF Expires
    <3> QED BY <3>1, <3>2
  <2>2. CASE on_deadline(d)
    <3>1. strand \in Seq(Handlers) /\ strand # <<>>
      BY <1>1, <2>2, TypeFacts, Zenon DEF on_deadline, RunsDeadline
    <3>2. /\ Rest \in Seq(Handlers) /\ DOMAIN Rest = 1..(Len(strand) - 1)
          /\ DOMAIN strand = 1..Len(strand) /\ Len(strand) \in Nat
          /\ \A i \in 1..(Len(strand) - 1) : Rest[i] = strand[i + 1]
      BY <3>1, TailFacts, Zenon DEF Rest
    <3>3. \A i \in DOMAIN Rest : \E j \in DOMAIN strand : Rest[i] = strand[j]
      <4> SUFFICES ASSUME NEW i \in DOMAIN Rest
                   PROVE  \E j \in DOMAIN strand : Rest[i] = strand[j]
        BY Zenon
      <4>1. i + 1 \in DOMAIN strand /\ Rest[i] = strand[i + 1]
        BY <3>2
      <4> QED BY <4>1, Zenon
    <3>4. Aborts \in Seq(Handlers) /\ \A i \in DOMAIN Aborts : Aborts[i].ec # "ok"
      <4>1. /\ Aborts \in Seq(Handlers) /\ Len(Aborts) = Len(waiting)
            /\ \A i \in 1..Len(waiting) : Aborts[i].ec = "aborted"
        BY <1>1, AbortFacts, Zenon
      <4>2. DOMAIN Aborts = 1..Len(waiting)
        BY <4>1
      <4> QED BY <4>1, <4>2, Zenon
    <3>5. \A i \in DOMAIN (Rest \o Aborts) :
            \/ i \in DOMAIN Rest /\ (Rest \o Aborts)[i] = Rest[i]
            \/ \E j \in DOMAIN Aborts : (Rest \o Aborts)[i] = Aborts[j]
      BY <3>2, <3>4, ConcatFacts
    <3>6. strand' = Rest \/ strand' = Rest \o Aborts
      BY <2>2, Zenon DEF on_deadline
    <3>7. CASE strand' = Rest
      BY <3>3, <3>7, Zenon
    <3>8. CASE strand' = Rest \o Aborts
      <4> SUFFICES ASSUME NEW i \in DOMAIN (Rest \o Aborts)
                   PROVE  \/ (Rest \o Aborts)[i].ec # "ok"
                          \/ \E j \in DOMAIN strand : (Rest \o Aborts)[i] = strand[j]
        BY <3>8, Zenon
      <4>1. CASE i \in DOMAIN Rest /\ (Rest \o Aborts)[i] = Rest[i]
        BY <3>3, <4>1, Zenon
      <4>2. CASE \E j \in DOMAIN Aborts : (Rest \o Aborts)[i] = Aborts[j]
        BY <3>4, <4>2, Zenon
      <4> QED BY <3>5, <4>1, <4>2, Zenon
    <3> QED BY <3>6, <3>7, <3>8, Zenon
  <2> QED BY <2>1, <2>2, Zenon
<1>7. Fitting'
  BY <1>2, <1>3, <1>6, SameFits, Zenon
<1>8. Waits(c)'
  BY <1>2, <1>3, <1>5, Zenon DEF Waits
<1>9. Stands(c)' /\ Owns(c)'
  BY <1>2, <1>3, <1>5, Zenon DEF Stands, Owns
<1> QED BY <1>2, <1>3, <1>7, <1>8, <1>9, Zenon DEF Line

LEMMA ShortSequences ==
  ASSUME NEW x, NEW y
  PROVE  /\ Append(<<>>, x) = <<x>> /\ Append(<<x>>, y) = <<x, y>>
         /\ Head(<<x>>) = x /\ Tail(<<x>>) = <<>>
         /\ Head(<<x, y>>) = x /\ Tail(<<x, y>>) = <<y>>
         /\ <<x>> # <<>> /\ <<x, y>> # <<>> /\ <<x>> # <<x, y>>
<1>1. Append(<<>>, x) = <<x>>
  OBVIOUS
<1>2. Append(<<x>>, y) = <<x, y>>
  <2> DEFINE a == Append(<<x>>, y)
             b == <<x, y>>
  <2>1. a \in [1..2 -> {x, y}] /\ a[1] = x /\ a[2] = y
    <3>1. <<x>> \in Seq({x, y}) /\ Len(<<x>>) = 1 /\ <<x>>[1] = x
      OBVIOUS
    <3> HIDE DEF b
    <3>2. a \in Seq({x, y}) /\ Len(a) = 2 /\ a[1] = x /\ a[2] = y
      BY <3>1
    <3> HIDE DEF a
    <3> QED BY <3>2
  <2>2. b \in [1..2 -> {x, y}] /\ b[1] = x /\ b[2] = y
    OBVIOUS
  <2>3. \A k \in 1..2 : a[k] = b[k]
    <3> HIDE DEF a, b
    <3>1. \A k \in 1..2 : k = 1 \/ k = 2
      OBVIOUS
    <3> QED BY <2>1, <2>2, <3>1
  <2> HIDE DEF a, b
  <2>4. a = b
    BY <2>1, <2>2, <2>3
  <2> QED BY <2>4 DEF a, b
<1>3. Head(<<x>>) = x /\ Tail(<<x>>) = <<>>
  OBVIOUS
<1>4. Head(<<x, y>>) = x
  OBVIOUS
<1>5. Tail(<<x, y>>) = <<y>>
  OBVIOUS
<1>6. <<x>> # <<>> /\ <<x, y>> # <<>> /\ <<x>> # <<x, y>>
  BY Zenon
<1> QED BY <1>1, <1>2, <1>3, <1>4, <1>5, <1>6, Zenon

\* What the network does for the operation.
LEMMA NetworkLine ==
  ASSUME Bounds, NEW c \in Callers, Solo(c), Solo(c)', IInv, IInv', Line(c), Network(c)
  PROVE  Line(c)'
<1>1. TypeOK
  BY Zenon DEF IInv
<1>2. Waits(c) /\ Stands(c) /\ Owns(c) /\ (~worker => ~connected)
  BY LineFacts, Zenon
<1>3. UNCHANGED <<phase, serial, result, connected, worker, is_open, half>>
  BY Zenon DEF Network, Established, Refused, Sent, Received, network
<1>4. Owns(c)'
  BY <1>2, <1>3, Zenon DEF Owns
<1>5. CASE Established(c) \/ Refused(c)
  <2>1. phase[c] = "connecting" /\ UNCHANGED <<stream, requests>>
    BY <1>5, Zenon DEF Established, Refused, Pending
  <2>2. Fitting' /\ Waits(c)'
    BY <1>3, <2>1, OffTheWire, Zenon DEF Transacting
  <2>3. Stands(c)'
    BY <1>2, <1>3, <2>1, Zenon DEF Stands
  <2> QED BY <1>2, <1>3, <1>4, <2>2, <2>3, Zenon DEF Line
<1>6. ASSUME phase[c] \in Transacting, PendsIn(waiting, c),
             NEW ec \in Codes, NEW cell \in Cells, Ready(c, ec, cell),
             ec = "ok" => /\ phase[c] = "writing" => Asked(serial[c], stream', requests', half')
                          /\ phase[c] = "header" =>
                               /\ cell = HeaderOf(serial[c])
                               /\ Answering(serial[c], stream', requests', half')
                          /\ phase[c] = "body" =>
                               /\ cell = BodyOf(serial[c])
                               /\ Quiet(stream', requests', half')
      PROVE  Line(c)'
  <2>1. PICK h \in Handlers : h = Handler(c, ec, cell)
    BY <1>1, HandlerType, Zenon
  <2>2. ~h.deadline /\ h.caller = c /\ h.ec = ec /\ h.cell = cell /\ strand' = Append(strand, h)
    BY <1>1, <1>6, <2>1, HandlerType DEF Ready
  <2>3. Fits(h, phase'[c], serial'[c], stream', requests', half')
    BY <1>3, <1>6, <2>2, Zenon DEF Fits
  <2>4. Fitting' /\ Waits(c)'
    BY <1>6, <2>2, <2>3, ReadyFits, Zenon
  <2>5. Stands(c)'
    BY <1>2, <1>3, <1>6, Zenon DEF Stands, Transacting
  <2> QED BY <1>2, <1>3, <1>4, <2>4, <2>5 DEF Line
<1>7. NoCell \in Cells /\ {"ok", "error", "eof"} \subseteq Codes
  BY NoCellType, Zenon DEF Codes
<1>8. CASE Sent(c)
  <2>1. phase[c] = "writing" /\ PendsIn(waiting, c) /\ stream' = stream
    BY <1>8 DEF Sent, Pending, PendsIn
  <2>2. Quiet(stream, requests, half)
    BY <1>2, <2>1, Zenon DEF Waits
  <2>3. CASE Ready(c, "ok", NoCell) /\ requests' = Append(requests, serial[c])
    <3>1. requests' = <<serial[c]>> /\ stream' = <<>> /\ ~half'
      BY <1>3, <2>1, <2>2, <2>3, ShortSequences DEF Quiet
    <3>2. Asked(serial[c], stream', requests', half')
      BY <3>1, Zenon DEF Asked
    <3> QED BY <1>6, <1>7, <2>1, <2>3, <3>2, Zenon DEF Transacting
  <2>4. CASE Ready(c, "error", NoCell)
    BY <1>6, <1>7, <2>1, <2>4, Zenon DEF Transacting
  <2> QED BY <1>8, <2>3, <2>4, Zenon DEF Sent
<1>9. CASE Received(c)
  <2>1. phase[c] \in {"header", "body"} /\ PendsIn(waiting, c) /\ requests' = requests
    BY <1>9, Zenon DEF Received, FirstReader, PendsIn
  <2>2. CASE stream # <<>> /\ Ready(c, "ok", Head(stream)) /\ stream' = Tail(stream)
    <3>1. Head(stream) \in Cells
      BY <1>1, <2>2, TypeFacts, TailFacts
    <3>2. CASE phase[c] = "header"
      <4>1. Asked(serial[c], stream, requests, half)
        BY <1>2, <2>1, <3>2, Zenon DEF Waits
      <4> DEFINE H == HeaderOf(serial[c])
                 B == BodyOf(serial[c])
      <4>2. \/ /\ stream = <<H>>
               /\ (requests = <<serial[c]>> /\ half) \/ (requests = <<>> /\ ~half)
            \/ stream = <<H, B>> /\ requests = <<>> /\ ~half
        BY <2>2, <4>1 DEF Asked
      <4> HIDE DEF H, B
      <4>3. Head(stream) = H /\ (stream' = <<>> \/ (stream' = <<B>> /\ requests = <<>> /\ ~half))
        <5>1. stream = <<H>> => Head(stream) = H /\ stream' = <<>>
          BY <2>2, ShortSequences, Zenon
        <5>2. stream = <<H, B>> => Head(stream) = H /\ stream' = <<B>>
          <6>1. Head(<<H, B>>) = H /\ Tail(<<H, B>>) = <<B>>
            BY ShortSequences
          <6> QED BY <2>2, <6>1, Zenon
        <5> QED BY <4>2, <5>1, <5>2, Zenon
      <4>4. Answering(serial[c], stream', requests', half')
        BY <1>3, <2>1, <4>2, <4>3, Zenon DEF Answering, B
      <4> QED BY <1>6, <1>7, <2>1, <2>2, <3>1, <3>2, <4>3, <4>4, Zenon DEF Transacting, H
    <3>3. CASE phase[c] = "body"
      <4>1. Answering(serial[c], stream, requests, half)
        BY <1>2, <2>1, <3>3, Zenon DEF Waits
      <4> DEFINE B == BodyOf(serial[c])
      <4>2. stream = <<B>> /\ requests = <<>> /\ ~half
        BY <2>2, <4>1, Zenon DEF Answering
      <4> HIDE DEF B
      <4>3. Head(stream) = B /\ stream' = <<>>
        BY <2>2, <4>2, ShortSequences
      <4>4. Quiet(stream', requests', half')
        BY <1>3, <2>1, <4>2, <4>3 DEF Quiet
      <4> QED BY <1>6, <1>7, <2>1, <2>2, <3>1, <3>3, <4>3, <4>4, Zenon DEF Transacting, B
    <3> QED BY <2>1, <3>2, <3>3, Zenon
  <2>3. CASE Ready(c, "eof", NoCell)
    BY <1>6, <1>7, <2>1, <2>3, Zenon DEF Transacting
  <2> QED BY <1>9, <2>2, <2>3 DEF Received
<1> QED BY <1>5, <1>8, <1>9, Zenon DEF Network

\* What the device does to the wire, while it sends no bad header.
LEMMA DeviceWire ==
  ASSUME Device, ~DeviceSendsBadHeader, NEW n
  PROVE  /\ Quiet(stream, requests, half) => Quiet(stream', requests', half')
         /\ Asked(n, stream, requests, half) => Asked(n, stream', requests', half')
         /\ Answering(n, stream, requests, half) => Answering(n, stream', requests', half')
<1> DEFINE H == HeaderOf(n)
           B == BodyOf(n)
<1>1. CASE DeviceSendsHeader
  <2>1. /\ requests # <<>> /\ ~half /\ half' /\ requests' = requests
        /\ stream' = Append(stream, HeaderOf(Head(requests)))
    BY <1>1, Zenon DEF DeviceSendsHeader, HeaderOf
  <2>2. ~Quiet(stream, requests, half) /\ ~Answering(n, stream, requests, half)
    BY <2>1, Zenon DEF Quiet, Answering
  <2>3. ASSUME Asked(n, stream, requests, half)
        PROVE  Asked(n, stream', requests', half')
    <3>1. requests = <<n>> /\ stream = <<>>
      BY <2>1, <2>3, Zenon DEF Asked
    <3>2. stream' = <<H>>
      BY <2>1, <3>1, ShortSequences, Zenon
    <3> QED BY <2>1, <3>1, <3>2, Zenon DEF Asked
  <2> QED BY <2>2, <2>3, Zenon
<1>2. CASE DeviceSendsBody
  <2>1. /\ requests # <<>> /\ half /\ ~half' /\ requests' = Tail(requests)
        /\ stream' = Append(stream, BodyOf(Head(requests)))
    BY <1>2, Zenon DEF DeviceSendsBody, BodyOf
  <2>2. ~Quiet(stream, requests, half)
    BY <2>1, Zenon DEF Quiet
  <2>3. ASSUME Asked(n, stream, requests, half)
        PROVE  Asked(n, stream', requests', half')
    <3>1. requests = <<n>> /\ stream = <<H>>
      BY <2>1, <2>3, Zenon DEF Asked
    <3>2. Head(requests) = n /\ requests' = <<>>
      BY <2>1, <3>1, ShortSequences, Zenon
    <3>3. stream' = Append(<<H>>, B)
      BY <2>1, <3>1, <3>2, Zenon
    <3>4. stream' = <<H, B>>
      BY <3>3, ShortSequences, Zenon
    <3> QED BY <2>1, <3>2, <3>4, Zenon DEF Asked
  <2>4. ASSUME Answering(n, stream, requests, half)
        PROVE  Answering(n, stream', requests', half')
    <3>1. requests = <<n>> /\ stream = <<>>
      BY <2>1, <2>4, Zenon DEF Answering
    <3>2. stream' = <<B>> /\ requests' = <<>>
      BY <2>1, <3>1, ShortSequences, Zenon
    <3> QED BY <2>1, <3>2, Zenon DEF Answering
  <2> QED BY <2>2, <2>3, <2>4, Zenon
<1>3. CASE DeviceCloses
  BY <1>3, Zenon DEF DeviceCloses, Quiet, Asked, Answering
<1> QED BY <1>1, <1>2, <1>3, Zenon DEF Device

LEMMA DeviceLine ==
  ASSUME Bounds, NEW c \in Callers, Solo(c), Solo(c)', IInv, IInv', Line(c), Device, ~DeviceSendsBadHeader
  PROVE  Line(c)'
<1>1. UNCHANGED <<phase, serial, result, connected, worker, strand, is_open, waiting>>
  BY Zenon DEF Device, DeviceSendsHeader, DeviceSendsBadHeader, DeviceSendsBody, DeviceCloses, network
<1>2. Waits(c) /\ Stands(c) /\ Owns(c) /\ (~worker => ~connected) /\ Fitting
  BY LineFacts, Zenon DEF Line
<1>3. /\ Quiet(stream, requests, half) => Quiet(stream', requests', half')
      /\ \A n : /\ Asked(n, stream, requests, half) => Asked(n, stream', requests', half')
                /\ Answering(n, stream, requests, half) => Answering(n, stream', requests', half')
  BY DeviceWire, Zenon
<1>4. Fitting'
  <2> SUFFICES ASSUME NEW i \in DOMAIN strand, ~strand[i].deadline
               PROVE  Fits(strand[i], phase[strand[i].caller], serial[strand[i].caller],
                           stream', requests', half')
    BY <1>1, Zenon DEF Fitting
  <2>1. Fits(strand[i], phase[strand[i].caller], serial[strand[i].caller], stream, requests, half)
    BY <1>2, Zenon DEF Fitting
  <2> QED BY <1>3, <2>1, Zenon DEF Fits
<1>5. Waits(c)'
  BY <1>1, <1>2, <1>3, Zenon DEF Waits
<1>6. Stands(c)' /\ Owns(c)'
  BY <1>1, <1>2, <1>3, Zenon DEF Stands, Owns
<1> QED BY <1>1, <1>2, <1>4, <1>5, <1>6, Zenon DEF Line

\* A caller that has made no call has nothing in progress and no result.
Fresh == \A d \in Callers : serial[d] = 0 => phase[d] = "idle" /\ result[d] = Nothing

LEMMA NextFresh ==
  ASSUME Bounds, IInv, IInv', Fresh, [Next]_vars
  PROVE  /\ Fresh'
         /\ \A d \in Callers : serial'[d] = 0 => serial[d] = 0
         /\ malformed' = 0 => malformed = 0
<1>1. phase \in [Callers -> Phases] /\ serial \in [Callers -> 0..MaxOps]
      /\ result \in [Callers -> Results] /\ issued \in Nat /\ malformed \in Nat
  BY DEF IInv, TypeOK, Bounds
<1>2. CASE UNCHANGED <<phase, serial, result>> /\ malformed' \in {malformed, malformed + 1}
  <2>1. malformed' = 0 => malformed = 0
    BY <1>1, <1>2
  <2> QED BY <1>2, <2>1, Zenon DEF Fresh
<1>3. ASSUME NEW c \in Callers, NEW p, Call(c, p), UNCHANGED malformed
      PROVE  /\ Fresh'
             /\ \A d \in Callers : serial'[d] = 0 => serial[d] = 0
             /\ malformed' = 0 => malformed = 0
  <2>1. /\ \A d \in Callers : d # c => serial'[d] = serial[d] /\ phase'[d] = phase[d]
                                       /\ result'[d] = result[d]
        /\ serial'[c] = issued + 1
    BY <1>1, <1>3, Zenon DEF Call
  <2>2. serial'[c] # 0
    BY <1>1, <2>1
  <2> QED BY <1>3, <2>1, <2>2, Zenon DEF Fresh
<1>4. ASSUME NEW c \in Callers, phase[c] # "idle", UNCHANGED <<serial, malformed>>,
             \A d \in Callers : d # c => phase'[d] = phase[d] /\ result'[d] = result[d]
      PROVE  /\ Fresh'
             /\ \A d \in Callers : serial'[d] = 0 => serial[d] = 0
             /\ malformed' = 0 => malformed = 0
  BY <1>4, Zenon DEF Fresh
<1>5. ASSUME NEW c \in Callers, Worker(c) \/ stop_worker(c), ~on_deadline(c)
      PROVE  /\ phase[c] # "idle" /\ UNCHANGED <<serial, malformed>>
             /\ \A d \in Callers : d # c => phase'[d] = phase[d] /\ result'[d] = result[d]
  <2>1. CASE do_connect(c) \/ do_close(c) \/ stop_worker(c)
    BY <1>1, <2>1, Zenon DEF do_connect, do_close, stop_worker, Runs
  <2>2. ASSUME NEW r, Complete(c, r)
        PROVE  /\ UNCHANGED <<serial, malformed>>
               /\ \A d \in Callers : d # c => phase'[d] = phase[d] /\ result'[d] = result[d]
    BY <1>1, <2>2, Zenon DEF Complete
  <2>3. ASSUME NEW p, Proceed(c, p)
        PROVE  /\ UNCHANGED <<serial, malformed>>
               /\ \A d \in Callers : d # c => phase'[d] = phase[d] /\ result'[d] = result[d]
    BY <1>1, <2>3, Zenon DEF Proceed
  <2>4. CASE resolve_failed(c) \/ on_connect(c) \/ do_transact(c)
    BY <2>2, <2>3, <2>4, Zenon DEF resolve_failed, on_connect, do_transact, Runs
  <2>5. CASE on_write(c) \/ on_body(c)
    BY <2>2, <2>3, <2>5, Zenon DEF on_write, on_body, finish, Runs
  <2>6. CASE on_header(c)
    <3>1. phase[c] # "idle"
      BY <2>6, Zenon DEF on_header, Runs
    <3>2. CASE \E r : finish(c, r)
      BY <2>2, <3>1, <3>2, Zenon DEF finish
    <3>3. CASE /\ phase' = [phase EXCEPT ![c] = "body"]
               /\ result' = [result EXCEPT ![c].header = Cell.op]
               /\ UNCHANGED <<serial, malformed>>
      BY <1>1, <3>1, <3>3, Zenon
    <3> QED BY <2>6, <3>2, <3>3, Zenon DEF on_header
  <2> QED BY <1>5, <2>1, <2>4, <2>5, <2>6, Zenon DEF Worker
<1>6. CASE \E c \in Callers : async_connect(c) \/ async_transact(c) \/ close(c)
  BY <1>3, <1>6, Zenon DEF async_connect, async_transact, close
<1>7. ASSUME NEW c \in Callers, on_deadline(c) \/ Network(c) \/ Expires(c)
      PROVE  UNCHANGED <<phase, serial, result>> /\ malformed' = malformed
  BY <1>7, Zenon DEF on_deadline, Network, Established, Refused, Sent, Received, Expires, network
<1>8. CASE Device
  <2>1. UNCHANGED <<phase, serial, result>> /\ malformed' \in {malformed, malformed + 1}
    BY <1>8, Zenon DEF Device, DeviceSendsHeader, DeviceSendsBadHeader, DeviceSendsBody,
                       DeviceCloses, network
  <2> QED BY <1>2, <2>1, Zenon
<1>9. CASE UNCHANGED vars
  BY <1>2, <1>9, Zenon DEF vars
<1>10. ASSUME NEW c \in Callers, Worker(c) \/ stop_worker(c)
       PROVE  /\ Fresh'
              /\ \A d \in Callers : serial'[d] = 0 => serial[d] = 0
              /\ malformed' = 0 => malformed = 0
  BY <1>2, <1>4, <1>5, <1>7, <1>10, Zenon
<1> QED BY <1>2, <1>6, <1>7, <1>8, <1>9, <1>10, Zenon DEF Next

\* c alone has made calls, and the device has sent no bad header.
Only(c) == malformed = 0 /\ \A d \in Callers : d # c => serial[d] = 0
Lined == \A c \in Callers : Only(c) => Line(c)

LEMMA InitLined == Bounds /\ Init => Fresh /\ Lined
<1> SUFFICES ASSUME Bounds, Init PROVE Fresh /\ Lined
  BY Zenon
<1>1. Fresh
  BY Zenon DEF Init, Fresh
<1>2. DOMAIN strand = {} /\ DOMAIN waiting = {}
  BY DEF Init
<1>3. ASSUME NEW c \in Callers PROVE Line(c)
  <2>1. Fitting /\ Waits(c)
    BY <1>2, Zenon DEF Fitting, Waits, PendsIn
  <2>2. phase[c] = "idle" /\ ~connected /\ result[c] = Nothing
    BY Zenon DEF Init
  <2>3. Stands(c)
    BY <2>2, Zenon DEF Stands, Transacting
  <2>4. Owns(c)
    <3>1. result[c].kind = "none"
      BY <2>2 DEF Nothing
    <3> QED BY <2>2, <3>1, Zenon DEF Owns
  <2> QED BY <2>1, <2>2, <2>3, <2>4, Zenon DEF Line
<1> QED BY <1>1, <1>3, Zenon DEF Lined

\* The steps of such a behaviour: those of c, of the deadlines, of the device.
LEMMA OnlyMoves ==
  ASSUME Bounds, IInv, Fresh, NEW c \in Callers, Only(c), Only(c)', [Next]_vars
  PROVE  \/ async_connect(c) \/ async_transact(c) \/ close(c)
         \/ Worker(c) \/ stop_worker(c) \/ Network(c)
         \/ \E d \in Callers : on_deadline(d) \/ Expires(d)
         \/ Device /\ ~DeviceSendsBadHeader
         \/ UNCHANGED vars
<1>1. Solo(c)
  BY Zenon DEF Only, Solo, Fresh
<1>2. ASSUME NEW d \in Callers, d # c
      PROVE  ~async_connect(d) /\ ~async_transact(d) /\ ~close(d)
  <2>1. serial'[d] = 0 /\ serial \in [Callers -> 0..MaxOps] /\ issued \in Nat
    BY <1>2 DEF Only, IInv, TypeOK
  <2>2. ASSUME NEW p, Call(d, p) PROVE FALSE
    <3>1. serial'[d] = issued + 1
      BY <2>1, <2>2, Zenon DEF Call
    <3> QED BY <2>1, <3>1
  <2> QED BY <2>2, Zenon DEF async_connect, async_transact, close
<1>3. ASSUME NEW d \in Callers, d # c
      PROVE  (Worker(d) => on_deadline(d)) /\ ~stop_worker(d) /\ ~Network(d)
  <2>1. phase[d] = "idle"
    BY <1>1, <1>3, Zenon DEF Solo
  <2>2. \A p : Runs(d, p) => p = "idle"
    BY <2>1, Zenon DEF Runs
  <2>3. Worker(d) => on_deadline(d)
    BY <2>2, Zenon DEF Worker, do_connect, resolve_failed, on_connect, do_transact, on_write,
                       on_header, on_body, do_close
  <2>4. ~stop_worker(d) /\ ~Network(d)
    BY <2>1, Zenon DEF stop_worker, Network, Established, Refused, Sent, Received, Pending,
                       FirstReader
  <2> QED BY <2>3, <2>4, Zenon
<1>4. ~DeviceSendsBadHeader
  <2>1. malformed = 0 /\ malformed' = 0
    BY Zenon DEF Only
  <2> QED BY <2>1 DEF DeviceSendsBadHeader
<1> QED BY <1>2, <1>3, <1>4, Zenon DEF Next

LEMMA OnlyBefore ==
  ASSUME Bounds, IInv, IInv', Fresh, NEW c \in Callers, Only(c)', [Next]_vars
  PROVE  Only(c) /\ Solo(c) /\ Solo(c)'
<1>1. Fresh' /\ (malformed' = 0 => malformed = 0)
      /\ \A d \in Callers : serial'[d] = 0 => serial[d] = 0
  BY NextFresh, Zenon
<1>2. Only(c)
  BY <1>1, Zenon DEF Only
<1> QED BY <1>1, <1>2, Zenon DEF Only, Solo, Fresh

LEMMA NextLined ==
  ASSUME Bounds, IInv, IInv', Fresh, Lined, [Next]_vars
  PROVE  Fresh' /\ Lined'
<1> SUFFICES ASSUME NEW c \in Callers, Only(c)' PROVE Line(c)'
  BY NextFresh, Zenon DEF Lined
<1>1. Only(c) /\ Solo(c) /\ Solo(c)'
  BY OnlyBefore, Zenon
<1>2. Line(c)
  BY <1>1, Zenon DEF Lined
<1>3. CASE async_connect(c) \/ async_transact(c) \/ close(c)
  BY <1>1, <1>2, <1>3, CallLine, Zenon
<1>4. CASE \E d \in Callers : on_deadline(d) \/ Expires(d)
  BY <1>1, <1>2, <1>4, DeadlineLine, Zenon
<1>5. CASE Worker(c) \/ stop_worker(c)
  BY <1>1, <1>2, <1>4, <1>5, OpenLine, TransactLine, Zenon DEF Worker
<1>6. CASE Network(c)
  BY <1>1, <1>2, <1>6, NetworkLine, Zenon
<1>7. CASE Device /\ ~DeviceSendsBadHeader
  BY <1>1, <1>2, <1>7, DeviceLine, Zenon
<1>8. CASE UNCHANGED vars
  BY <1>2, <1>8, Zenon DEF vars, socket, Line, Fitting, Waits, Stands, Owns
<1> QED BY <1>1, <1>3, <1>4, <1>5, <1>6, <1>7, <1>8, OnlyMoves, Zenon

\* What the line of the one caller says of the answers and of the connection.
LEMMA LinedOrderly ==
  ASSUME Bounds, IInv, Fresh, Lined, OneUser, malformed = 0
  PROVE  InSync /\ OwnAnswer
<1>1. PICK c \in Callers : \A d \in Callers : d # c => serial[d] = 0
  BY Zenon DEF OneUser
<1>2. Line(c)
  BY <1>1, Zenon DEF Lined, Only
<1>3. Stands(c) /\ Owns(c)
  BY <1>2, Zenon DEF Line
<1>4. OwnAnswer
  <2> SUFFICES ASSUME NEW d \in Callers, result[d].kind = "answer"
               PROVE  result[d].header = serial[d] /\ result[d].body = serial[d]
    BY Zenon DEF OwnAnswer
  <2>1. Nothing.kind = "none"
    BY DEF Nothing
  <2>2. d = c
    BY <1>1, <2>1, Zenon DEF Fresh
  <2> QED BY <1>3, <2>2, Zenon DEF Owns
<1>5. InSync
  <2> SUFFICES ASSUME \A d \in Callers : phase[d] \in {"idle", "connect", "start"}, is_connected
               PROVE  stream = <<>> /\ requests = <<>> /\ waiting = <<>>
    BY Zenon DEF InSync
  <2>1. stream = <<>> /\ requests = <<>>
    BY <1>3, Zenon DEF Stands, Quiet, is_connected
  <2>2. \A d \in Callers : ~PendsIn(waiting, d)
    <3> SUFFICES ASSUME NEW d \in Callers, PendsIn(waiting, d) PROVE FALSE
      BY Zenon
    <3>1. d \in InProgress
      BY Zenon DEF IInv, Single
    <3>2. phase[d] # "idle"
      BY <3>1, Zenon DEF InProgress
    <3>3. d = c
      BY <1>1, <3>2, Zenon DEF Fresh
    <3> QED BY <1>3, <3>2, <3>3, Zenon DEF Stands
  <2>3. waiting \in Seq(Callers)
    BY Zenon DEF IInv, TypeOK
  <2>4. waiting = <<>>
    BY <2>2, <2>3 DEF PendsIn
  <2> QED BY <2>1, <2>4, Zenon
<1> QED BY <1>4, <1>5, Zenon

-----------------------------------------------------------------------------
(* A transport that one caller uses implements the port.                   *)

PortOp == [d \in Callers |-> Operation(phase[d])]
PortResult == [d \in Callers |-> IF phase[d] = "idle" THEN result[d] ELSE Nothing]
Port == INSTANCE ModbusPort WITH op <- PortOp, result <- PortResult, up <- is_connected

LEMMA Operations ==
  /\ Operation("idle") = "idle"
  /\ Operation("connect") = "connect" /\ Operation("connecting") = "connect"
  /\ Operation("start") = "transact" /\ Operation("writing") = "transact"
  /\ Operation("header") = "transact" /\ Operation("body") = "transact"
  /\ Operation("close") = "close" /\ Operation("stopping") = "close"
BY DEF Operation

LEMMA PortRecords ==
  /\ Port!None = Nothing /\ Port!Ok = Succeeded
  /\ \A code : Port!Error(code) = Failed(code)
  /\ \A n : Port!OwnAnswerOf(n) = Answer(n, n)
BY DEF Port!None, Port!Ok, Port!Error, Port!OwnAnswerOf, Nothing, Succeeded, Failed, Answer

\* A call begins an operation of the port.
LEMMA PortBegins ==
  ASSUME TypeOK, NEW c \in Callers, NEW p, p # "idle", Call(c, p),
         is_connected' = is_connected
  PROVE  Port!Begin(c, Operation(p))
<1>1. /\ phase \in [Callers -> Phases] /\ result \in [Callers -> Results]
      /\ phase[c] = "idle" /\ phase' = [phase EXCEPT ![c] = p]
      /\ result' = [result EXCEPT ![c] = Nothing]
  BY Zenon DEF TypeOK, Call
<1>2. /\ phase'[c] = p /\ result'[c] = Nothing
      /\ \A d \in Callers : d # c => phase'[d] = phase[d] /\ result'[d] = result[d]
  BY <1>1, Zenon
<1>3. PortOp[c] = "idle"
  BY <1>1, Operations, Zenon DEF PortOp
<1>4. PortOp' = [PortOp EXCEPT ![c] = Operation(p)]
  BY <1>2, Zenon DEF PortOp
<1>5. PortResult' = [PortResult EXCEPT ![c] = Nothing]
  BY <1>2, Zenon DEF PortResult
<1> QED BY <1>3, <1>4, <1>5, PortRecords, Zenon DEF Port!Begin, Call

\* A completion ends one.
LEMMA PortEnds ==
  ASSUME TypeOK, NEW c \in Callers, NEW r, phase[c] # "idle", Operation(phase[c]) # "idle",
         phase' = [phase EXCEPT ![c] = "idle"], result' = [result EXCEPT ![c] = r],
         UNCHANGED <<serial, issued>>
  PROVE  Port!End(c, r) /\ PortOp[c] = Operation(phase[c])
<1>1. phase \in [Callers -> Phases] /\ result \in [Callers -> Results]
  BY Zenon DEF TypeOK
<1>2. /\ phase'[c] = "idle" /\ result'[c] = r
      /\ \A d \in Callers : d # c => phase'[d] = phase[d] /\ result'[d] = result[d]
  BY <1>1, Zenon
<1>3. PortOp[c] = Operation(phase[c])
  BY Zenon DEF PortOp
<1>4. PortOp' = [PortOp EXCEPT ![c] = "idle"]
  <2>1. /\ \A d \in Callers : d # c => Operation(phase'[d]) = Operation(phase[d])
        /\ Operation(phase'[c]) = "idle"
    BY <1>2, Operations, Zenon
  <2>2. \A d \in Callers : PortOp'[d] = [PortOp EXCEPT ![c] = "idle"][d]
    BY <2>1, Zenon DEF PortOp
  <2> QED BY <2>2, Zenon DEF PortOp
<1>5. PortResult' = [PortResult EXCEPT ![c] = r]
  BY <1>2, Zenon DEF PortResult
<1> QED BY <1>3, <1>4, <1>5, Zenon DEF Port!End

LEMMA PortCompletes ==
  ASSUME TypeOK, NEW c \in Callers, NEW p, NEW r, Runs(c, p), p # "idle",
         Operation(p) # "idle", Complete(c, r)
  PROVE  Port!End(c, r) /\ PortOp[c] = Operation(p)
BY PortEnds, Zenon DEF Runs, Complete

\* What happens within an operation is not seen.
LEMMA PortUnseen ==
  ASSUME TypeOK, NEW c \in Callers, phase[c] # "idle", NEW p, p # "idle",
         Operation(p) = Operation(phase[c]), phase' = [phase EXCEPT ![c] = p],
         \A d \in Callers : d # c => result'[d] = result[d]
  PROVE  PortOp' = PortOp /\ PortResult' = PortResult /\ PortOp[c] = Operation(phase[c])
<1>1. phase \in [Callers -> Phases]
  BY Zenon DEF TypeOK
<1>2. phase'[c] = p /\ \A d \in Callers : d # c => phase'[d] = phase[d]
  BY <1>1, Zenon
<1>3. PortOp' = PortOp
  <2>1. \A d \in Callers : Operation(phase'[d]) = Operation(phase[d])
    BY <1>2, Zenon
  <2> QED BY <2>1, Zenon DEF PortOp
<1>4. PortResult' = PortResult
  BY <1>2, Zenon DEF PortResult
<1> QED BY <1>3, <1>4, Zenon DEF PortOp

\* The steps that open and close the connection.
LEMMA OpenPort ==
  ASSUME Bounds, NEW c \in Callers, IInv, Line(c),
         do_connect(c) \/ resolve_failed(c) \/ on_connect(c) \/ do_close(c) \/ stop_worker(c)
  PROVE  Port!Drop(c) \/ Port!Ends(c)
<1>1. TypeOK /\ Stands(c)
  BY Zenon DEF IInv, Line
<1>2. CASE do_connect(c) \/ do_close(c)
  <2>1. PICK p \in {"connecting", "stopping"} :
             /\ phase' = [phase EXCEPT ![c] = p] /\ Operation(p) = Operation(phase[c])
             /\ Operation(phase[c]) \in {"connect", "close"} /\ phase[c] # "idle"
             /\ UNCHANGED <<serial, result, issued>> /\ connected' = FALSE
    BY <1>2, Operations, Zenon DEF do_connect, do_close, Runs, mark_disconnected
  <2>2. PortOp' = PortOp /\ PortResult' = PortResult /\ PortOp[c] = Operation(phase[c])
    BY <1>1, <2>1, PortUnseen, Zenon
  <2>3. is_connected' = FALSE
    BY <2>1, Zenon DEF is_connected
  <2> QED BY <2>1, <2>2, <2>3, Zenon DEF Port!Drop
<1>3. CASE resolve_failed(c)
  <2>1. Port!End(c, Failed("InvalidArgument")) /\ PortOp[c] = "connect"
    <3>1. Runs(c, "connect") /\ Complete(c, Failed("InvalidArgument"))
      BY <1>3, Zenon DEF resolve_failed
    <3> QED BY <1>1, <3>1, PortCompletes, Operations, Zenon
  <2>2. is_connected' = FALSE
    BY <1>3, Zenon DEF resolve_failed, is_connected
  <2> QED BY <2>1, <2>2, PortRecords, Zenon DEF Port!Ends, Port!NotConnected
<1>4. CASE on_connect(c) /\ Code = "ok"
  <2>1. Port!End(c, Succeeded) /\ PortOp[c] = "connect"
    <3>1. Runs(c, "connecting") /\ Complete(c, Succeeded)
      BY <1>4, Zenon DEF on_connect
    <3> QED BY <1>1, <3>1, PortCompletes, Operations, Zenon
  <2>2. is_connected' = TRUE
    <3>1. connected' = TRUE /\ is_open' = is_open /\ phase[c] = "connecting"
      BY <1>4, Zenon DEF on_connect, Runs, socket
    <3>2. is_open
      BY <1>1, <3>1, Zenon DEF Stands
    <3> QED BY <3>1, <3>2 DEF is_connected
  <2> QED BY <2>1, <2>2, PortRecords, Zenon DEF Port!Ends, Port!Connected
<1>5. CASE on_connect(c) /\ Code # "ok"
  <2>1. PICK code \in {"Timeout", "Connection"} : FailedBy(Code) = Failed(code)
    BY Zenon DEF FailedBy
  <2>2. Port!End(c, Failed(code)) /\ PortOp[c] = "connect"
    <3>1. Runs(c, "connecting") /\ Complete(c, Failed(code))
      BY <1>5, <2>1, Zenon DEF on_connect
    <3> QED BY <1>1, <3>1, PortCompletes, Operations, Zenon
  <2>3. is_connected' = FALSE
    BY <1>5, Zenon DEF on_connect, mark_disconnected, is_connected
  <2> QED BY <2>2, <2>3, PortRecords, Zenon DEF Port!Ends, Port!NotConnected, Port!Disconnecting
<1>6. CASE stop_worker(c)
  <2>1. Port!End(c, Succeeded) /\ PortOp[c] = "close"
    BY <1>1, <1>6, PortEnds, Operations, Zenon DEF stop_worker
  <2>2. is_connected' = FALSE
    BY <1>1, <1>6, Zenon DEF stop_worker, Stands, is_connected
  <2> QED BY <2>1, <2>2, PortRecords, Zenon DEF Port!Ends, Port!Closed
<1> QED BY <1>2, <1>3, <1>4, <1>5, <1>6, Zenon

\* The steps of a transaction.
LEMMA LostPort ==
  ASSUME Bounds, NEW c \in Callers, IInv, NEW p \in {"start"} \cup Transacting, Runs(c, p),
         NEW code \in {"Timeout", "Connection"}, Complete(c, Failed(code)),
         is_connected' = FALSE
  PROVE  Port!Ends(c)
<1>1. TypeOK
  BY Zenon DEF IInv
<1>2. p # "idle" /\ Operation(p) = "transact"
  BY Operations, Zenon DEF Transacting
<1>3. Port!End(c, Failed(code)) /\ PortOp[c] = "transact"
  BY <1>1, <1>2, PortCompletes, Zenon
<1> QED BY <1>3, PortRecords, Zenon DEF Port!Ends, Port!Lost, Port!Disconnecting

LEMMA FinishLost ==
  ASSUME NEW c, NEW code \in {"Timeout", "Connection"}, finish(c, Failed(code))
  PROVE  Complete(c, Failed(code)) /\ is_connected' = FALSE
<1>1. Failed(code).kind = code
  BY FailKinds, Zenon
<1> QED BY <1>1, Zenon DEF finish, mark_disconnected, is_connected

LEMMA StepPort ==
  ASSUME Bounds, NEW c \in Callers, IInv, NEW p \in {"start", "writing", "header"}, Runs(c, p),
         NEW q \in Transacting, phase' = [phase EXCEPT ![c] = q],
         \A d \in Callers : d # c => result'[d] = result[d],
         UNCHANGED <<serial, issued, connected, is_open>>
  PROVE  UNCHANGED Port!portVars
<1>1. TypeOK /\ phase[c] = p
  BY Zenon DEF IInv, Runs
<1>2. p # "idle" /\ q # "idle" /\ Operation(p) = Operation(q)
  BY Operations, Zenon DEF Transacting
<1>3. PortOp' = PortOp /\ PortResult' = PortResult
  BY <1>1, <1>2, PortUnseen, Zenon
<1>4. is_connected' = is_connected
  BY Zenon DEF is_connected
<1> QED BY <1>3, <1>4, Zenon DEF Port!portVars

LEMMA TransactPort ==
  ASSUME Bounds, NEW c \in Callers, IInv, Line(c),
         do_transact(c) \/ on_write(c) \/ on_header(c) \/ on_body(c)
  PROVE  Port!Ends(c) \/ UNCHANGED Port!portVars
<1>1. /\ TypeOK /\ Stands(c) /\ Owns(c)
      /\ \A p : Runs(c, p) =>
           Fits(Head(strand), phase[c], serial[c], stream, requests, half)
  BY LineFacts, Zenon DEF IInv
<1>2. /\ \A ec : \E code \in {"Timeout", "Connection"} : FailedBy(ec) = Failed(code)
      /\ {"writing", "header", "body"} = Transacting
  BY Zenon DEF FailedBy, Transacting
<1>3. ASSUME NEW p \in Transacting, Runs(c, p), finish(c, FailedBy(Code))
      PROVE  Port!Ends(c)
  <2>1. PICK code \in {"Timeout", "Connection"} : FailedBy(Code) = Failed(code)
    BY <1>2, Zenon
  <2>2. Complete(c, Failed(code)) /\ is_connected' = FALSE
    BY <1>3, <2>1, FinishLost, Zenon
  <2> QED BY <1>3, <2>2, LostPort, Zenon
<1>4. CASE do_transact(c)
  <2>1. Runs(c, "start")
    BY <1>4, Zenon DEF do_transact
  <2>2. CASE ~is_connected
    <3>1. Complete(c, Failed("Connection")) /\ UNCHANGED <<connected, socket>>
      BY <1>4, <2>2, Zenon DEF do_transact
    <3>2. is_connected' = FALSE
      BY <2>2, <3>1, Zenon DEF is_connected, socket
    <3> QED BY <2>1, <3>1, <3>2, LostPort, Zenon
  <2>3. CASE is_connected
    <3>1. Proceed(c, "writing") /\ UNCHANGED is_open
      BY <1>4, <2>3, Zenon DEF do_transact
    <3> QED BY <1>2, <2>1, <3>1, StepPort, Zenon DEF Proceed
  <2> QED BY <2>2, <2>3, Zenon
<1>5. CASE on_write(c)
  <2>1. Runs(c, "writing")
    BY <1>5, Zenon DEF on_write
  <2>2. CASE Proceed(c, "header") /\ UNCHANGED is_open
    BY <1>2, <2>1, <2>2, StepPort, Zenon DEF Proceed
  <2> QED BY <1>2, <1>3, <1>5, <2>1, <2>2, Zenon DEF on_write
<1>6. CASE on_header(c)
  <2>1. Runs(c, "header") /\ phase[c] = "header"
    BY <1>6, Zenon DEF on_header, Runs
  <2>2. ~(Code = "ok" /\ BadLength)
    <3>1. Code = "ok" => Cell = HeaderOf(serial[c])
      BY <1>1, <2>1, Zenon DEF Fits, Code, Cell
    <3>2. HeaderOf(serial[c]).part = "header"
      BY DEF HeaderOf
    <3> QED BY <3>1, <3>2, Zenon DEF BadLength
  <2>3. CASE /\ phase' = [phase EXCEPT ![c] = "body"]
             /\ result' = [result EXCEPT ![c].header = Cell.op]
             /\ UNCHANGED <<serial, issued, connected, is_open>>
    <3>1. \A d \in Callers : d # c => result'[d] = result[d]
      BY <1>1, <2>3, Zenon DEF TypeOK
    <3> QED BY <1>2, <2>1, <2>3, <3>1, StepPort, Zenon
  <2> QED BY <1>2, <1>3, <1>6, <2>1, <2>2, <2>3, ZenonT(40) DEF on_header
<1>7. CASE on_body(c)
  <2>1. Runs(c, "body") /\ phase[c] = "body"
    BY <1>7, Zenon DEF on_body, Runs
  <2>2. is_connected /\ result[c].header = serial[c]
    BY <1>1, <1>2, <2>1, Zenon DEF Stands, Owns, is_connected
  <2>3. Code = "ok" => Cell.op = serial[c]
    <3>1. Code = "ok" => Cell = BodyOf(serial[c])
      BY <1>1, <2>1, Zenon DEF Fits, Code, Cell
    <3>2. BodyOf(serial[c]).op = serial[c]
      BY DEF BodyOf
    <3> QED BY <3>1, <3>2, Zenon
  <2>4. ASSUME NEW r, finish(c, r), r.kind \notin {"Timeout", "Connection"}
        PROVE  Port!End(c, r) /\ PortOp[c] = "transact" /\ is_connected' = is_connected
    <3>1. Complete(c, r) /\ UNCHANGED <<connected, socket>>
      BY <2>4, Zenon DEF finish
    <3>2. is_connected' = is_connected
      BY <3>1, Zenon DEF is_connected, socket
    <3> QED BY <1>1, <2>1, <3>1, <3>2, PortCompletes, Operations, Zenon
  <2>5. CASE finish(c, Failed("ModbusException"))
    <3>1. Failed("ModbusException").kind \notin {"Timeout", "Connection"}
      BY FailKinds, Zenon
    <3> QED BY <2>2, <2>4, <2>5, <3>1, PortRecords, Zenon DEF Port!Ends, Port!Answered, Port!Refusing
  <2>6. CASE Code = "ok" /\ finish(c, Answer(result[c].header, Cell.op))
    <3>1. Answer(result[c].header, Cell.op) = Answer(serial[c], serial[c])
      BY <2>2, <2>3, <2>6, Zenon
    <3>2. Answer(serial[c], serial[c]).kind \notin {"Timeout", "Connection"}
      BY FailKinds, Zenon
    <3>3. /\ Port!End(c, Answer(serial[c], serial[c])) /\ PortOp[c] = "transact"
          /\ is_connected' = is_connected
      BY <2>4, <2>6, <3>1, <3>2, Zenon
    <3> QED BY <2>2, <3>3, PortRecords, Zenon DEF Port!Ends, Port!Answered
  <2> QED BY <1>2, <1>3, <1>7, <2>1, <2>5, <2>6, ZenonT(40) DEF on_body
<1> QED BY <1>4, <1>5, <1>6, <1>7, Zenon

LEMMA NextPort ==
  ASSUME Bounds, IInv, IInv', Fresh, Lined, [Next]_vars, OneUser', malformed' = 0
  PROVE  [Port!Next]_(Port!portVars)
<1>1. PICK c \in Callers : Only(c)'
  BY Zenon DEF OneUser, Only
<1>2. Only(c) /\ Line(c) /\ TypeOK /\ Stands(c) /\ (~worker => ~connected)
  BY <1>1, OnlyBefore, Zenon DEF Lined, Line, IInv
<1>3. Port!Drop(c) \/ Port!Ends(c) => Port!Next
  BY Zenon DEF Port!Next
<1>4. ASSUME NEW p \in {"connect", "start", "close", "stopping"}, Call(c, p),
             is_connected' = is_connected
      PROVE  Port!Next
  <2>1. p # "idle" /\ Operation(p) \in {"connect", "transact", "close"}
    BY Operations, Zenon
  <2>2. Port!Begin(c, Operation(p))
    BY <1>2, <1>4, <2>1, PortBegins, Zenon
  <2> QED BY <2>1, <2>2, Zenon DEF Port!Next
<1>5. CASE async_connect(c) \/ async_transact(c) \/ close(c)
  <2>1. is_connected' = is_connected
    <3>1. CASE UNCHANGED <<connected, socket>>
      BY <3>1, Zenon DEF is_connected, socket
    <3>2. CASE ~worker /\ connected' = FALSE
      BY <1>2, <3>2 DEF is_connected
    <3> QED BY <1>5, <3>1, <3>2, Zenon DEF async_connect, async_transact, close
  <2> QED BY <1>4, <1>5, <2>1, Zenon DEF async_connect, async_transact, close
<1>6. ASSUME UNCHANGED <<phase, serial, result, issued, connected, is_open>>
      PROVE  UNCHANGED Port!portVars
  BY <1>6, Zenon DEF Port!portVars, PortOp, PortResult, is_connected
<1>7. CASE \E d \in Callers : on_deadline(d) \/ Expires(d)
  BY <1>6, <1>7, Zenon DEF on_deadline, Expires, network, socket
<1>8. CASE Worker(c) \/ stop_worker(c)
  BY <1>2, <1>3, <1>7, <1>8, OpenPort, TransactPort, Zenon DEF Worker
<1>9. CASE Network(c)
  BY <1>6, <1>9, Zenon DEF Network, Established, Refused, Sent, Received, network
<1>10. CASE Device /\ ~DeviceSendsBadHeader
  BY <1>6, <1>10, Zenon DEF Device, DeviceSendsHeader, DeviceSendsBody, DeviceCloses, network
<1>11. CASE UNCHANGED vars
  BY <1>6, <1>11, Zenon DEF vars, socket
<1> QED BY <1>1, <1>2, <1>5, <1>7, <1>8, <1>9, <1>10, <1>11, OnlyMoves, ZenonT(40)

-----------------------------------------------------------------------------
(* The continuations counted.                                              *)

INSTANCE FiniteSetTheorems

LEMMA SingleCounts ==
  ASSUME IInv
  PROVE  OneContinuation
<1> SUFFICES ASSUME NEW c \in Callers
             PROVE  Continuations(c) = IF phase[c] \in {"idle", "stopping"} THEN 0 ELSE 1
  BY Zenon DEF OneContinuation
<1> DEFINE W == {i \in DOMAIN waiting : waiting[i] = c}
           R == {i \in DOMAIN strand : strand[i].caller = c /\ ~strand[i].deadline}
<1>1. Continuations(c) = Cardinality(W) + Cardinality(R)
  BY ZenonT(40) DEF Continuations
<1>2. (\A i, j \in W : i = j) /\ (\A i, j \in R : i = j)
  BY DEF IInv, Single
<1>3. (W # {} <=> PendsIn(waiting, c)) /\ (R # {} <=> ReadyIn(strand, c))
  BY DEF PendsIn, ReadyIn
<1>4. ~(W # {} /\ R # {}) /\ (c \in InProgress <=> W # {} \/ R # {})
  BY <1>3, Zenon DEF IInv, Single
<1> HIDE DEF W, R
<1>5. ASSUME NEW T, \A i, j \in T : i = j
      PROVE  Cardinality(T) = IF T = {} THEN 0 ELSE 1
  <2>1. CASE T = {}
    BY <2>1, FS_EmptySet
  <2>2. CASE T # {}
    <3>1. PICK x \in T : TRUE
      BY <2>2
    <3>2. T = {x}
      BY <1>5, <3>1
    <3> QED BY <3>2, FS_Singleton, Zenon
  <2> QED BY <2>1, <2>2
<1>6. Cardinality(W) = (IF W = {} THEN 0 ELSE 1) /\ Cardinality(R) = IF R = {} THEN 0 ELSE 1
  BY <1>2, <1>5, Zenon
<1>7. c \in InProgress <=> phase[c] \notin {"idle", "stopping"}
  BY DEF InProgress
<1> QED BY <1>1, <1>4, <1>6, <1>7

\* However aborts, deadlines, completions and the calls of any number of callers
\* are queued: an operation in progress has exactly one continuation and a
\* finished one has none, so it is neither lost nor completed twice.
THEOREM TcpOneContinuation == ASSUME Bounds PROVE Spec => []OneContinuation
<1>1. IInv => OneContinuation
  BY SingleCounts, Zenon
<1> QED BY <1>1, TcpIInv, PTL

LEMMA TcpLined == ASSUME Bounds PROVE Spec => [](Fresh /\ Lined)
<1>1. Init => Fresh /\ Lined
  BY InitLined, Zenon
<1>2. IInv /\ IInv' /\ Fresh /\ Lined /\ [Next]_vars => Fresh' /\ Lined'
  BY NextLined, Zenon
<1> QED BY <1>1, <1>2, TcpIInv, PTL DEF Spec

\* Operations are neither lost nor completed twice, a pending attempt has its
\* deadline, and with one caller and a device that sends no bad header every
\* transaction completes with the answer to its own request and leaves nothing on
\* a connection that stays usable, whatever is cut short and in whatever order.
THEOREM TcpIsOrderly == ASSUME Bounds PROVE Spec => []TcpOrderly
<1>1. IInv /\ Fresh /\ Lined /\ ConnectHasDeadline => TcpOrderly
  BY SingleCounts, LinedOrderly, ZenonT(40) DEF TcpOrderly
<1> QED BY <1>1, TcpIInv, TcpLined, TcpConnectHasDeadline, PTL

\* To its only caller, while the device sends no bad header, the transport is the
\* port that its users rely on: what a handler, an abort or a deadline does is a
\* step of the port or is not seen.
THEOREM TcpKeepsPort ==
  ASSUME Bounds
  PROVE  Spec /\ [](OneUser /\ malformed = 0) => Port!Init /\ [][Port!Next]_(Port!portVars)
<1>1. Init => Port!Init
  <2> SUFFICES ASSUME Init PROVE Port!Init
    BY Zenon
  <2>1. PortOp = [c \in Callers |-> "idle"]
    <3>1. \A c \in Callers : Operation(phase[c]) = "idle"
      BY Operations, Zenon DEF Init
    <3> QED BY <3>1, Zenon DEF PortOp
  <2>2. PortResult = [c \in Callers |-> Nothing]
    <3>1. \A c \in Callers : result[c] = Nothing
      BY Zenon DEF Init
    <3> QED BY <3>1, Zenon DEF PortResult
  <2>3. is_connected = FALSE
    BY Zenon DEF Init, is_connected
  <2> QED BY <2>1, <2>2, <2>3, PortRecords, ZenonT(40) DEF Init, Port!Init
<1>2. IInv /\ IInv' /\ Fresh /\ Lined /\ (OneUser /\ malformed = 0)' /\ [Next]_vars =>
        [Port!Next]_(Port!portVars)
  BY NextPort, Zenon
<1> QED BY <1>1, <1>2, TcpIInv, TcpLined, PTL DEF Spec
=============================================================================

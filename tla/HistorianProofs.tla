--------------------------- MODULE HistorianProofs ---------------------------
(***************************************************************************)
(* The historian for every capacity, any number of recorders and flushes,  *)
(* and however many samples, failures and restarts: the hot ring holds the *)
(* last samples, and every sample is in one place.                         *)
(***************************************************************************)
EXTENDS Historian, TLAPS

USE SMTT(60)

-----------------------------------------------------------------------------
(* The hot ring for every capacity and any number of samples.              *)

\* The cell that was written i records ago.
Back(i) == IF i <= head THEN head - i ELSE head + cap - i

RingOK ==
  /\ serial \in Nat /\ first \in Nat /\ dropped \in Nat
  /\ head \in 0..(cap - 1) /\ count \in 0..cap
  /\ buffer \in [0..(cap - 1) -> Nat]
  /\ count + dropped = serial + 1 - first
  /\ \A i \in 1..count : buffer[Back(i)] = serial + 1 - i

LEMMA CapType == cap \in Nat \ {0}
BY CapacityAssumption DEF cap

LEMMA ModOnce ==
  ASSUME NEW c \in Nat \ {0}, NEW a \in Nat, a < c + c
  PROVE  a % c = IF a < c THEN a ELSE a - c
OBVIOUS

\* Cells are in the ring, and different for different ages.
LEMMA BackCells ==
  ASSUME RingOK, NEW i \in 1..cap
  PROVE  /\ Back(i) \in 0..(cap - 1)
         /\ (head + cap - i) % cap = Back(i)
         /\ \A j \in 1..cap : Back(i) = Back(j) => i = j
         /\ Back(i) = head => i = cap
<1> DEFINE a == head + cap - i
<1>1. a \in Nat /\ a < cap + cap
  BY CapType DEF RingOK
<1>2. a % cap = IF a < cap THEN a ELSE a - cap
  <2> HIDE DEF a
  <2> QED BY <1>1, ModOnce, CapType, Zenon
<1> QED BY <1>2, CapType DEF RingOK, Back

-----------------------------------------------------------------------------
LEMMA RingInit == Init => RingOK
BY CapType DEF Init, RingOK

\* The sample takes the place of the oldest, and every other is one older.
LEMMA RecordRing ==
  ASSUME RingOK, NEW r \in Recorders, record_hot(r)
  PROVE  RingOK'
<1>1. head' = IF head + 1 < cap THEN head + 1 ELSE 0
  <2> DEFINE a == head + 1
  <2>1. a \in Nat /\ a < cap + cap /\ a <= cap
    BY CapType DEF RingOK
  <2>2. a % cap = IF a < cap THEN a ELSE a - cap
    <3> HIDE DEF a
    <3> QED BY <2>1, ModOnce, CapType, Zenon
  <2>3. head' = a % cap
    BY DEF record_hot
  <2> QED BY <2>1, <2>2, <2>3, CapType
<1>2. /\ serial' = serial + 1 /\ first' = first
      /\ count' = (IF count = cap THEN cap ELSE count + 1)
      /\ dropped' = (IF count = cap THEN dropped + 1 ELSE dropped)
  BY DEF record_hot
<1>3. buffer' = [buffer EXCEPT ![head] = serial'] /\ head \in 0..(cap - 1)
  BY DEF record_hot, RingOK
<1>4. Back(1)' = head /\ \A i \in 2..cap : Back(i)' = Back(i - 1)
  BY <1>1, CapType DEF Back, RingOK
<1>5. ASSUME NEW i \in 1..count' PROVE buffer'[Back(i)'] = serial' + 1 - i
  <2>1. CASE i = 1
    BY <1>2, <1>3, <1>4, <2>1 DEF RingOK
  <2>2. CASE i # 1
    <3>1. i \in 2..cap /\ i - 1 \in 1..count /\ i - 1 \in 1..cap /\ i - 1 # cap
      BY <1>2, <2>2, CapType DEF RingOK
    <3>2. Back(i - 1) \in 0..(cap - 1) /\ Back(i - 1) # head
      BY <3>1, BackCells
    <3>3. buffer'[Back(i - 1)] = buffer[Back(i - 1)]
      BY <1>3, <3>2 DEF RingOK
    <3>4. buffer[Back(i - 1)] = serial + 1 - (i - 1)
      BY <3>1 DEF RingOK
    <3> QED BY <1>2, <1>4, <3>1, <3>3, <3>4 DEF RingOK
  <2> QED BY <2>1, <2>2
<1>6. buffer' \in [0..(cap - 1) -> Nat]
  BY <1>2, <1>3 DEF RingOK
<1>7. head' \in 0..(cap - 1) /\ count' \in 0..cap
  BY <1>1, <1>2, CapType DEF RingOK
<1>8. /\ serial' \in Nat /\ first' \in Nat /\ dropped' \in Nat
      /\ count' + dropped' = serial' + 1 - first'
  BY <1>2, CapType DEF RingOK
<1> QED BY <1>5, <1>6, <1>7, <1>8 DEF RingOK

LEMMA NextRing == RingOK /\ [Next]_vars => RingOK'
<1> SUFFICES ASSUME RingOK, [Next]_vars PROVE RingOK'
  OBVIOUS
<1>1. CASE Record
  BY <1>1, RecordRing DEF Record
<1>2. CASE restart
  BY <1>2, CapType DEF restart, RingOK
<1>3. CASE UNCHANGED <<serial, first, ring>>
  BY <1>3 DEF ring, RingOK, Back
<1>4. ASSUME NEW r \in Recorders, Queue(r)
      PROVE  UNCHANGED <<serial, first, ring>>
  BY <1>4 DEF Queue, record_pending
<1>5. ASSUME NEW f \in Flushers, Flush(f) \/ fail(f)
      PROVE  UNCHANGED <<serial, first, ring>>
  <2>1. CASE flush(f) \/ requeue(f)
    BY <2>1 DEF flush, requeue, Ungone
  <2>2. CASE no_insert(f) \/ begin(f) \/ insert(f)
    BY <2>2 DEF no_insert, begin, insert, Others
  <2>3. CASE commit(f) \/ fail(f)
    BY <2>3 DEF commit, fail, Others
  <2> QED BY <1>5, <2>1, <2>2, <2>3 DEF Flush
<1>6. UNCHANGED vars => UNCHANGED <<serial, first, ring>>
  BY DEF vars
<1> QED BY <1>1, <1>2, <1>3, <1>4, <1>5, <1>6 DEF Next

-----------------------------------------------------------------------------
LEMMA RecentIsLast ==
  ASSUME RingOK, NEW max \in Nat
  PROVE  recent(max) = [i \in 1..(IF max < count THEN max ELSE count) |-> serial + 1 - i]
<1> DEFINE n == IF max < count THEN max ELSE count
<1>1. ASSUME NEW i \in 1..n PROVE buffer[(head + cap - i) % cap] = serial + 1 - i
  <2>1. i \in 1..count /\ i \in 1..cap
    BY CapType DEF RingOK
  <2>2. (head + cap - i) % cap = Back(i)
    BY <2>1, BackCells
  <2> QED BY <2>1, <2>2 DEF RingOK
<1> QED BY <1>1 DEF recent

LEMMA SnapshotIsLast ==
  ASSUME RingOK
  PROVE  snapshot = [i \in 1..count |-> serial - count + i]
<1> DEFINE oldest == (head + cap - count) % cap
<1>1. oldest = IF head + cap - count < cap THEN head + cap - count ELSE head - count
  <2> DEFINE a == head + cap - count
  <2>1. a \in Nat /\ a < cap + cap
    BY CapType DEF RingOK
  <2>2. a % cap = IF a < cap THEN a ELSE a - cap
    <3> HIDE DEF a
    <3> QED BY <2>1, ModOnce, CapType, Zenon
  <2> QED BY <2>2, CapType DEF RingOK
<1>2. ASSUME NEW i \in 1..count
      PROVE  buffer[(oldest + i - 1) % cap] = serial - count + i
  <2> DEFINE j == count + 1 - i
  <2>1. j \in 1..count /\ j \in 1..cap
    BY CapType DEF RingOK
  <2>2. (oldest + i - 1) % cap = Back(j)
    <3> HIDE DEF oldest
    <3> DEFINE a == oldest + i - 1
    <3>1. a \in Nat /\ a < cap + cap
      BY <1>1, CapType DEF RingOK
    <3>2. a % cap = IF a < cap THEN a ELSE a - cap
      <4> HIDE DEF a
      <4> QED BY <3>1, ModOnce, CapType, Zenon
    <3> QED BY <1>1, <3>2, CapType DEF RingOK, Back
  <2>3. buffer[Back(j)] = serial + 1 - j
    BY <2>1 DEF RingOK
  <2> QED BY <2>2, <2>3 DEF RingOK
<1> QED BY <1>2 DEF snapshot

LEMMA RingIsLast == RingOK => HotIsLast
<1> SUFFICES ASSUME RingOK PROVE HotIsLast
  OBVIOUS
<1>1. \A max \in 0..(cap + 1) :
        recent(max) = [i \in 1..(IF max < count THEN max ELSE count) |-> serial + 1 - i]
  BY RecentIsLast, CapType
<1>2. replay_recent(cap) = snapshot
  <2> DEFINE found == recent(cap)
  <2>1. found = [i \in 1..count |-> serial + 1 - i]
    BY RecentIsLast, CapType DEF RingOK
  <2>2. DOMAIN found = 1..count /\ Len(found) = count
    BY <2>1 DEF RingOK
  <2>3. \A i \in 1..count : found[count + 1 - i] = serial - count + i
    BY <2>1 DEF RingOK
  <2> HIDE DEF found
  <2>4. [i \in DOMAIN found |-> found[Len(found) + 1 - i]] =
          [i \in 1..count |-> serial - count + i]
    BY <2>2, <2>3
  <2> QED BY <2>4, SnapshotIsLast DEF replay_recent, found
<1>3. count + dropped = serial + 1 - first
  BY DEF RingOK
<1> QED BY <1>1, <1>2, <1>3, SnapshotIsLast DEF HotIsLast

\* For every capacity and however many samples are recorded, flushed or lost,
\* the ring holds the last ones in order: what RingHistorian::recent,
\* snapshot and replay_recent promise.
THEOREM RingHoldsLast == Spec => []HotIsLast
BY RingInit, NextRing, RingIsLast, PTL DEF Spec

-----------------------------------------------------------------------------
(* Sequences of different samples.                                         *)

Different(s) == \A i, j \in DOMAIN s : s[i] = s[j] => i = j

LEMMA ElementsFacts ==
  ASSUME NEW s \in Seq(Nat)
  PROVE  /\ Elements(s) \subseteq Nat
         /\ \A i \in DOMAIN s : s[i] \in Elements(s)
         /\ \A n \in Elements(s) : \E i \in DOMAIN s : s[i] = n
BY DEF Elements

LEMMA EmptyFacts == Elements(<<>>) = {} /\ Different(<<>>) /\ <<>> \in Seq(Nat)
BY DEF Elements, Different

LEMMA AddSample ==
  ASSUME NEW s \in Seq(Nat), NEW n \in Nat, Different(s), n \notin Elements(s)
  PROVE  /\ Append(s, n) \in Seq(Nat)
         /\ Different(Append(s, n))
         /\ Elements(Append(s, n)) = Elements(s) \cup {n}
<1> DEFINE t == Append(s, n)
<1>1. /\ t \in Seq(Nat) /\ DOMAIN t = 1..(Len(s) + 1) /\ DOMAIN s = 1..Len(s)
      /\ Len(s) \in Nat /\ t[Len(s) + 1] = n
      /\ \A i \in 1..Len(s) : t[i] = s[i]
  OBVIOUS
<1> HIDE DEF t
<1>2. \A i \in 1..Len(s) : s[i] # n
  BY <1>1, ElementsFacts
<1>3. Different(t)
  BY <1>1, <1>2 DEF Different
<1>4. Elements(t) = Elements(s) \cup {n}
  BY <1>1 DEF Elements
<1> QED BY <1>1, <1>3, <1>4, Zenon DEF t

\* u is s and then t.
Joins(u, s, t, m, n) ==
  /\ m \in Nat /\ n \in Nat
  /\ DOMAIN s = 1..m /\ DOMAIN t = 1..n /\ DOMAIN u = 1..(m + n)
  /\ \A i \in 1..m : u[i] = s[i]
  /\ \A i \in 1..n : u[i + m] = t[i]

Apart(s, t) == Elements(s) \cap Elements(t) = {}

LEMMA Joined ==
  ASSUME NEW m, NEW n, NEW s, NEW t, NEW u, Joins(u, s, t, m, n),
         Different(s), Different(t), Apart(s, t)
  PROVE  /\ Different(u)
         /\ Elements(u) = Elements(s) \cup Elements(t)
<1> USE DEF Joins
<1>1. \A i \in DOMAIN u : \/ i \in 1..m /\ u[i] = s[i]
                          \/ i - m \in 1..n /\ u[i] = t[i - m]
  <2> SUFFICES ASSUME NEW i \in 1..(m + n), ~(i \in 1..m)
               PROVE  i - m \in 1..n /\ u[i] = t[i - m]
    BY Zenon
  <2>1. i - m \in 1..n /\ (i - m) + m = i
    OBVIOUS
  <2> QED BY <2>1
<1>2. \A i \in 1..n : i + m \in 1..(m + n)
  OBVIOUS
<1>3. \A i \in 1..m : i \in 1..(m + n)
  OBVIOUS
<1>4. \A i \in 1..m, j \in 1..n : s[i] # t[j]
  BY Zenon DEF Elements, Apart
<1>5. Different(u)
  <2> SUFFICES ASSUME NEW i \in 1..(m + n), NEW j \in 1..(m + n), u[i] = u[j] PROVE i = j
    BY Zenon DEF Different
  <2>1. \/ i \in 1..m /\ u[i] = s[i]
        \/ i - m \in 1..n /\ u[i] = t[i - m]
    BY <1>1, Zenon
  <2>2. \/ j \in 1..m /\ u[j] = s[j]
        \/ j - m \in 1..n /\ u[j] = t[j - m]
    BY <1>1, Zenon
  <2>3. CASE i \in 1..m /\ u[i] = s[i] /\ j \in 1..m /\ u[j] = s[j]
    BY <2>3, Zenon DEF Different
  <2>4. CASE i - m \in 1..n /\ u[i] = t[i - m] /\ j - m \in 1..n /\ u[j] = t[j - m]
    <3>1. i - m = j - m
      BY <2>4, Zenon DEF Different
    <3> QED BY <3>1
  <2> QED BY <1>4, <2>1, <2>2, <2>3, <2>4, Zenon
<1>6. \A x : x \in Elements(u) <=> x \in Elements(s) \cup Elements(t)
  <2>1. ASSUME NEW x \in Elements(u) PROVE x \in Elements(s) \cup Elements(t)
    BY <1>1, <2>1, Zenon DEF Elements
  <2>2. ASSUME NEW x \in Elements(s) PROVE x \in Elements(u)
    BY <1>3, <2>2, Zenon DEF Elements
  <2>3. ASSUME NEW x \in Elements(t) PROVE x \in Elements(u)
    BY <1>2, <2>3, Zenon DEF Elements
  <2> QED BY <2>1, <2>2, <2>3, Zenon
<1> QED BY <1>5, <1>6, Zenon

LEMMA JoinSamples ==
  ASSUME NEW s \in Seq(Nat), NEW t \in Seq(Nat), Different(s), Different(t),
         Apart(s, t)
  PROVE  /\ s \o t \in Seq(Nat)
         /\ Different(s \o t)
         /\ Elements(s \o t) = Elements(s) \cup Elements(t)
<1> DEFINE u == s \o t
           m == Len(s)
           n == Len(t)
<1>1. u \in Seq(Nat) /\ Joins(u, s, t, m, n)
  BY DEF Joins
<1> HIDE DEF u, m, n
<1>2. Different(u) /\ Elements(u) = Elements(s) \cup Elements(t)
  BY <1>1, Joined
<1> QED BY <1>1, <1>2, Zenon DEF u

LEMMA CutSamples ==
  ASSUME NEW s \in Seq(Nat), Different(s), NEW k \in 0..Len(s)
  PROVE  /\ SubSeq(s, 1, k) \in Seq(Nat) /\ Different(SubSeq(s, 1, k))
         /\ Len(SubSeq(s, 1, k)) = k
         /\ SubSeq(s, k + 1, Len(s)) \in Seq(Nat) /\ Different(SubSeq(s, k + 1, Len(s)))
         /\ Elements(s) = Elements(SubSeq(s, 1, k)) \cup Elements(SubSeq(s, k + 1, Len(s)))
         /\ Apart(SubSeq(s, 1, k), SubSeq(s, k + 1, Len(s)))
<1> DEFINE u == SubSeq(s, 1, k)
           v == SubSeq(s, k + 1, Len(s))
           m == Len(s) - k
<1>1. /\ u \in Seq(Nat) /\ v \in Seq(Nat) /\ m \in Nat /\ k \in Nat
      /\ DOMAIN s = 1..(k + m) /\ DOMAIN u = 1..k /\ DOMAIN v = 1..m
      /\ Len(u) = k
      /\ \A i \in 1..k : s[i] = u[i] /\ i \in 1..(k + m)
      /\ \A i \in 1..m : s[i + k] = v[i] /\ i + k \in 1..(k + m)
  OBVIOUS
<1> HIDE DEF u, v, m
<1>2. Different(u)
  BY <1>1, Zenon DEF Different
<1>3. Different(v)
  <2> SUFFICES ASSUME NEW i \in 1..m, NEW j \in 1..m, v[i] = v[j] PROVE i = j
    BY <1>1, Zenon DEF Different
  <2>1. s[i + k] = s[j + k] /\ i + k \in DOMAIN s /\ j + k \in DOMAIN s
    BY <1>1, Zenon
  <2>2. i + k = j + k
    BY <2>1, Zenon DEF Different
  <2> QED BY <1>1, <2>2
<1>4. Apart(u, v)
  <2>1. ASSUME NEW i \in 1..k, NEW j \in 1..m, u[i] = v[j] PROVE FALSE
    <3>1. i = j + k
      BY <1>1, <2>1, Zenon DEF Different
    <3> QED BY <1>1, <3>1
  <2> SUFFICES ASSUME NEW x \in Elements(u), x \in Elements(v) PROVE FALSE
    BY Zenon DEF Apart
  <2>2. PICK i \in DOMAIN u : x = u[i]
    BY Zenon DEF Elements
  <2>3. PICK j \in DOMAIN v : x = v[j]
    BY Zenon DEF Elements
  <2> QED BY <1>1, <2>1, <2>2, <2>3, Zenon
<1>5. Elements(s) = Elements(u) \cup Elements(v)
  <2>1. Joins(s, u, v, k, m)
    BY <1>1, Zenon DEF Joins
  <2> QED BY <1>2, <1>3, <1>4, <2>1, Joined
<1> QED BY <1>1, <1>2, <1>3, <1>4, <1>5, Zenon DEF u, v

-----------------------------------------------------------------------------
(* Every sample is in one place.                                           *)

Batch(f) == flushing[f].batch
HeldSet == {held[r] : r \in Recorders}
Holders(n) == {f \in Flushers : n \in Elements(Batch(f))}

\* Held by a recorder, queued, in the batch of one flush, in the table or gone.
OneOf(h, q, b, t, g) ==
  \/ h /\ ~q /\ b = {} /\ ~t /\ ~g
  \/ ~h /\ q /\ b = {} /\ ~t /\ ~g
  \/ ~h /\ ~q /\ (\E f : b = {f}) /\ ~t /\ ~g
  \/ ~h /\ ~q /\ b = {} /\ t /\ ~g
  \/ ~h /\ ~q /\ b = {} /\ ~t /\ g

Placed(n) ==
  OneOf(n \in HeldSet, n \in Elements(pending), Holders(n), n \in Elements(samples), n \in gone)

Types ==
  /\ serial \in Nat /\ serial <= MaxRecords
  /\ first \in Nat /\ first # 0 /\ first <= serial + 1
  /\ held \in [Recorders -> Nat]
  /\ pending \in Seq(Nat) /\ samples \in Seq(Nat)
  /\ flushing \in [Flushers -> [at : Places, batch : Seq(Nat)]]
  /\ txn \in [owner : Flushers \cup {NoOwner}, rows : Seq(Nat)]

\* What is not in the table yet is of this process.
Ranges ==
  /\ \A r \in Recorders : held[r] # 0 => held[r] \in first..serial
  /\ Elements(pending) \subseteq first..serial
  /\ \A f \in Flushers : Elements(Batch(f)) \subseteq first..serial
  /\ Elements(samples) \subseteq 1..serial
  /\ gone \subseteq 1..serial

NoneTwice ==
  /\ \A r, q \in Recorders : held[r] = held[q] /\ held[r] # 0 => r = q
  /\ Different(pending) /\ Different(samples)
  /\ \A f \in Flushers : Different(Batch(f))

\* The transaction is of the flush that inserts, and has the first of its batch.
Prefix(s, t) == Len(s) <= Len(t) /\ \A i \in 1..Len(s) : s[i] = t[i]
Transaction ==
  \A f \in Flushers :
    /\ flushing[f].at = "idle" => Batch(f) = <<>>
    /\ flushing[f].at = "inserting" => txn.owner = f /\ Prefix(txn.rows, Batch(f))

Kept ==
  /\ Types /\ Ranges /\ NoneTwice /\ Transaction
  /\ \A n \in 1..serial : Placed(n)

LEMMA BatchType ==
  ASSUME Types, NEW f \in Flushers
  PROVE  Batch(f) \in Seq(Nat) /\ flushing[f].at \in Places
BY Zenon DEF Types, Batch

\* A flush goes on, or has another batch.
LEMMA GoesOn ==
  ASSUME Types, NEW f \in Flushers, NEW place \in Places, Goes(f, place)
  PROVE  /\ flushing' \in [Flushers -> [at : Places, batch : Seq(Nat)]]
         /\ \A g \in Flushers : Batch(g)' = Batch(g)
         /\ \A g \in Flushers : g # f => flushing'[g].at = flushing[g].at
         /\ flushing'[f].at = place
<1>1. flushing \in [Flushers -> [at : Places, batch : Seq(Nat)]]
  BY Zenon DEF Types
<1>2. flushing' = [flushing EXCEPT ![f].at = place]
  BY Zenon DEF Goes
<1>3. flushing'[f] = [flushing[f] EXCEPT !.at = place] /\ DOMAIN flushing' = Flushers
  BY <1>1, <1>2, Zenon
<1>4. \A g \in Flushers : g # f => flushing'[g] = flushing[g]
  BY <1>1, <1>2, Zenon
<1>5. flushing[f] \in [at : Places, batch : Seq(Nat)]
  BY <1>1, Zenon
<1>6. /\ flushing'[f] \in [at : Places, batch : Seq(Nat)]
      /\ flushing'[f].at = place /\ flushing'[f].batch = flushing[f].batch
  BY <1>3, <1>5
<1>7. flushing' \in [Flushers -> [at : Places, batch : Seq(Nat)]]
  BY <1>1, <1>2, <1>3, <1>4, <1>6
<1> QED BY <1>4, <1>6, <1>7, Zenon DEF Batch

LEMMA TakesOn ==
  ASSUME Types, NEW f \in Flushers, NEW place \in Places, NEW b \in Seq(Nat),
         flushing' = [flushing EXCEPT ![f] = [at |-> place, batch |-> b]]
  PROVE  /\ flushing' \in [Flushers -> [at : Places, batch : Seq(Nat)]]
         /\ Batch(f)' = b /\ flushing'[f].at = place
         /\ \A g \in Flushers : g # f => Batch(g)' = Batch(g) /\ flushing'[g].at = flushing[g].at
<1>1. flushing \in [Flushers -> [at : Places, batch : Seq(Nat)]]
  BY Zenon DEF Types
<1>2. flushing'[f] = [at |-> place, batch |-> b]
  BY <1>1, Zenon
<1>3. \A g \in Flushers : g # f => flushing'[g] = flushing[g]
  BY <1>1, Zenon
<1>4. [at |-> place, batch |-> b] \in [at : Places, batch : Seq(Nat)]
  BY Zenon
<1>5. flushing' \in [Flushers -> [at : Places, batch : Seq(Nat)]]
  BY <1>1, <1>4
<1> QED BY <1>2, <1>3, <1>5 DEF Batch

\* The flushes that have a sample, when the batch of f is another.
LEMMA HoldersStep ==
  ASSUME NEW f \in Flushers, NEW n, \A g \in Flushers : g # f => Batch(g)' = Batch(g)
  PROVE  /\ n \in Elements(Batch(f)') => Holders(n)' = Holders(n) \cup {f}
         /\ n \notin Elements(Batch(f)') => Holders(n)' = Holders(n) \ {f}
BY Zenon DEF Holders

\* Nothing moves.
LEMMA NothingMoves ==
  ASSUME Kept, Types', Transaction', UNCHANGED <<serial, first, held, pending, samples, gone>>,
         \A g \in Flushers : Batch(g)' = Batch(g)
  PROVE  Kept'
<1>1. Ranges' /\ NoneTwice'
  BY Zenon DEF Kept, Ranges, NoneTwice
<1>2. HeldSet' = HeldSet /\ \A n : Holders(n)' = Holders(n)
  BY Zenon DEF HeldSet, Holders
<1>3. \A n \in 1..serial : Placed(n)'
  BY <1>2, Zenon DEF Kept, Placed
<1> QED BY <1>1, <1>3, Zenon DEF Kept

-----------------------------------------------------------------------------
LEMMA InitKept == Init => Kept
<1> SUFFICES ASSUME Init PROVE Kept
  BY Zenon
<1>1. /\ serial = 0 /\ first = 1 /\ pending = <<>> /\ samples = <<>> /\ gone = {}
      /\ \A r \in Recorders : held[r] = 0
      /\ \A f \in Flushers : flushing[f] = Idle
  BY Zenon DEF Init
<1>2. \A f \in Flushers : Batch(f) = <<>> /\ flushing[f].at = "idle"
  BY <1>1 DEF Batch, Idle
<1>3. Types
  <2>1. Idle \in [at : Places, batch : Seq(Nat)]
    BY EmptyFacts, Zenon DEF Idle, Places
  <2>2. flushing \in [Flushers -> [at : Places, batch : Seq(Nat)]]
    BY <2>1, Zenon DEF Init
  <2>3. txn \in [owner : Flushers \cup {NoOwner}, rows : Seq(Nat)]
    BY EmptyFacts, Zenon DEF Init, NoTransaction
  <2>4. held \in [Recorders -> Nat]
    BY DEF Init
  <2>5. /\ serial \in Nat /\ serial <= MaxRecords
        /\ first \in Nat /\ first # 0 /\ first <= serial + 1
    BY <1>1, BoundsAssumption
  <2> QED BY <1>1, <2>2, <2>3, <2>4, <2>5, EmptyFacts, Zenon DEF Types
<1>4. Ranges /\ NoneTwice
  BY <1>1, <1>2, EmptyFacts, Zenon DEF Ranges, NoneTwice
<1>5. Transaction
  <2>1. "idle" # "inserting"
    OBVIOUS
  <2> QED BY <1>2, <2>1, Zenon DEF Transaction
<1>6. 1..serial = {}
  BY <1>1
<1> QED BY <1>3, <1>4, <1>5, <1>6, Zenon DEF Kept

LEMMA RecordKept ==
  ASSUME Kept, NEW r \in Recorders, record_hot(r)
  PROVE  Kept'
<1> DEFINE new == serial + 1
<1>1. /\ serial \in Nat /\ first \in Nat /\ first # 0 /\ first <= serial + 1
      /\ held \in [Recorders -> Nat] /\ held[r] = 0
  BY Zenon DEF Kept, Types, record_hot
<1>2. /\ serial' = new /\ held' = [held EXCEPT ![r] = new] /\ serial < MaxRecords
      /\ UNCHANGED <<first, pending, flushing, txn, samples, gone>>
  BY Zenon DEF record_hot, database
<1>3. /\ new \in Nat /\ new # 0 /\ new <= MaxRecords /\ first <= new + 1
      /\ new \in first..new /\ new \notin 1..serial /\ new \notin first..serial
      /\ \A n \in 1..new : n \in 1..serial \/ n = new
      /\ first..serial \subseteq first..new /\ 1..serial \subseteq 1..new
  BY <1>1, <1>2, BoundsAssumption
<1> HIDE DEF new
<1>4. /\ held' \in [Recorders -> Nat] /\ held'[r] = new
      /\ \A q \in Recorders : q # r => held'[q] = held[q]
  BY <1>1, <1>2, <1>3, Zenon
<1>5. \A f \in Flushers : Batch(f)' = Batch(f)
  BY <1>2, Zenon DEF Batch
<1>6. Types'
  BY <1>2, <1>3, <1>4, Zenon DEF Kept, Types
<1>7. Ranges'
  BY <1>2, <1>3, <1>4, <1>5, Zenon DEF Kept, Ranges
<1>8. NoneTwice'
  <2>1. \A q \in Recorders : held[q] # new
    BY <1>3, Zenon DEF Kept, Ranges
  <2> QED BY <1>2, <1>4, <1>5, <2>1, Zenon DEF Kept, NoneTwice
<1>9. Transaction'
  BY <1>2, <1>5, Zenon DEF Kept, Transaction
<1>10. ASSUME NEW n \in 1..serial PROVE Placed(n)'
  <2>1. n # new /\ n # 0
    BY <1>1, <1>3
  <2>2. n \in HeldSet' <=> n \in HeldSet
    BY <1>1, <1>4, <2>1, Zenon DEF HeldSet
  <2>3. Holders(n)' = Holders(n)
    BY <1>5, Zenon DEF Holders
  <2> QED BY <1>2, <2>2, <2>3, Zenon DEF Kept, Placed, OneOf
<1>11. ASSUME NEW n, n = new PROVE Placed(n)'
  <2>1. n \in HeldSet'
    BY <1>4, <1>11, Zenon DEF HeldSet
  <2>2. Holders(n)' = {}
    <3>1. \A f \in Flushers : n \notin Elements(Batch(f))
      BY <1>3, <1>11, Zenon DEF Kept, Ranges
    <3> QED BY <1>5, <3>1, Zenon DEF Holders
  <2>3. n \notin Elements(pending') /\ n \notin Elements(samples') /\ n \notin gone'
    BY <1>2, <1>3, <1>11, Zenon DEF Kept, Ranges
  <2> QED BY <2>1, <2>2, <2>3, Zenon DEF Placed, OneOf
<1>12. \A n \in 1..serial' : Placed(n)'
  BY <1>2, <1>3, <1>10, <1>11, Zenon
<1> QED BY <1>6, <1>7, <1>8, <1>9, <1>12, Zenon DEF Kept

LEMMA QueueKept ==
  ASSUME Kept, NEW r \in Recorders, record_pending(r)
  PROVE  Kept'
<1> DEFINE x == held[r]
<1>1. /\ held \in [Recorders -> Nat] /\ x # 0 /\ x \in Nat /\ pending \in Seq(Nat)
      /\ serial \in Nat /\ first \in Nat /\ first # 0
  BY Zenon DEF Kept, Types, record_pending
<1>2. /\ pending' = Append(pending, x) /\ held' = [held EXCEPT ![r] = 0]
      /\ UNCHANGED <<serial, first, flushing, txn, samples, gone>>
  BY Zenon DEF record_pending, database
<1>3. x \in first..serial
  BY <1>1, Zenon DEF Kept, Ranges
<1>4. x \in 1..serial
  BY <1>1, <1>3
<1>5. x \in HeldSet
  BY Zenon DEF HeldSet
<1>6. x \notin Elements(pending) /\ Holders(x) = {} /\ x \notin Elements(samples) /\ x \notin gone
  BY <1>4, <1>5, Zenon DEF Kept, Placed, OneOf
<1>7. /\ held' \in [Recorders -> Nat] /\ held'[r] = 0
      /\ \A q \in Recorders : q # r => held'[q] = held[q]
  BY <1>1, <1>2, Zenon
<1>8. Different(pending)
  BY Zenon DEF Kept, NoneTwice
<1>9. /\ pending' \in Seq(Nat) /\ Different(pending')
      /\ Elements(pending') = Elements(pending) \cup {x}
  <2> HIDE DEF x
  <2> QED BY <1>1, <1>2, <1>6, <1>8, AddSample
<1>10. \A f \in Flushers : Batch(f)' = Batch(f)
  BY <1>2, Zenon DEF Batch
<1>11. Types'
  BY <1>2, <1>7, <1>9, Zenon DEF Kept, Types
<1>12. Ranges'
  <2>1. \A q \in Recorders : held'[q] # 0 => held'[q] \in first..serial
    BY <1>7, Zenon DEF Kept, Ranges
  <2>2. Elements(pending') \subseteq first..serial
    BY <1>3, <1>9, Zenon DEF Kept, Ranges
  <2> QED BY <1>2, <1>10, <2>1, <2>2, Zenon DEF Kept, Ranges
<1>13. NoneTwice'
  <2>1. \A p, q \in Recorders : held'[p] = held'[q] /\ held'[p] # 0 => p = q
    BY <1>7, Zenon DEF Kept, NoneTwice
  <2> QED BY <1>2, <1>9, <1>10, <2>1, Zenon DEF Kept, NoneTwice
<1>14. Transaction'
  BY <1>2, <1>10, Zenon DEF Kept, Transaction
<1>15. ASSUME NEW n \in 1..serial PROVE Placed(n)'
  <2>1. n # 0
    BY <1>1
  <2>2. Holders(n)' = Holders(n)
    BY <1>10, Zenon DEF Holders
  <2>3. n \in HeldSet' <=> n \in HeldSet /\ n # x
    <3>1. \A q \in Recorders : held[q] = x => q = r
      BY <1>1, Zenon DEF Kept, NoneTwice
    <3> QED BY <1>7, <2>1, <3>1, Zenon DEF HeldSet
  <2>4. CASE n = x
    <3> HIDE DEF x
    <3> QED BY <1>2, <1>6, <1>9, <2>2, <2>3, <2>4, Zenon DEF Placed, OneOf
  <2>5. CASE n # x
    <3>1. n \in Elements(pending') <=> n \in Elements(pending)
      BY <1>9, <2>5, Zenon
    <3> QED BY <1>2, <2>2, <2>3, <2>5, <3>1, Zenon DEF Kept, Placed, OneOf
  <2> QED BY <2>4, <2>5, Zenon
<1> QED BY <1>2, <1>11, <1>12, <1>13, <1>14, <1>15, Zenon DEF Kept

LEMMA FlushKept ==
  ASSUME Kept, NEW f \in Flushers, flush(f)
  PROVE  Kept'
<1>1. /\ Types /\ pending \in Seq(Nat) /\ flushing[f].at = "idle" /\ "taken" \in Places
      /\ "taken" # "idle" /\ "taken" # "inserting"
  BY DEF Kept, Types, flush, Places
<1>2. /\ flushing' = [flushing EXCEPT ![f] = [at |-> "taken", batch |-> pending]]
      /\ pending' = <<>>
      /\ UNCHANGED <<serial, first, held, txn, samples, gone>>
  BY Zenon DEF flush
<1>3. /\ flushing' \in [Flushers -> [at : Places, batch : Seq(Nat)]]
      /\ Batch(f)' = pending /\ flushing'[f].at = "taken"
      /\ \A g \in Flushers : g # f => Batch(g)' = Batch(g) /\ flushing'[g].at = flushing[g].at
  <2> HIDE DEF Batch
  <2> QED BY <1>1, <1>2, TakesOn, Zenon
<1>4. Batch(f) = <<>>
  BY <1>1, Zenon DEF Kept, Transaction
<1>5. Types'
  BY <1>2, <1>3, EmptyFacts, Zenon DEF Kept, Types
<1>6. Ranges'
  BY <1>2, <1>3, EmptyFacts, Zenon DEF Kept, Ranges
<1>7. NoneTwice'
  BY <1>2, <1>3, EmptyFacts, Zenon DEF Kept, NoneTwice
<1>8. Transaction'
  BY <1>1, <1>2, <1>3, Zenon DEF Kept, Transaction
<1>9. ASSUME NEW n \in 1..serial PROVE Placed(n)'
  <2>1. n \in HeldSet' <=> n \in HeldSet
    BY <1>2, Zenon DEF HeldSet
  <2>2. f \notin Holders(n) /\ n \notin Elements(pending')
    BY <1>2, <1>4, EmptyFacts, Zenon DEF Holders
  <2>3. /\ n \in Elements(pending) => Holders(n)' = Holders(n) \cup {f}
        /\ n \notin Elements(pending) => Holders(n)' = Holders(n)
    <3>1. \A g \in Flushers : g # f => Batch(g)' = Batch(g)
      BY <1>3, Zenon
    <3>2. /\ n \in Elements(Batch(f)') => Holders(n)' = Holders(n) \cup {f}
          /\ n \notin Elements(Batch(f)') => Holders(n)' = Holders(n) \ {f}
      BY <3>1, HoldersStep
    <3>3. Batch(f)' = pending /\ Holders(n) \ {f} = Holders(n)
      BY <1>3, <2>2, Zenon
    <3> QED BY <3>2, <3>3, Zenon
  <2>4. Placed(n)
    BY Zenon DEF Kept
  <2>5. CASE n \in Elements(pending)
    <3>1. Holders(n)' = {f} /\ n \notin HeldSet /\ n \notin Elements(samples) /\ n \notin gone
      BY <2>3, <2>4, <2>5, Zenon DEF Placed, OneOf
    <3> QED BY <1>2, <2>1, <2>2, <3>1, Zenon DEF Placed, OneOf
  <2>6. CASE n \notin Elements(pending)
    BY <1>2, <2>1, <2>2, <2>3, <2>4, <2>6, Zenon DEF Placed, OneOf
  <2> QED BY <2>5, <2>6, Zenon
<1> QED BY <1>2, <1>5, <1>6, <1>7, <1>8, <1>9, Zenon DEF Kept

LEMMA PlacesDiffer ==
  /\ "idle" \in Places /\ "taken" \in Places /\ "inserting" \in Places /\ "failed" \in Places
  /\ "idle" # "inserting" /\ "idle" # "failed" /\ "failed" # "inserting"
BY DEF Places

\* The steps of a flush that move no sample.
LEMMA NoInsertKept ==
  ASSUME Kept, NEW f \in Flushers, no_insert(f)
  PROVE  Kept'
<1>1. /\ UNCHANGED <<serial, first, held, pending, samples, gone, txn>>
      /\ \/ Goes(f, "failed")
         \/ Goes(f, "idle") /\ Batch(f) = <<>>
  BY Zenon DEF no_insert, Others, Batch
<1>2. Types
  BY Zenon DEF Kept
<1>3. CASE Goes(f, "failed")
  <2>1. /\ flushing' \in [Flushers -> [at : Places, batch : Seq(Nat)]]
        /\ \A g \in Flushers : Batch(g)' = Batch(g)
        /\ \A g \in Flushers : g # f => flushing'[g].at = flushing[g].at
        /\ flushing'[f].at = "failed"
    BY <1>2, <1>3, GoesOn, PlacesDiffer
  <2>2. Types'
    BY <1>1, <1>2, <2>1, Zenon DEF Types
  <2>3. Transaction'
    BY <1>1, <2>1, PlacesDiffer, Zenon DEF Kept, Transaction
  <2> QED BY <1>1, <2>1, <2>2, <2>3, NothingMoves
<1>4. CASE Goes(f, "idle") /\ Batch(f) = <<>>
  <2>1. /\ flushing' \in [Flushers -> [at : Places, batch : Seq(Nat)]]
        /\ \A g \in Flushers : Batch(g)' = Batch(g)
        /\ \A g \in Flushers : g # f => flushing'[g].at = flushing[g].at
        /\ flushing'[f].at = "idle"
    BY <1>2, <1>4, GoesOn, PlacesDiffer
  <2>2. Types'
    BY <1>1, <1>2, <2>1, Zenon DEF Types
  <2>3. Transaction'
    BY <1>1, <1>4, <2>1, PlacesDiffer, Zenon DEF Kept, Transaction
  <2> QED BY <1>1, <2>1, <2>2, <2>3, NothingMoves
<1> QED BY <1>1, <1>3, <1>4, Zenon

\* No flush inserts outside its own transaction.
LEMMA OneInserts ==
  ASSUME Kept, NEW f \in Flushers,
         txn = NoTransaction \/ flushing[f].at = "inserting"
  PROVE  \A g \in Flushers : g # f => flushing[g].at # "inserting"
<1>1. NoTransaction.owner = NoOwner
  BY DEF NoTransaction
<1> QED BY <1>1, OwnerAssumption, Zenon DEF Kept, Transaction

LEMMA BeginKept ==
  ASSUME Kept, NEW f \in Flushers, begin(f)
  PROVE  Kept'
<1>1. /\ UNCHANGED <<serial, first, held, pending, samples, gone>>
      /\ \/ txn = NoTransaction /\ txn' = [owner |-> f, rows |-> <<>>] /\ Goes(f, "inserting")
         \/ txn' = txn /\ Goes(f, "failed")
  BY Zenon DEF begin, Others
<1>2. Types
  BY Zenon DEF Kept
<1>3. CASE txn = NoTransaction /\ txn' = [owner |-> f, rows |-> <<>>] /\ Goes(f, "inserting")
  <2>1. /\ flushing' \in [Flushers -> [at : Places, batch : Seq(Nat)]]
        /\ \A g \in Flushers : Batch(g)' = Batch(g)
        /\ \A g \in Flushers : g # f => flushing'[g].at = flushing[g].at
        /\ flushing'[f].at = "inserting"
    BY <1>2, <1>3, GoesOn, PlacesDiffer
  <2>2. /\ txn' \in [owner : Flushers \cup {NoOwner}, rows : Seq(Nat)]
        /\ txn'.owner = f /\ txn'.rows = <<>>
    BY <1>3, EmptyFacts
  <2>3. Types'
    BY <1>1, <1>2, <2>1, <2>2, Zenon DEF Types
  <2>4. Batch(f) \in Seq(Nat)
    BY <1>2, BatchType, Zenon
  <2>5. Prefix(<<>>, Batch(f))
    BY <2>4 DEF Prefix
  <2>6. \A g \in Flushers : g # f => flushing[g].at # "inserting"
    BY <1>3, OneInserts, Zenon
  <2>7. Transaction'
    BY <1>1, <2>1, <2>2, <2>5, <2>6, PlacesDiffer, ZenonT(40) DEF Kept, Transaction
  <2> QED BY <1>1, <2>1, <2>3, <2>7, NothingMoves
<1>4. CASE txn' = txn /\ Goes(f, "failed")
  <2>1. /\ flushing' \in [Flushers -> [at : Places, batch : Seq(Nat)]]
        /\ \A g \in Flushers : Batch(g)' = Batch(g)
        /\ \A g \in Flushers : g # f => flushing'[g].at = flushing[g].at
        /\ flushing'[f].at = "failed"
    BY <1>2, <1>4, GoesOn, PlacesDiffer
  <2>2. Types'
    BY <1>1, <1>2, <1>4, <2>1, Zenon DEF Types
  <2>3. Transaction'
    BY <1>1, <1>4, <2>1, PlacesDiffer, Zenon DEF Kept, Transaction
  <2> QED BY <1>1, <2>1, <2>2, <2>3, NothingMoves
<1> QED BY <1>1, <1>3, <1>4, Zenon

LEMMA FailKept ==
  ASSUME Kept, NEW f \in Flushers, fail(f)
  PROVE  Kept'
<1>1. /\ UNCHANGED <<serial, first, held, pending, samples, gone>>
      /\ Goes(f, "failed")
      /\ \/ txn' = txn
         \/ flushing[f].at = "inserting" /\ txn' = NoTransaction
  BY Zenon DEF fail, Others
<1>2. Types
  BY Zenon DEF Kept
<1>3. /\ flushing' \in [Flushers -> [at : Places, batch : Seq(Nat)]]
      /\ \A g \in Flushers : Batch(g)' = Batch(g)
      /\ \A g \in Flushers : g # f => flushing'[g].at = flushing[g].at
      /\ flushing'[f].at = "failed"
  BY <1>1, <1>2, GoesOn, PlacesDiffer
<1>4. NoTransaction \in [owner : Flushers \cup {NoOwner}, rows : Seq(Nat)]
  BY EmptyFacts, Zenon DEF NoTransaction
<1>5. Types'
  BY <1>1, <1>2, <1>3, <1>4, Zenon DEF Types
<1>6. Transaction'
  <2>1. CASE txn' = txn
    BY <1>1, <1>3, <2>1, PlacesDiffer, Zenon DEF Kept, Transaction
  <2>2. CASE flushing[f].at = "inserting"
    <3>1. \A g \in Flushers : g # f => flushing[g].at # "inserting"
      BY <2>2, OneInserts, Zenon
    <3> QED BY <1>1, <1>3, <3>1, PlacesDiffer, Zenon DEF Kept, Transaction
  <2> QED BY <1>1, <2>1, <2>2, Zenon
<1> QED BY <1>1, <1>3, <1>5, <1>6, NothingMoves

LEMMA RowsType ==
  ASSUME NEW O, NEW S, NEW t \in [owner : O, rows : S], NEW r \in S
  PROVE  [t EXCEPT !.rows = r] \in [owner : O, rows : S]
OBVIOUS

LEMMA InsertKept ==
  ASSUME Kept, NEW f \in Flushers, insert(f)
  PROVE  Kept'
<1> DEFINE b == Batch(f)
           rows == txn.rows
           row == b[Len(rows) + 1]
<1>1. /\ UNCHANGED <<serial, first, held, pending, samples, gone, flushing>>
      /\ flushing[f].at = "inserting" /\ Len(b) - Len(rows) > 0
      /\ txn' = [txn EXCEPT !.rows = Append(@, b[Len(@) + 1])]
  BY Zenon DEF insert, Others, Batch, Remaining
<1>2. /\ Types /\ b \in Seq(Nat) /\ rows \in Seq(Nat)
      /\ txn \in [owner : Flushers \cup {NoOwner}, rows : Seq(Nat)]
  BY BatchType, Zenon DEF Kept, Types
<1>3. Prefix(rows, b) /\ txn.owner = f
  BY <1>1, Zenon DEF Kept, Transaction
<1>4. txn'.owner = txn.owner /\ txn'.rows = Append(rows, row)
  BY <1>1, <1>2, Zenon
<1>a. txn' = [txn EXCEPT !.rows = Append(rows, row)]
  BY <1>1, <1>2, Zenon
<1> HIDE DEF b, rows
<1>5. Append(rows, row) \in Seq(Nat) /\ Prefix(Append(rows, row), b)
  BY <1>1, <1>2, <1>3 DEF Prefix
<1>6. txn' \in [owner : Flushers \cup {NoOwner}, rows : Seq(Nat)]
  <2>1. \A t \in Seq(Nat) :
          [txn EXCEPT !.rows = t] \in [owner : Flushers \cup {NoOwner}, rows : Seq(Nat)]
    BY <1>2, RowsType, Zenon
  <2> QED BY <1>a, <1>5, <2>1, Zenon
<1>7. \A g \in Flushers : Batch(g)' = Batch(g) /\ flushing'[g].at = flushing[g].at
  BY <1>1, Zenon DEF Batch
<1>8. Types'
  BY <1>1, <1>2, <1>6, Zenon DEF Types
<1>9. \A g \in Flushers : g # f => flushing[g].at # "inserting"
  BY <1>1, OneInserts, Zenon
<1>10. Transaction'
  <2>1. Prefix(txn'.rows, Batch(f)) /\ txn'.owner = f
    BY <1>3, <1>4, <1>5, Zenon DEF b
  <2> QED BY <1>7, <1>9, <2>1, Zenon DEF Kept, Transaction
<1> QED BY <1>1, <1>7, <1>8, <1>10, NothingMoves

-----------------------------------------------------------------------------
(* The steps that empty a batch.                                           *)

\* A sample of a batch is nowhere else.
LEMMA BatchApart ==
  ASSUME Kept, NEW f \in Flushers, NEW n \in Elements(Batch(f))
  PROVE  /\ n \in 1..serial /\ n >= first
         /\ Holders(n) = {f} /\ n \notin HeldSet /\ n \notin Elements(pending)
         /\ n \notin Elements(samples) /\ n \notin gone
<1>1. n \in first..serial
  BY Zenon DEF Kept, Ranges
<1>2. n \in 1..serial /\ n >= first
  BY <1>1 DEF Kept, Types
<1>3. f \in Holders(n)
  BY Zenon DEF Holders
<1>4. Placed(n)
  BY <1>2, Zenon DEF Kept
<1>5. PICK g : /\ Holders(n) = {g} /\ n \notin HeldSet /\ n \notin Elements(pending)
               /\ n \notin Elements(samples) /\ n \notin gone
  BY <1>3, <1>4, Zenon DEF Placed, OneOf
<1>6. g = f
  BY <1>3, <1>5, Zenon
<1> QED BY <1>2, <1>5, <1>6, Zenon

\* The flush f ends.
Ends(f) == flushing' = [flushing EXCEPT ![f] = Idle]

LEMMA EndsFacts ==
  ASSUME Types, NEW f \in Flushers, Ends(f)
  PROVE  /\ flushing' \in [Flushers -> [at : Places, batch : Seq(Nat)]]
         /\ Batch(f)' = <<>> /\ flushing'[f].at = "idle"
         /\ \A g \in Flushers : g # f => Batch(g)' = Batch(g) /\ flushing'[g].at = flushing[g].at
         /\ \A n : Holders(n)' = Holders(n) \ {f}
<1>1. flushing' = [flushing EXCEPT ![f] = [at |-> "idle", batch |-> <<>>]]
  BY Zenon DEF Ends, Idle
<1>2. /\ flushing' \in [Flushers -> [at : Places, batch : Seq(Nat)]]
      /\ Batch(f)' = <<>> /\ flushing'[f].at = "idle"
      /\ \A g \in Flushers : g # f => Batch(g)' = Batch(g) /\ flushing'[g].at = flushing[g].at
  BY <1>1, TakesOn, EmptyFacts, PlacesDiffer, Zenon
<1>3. \A n : Holders(n)' = Holders(n) \ {f}
  BY <1>2, EmptyFacts, Zenon DEF Holders
<1> QED BY <1>2, <1>3, Zenon

\* A transaction that commits has all of its batch.
LEMMA CommitRows ==
  ASSUME Kept, NEW f \in Flushers, commit(f)
  PROVE  txn.rows = Batch(f)
<1> DEFINE b == Batch(f)
           t == txn.rows
<1>1. flushing[f].at = "inserting" /\ Len(b) - Len(t) = 0
  BY Zenon DEF commit, Batch, Remaining
<1>2. b \in Seq(Nat) /\ t \in Seq(Nat)
  BY BatchType, Zenon DEF Kept, Types
<1>3. Prefix(t, b)
  BY <1>1, Zenon DEF Kept, Transaction
<1> HIDE DEF t, b
<1>4. t = b
  BY <1>1, <1>2, <1>3 DEF Prefix
<1> QED BY <1>4, Zenon DEF t, b

LEMMA CommitKept ==
  ASSUME Kept, NEW f \in Flushers, commit(f)
  PROVE  Kept'
<1> DEFINE b == Batch(f)
<1>1. /\ UNCHANGED <<serial, first, held, pending, gone>>
      /\ flushing[f].at = "inserting"
      /\ samples' = samples \o txn.rows /\ txn' = NoTransaction /\ Ends(f)
  BY Zenon DEF commit, Others, Batch, Remaining, Ends
<1>2. Types /\ b \in Seq(Nat) /\ samples \in Seq(Nat) /\ txn.rows \in Seq(Nat)
  BY BatchType, Zenon DEF Kept, Types
<1>3. txn.rows = b
  BY CommitRows, Zenon
<1>4. /\ flushing' \in [Flushers -> [at : Places, batch : Seq(Nat)]]
      /\ Batch(f)' = <<>> /\ flushing'[f].at = "idle"
      /\ \A g \in Flushers : g # f => Batch(g)' = Batch(g) /\ flushing'[g].at = flushing[g].at
      /\ \A n : Holders(n)' = Holders(n) \ {f}
  BY <1>1, <1>2, EndsFacts
<1>5. Different(samples) /\ Different(b) /\ Apart(samples, b)
  BY BatchApart, Zenon DEF Kept, NoneTwice, Apart
<1>6. /\ samples' \in Seq(Nat) /\ Different(samples')
      /\ Elements(samples') = Elements(samples) \cup Elements(b)
  <2> HIDE DEF b
  <2> QED BY <1>1, <1>2, <1>3, <1>5, JoinSamples
<1>7. NoTransaction \in [owner : Flushers \cup {NoOwner}, rows : Seq(Nat)]
  BY EmptyFacts, Zenon DEF NoTransaction
<1>8. Types'
  BY <1>1, <1>2, <1>4, <1>6, <1>7, Zenon DEF Types
<1>9. Ranges'
  <2>1. Elements(samples') \subseteq 1..serial
    BY <1>6, BatchApart, Zenon DEF Kept, Ranges
  <2>2. \A g \in Flushers : Elements(Batch(g)') \subseteq first..serial
    BY <1>4, EmptyFacts, Zenon DEF Kept, Ranges
  <2> QED BY <1>1, <2>1, <2>2, Zenon DEF Kept, Ranges
<1>10. NoneTwice'
  <2>1. \A g \in Flushers : Different(Batch(g)')
    BY <1>4, EmptyFacts, Zenon DEF Kept, NoneTwice
  <2> QED BY <1>1, <1>6, <2>1, Zenon DEF Kept, NoneTwice
<1>11. Transaction'
  <2>1. \A g \in Flushers : g # f => flushing[g].at # "inserting"
    BY <1>1, OneInserts, Zenon
  <2> QED BY <1>4, <2>1, PlacesDiffer, Zenon DEF Kept, Transaction
<1>12. ASSUME NEW n \in 1..serial PROVE Placed(n)'
  <2>1. n \in HeldSet' <=> n \in HeldSet
    BY <1>1, Zenon DEF HeldSet
  <2>2. CASE n \in Elements(b)
    <3>1. /\ Holders(n) = {f} /\ n \notin HeldSet /\ n \notin Elements(pending)
          /\ n \notin gone
      BY <2>2, BatchApart, Zenon
    <3>2. Holders(n)' = {} /\ n \in Elements(samples')
      BY <1>4, <1>6, <2>2, <3>1, Zenon
    <3> QED BY <1>1, <2>1, <3>1, <3>2, Zenon DEF Placed, OneOf
  <2>3. CASE n \notin Elements(b)
    <3>1. Holders(n)' = Holders(n)
      BY <1>4, <2>3, Zenon DEF Holders
    <3>2. n \in Elements(samples') <=> n \in Elements(samples)
      BY <1>6, <2>3, Zenon
    <3> QED BY <1>1, <2>1, <3>1, <3>2, Zenon DEF Kept, Placed, OneOf
  <2> QED BY <2>2, <2>3, Zenon
<1> QED BY <1>1, <1>8, <1>9, <1>10, <1>11, <1>12, Zenon DEF Kept

\* What requeue keeps and drops.
All(f) == Batch(f) \o pending
Drop(f) == IF Len(All(f)) > max_pending THEN Len(All(f)) - max_pending ELSE 0
Cut(f) == SubSeq(All(f), 1, Drop(f))
Rest(f) == SubSeq(All(f), Drop(f) + 1, Len(All(f)))

LEMMA RequeueFacts ==
  ASSUME Kept, NEW f \in Flushers
  PROVE  /\ Drop(f) \in Nat
         /\ Cut(f) \in Seq(Nat) /\ Different(Cut(f)) /\ Len(Cut(f)) = Drop(f)
         /\ Rest(f) \in Seq(Nat) /\ Different(Rest(f))
         /\ Apart(Cut(f), Rest(f))
         /\ Elements(Batch(f)) \cup Elements(pending) = Elements(Cut(f)) \cup Elements(Rest(f))
<1> DEFINE all == All(f)
           k == Drop(f)
<1>1. Batch(f) \in Seq(Nat) /\ pending \in Seq(Nat) /\ Different(Batch(f)) /\ Different(pending)
  BY BatchType, Zenon DEF Kept, Types, NoneTwice
<1>2. Apart(Batch(f), pending)
  BY BatchApart, Zenon DEF Apart
<1>3. /\ all \in Seq(Nat) /\ Different(all)
      /\ Elements(all) = Elements(Batch(f)) \cup Elements(pending)
  BY <1>1, <1>2, JoinSamples DEF All
<1>4. k \in 0..Len(all)
  <2>1. Len(all) \in Nat /\ max_pending \in Nat
    BY <1>3, CapType DEF max_pending
  <2> HIDE DEF all
  <2> QED BY <2>1 DEF Drop, all
<1>5. Cut(f) = SubSeq(all, 1, k) /\ Rest(f) = SubSeq(all, k + 1, Len(all)) /\ k \in Nat
  BY <1>3, <1>4 DEF Cut, Rest
<1> HIDE DEF all, k
<1>6. /\ SubSeq(all, 1, k) \in Seq(Nat) /\ Different(SubSeq(all, 1, k))
      /\ Len(SubSeq(all, 1, k)) = k
      /\ SubSeq(all, k + 1, Len(all)) \in Seq(Nat) /\ Different(SubSeq(all, k + 1, Len(all)))
      /\ Elements(all) = Elements(SubSeq(all, 1, k)) \cup Elements(SubSeq(all, k + 1, Len(all)))
      /\ Apart(SubSeq(all, 1, k), SubSeq(all, k + 1, Len(all)))
  BY <1>3, <1>4, CutSamples
<1> QED BY <1>3, <1>5, <1>6, Zenon DEF k

LEMMA RequeueKept ==
  ASSUME Kept, NEW f \in Flushers, requeue(f)
  PROVE  Kept'
<1> DEFINE b == Batch(f)
<1>1. /\ UNCHANGED <<serial, first, held, txn, samples>>
      /\ flushing[f].at = "failed" /\ Ends(f)
      /\ pending' = Rest(f) /\ gone' = gone \cup Elements(Cut(f))
  BY Zenon DEF requeue, Ungone, Batch, Ends, All, Drop, Cut, Rest
<1>2. Types /\ b \in Seq(Nat) /\ pending \in Seq(Nat)
  BY BatchType, Zenon DEF Kept, Types
<1>3. /\ Rest(f) \in Seq(Nat) /\ Different(Rest(f))
      /\ Apart(Cut(f), Rest(f))
      /\ Elements(b) \cup Elements(pending) = Elements(Cut(f)) \cup Elements(Rest(f))
  BY RequeueFacts, Zenon
<1>4. /\ flushing' \in [Flushers -> [at : Places, batch : Seq(Nat)]]
      /\ Batch(f)' = <<>> /\ flushing'[f].at = "idle"
      /\ \A g \in Flushers : g # f => Batch(g)' = Batch(g) /\ flushing'[g].at = flushing[g].at
      /\ \A n : Holders(n)' = Holders(n) \ {f}
  BY <1>1, <1>2, EndsFacts
<1>5. Types'
  BY <1>1, <1>2, <1>3, <1>4, Zenon DEF Types
<1>6. \A n \in Elements(b) \cup Elements(pending) : n \in first..serial /\ n \in 1..serial
  <2>1. \A n \in Elements(b) \cup Elements(pending) : n \in first..serial
    BY Zenon DEF Kept, Ranges
  <2>2. first..serial \subseteq 1..serial
    BY <1>2 DEF Types
  <2> QED BY <2>1, <2>2, Zenon
<1>7. Ranges'
  <2>1. Elements(pending') \subseteq first..serial
    BY <1>1, <1>3, <1>6, Zenon
  <2>2. \A g \in Flushers : Elements(Batch(g)') \subseteq first..serial
    BY <1>4, EmptyFacts, Zenon DEF Kept, Ranges
  <2>3. gone' \subseteq 1..serial
    BY <1>1, <1>3, <1>6, Zenon DEF Kept, Ranges
  <2> QED BY <1>1, <2>1, <2>2, <2>3, Zenon DEF Kept, Ranges
<1>8. NoneTwice'
  <2>1. \A g \in Flushers : Different(Batch(g)')
    BY <1>4, EmptyFacts, Zenon DEF Kept, NoneTwice
  <2> QED BY <1>1, <1>3, <2>1, Zenon DEF Kept, NoneTwice
<1>9. Transaction'
  BY <1>1, <1>4, PlacesDiffer, Zenon DEF Kept, Transaction
<1>10. ASSUME NEW n \in 1..serial PROVE Placed(n)'
  <2>1. n \in HeldSet' <=> n \in HeldSet
    BY <1>1, Zenon DEF HeldSet
  <2>2. Placed(n)
    BY Zenon DEF Kept
  <2>3. CASE n \in Elements(b) \cup Elements(pending)
    <3>1. /\ Holders(n) = {f} \/ Holders(n) = {}
          /\ n \notin HeldSet /\ n \notin Elements(samples) /\ n \notin gone
      <4>1. CASE n \in Elements(b)
        BY <4>1, BatchApart, Zenon
      <4>2. CASE n \in Elements(pending)
        BY <2>2, <4>2, Zenon DEF Placed, OneOf
      <4> QED BY <2>3, <4>1, <4>2, Zenon
    <3>2. Holders(n)' = {}
      BY <1>4, <3>1, Zenon
    <3>3. \/ n \in gone' /\ n \notin Elements(pending')
          \/ n \notin gone' /\ n \in Elements(pending')
      BY <1>1, <1>3, <2>3, <3>1, Zenon DEF Apart
    <3> QED BY <1>1, <2>1, <3>1, <3>2, <3>3, Zenon DEF Placed, OneOf
  <2>4. CASE n \notin Elements(b) \cup Elements(pending)
    <3>1. Holders(n)' = Holders(n)
      BY <1>4, <2>4, Zenon DEF Holders
    <3>2. /\ n \notin Elements(pending) /\ n \notin Elements(pending')
          /\ n \in gone' <=> n \in gone
      BY <1>1, <1>3, <2>4, Zenon
    <3> QED BY <1>1, <2>1, <2>2, <3>1, <3>2, Zenon DEF Placed, OneOf
  <2> QED BY <2>3, <2>4, Zenon
<1> QED BY <1>1, <1>5, <1>7, <1>8, <1>9, <1>10, Zenon DEF Kept

LEMMA RestartKept ==
  ASSUME Kept, restart
  PROVE  Kept' /\ \A n \in gone' : ~(n >= first')
<1>1. /\ first' = serial + 1 /\ pending' = <<>> /\ txn' = NoTransaction
      /\ \A r \in Recorders : held'[r] = 0
      /\ \A f \in Flushers : flushing'[f] = Idle
      /\ gone' = gone \cup {n \in Numbers : \E r \in Recorders : held[r] = n}
                      \cup Elements(pending)
                      \cup UNION {Elements(flushing[f].batch) : f \in Flushers}
      /\ UNCHANGED <<serial, samples>>
  BY Zenon DEF restart
<1>2. \A f \in Flushers : Batch(f)' = <<>> /\ flushing'[f].at = "idle"
  BY <1>1 DEF Batch, Idle
<1>3. /\ serial \in Nat /\ serial <= MaxRecords /\ first \in Nat /\ first # 0
  BY Zenon DEF Kept, Types
<1>4. Types'
  <2>1. Idle \in [at : Places, batch : Seq(Nat)]
    BY EmptyFacts, PlacesDiffer, Zenon DEF Idle
  <2>2. flushing' \in [Flushers -> [at : Places, batch : Seq(Nat)]]
    BY <2>1, Zenon DEF restart
  <2>3. txn' \in [owner : Flushers \cup {NoOwner}, rows : Seq(Nat)]
    BY <1>1, EmptyFacts, Zenon DEF NoTransaction
  <2>4. held' \in [Recorders -> Nat]
    BY DEF restart
  <2>5. first' \in Nat /\ first' # 0 /\ first' <= serial + 1
    BY <1>1, <1>3
  <2> QED BY <1>1, <2>2, <2>3, <2>4, <2>5, EmptyFacts, Zenon DEF Kept, Types
<1>5. \A n \in 1..serial :
        n \in gone' <=> \/ n \in gone \/ n \in HeldSet \/ n \in Elements(pending)
                        \/ Holders(n) # {}
  <2> SUFFICES ASSUME NEW n \in 1..serial
               PROVE  n \in gone' <=> \/ n \in gone \/ n \in HeldSet \/ n \in Elements(pending)
                                      \/ Holders(n) # {}
    BY Zenon
  <2>1. n \in Numbers
    BY <1>3, BoundsAssumption DEF Numbers
  <2>2. n \in HeldSet <=> n \in {m \in Numbers : \E r \in Recorders : held[r] = m}
    BY <2>1, Zenon DEF HeldSet
  <2>3. Holders(n) # {} <=> n \in UNION {Elements(flushing[f].batch) : f \in Flushers}
    BY Zenon DEF Holders, Batch
  <2> QED BY <1>1, <2>2, <2>3, Zenon
<1>6. gone' \subseteq 1..serial
  <2>1. first..serial \subseteq 1..serial /\ 0 \notin Numbers
    BY <1>3 DEF Numbers
  <2>2. ASSUME NEW n \in Numbers, NEW r \in Recorders, held[r] = n PROVE n \in 1..serial
    BY <2>1, <2>2, Zenon DEF Kept, Ranges
  <2>3. \A f \in Flushers : Elements(flushing[f].batch) \subseteq 1..serial
    BY <2>1, Zenon DEF Kept, Ranges, Batch
  <2>4. Elements(pending) \subseteq 1..serial /\ gone \subseteq 1..serial
    BY <2>1, Zenon DEF Kept, Ranges
  <2> QED BY <1>1, <2>2, <2>3, <2>4, Zenon
<1>7. Ranges' /\ NoneTwice'
  BY <1>1, <1>2, <1>6, EmptyFacts, Zenon DEF Kept, Ranges, NoneTwice
<1>8. Transaction'
  BY <1>2, PlacesDiffer, Zenon DEF Transaction
<1>9. ASSUME NEW n \in 1..serial PROVE Placed(n)'
  <2>1. n # 0
    BY <1>3
  <2>2. n \notin HeldSet'
    BY <1>1, <2>1, Zenon DEF HeldSet
  <2>3. Holders(n)' = {} /\ n \notin Elements(pending')
    BY <1>1, <1>2, EmptyFacts, Zenon DEF Holders
  <2>4. Placed(n)
    BY Zenon DEF Kept
  <2>5. n \in gone' <=> n \notin Elements(samples)
    BY <1>5, <2>4, Zenon DEF Placed, OneOf
  <2> QED BY <1>1, <2>2, <2>3, <2>5, Zenon DEF Placed, OneOf
<1>10. Kept'
  BY <1>1, <1>4, <1>7, <1>8, <1>9, Zenon DEF Kept
<1>11. \A n \in 1..serial : ~(n >= first')
  BY <1>1, <1>3
<1> QED BY <1>6, <1>10, <1>11, Zenon

LEMMA NextKept ==
  ASSUME Kept, [Next]_vars
  PROVE  Kept'
<1>1. ASSUME NEW r \in Recorders, record_hot(r) PROVE Kept'
  BY <1>1, RecordKept, Zenon
<1>2. ASSUME NEW r \in Recorders, Queue(r) PROVE Kept'
  BY <1>2, QueueKept, Zenon DEF Queue
<1>3. ASSUME NEW f \in Flushers, Flush(f) PROVE Kept'
  BY <1>3, FlushKept, NoInsertKept, BeginKept, InsertKept, CommitKept, RequeueKept, Zenon
     DEF Flush
<1>4. ASSUME NEW f \in Flushers, fail(f) PROVE Kept'
  BY <1>4, FailKept, Zenon
<1>5. CASE restart
  BY <1>5, RestartKept, Zenon
<1>6. CASE UNCHANGED vars
  <2>1. UNCHANGED <<serial, first, held, pending, samples, gone, flushing, txn>>
    BY <1>6, Zenon DEF vars, database
  <2>2. \A f \in Flushers : Batch(f)' = Batch(f)
    BY <2>1, Zenon DEF Batch
  <2>3. Types'
    BY <2>1, Zenon DEF Kept, Types
  <2>4. Transaction'
    BY <2>1, <2>2, Zenon DEF Kept, Transaction
  <2> QED BY <2>1, <2>2, <2>3, <2>4, NothingMoves
<1> QED BY <1>1, <1>2, <1>3, <1>4, <1>5, <1>6, Zenon DEF Next, Record

-----------------------------------------------------------------------------
(* The order of the samples of each recorder, where w says whose they are. *)

InOrder(s, w) ==
  \A i, j \in DOMAIN s : i < j /\ w[s[i]] = w[s[j]] => s[i] < s[j]
Before(s, t, w) ==
  \A m \in Elements(s), n \in Elements(t) : w[m] = w[n] => m < n

LEMMA EmptyOrder ==
  ASSUME NEW w, NEW s
  PROVE  InOrder(<<>>, w) /\ Before(<<>>, s, w) /\ Before(s, <<>>, w)
<1>1. DOMAIN <<>> = {}
  OBVIOUS
<1> QED BY <1>1, EmptyFacts, Zenon DEF InOrder, Before

LEMMA OrderAppend ==
  ASSUME NEW w, NEW s \in Seq(Nat), NEW x \in Nat, InOrder(s, w),
         \A n \in Elements(s) : w[n] = w[x] => n < x
  PROVE  InOrder(Append(s, x), w)
<1> DEFINE t == Append(s, x)
<1>1. /\ DOMAIN t = 1..(Len(s) + 1) /\ DOMAIN s = 1..Len(s)
      /\ Len(s) \in Nat /\ t[Len(s) + 1] = x
      /\ \A i \in 1..Len(s) : t[i] = s[i]
  OBVIOUS
<1> HIDE DEF t
<1> SUFFICES ASSUME NEW i \in DOMAIN t, NEW j \in DOMAIN t, i < j, w[t[i]] = w[t[j]]
             PROVE  t[i] < t[j]
  BY Zenon DEF InOrder, t
<1>2. i \in 1..Len(s) /\ (j \in 1..Len(s) \/ j = Len(s) + 1)
  BY <1>1
<1>3. t[i] = s[i] /\ s[i] \in Elements(s)
  BY <1>1, <1>2, Zenon DEF Elements
<1>4. CASE j \in 1..Len(s)
  <2>1. t[j] = s[j] /\ i \in DOMAIN s /\ j \in DOMAIN s
    BY <1>1, <1>2, <1>4, Zenon
  <2> QED BY <1>3, <2>1, Zenon DEF InOrder
<1>5. CASE j = Len(s) + 1
  BY <1>1, <1>3, <1>5, Zenon
<1> QED BY <1>2, <1>4, <1>5, Zenon

LEMMA OrderJoin ==
  ASSUME NEW w, NEW s \in Seq(Nat), NEW t \in Seq(Nat),
         InOrder(s, w), InOrder(t, w), Before(s, t, w)
  PROVE  InOrder(s \o t, w)
<1> DEFINE u == s \o t
           m == Len(s)
           n == Len(t)
<1>1. /\ m \in Nat /\ n \in Nat /\ DOMAIN s = 1..m /\ DOMAIN t = 1..n
      /\ DOMAIN u = 1..(m + n)
      /\ \A i \in 1..m : u[i] = s[i]
      /\ \A i \in 1..(m + n) : i \notin 1..m => i - m \in 1..n /\ u[i] = t[i - m]
  OBVIOUS
<1> HIDE DEF u, m, n
<1> SUFFICES ASSUME NEW i \in DOMAIN u, NEW j \in DOMAIN u, i < j, w[u[i]] = w[u[j]]
             PROVE  u[i] < u[j]
  BY Zenon DEF InOrder, u
<1>2. CASE i \in 1..m /\ j \in 1..m
  BY <1>1, <1>2, Zenon DEF InOrder
<1>3. CASE i \in 1..m /\ j \notin 1..m
  <2>1. u[i] \in Elements(s) /\ u[j] \in Elements(t)
    BY <1>1, <1>3, Zenon DEF Elements
  <2> QED BY <2>1, Zenon DEF Before
<1>4. CASE i \notin 1..m
  <2>1. j \notin 1..m /\ i - m < j - m
    BY <1>1, <1>4
  <2>2. i - m \in DOMAIN t /\ u[i] = t[i - m] /\ j - m \in DOMAIN t /\ u[j] = t[j - m]
    BY <1>1, <1>4, <2>1, Zenon
  <2> QED BY <2>1, <2>2, Zenon DEF InOrder
<1> QED BY <1>2, <1>3, <1>4, Zenon

LEMMA OrderCut ==
  ASSUME NEW w, NEW s \in Seq(Nat), InOrder(s, w), NEW k \in 0..Len(s)
  PROVE  InOrder(SubSeq(s, k + 1, Len(s)), w)
<1> DEFINE v == SubSeq(s, k + 1, Len(s))
           m == Len(s) - k
<1>1. /\ m \in Nat /\ k \in Nat /\ DOMAIN v = 1..m
      /\ \A i \in 1..m : v[i] = s[i + k] /\ i + k \in DOMAIN s
  OBVIOUS
<1> HIDE DEF v, m
<1> SUFFICES ASSUME NEW i \in 1..m, NEW j \in 1..m, i < j, w[v[i]] = w[v[j]]
             PROVE  v[i] < v[j]
  BY <1>1, Zenon DEF InOrder, v
<1>2. i + k < j + k
  BY <1>1
<1>3. v[i] = s[i + k] /\ i + k \in DOMAIN s /\ v[j] = s[j + k] /\ j + k \in DOMAIN s
  BY <1>1, Zenon
<1> QED BY <1>2, <1>3, Zenon DEF InOrder

\* Whose samples they are matters only for the samples there are.
Agree(w, v, N) == \A n \in N : v[n] = w[n]
Of(s, N) == Elements(s) \subseteq N

LEMMA OrderSame ==
  ASSUME NEW w, NEW v, NEW N, Agree(w, v, N), NEW s, Of(s, N), InOrder(s, w)
  PROVE  InOrder(s, v)
BY Zenon DEF InOrder, Elements, Agree, Of

LEMMA BeforeSame ==
  ASSUME NEW w, NEW v, NEW N, Agree(w, v, N), NEW s, Of(s, N), NEW t, Of(t, N),
         Before(s, t, w)
  PROVE  Before(s, t, v)
BY Zenon DEF Before, Agree, Of

-----------------------------------------------------------------------------
(* The table is in order while one endpoint flushes.                       *)

OneFlushes == \A f, g \in flushed : f = g

\* Samples go through a batch of the only flush, from queue to table.
InLine ==
  /\ InOrder(samples, by) /\ InOrder(pending, by) /\ Before(samples, pending, by)
  /\ \A f \in Flushers : /\ InOrder(Batch(f), by)
                         /\ Before(samples, Batch(f), by) /\ Before(Batch(f), pending, by)

\* What a recorder holds is its latest sample.
Latest ==
  /\ by \in Seq(Recorders) /\ Len(by) = serial
  /\ \A r \in Recorders : held[r] # 0 =>
       by[held[r]] = r /\ \A m \in 1..serial : by[m] = r => m <= held[r]

Lined ==
  /\ Latest
  /\ \A f \in Flushers : flushing[f].at # "idle" => f \in flushed
  /\ OneFlushes => InLine

LEMMA InitLined == Init => Lined
<1> SUFFICES ASSUME Init PROVE Lined
  BY Zenon
<1>1. /\ serial = 0 /\ by = <<>> /\ pending = <<>> /\ samples = <<>>
      /\ \A r \in Recorders : held[r] = 0
      /\ \A f \in Flushers : flushing[f] = Idle
  BY Zenon DEF Init
<1>2. \A f \in Flushers : Batch(f) = <<>> /\ flushing[f].at = "idle"
  BY <1>1 DEF Batch, Idle
<1>3. by \in Seq(Recorders) /\ Len(by) = serial
  BY <1>1
<1>4. InLine
  BY <1>1, <1>2, EmptyOrder, Zenon DEF InLine
<1> QED BY <1>1, <1>2, <1>3, <1>4, Zenon DEF Lined, Latest

\* While one endpoint flushes, only that one has a batch.
LEMMA OnlyBatch ==
  ASSUME Kept, Lined, NEW f \in flushed, OneFlushes
  PROVE  \A g \in Flushers : g # f => Batch(g) = <<>>
BY Zenon DEF Kept, Transaction, Lined, OneFlushes

LEMMA RecordLined ==
  ASSUME Kept, Lined, NEW r \in Recorders, record_hot(r)
  PROVE  Lined'
<1> DEFINE new == serial + 1
<1>1. /\ serial \in Nat /\ first \in Nat /\ first # 0
      /\ held \in [Recorders -> Nat] /\ held[r] = 0
  BY Zenon DEF Kept, Types, record_hot
<1>2. /\ serial' = new /\ held' = [held EXCEPT ![r] = new] /\ by' = Append(by, r)
      /\ UNCHANGED <<first, pending, flushing, samples, flushed>>
  BY Zenon DEF record_hot, database
<1>3. by \in Seq(Recorders) /\ Len(by) = serial
  BY Zenon DEF Lined, Latest
<1>4. /\ by' \in Seq(Recorders) /\ Len(by') = new /\ by'[new] = r
      /\ \A n \in 1..serial : by'[n] = by[n]
  BY <1>1, <1>2, <1>3
<1>5. /\ held'[r] = new
      /\ \A q \in Recorders : q # r => held'[q] = held[q]
  BY <1>1, <1>2, Zenon
<1>6. \A m \in 1..new : m <= new /\ (m \in 1..serial \/ m = new)
  BY <1>1
<1>7. first..serial \subseteq 1..serial
  BY <1>1
<1> HIDE DEF new
<1>8. Latest'
  <2> SUFFICES ASSUME NEW q \in Recorders, held'[q] # 0
               PROVE  by'[held'[q]] = q /\ \A m \in 1..new : by'[m] = q => m <= held'[q]
    BY <1>2, <1>4, Zenon DEF Latest
  <2>1. CASE q = r
    BY <1>4, <1>5, <1>6, <2>1, Zenon
  <2>2. CASE q # r
    <3>1. held'[q] = held[q] /\ held[q] # 0
      BY <1>5, <2>2, Zenon
    <3>2. held[q] \in 1..serial
      BY <1>7, <3>1, Zenon DEF Kept, Ranges
    <3>3. by[held[q]] = q /\ \A m \in 1..serial : by[m] = q => m <= held[q]
      BY <3>1, Zenon DEF Lined, Latest
    <3> QED BY <1>4, <1>6, <2>2, <3>1, <3>2, <3>3, Zenon
  <2> QED BY <2>1, <2>2, Zenon
<1>9. OneFlushes' => InLine'
  <2> SUFFICES ASSUME OneFlushes' PROVE InLine'
    BY Zenon
  <2>1. InLine
    BY <1>2, Zenon DEF Lined, OneFlushes
  <2>2. /\ Of(pending, 1..serial) /\ Of(samples, 1..serial)
        /\ \A f \in Flushers : Of(Batch(f), 1..serial)
    BY <1>7, Zenon DEF Kept, Ranges, Of
  <2>a. Agree(by, by', 1..serial)
    BY <1>4, Zenon DEF Agree
  <2>3. /\ InOrder(samples, by') /\ InOrder(pending, by') /\ Before(samples, pending, by')
    <3>1. InOrder(samples, by) /\ InOrder(pending, by) /\ Before(samples, pending, by)
      BY <2>1, Zenon DEF InLine
    <3> QED BY <2>a, <2>2, <3>1, OrderSame, BeforeSame, Zenon
  <2>4. ASSUME NEW f \in Flushers
        PROVE  /\ InOrder(Batch(f), by')
               /\ Before(samples, Batch(f), by') /\ Before(Batch(f), pending, by')
    <3>1. InOrder(Batch(f), by) /\ Before(samples, Batch(f), by) /\ Before(Batch(f), pending, by)
      BY <2>1, Zenon DEF InLine
    <3> QED BY <2>a, <2>2, <3>1, OrderSame, BeforeSame, Zenon
  <2>5. \A f \in Flushers : Batch(f)' = Batch(f)
    BY <1>2, Zenon DEF Batch
  <2> QED BY <1>2, <2>3, <2>4, <2>5, Zenon DEF InLine
<1> QED BY <1>2, <1>8, <1>9, Zenon DEF Lined

LEMMA QueueLined ==
  ASSUME Kept, Lined, NEW r \in Recorders, record_pending(r)
  PROVE  Lined'
<1> DEFINE x == held[r]
<1>1. /\ held \in [Recorders -> Nat] /\ x # 0 /\ x \in Nat /\ pending \in Seq(Nat)
      /\ serial \in Nat /\ first \in Nat /\ first # 0
  BY Zenon DEF Kept, Types, record_pending
<1>2. /\ pending' = Append(pending, x) /\ held' = [held EXCEPT ![r] = 0]
      /\ UNCHANGED <<serial, by, first, flushing, samples, flushed>>
  BY Zenon DEF record_pending, database
<1>3. /\ held'[r] = 0
      /\ \A q \in Recorders : q # r => held'[q] = held[q]
  BY <1>1, <1>2, Zenon
<1>4. Latest'
  BY <1>2, <1>3, Zenon DEF Lined, Latest
<1>5. first..serial \subseteq 1..serial
  BY <1>1
<1>6. /\ x \in 1..serial /\ x \notin Elements(pending) /\ Holders(x) = {}
      /\ x \notin Elements(samples)
  <2>1. x \in 1..serial
    BY <1>1, <1>5, Zenon DEF Kept, Ranges
  <2>2. x \in HeldSet
    BY Zenon DEF HeldSet
  <2> QED BY <2>1, <2>2, Zenon DEF Kept, Placed, OneOf
<1>7. by[x] = r /\ \A m \in 1..serial : by[m] = r => m <= x
  BY <1>1, Zenon DEF Lined, Latest
<1>8. \A m \in 1..serial : by[m] = by[x] /\ m # x => m < x
  <2>1. \A m \in 1..serial : m <= x /\ m # x => m < x
    <3> HIDE DEF x
    <3> QED BY <1>1
  <2> QED BY <1>7, <2>1, Zenon
<1>9. Different(pending)
  BY Zenon DEF Kept, NoneTwice
<1>10. Elements(pending') = Elements(pending) \cup {x}
  <2> HIDE DEF x
  <2> QED BY <1>1, <1>2, <1>6, <1>9, AddSample
<1>11. \A f \in Flushers : Batch(f)' = Batch(f) /\ x \notin Elements(Batch(f))
  BY <1>2, <1>6, Zenon DEF Batch, Holders
<1>12. /\ Elements(pending) \subseteq 1..serial /\ Elements(samples) \subseteq 1..serial
       /\ \A f \in Flushers : Elements(Batch(f)) \subseteq 1..serial
  BY <1>5, Zenon DEF Kept, Ranges
<1>13. OneFlushes' => InLine'
  <2> SUFFICES ASSUME OneFlushes' PROVE InLine'
    BY Zenon
  <2>1. InLine
    BY <1>2, Zenon DEF Lined, OneFlushes
  <2>2. InOrder(pending', by)
    <3>1. \A n \in Elements(pending) : by[n] = by[x] => n < x
      BY <1>6, <1>8, <1>12, Zenon
    <3>2. InOrder(pending, by)
      BY <2>1, Zenon DEF InLine
    <3> HIDE DEF x
    <3> QED BY <1>1, <1>2, <3>1, <3>2, OrderAppend
  <2>3. Before(samples, pending', by)
    BY <1>6, <1>8, <1>10, <1>12, <2>1, Zenon DEF InLine, Before
  <2>4. \A f \in Flushers : Before(Batch(f), pending', by)
    BY <1>8, <1>10, <1>11, <1>12, <2>1, ZenonT(40) DEF InLine, Before
  <2> QED BY <1>2, <1>11, <2>1, <2>2, <2>3, <2>4, Zenon DEF InLine
<1> QED BY <1>2, <1>4, <1>13, Zenon DEF Lined

LEMMA FlushLined ==
  ASSUME Kept, Lined, NEW f \in Flushers, flush(f)
  PROVE  Lined'
<1>1. /\ flushing' = [flushing EXCEPT ![f] = [at |-> "taken", batch |-> pending]]
      /\ pending' = <<>> /\ flushed' = flushed \cup {f}
      /\ UNCHANGED <<serial, by, held, samples>>
  BY Zenon DEF flush
<1>2. Types /\ pending \in Seq(Nat) /\ "taken" \in Places
  BY PlacesDiffer, Zenon DEF Kept, Types
<1>3. /\ Batch(f)' = pending /\ flushing'[f].at = "taken"
      /\ \A g \in Flushers : g # f => Batch(g)' = Batch(g) /\ flushing'[g].at = flushing[g].at
  <2> HIDE DEF Batch
  <2> QED BY <1>1, <1>2, TakesOn, Zenon
<1>4. Latest'
  BY <1>1, Zenon DEF Lined, Latest
<1>5. \A g \in Flushers : flushing'[g].at # "idle" => g \in flushed'
  BY <1>1, <1>3, Zenon DEF Lined
<1>6. OneFlushes' => InLine'
  <2> SUFFICES ASSUME OneFlushes' PROVE InLine'
    BY Zenon
  <2>1. InLine
    BY <1>1, Zenon DEF Lined, OneFlushes
  <2>2. \A g \in Flushers : g # f => Batch(g) = <<>>
    BY <1>1, Zenon DEF Kept, Transaction, Lined, OneFlushes
  <2>3. \A g \in Flushers : /\ InOrder(Batch(g)', by)
                            /\ Before(samples, Batch(g)', by) /\ Before(Batch(g)', <<>>, by)
    BY <1>3, <2>1, <2>2, EmptyOrder, Zenon DEF InLine
  <2> QED BY <1>1, <2>1, <2>3, EmptyOrder, Zenon DEF InLine
<1> QED BY <1>4, <1>5, <1>6, Zenon DEF Lined

\* The steps of a flush that move no sample.
LEMMA QuietLined ==
  ASSUME Lined, UNCHANGED <<serial, by, held, pending, samples, flushed>>,
         \A g \in Flushers : Batch(g)' = Batch(g),
         \A g \in Flushers : flushing'[g].at # "idle" => flushing[g].at # "idle"
  PROVE  Lined'
<1>1. Latest'
  BY Zenon DEF Lined, Latest
<1>2. OneFlushes' => InLine'
  BY Zenon DEF Lined, OneFlushes, InLine
<1> QED BY <1>1, <1>2, Zenon DEF Lined

LEMMA GoesLined ==
  ASSUME Kept, Lined, NEW f \in Flushers, NEW place \in Places, Goes(f, place),
         flushing[f].at # "idle", UNCHANGED <<serial, by, held, pending, samples, flushed>>
  PROVE  Lined'
<1>1. Types
  BY Zenon DEF Kept
<1>2. /\ \A g \in Flushers : Batch(g)' = Batch(g)
      /\ \A g \in Flushers : g # f => flushing'[g].at = flushing[g].at
  BY <1>1, GoesOn, Zenon
<1>3. \A g \in Flushers : flushing'[g].at # "idle" => flushing[g].at # "idle"
  BY <1>2, Zenon
<1> QED BY <1>2, <1>3, QuietLined, Zenon

LEMMA StepsLined ==
  ASSUME Kept, Lined, NEW f \in Flushers,
         no_insert(f) \/ begin(f) \/ insert(f) \/ fail(f)
  PROVE  Lined'
<1>1. "idle" # "taken" /\ "idle" # "inserting"
  OBVIOUS
<1>2. UNCHANGED <<serial, by, held, pending, samples, flushed>>
  BY Zenon DEF no_insert, begin, insert, fail, Others
<1>3. CASE insert(f)
  <2>1. flushing' = flushing
    BY <1>3, Zenon DEF insert
  <2> QED BY <1>2, <2>1, QuietLined, Zenon DEF Batch
<1>4. CASE no_insert(f) \/ begin(f) \/ fail(f)
  <2>1. \E place \in Places : Goes(f, place)
    BY <1>4, PlacesDiffer, Zenon DEF no_insert, begin, fail
  <2>2. flushing[f].at # "idle"
    BY <1>1, <1>4, Zenon DEF no_insert, begin, fail
  <2> QED BY <1>2, <2>1, <2>2, GoesLined, Zenon
<1> QED BY <1>3, <1>4, Zenon

LEMMA CommitLined ==
  ASSUME Kept, Lined, NEW f \in Flushers, commit(f)
  PROVE  Lined'
<1> DEFINE b == Batch(f)
<1>1. /\ UNCHANGED <<serial, by, held, pending, flushed>>
      /\ flushing[f].at = "inserting"
      /\ samples' = samples \o txn.rows /\ Ends(f)
  BY Zenon DEF commit, Others, Batch, Remaining, Ends
<1>2. Types /\ b \in Seq(Nat) /\ samples \in Seq(Nat) /\ txn.rows \in Seq(Nat)
  BY BatchType, Zenon DEF Kept, Types
<1>3. txn.rows = b
  BY CommitRows, Zenon
<1>4. /\ Batch(f)' = <<>> /\ flushing'[f].at = "idle"
      /\ \A g \in Flushers : g # f => Batch(g)' = Batch(g) /\ flushing'[g].at = flushing[g].at
  BY <1>1, <1>2, EndsFacts, Zenon
<1>5. Different(samples) /\ Different(b) /\ Apart(samples, b)
  BY BatchApart, Zenon DEF Kept, NoneTwice, Apart
<1>6. Elements(samples') = Elements(samples) \cup Elements(b)
  <2> HIDE DEF b
  <2> QED BY <1>1, <1>2, <1>3, <1>5, JoinSamples
<1>7. Latest'
  BY <1>1, Zenon DEF Lined, Latest
<1>8. \A g \in Flushers : flushing'[g].at # "idle" => g \in flushed'
  BY <1>1, <1>4, Zenon DEF Lined
<1>9. OneFlushes' => InLine'
  <2> SUFFICES ASSUME OneFlushes' PROVE InLine'
    BY Zenon
  <2>1. InLine /\ OneFlushes
    BY <1>1, Zenon DEF Lined, OneFlushes
  <2>2. f \in flushed
    BY <1>1, PlacesDiffer, Zenon DEF Lined
  <2>3. \A g \in Flushers : Batch(g)' = <<>>
    BY <1>4, <2>1, <2>2, OnlyBatch, Zenon
  <2>4. InOrder(samples', by)
    <3>1. InOrder(samples, by) /\ InOrder(b, by) /\ Before(samples, b, by)
      BY <2>1, Zenon DEF InLine
    <3> HIDE DEF b
    <3> QED BY <1>1, <1>2, <1>3, <3>1, OrderJoin, Zenon
  <2>5. Before(samples', pending, by)
    BY <1>6, <2>1, Zenon DEF InLine, Before
  <2> QED BY <1>1, <2>1, <2>3, <2>4, <2>5, EmptyOrder, Zenon DEF InLine
<1> QED BY <1>7, <1>8, <1>9, Zenon DEF Lined

LEMMA RequeueLined ==
  ASSUME Kept, Lined, NEW f \in Flushers, requeue(f)
  PROVE  Lined'
<1> DEFINE b == Batch(f)
           all == All(f)
<1>1. /\ UNCHANGED <<serial, by, held, samples, flushed>>
      /\ flushing[f].at = "failed" /\ Ends(f) /\ pending' = Rest(f)
  BY Zenon DEF requeue, Ungone, Batch, Ends, All, Drop, Rest
<1>2. Types /\ b \in Seq(Nat) /\ pending \in Seq(Nat)
  BY BatchType, Zenon DEF Kept, Types
<1>3. Elements(Rest(f)) \subseteq Elements(b) \cup Elements(pending)
  BY RequeueFacts, Zenon
<1>4. /\ Batch(f)' = <<>> /\ flushing'[f].at = "idle"
      /\ \A g \in Flushers : g # f => Batch(g)' = Batch(g) /\ flushing'[g].at = flushing[g].at
  BY <1>1, <1>2, EndsFacts, Zenon
<1>5. Latest'
  BY <1>1, Zenon DEF Lined, Latest
<1>6. \A g \in Flushers : flushing'[g].at # "idle" => g \in flushed'
  BY <1>1, <1>4, Zenon DEF Lined
<1>7. OneFlushes' => InLine'
  <2> SUFFICES ASSUME OneFlushes' PROVE InLine'
    BY Zenon
  <2>1. InLine /\ OneFlushes
    BY <1>1, Zenon DEF Lined, OneFlushes
  <2>2. f \in flushed
    BY <1>1, PlacesDiffer, Zenon DEF Lined
  <2>3. \A g \in Flushers : Batch(g)' = <<>>
    BY <1>4, <2>1, <2>2, OnlyBatch, Zenon
  <2>4. all \in Seq(Nat) /\ InOrder(all, by)
    <3>1. InOrder(b, by) /\ InOrder(pending, by) /\ Before(b, pending, by)
      BY <2>1, Zenon DEF InLine
    <3>2. b \o pending \in Seq(Nat)
      <4> HIDE DEF b
      <4> QED BY <1>2
    <3> QED BY <1>2, <3>1, <3>2, OrderJoin, Zenon DEF All
  <2>5. InOrder(pending', by)
    <3>1. Drop(f) \in 0..Len(all)
      <4>1. Len(all) \in Nat /\ max_pending \in Nat
        <5> HIDE DEF all
        <5> QED BY <2>4, CapType DEF max_pending
      <4> HIDE DEF all
      <4> QED BY <4>1 DEF Drop, all
    <3>2. pending' = SubSeq(all, Drop(f) + 1, Len(all))
      BY <1>1, Zenon DEF Rest
    <3> HIDE DEF all
    <3> QED BY <2>4, <3>1, <3>2, OrderCut, Zenon
  <2>6. Before(samples, pending', by)
    BY <1>1, <1>3, <2>1, Zenon DEF InLine, Before
  <2> QED BY <1>1, <2>1, <2>3, <2>5, <2>6, EmptyOrder, Zenon DEF InLine
<1> QED BY <1>5, <1>6, <1>7, Zenon DEF Lined

LEMMA RestartLined ==
  ASSUME Kept, Lined, restart
  PROVE  Lined'
<1>1. /\ pending' = <<>>
      /\ \A r \in Recorders : held'[r] = 0
      /\ \A f \in Flushers : flushing'[f] = Idle
      /\ UNCHANGED <<serial, by, samples, flushed>>
  BY Zenon DEF restart
<1>2. \A f \in Flushers : Batch(f)' = <<>> /\ flushing'[f].at = "idle"
  BY <1>1 DEF Batch, Idle
<1>3. Latest'
  BY <1>1, Zenon DEF Lined, Latest
<1>4. OneFlushes' => InLine'
  BY <1>1, <1>2, EmptyOrder, Zenon DEF Lined, OneFlushes, InLine
<1> QED BY <1>2, <1>3, <1>4, Zenon DEF Lined

LEMMA NextLined ==
  ASSUME Kept, Lined, [Next]_vars
  PROVE  Lined'
<1>1. ASSUME NEW r \in Recorders, record_hot(r) PROVE Lined'
  BY <1>1, RecordLined, Zenon
<1>2. ASSUME NEW r \in Recorders, Queue(r) PROVE Lined'
  BY <1>2, QueueLined, Zenon DEF Queue
<1>3. ASSUME NEW f \in Flushers, Flush(f) \/ fail(f) PROVE Lined'
  BY <1>3, FlushLined, StepsLined, CommitLined, RequeueLined, Zenon DEF Flush
<1>4. CASE restart
  BY <1>4, RestartLined, Zenon
<1>5. CASE UNCHANGED vars
  <2>1. UNCHANGED <<serial, by, held, pending, samples, flushed, flushing>>
    BY <1>5, Zenon DEF vars, database
  <2> QED BY <2>1, QuietLined, Zenon DEF Batch
<1> QED BY <1>1, <1>2, <1>3, <1>4, <1>5, Zenon DEF Next, Record

-----------------------------------------------------------------------------
(* Counting.                                                               *)

INSTANCE FiniteSetTheorems

LEMMA CountSamples ==
  ASSUME NEW s \in Seq(Nat), Different(s)
  PROVE  IsFiniteSet(Elements(s)) /\ Cardinality(Elements(s)) = Len(s)
<1> DEFINE n == Len(s)
           E == Elements(s)
<1>1. n \in Nat /\ DOMAIN s = 1..n /\ s \in [1..n -> E]
  BY DEF Elements
<1>2. s \in Injection(1..n, E)
  <2>1. \A i, j \in 1..n : s[i] = s[j] => i = j
    BY <1>1, Zenon DEF Different
  <2> HIDE DEF n, E
  <2> QED BY <1>1, <2>1 DEF Injection, IsInjective
<1>3. s \in Surjection(1..n, E)
  BY <1>1, Zenon DEF Surjection, Elements
<1>4. ExistsBijection(1..n, E)
  BY <1>2, <1>3, Zenon DEF ExistsBijection, Bijection
<1> HIDE DEF n, E
<1>5. IsFiniteSet(E)
  BY <1>1, <1>4, FS_NatBijection, Zenon
<1>6. Cardinality(E) = n
  BY <1>1, <1>4, FS_CountingElements, Zenon
<1> QED BY <1>5, <1>6, Zenon DEF n, E

LEMMA AtMostOne ==
  ASSUME NEW T, \A i, j \in T : i = j
  PROVE  Cardinality(T) = IF T = {} THEN 0 ELSE 1
<1>1. CASE T = {}
  BY <1>1, FS_EmptySet, Zenon
<1>2. CASE T # {}
  <2>1. PICK x \in T : TRUE
    BY <1>2, Zenon
  <2>2. T = {x}
    BY <2>1, Zenon
  <2> QED BY <1>2, <2>2, FS_Singleton, Zenon
<1> QED BY <1>1, <1>2, Zenon

\* The samples of this process that were dropped.
Lost == {n \in gone : n >= first}
Counted == cold_pending_dropped_ = Cardinality(Lost)

LEMMA InitCounted == Init => Counted
<1> SUFFICES ASSUME Init PROVE Counted
  BY Zenon
<1>1. Lost = {} /\ cold_pending_dropped_ = 0
  BY Zenon DEF Init, Lost
<1> QED BY <1>1, FS_EmptySet, Zenon DEF Counted

LEMMA RequeueCounted ==
  ASSUME Kept, Counted, NEW f \in Flushers, requeue(f)
  PROVE  Counted'
<1> DEFINE C == Elements(Cut(f))
<1>1. /\ first' = first /\ gone' = gone \cup C
      /\ cold_pending_dropped_' = cold_pending_dropped_ + Drop(f)
  BY Zenon DEF requeue, Ungone, Batch, All, Drop, Cut
<1>2. /\ Drop(f) \in Nat /\ Cut(f) \in Seq(Nat) /\ Different(Cut(f)) /\ Len(Cut(f)) = Drop(f)
      /\ C \subseteq Elements(Batch(f)) \cup Elements(pending)
  BY RequeueFacts, Zenon
<1>3. IsFiniteSet(C) /\ Cardinality(C) = Drop(f)
  BY <1>2, CountSamples, Zenon
<1>4. serial \in Nat /\ first \in Nat /\ first # 0
  BY Zenon DEF Kept, Types
<1>5. \A n \in C : n \in first..serial /\ n \notin gone
  <2> SUFFICES ASSUME NEW n \in C PROVE n \in first..serial /\ n \notin gone
    BY Zenon
  <2>1. CASE n \in Elements(Batch(f))
    BY <2>1, BatchApart, Zenon DEF Kept, Ranges
  <2>2. CASE n \in Elements(pending)
    <3>1. n \in first..serial
      BY <2>2, Zenon DEF Kept, Ranges
    <3>2. n \in 1..serial
      BY <1>4, <3>1
    <3> QED BY <2>2, <3>1, <3>2, Zenon DEF Kept, Placed, OneOf
  <2> QED BY <1>2, <2>1, <2>2, Zenon
<1>6. \A n \in C : n >= first
  BY <1>4, <1>5
<1> HIDE DEF C
<1>7. Lost' = Lost \cup C /\ Lost \cap C = {}
  BY <1>1, <1>5, <1>6, Zenon DEF Lost
<1>8. IsFiniteSet(Lost)
  <2>1. Lost \subseteq 1..serial
    BY Zenon DEF Lost, Kept, Ranges
  <2>2. IsFiniteSet(1..serial)
    BY <1>4, FS_Interval
  <2> QED BY <2>1, <2>2, FS_Subset, Zenon
<1>9. Cardinality(Lost) \in Nat /\ Cardinality({}) = 0
  BY <1>8, FS_CardinalityType, FS_EmptySet, Zenon
<1>10. Cardinality(Lost \cup C) = Cardinality(Lost) + Cardinality(C) - Cardinality(Lost \cap C)
  BY <1>3, <1>8, FS_Union, Zenon
<1>11. Cardinality(Lost') = Cardinality(Lost) + Drop(f) - 0
  BY <1>3, <1>7, <1>9, <1>10, Zenon
<1>12. Cardinality(Lost') = Cardinality(Lost) + Drop(f)
  BY <1>2, <1>9, <1>11
<1> QED BY <1>1, <1>12, Zenon DEF Counted

LEMMA NextCounted ==
  ASSUME Kept, Counted, [Next]_vars
  PROVE  Counted'
<1>1. CASE \E f \in Flushers : requeue(f)
  BY <1>1, RequeueCounted, Zenon
<1>2. CASE restart
  <2>1. Lost' = {} /\ cold_pending_dropped_' = 0
    BY <1>2, RestartKept, Zenon DEF Lost, restart
  <2> QED BY <2>1, FS_EmptySet, Zenon DEF Counted
<1>3. CASE UNCHANGED <<gone, first, cold_pending_dropped_>>
  <2>1. Lost' = Lost
    BY <1>3, Zenon DEF Lost
  <2> QED BY <1>3, <2>1, Zenon DEF Counted
<1>4. \/ \E f \in Flushers : requeue(f)
      \/ restart
      \/ UNCHANGED <<gone, first, cold_pending_dropped_>>
  <2>1. ASSUME NEW r \in Recorders, record_hot(r) \/ Queue(r)
        PROVE  UNCHANGED <<gone, first, cold_pending_dropped_>>
    BY <2>1, Zenon DEF record_hot, Queue, record_pending
  <2>2. ASSUME NEW f \in Flushers, Flush(f) \/ fail(f)
        PROVE  requeue(f) \/ UNCHANGED <<gone, first, cold_pending_dropped_>>
    BY <2>2, Zenon DEF Flush, flush, no_insert, begin, insert, commit, fail, Others
  <2>3. ASSUME UNCHANGED vars PROVE UNCHANGED <<gone, first, cold_pending_dropped_>>
    BY <2>3, Zenon DEF vars
  <2> QED BY <2>1, <2>2, <2>3, Zenon DEF Next, Record
<1> QED BY <1>1, <1>2, <1>3, <1>4, Zenon

-----------------------------------------------------------------------------
LEMMA KeptConserved ==
  ASSUME Kept, Counted
  PROVE  Conserved
<1> SUFFICES ASSUME NEW n \in 1..serial
             PROVE  1 = Cardinality({r \in Recorders : held[r] = n})
                        + Times(n, pending) + Times(n, samples)
                        + Cardinality(UNION {{f} \X {i \in DOMAIN flushing[f].batch :
                                               flushing[f].batch[i] = n} : f \in Flushers})
                        + (IF n \in gone THEN 1 ELSE 0)
  BY Zenon DEF Conserved, Counted, Lost
<1> DEFINE H == {r \in Recorders : held[r] = n}
           In(s) == {i \in DOMAIN s : s[i] = n}
           U == UNION {{f} \X In(Batch(f)) : f \in Flushers}
<1>1. n # 0
  BY DEF Kept, Types
<1>2. Placed(n)
  BY Zenon DEF Kept
<1>3. Cardinality(H) = IF n \in HeldSet THEN 1 ELSE 0
  <2>1. \A p, q \in H : p = q
    BY <1>1, Zenon DEF Kept, NoneTwice
  <2>2. H = {} <=> n \notin HeldSet
    BY Zenon DEF HeldSet
  <2> HIDE DEF H
  <2>3. Cardinality(H) = IF H = {} THEN 0 ELSE 1
    BY <2>1, AtMostOne, Zenon
  <2> QED BY <2>2, <2>3, Zenon
<1>4. ASSUME NEW s, Different(s)
      PROVE  /\ \A i, j \in In(s) : i = j
             /\ In(s) = {} <=> n \notin Elements(s)
  BY <1>4, Zenon DEF Different, Elements
<1>5. ASSUME NEW s, Different(s)
      PROVE  Times(n, s) = IF n \in Elements(s) THEN 1 ELSE 0
  <2>1. Times(n, s) = Cardinality(In(s))
    BY Zenon DEF Times
  <2>2. Cardinality(In(s)) = IF In(s) = {} THEN 0 ELSE 1
    <3>1. \A i, j \in In(s) : i = j
      BY <1>4, <1>5, Zenon
    <3> HIDE DEF In
    <3> QED BY <3>1, AtMostOne, Zenon
  <2> QED BY <1>4, <1>5, <2>1, <2>2, Zenon
<1>6. Cardinality(U) = IF Holders(n) = {} THEN 0 ELSE 1
  <2>1. \A f \in Flushers : /\ \A i, j \in In(Batch(f)) : i = j
                            /\ In(Batch(f)) = {} <=> f \notin Holders(n)
    BY <1>4, Zenon DEF Kept, NoneTwice, Holders
  <2>2. \A f, g \in Holders(n) : f = g
    BY <1>2, Zenon DEF Placed, OneOf
  <2> HIDE DEF In
  <2>3. \A p \in U : \E f \in Flushers : \E i : p = <<f, i>> /\ i \in In(Batch(f)) /\ f \in Holders(n)
    BY <2>1
  <2>4. \A p, q \in U : p = q
    BY <2>1, <2>2, <2>3
  <2>5. U = {} <=> Holders(n) = {}
    <3>1. ASSUME NEW f \in Holders(n) PROVE U # {}
      <4>1. f \in Flushers
        BY Zenon DEF Holders
      <4>2. PICK i : i \in In(Batch(f))
        BY <2>1, <4>1, Zenon
      <4>3. <<f, i>> \in {f} \X In(Batch(f))
        BY <4>2
      <4> QED BY <4>1, <4>3, Zenon
    <3> QED BY <2>3, <3>1, Zenon
  <2> HIDE DEF U
  <2>6. Cardinality(U) = IF U = {} THEN 0 ELSE 1
    BY <2>4, AtMostOne, Zenon
  <2> QED BY <2>5, <2>6, Zenon
<1>7. /\ Times(n, pending) = IF n \in Elements(pending) THEN 1 ELSE 0
      /\ Times(n, samples) = IF n \in Elements(samples) THEN 1 ELSE 0
  BY <1>5, Zenon DEF Kept, NoneTwice
<1> HIDE DEF H, U
<1>8. 1 = Cardinality(H) + Times(n, pending) + Times(n, samples) + Cardinality(U)
          + (IF n \in gone THEN 1 ELSE 0)
  <2>1. \/ /\ Cardinality(H) = 1 /\ Times(n, pending) = 0 /\ Cardinality(U) = 0
           /\ Times(n, samples) = 0 /\ n \notin gone
        \/ /\ Cardinality(H) = 0 /\ Times(n, pending) = 1 /\ Cardinality(U) = 0
           /\ Times(n, samples) = 0 /\ n \notin gone
        \/ /\ Cardinality(H) = 0 /\ Times(n, pending) = 0 /\ Cardinality(U) = 1
           /\ Times(n, samples) = 0 /\ n \notin gone
        \/ /\ Cardinality(H) = 0 /\ Times(n, pending) = 0 /\ Cardinality(U) = 0
           /\ Times(n, samples) = 1 /\ n \notin gone
        \/ /\ Cardinality(H) = 0 /\ Times(n, pending) = 0 /\ Cardinality(U) = 0
           /\ Times(n, samples) = 0 /\ n \in gone
    BY <1>2, <1>3, <1>6, <1>7, Zenon DEF Placed, OneOf
  <2> QED BY <2>1
<1> QED BY <1>8, Zenon DEF H, U, Batch

\* For every capacity, any endpoints and recorders, and whatever flushes
\* fail, collide and are repeated and however often the program restarts:
\* every sample that SqliteHistorian::record took is in one place, what was
\* dropped is counted, and the table is in order while one endpoint flushes.
THEOREM HistorianKeepsSamples == Spec => []SamplesKept
<1>1. Init => Kept /\ Lined /\ Counted
  BY InitKept, InitLined, InitCounted, Zenon
<1>2. Kept /\ Lined /\ Counted /\ [Next]_vars => Kept' /\ Lined' /\ Counted'
  BY NextKept, NextLined, NextCounted, Zenon
<1>3. Kept /\ Lined /\ Counted => SamplesKept
  <2> SUFFICES ASSUME Kept, Lined, Counted PROVE SamplesKept
    BY Zenon
  <2>1. OneFlushes => ColdInOrder
    BY Zenon DEF Lined, InLine, InOrder, ColdInOrder
  <2> QED BY <2>1, KeptConserved, Zenon DEF SamplesKept, OneFlushes
<1> QED BY <1>1, <1>2, <1>3, PTL DEF Spec
=============================================================================

-------------------------- MODULE WriteQueueProofs --------------------------
(***************************************************************************)
(* Proofs about WriteQueue, for every set of tags, every binding, every    *)
(* queue limit and every number of writes.                                 *)
(*                                                                         *)
(* The argument is about the sequence Pending, the rest of the batch       *)
(* followed by the queue.  enqueue_write appends to it; every flush step   *)
(* takes n >= 0 writes off its front and leaves the others where they are  *)
(* (Drops), whether they stay in the batch or go back to the queue.        *)
(***************************************************************************)
EXTENDS WriteQueue, TLAPS

\* The time SMT may take for a step.
USE SMTT(60)

\* A flush step takes the first n pending writes off.
Drops(n) ==
  /\ accepted' = accepted
  /\ n \in 0..Len(Pending)
  /\ Len(Pending') = Len(Pending) - n
  /\ \A k \in 1..Len(Pending') : Pending'[k] = Pending[k + n]

\* The rest of a sequence from m on.
LEMMA Slices ==
  ASSUME NEW S, NEW s \in Seq(S), NEW m \in 1..(Len(s) + 1)
  PROVE  /\ SubSeq(s, m, Len(s)) \in Seq(S)
         /\ Len(SubSeq(s, m, Len(s))) = Len(s) - m + 1
         /\ \A k \in 1..(Len(s) - m + 1) : SubSeq(s, m, Len(s))[k] = s[m + k - 1]
OBVIOUS

\* Two sequences one behind the other.
LEMMA Joins ==
  ASSUME NEW S, NEW s \in Seq(S), NEW t \in Seq(S)
  PROVE  /\ s \o t \in Seq(S)
         /\ Len(s \o t) = Len(s) + Len(t)
         /\ \A k \in 1..(Len(s) + Len(t)) :
              (s \o t)[k] = IF k <= Len(s) THEN s[k] ELSE t[k - Len(s)]
OBVIOUS

\* The elements of the rest of a batch followed by the queue.
LEMMA PendingElements ==
  ASSUME NEW b \in Seq(PendingWrite), NEW q \in Seq(PendingWrite),
         NEW i \in 1..(Len(b) + 1)
  PROVE  LET p == SubSeq(b, i, Len(b)) \o q
             r == Len(b) - i + 1
         IN  /\ p \in Seq(PendingWrite)
             /\ Len(p) = r + Len(q)
             /\ \A k \in 1..r : p[k] = b[k + i - 1]
             /\ \A k \in (r + 1)..Len(p) : p[k] = q[k - r]
<1> DEFINE f == SubSeq(b, i, Len(b))
           r == Len(b) - i + 1
           p == f \o q
<1>1. Len(b) \in Nat /\ Len(q) \in Nat /\ b = [k \in 1..Len(b) |-> b[k]]
  OBVIOUS
<1>2. f \in Seq(PendingWrite) /\ Len(f) = r /\ \A k \in 1..r : f[k] = b[i + k - 1]
  BY <1>1, Slices, Zenon
<1>3. /\ p \in Seq(PendingWrite)
      /\ Len(p) = Len(f) + Len(q)
      /\ \A k \in 1..(Len(f) + Len(q)) :
           p[k] = IF k <= Len(f) THEN f[k] ELSE q[k - Len(f)]
  BY <1>2, Joins, Zenon
<1>4. \A k \in 1..r : p[k] = b[k + i - 1]
  BY <1>1, <1>2, <1>3
<1>5. \A k \in (r + 1)..Len(p) : p[k] = q[k - r]
  BY <1>1, <1>2, <1>3
<1> QED BY <1>2, <1>3, <1>4, <1>5, Zenon

-----------------------------------------------------------------------------
\* What the provers need to know of the pending writes in a typed state.
LEMMA PendingFacts ==
  ASSUME TypeOK
  PROVE  /\ index \in 1..(Len(batch) + 1)
         /\ Len(batch) \in Nat /\ Len(write_queue) \in Nat
         /\ Pending \in Seq(PendingWrite)
         /\ Len(Pending) = Len(batch) - index + 1 + Len(write_queue)
         /\ Len(Pending) \in Nat
         /\ \A k \in 1..(Len(batch) - index + 1) : Pending[k] = batch[k + index - 1]
         /\ \A k \in (Len(batch) - index + 2)..Len(Pending) :
              Pending[k] = write_queue[k - (Len(batch) - index + 1)]
<1>1. index \in 1..(Len(batch) + 1) /\ Len(batch) \in Nat /\ Len(write_queue) \in Nat
  BY DEF TypeOK
<1>2. batch \in Seq(PendingWrite) /\ write_queue \in Seq(PendingWrite)
  BY Zenon DEF TypeOK
<1> DEFINE p == Pending
           r == Len(batch) - index + 1
<1>3. /\ p \in Seq(PendingWrite) /\ Len(p) = r + Len(write_queue)
      /\ \A k \in 1..r : p[k] = batch[k + index - 1]
      /\ \A k \in (r + 1)..Len(p) : p[k] = write_queue[k - r]
  BY <1>1, <1>2, PendingElements, Zenon DEF Pending
<1>4. Len(batch) - index + 2 = r + 1 /\ r + Len(write_queue) \in Nat
  BY <1>1
<1> HIDE DEF p
<1>5. Len(p) \in Nat
  BY <1>3, <1>4, Zenon
<1>6. \A k \in (Len(batch) - index + 2)..Len(p) : p[k] = write_queue[k - r]
  BY <1>3, <1>4, Zenon
<1>7. p = Pending
  BY Zenon DEF p
<1> QED BY <1>1, <1>3, <1>5, <1>6, <1>7, Zenon

\* Putting batch[from..] back in front of the queue takes the writes before
\* it off the pending ones and nothing else.
LEMMA RequeueDrops ==
  ASSUME TypeOK, NEW from \in index..(Len(batch) + 1), requeue_from(from),
         accepted' = accepted
  PROVE  /\ Drops(from - index)
         /\ write_queue' \in Seq(PendingWrite)
         /\ batch' = <<>> /\ index' = 1 /\ flush' = "idle"
<1> USE PendingFacts
<1>1. from \in 1..(Len(batch) + 1)
  OBVIOUS
<1>2. batch \in Seq(PendingWrite) /\ write_queue \in Seq(PendingWrite)
  BY Zenon DEF TypeOK
<1> DEFINE r == Len(batch) - from + 1
<1>3. /\ write_queue' \in Seq(PendingWrite)
      /\ Len(write_queue') = r + Len(write_queue)
      /\ \A k \in 1..r : write_queue'[k] = batch[k + from - 1]
      /\ \A k \in (r + 1)..Len(write_queue') : write_queue'[k] = write_queue[k - r]
  <2> HIDE PendingFacts DEF r
  <2>1. write_queue' = SubSeq(batch, from, Len(batch)) \o write_queue
    BY Zenon DEF requeue_from
  <2> QED BY <1>1, <1>2, <2>1, PendingElements, Zenon DEF r
<1>4. batch' = <<>> /\ index' = 1 /\ flush' = "idle"
  BY Zenon DEF requeue_from
<1>5. Pending' = SubSeq(<<>>, 1, Len(<<>>)) \o write_queue'
  BY <1>4, Zenon DEF Pending
<1>6. /\ Len(Pending') = Len(write_queue')
      /\ \A k \in 1..Len(Pending') : Pending'[k] = write_queue'[k]
  <2> DEFINE e == <<>>
  <2>1. e \in Seq(PendingWrite) /\ Len(e) = 0
    OBVIOUS
  <2> HIDE DEF e
  <2>2. 1 \in 1..(Len(e) + 1)
    BY <2>1
  <2>3. /\ Len(SubSeq(e, 1, Len(e)) \o write_queue') = Len(e) - 1 + 1 + Len(write_queue')
        /\ \A k \in (Len(e) - 1 + 1 + 1)..Len(SubSeq(e, 1, Len(e)) \o write_queue') :
             (SubSeq(e, 1, Len(e)) \o write_queue')[k] = write_queue'[k - (Len(e) - 1 + 1)]
    BY <2>1, <2>2, <1>3, PendingElements
  <2>4. Len(write_queue') \in Nat
    BY <1>1, <1>3
  <2>5. Pending' = SubSeq(e, 1, Len(e)) \o write_queue'
    BY <1>5, Zenon DEF e
  <2> QED BY <2>1, <2>3, <2>4, <2>5
<1>a. /\ index \in Int /\ from \in Int /\ index <= from /\ from <= Len(batch) + 1
      /\ 1 <= index /\ Len(batch) \in Int /\ Len(write_queue) \in Nat
      /\ Len(Pending') = r + Len(write_queue)
      /\ Len(Pending) = Len(batch) - index + 1 + Len(write_queue)
  BY <1>1, <1>3, <1>6
<1>7. \A k \in 1..Len(Pending') : Pending'[k] = Pending[k + (from - index)]
  <2> SUFFICES ASSUME NEW k \in 1..Len(Pending')
               PROVE  write_queue'[k] = Pending[k + (from - index)]
    BY <1>6, Zenon
  <2> DEFINE m == k + (from - index)
  <2>1. /\ k \in Int /\ m \in Int
        /\ k + from - 1 = m + index - 1
        /\ k - r = m - (Len(batch) - index + 1)
        /\ 1 <= k /\ k <= r + Len(write_queue)
    <3> HIDE PendingFacts
    <3> QED BY <1>a
  <2>2. CASE k <= r
    <3>1. k \in 1..r /\ m \in 1..(Len(batch) - index + 1)
      <4> HIDE PendingFacts
      <4> QED BY <1>a, <2>1, <2>2
    <3>2. Pending[m] = batch[m + index - 1] /\ write_queue'[k] = batch[k + from - 1]
      BY <3>1, <1>3, Zenon
    <3> QED BY <3>2, <2>1, Zenon
  <2>3. CASE k > r
    <3>1. /\ k \in (r + 1)..Len(write_queue')
          /\ m \in (Len(batch) - index + 2)..Len(Pending)
      <4> HIDE PendingFacts
      <4>1. Len(write_queue') = r + Len(write_queue)
        BY <1>3, Zenon
      <4>2. k \in (r + 1)..(r + Len(write_queue))
        BY <1>a, <2>1, <2>3
      <4>3. m \in (Len(batch) - index + 2)..(Len(batch) - index + 1 + Len(write_queue))
        BY <1>a, <2>1, <2>3
      <4> QED BY <4>1, <4>2, <4>3, <1>a, Zenon
    <3>2. /\ Pending[m] = write_queue[m - (Len(batch) - index + 1)]
          /\ write_queue'[k] = write_queue[k - r]
      BY <3>1, <1>3, Zenon
    <3> QED BY <3>2, <2>1, Zenon
  <2> QED BY <2>1, <2>2, <2>3
<1>8. Len(Pending') = Len(Pending) - (from - index) /\ from - index \in 0..Len(Pending)
  <2> HIDE PendingFacts
  <2> QED BY <1>a
<1> QED BY <1>3, <1>4, <1>7, <1>8, Zenon DEF Drops

\* Taking writes off the front keeps the others numbered in order.
LEMMA DropsKeepOrder ==
  ASSUME TypeOK, InOrder, NEW n, Drops(n)
  PROVE  InOrder' /\ Settled' = Settled + n
<1> USE PendingFacts
<1>1. accepted \in Int /\ n \in Nat /\ Len(Pending') \in Nat
  BY DEF TypeOK, Drops
<1>2. Settled' = Settled + n
  BY <1>1 DEF Settled, Drops
<1>3. ASSUME NEW k \in 1..Len(Pending')
      PROVE  Pending'[k].seq = Settled' + k
  <2>a. Len(Pending) \in Nat /\ Len(Pending') = Len(Pending) - n /\ k \in Nat \ {0}
    BY <1>1 DEF Drops
  <2>b. Pending'[k] = Pending[k + n]
    BY Zenon DEF Drops
  <2> HIDE PendingFacts
  <2>1. k + n \in 1..Len(Pending) /\ Pending'[k] = Pending[k + n]
    BY <1>1, <2>a, <2>b
  <2>2. Pending[k + n].seq = Settled + (k + n)
    BY <2>1, Zenon DEF InOrder
  <2> QED BY <1>1, <1>2, <2>1, <2>2 DEF Settled
<1> QED BY <1>2, <1>3, Zenon DEF InOrder

-----------------------------------------------------------------------------
\* An offset between 1 and n lands among the next n numbers.
LEMMA OffsetInRange ==
  ASSUME NEW s \in Int, NEW n \in Int, NEW d \in Int, 1 <= d, d <= n
  PROVE  s + d \in (s + 1)..(s + n)
OBVIOUS

\* What the writes still in the batch are numbered.
LEMMA BatchNumbers ==
  ASSUME TypeOK, InOrder, NEW k \in index..Len(batch)
  PROVE  batch[k].seq = Settled + (k - index + 1)
<1> USE PendingFacts
<1> DEFINE m == k - index + 1
<1>1. /\ m \in 1..(Len(batch) - index + 1) /\ m \in 1..Len(Pending)
      /\ m + index - 1 = k
  <2>1. k \in Int /\ index \in Int /\ Len(batch) \in Int /\ index <= k /\ k <= Len(batch)
    OBVIOUS
  <2> QED BY <2>1
<1>2. Pending[m] = batch[k]
  BY <1>1, Zenon
<1>3. Pending[m].seq = Settled + m
  BY <1>1, Zenon DEF InOrder
<1> QED BY <1>2, <1>3, Zenon

\* The step settles the first n pending writes, confirming those numbered in
\* C, rejecting those in R and forgetting the others.
Settles(n, C, R) ==
  /\ Drops(n)
  /\ C \subseteq (Settled + 1)..(Settled + n)
  /\ R \subseteq (Settled + 1)..(Settled + n)
  /\ C \cap R = {}
  /\ confirmed' = confirmed \cup C
  /\ rejected' = rejected \cup R

\* A step that changes neither the pending writes nor the reports.
LEMMA NothingSettles ==
  ASSUME TypeOK, Pending' = Pending,
         UNCHANGED <<accepted, confirmed, rejected>>
  PROVE  Settles(0, {}, {})
<1> USE PendingFacts
<1>1. Drops(0)
  BY DEF Drops
<1> QED BY <1>1, Zenon DEF Settles

\* A failing step: batch[k] is reported, what is behind it is requeued.
LEMMA FailureSettles ==
  ASSUME TypeOK, InOrder, flush # "idle", NEW k \in index..Len(batch),
         rejected' = rejected \cup {batch[k].seq}, requeue_from(k + 1),
         UNCHANGED <<accepted, confirmed>>
  PROVE  Settles(k - index + 1, {}, {batch[k].seq})
<1> USE PendingFacts
<1>1. /\ k \in Int /\ index \in Int /\ Len(batch) \in Int
      /\ index <= k /\ k <= Len(batch) /\ k + 1 \in index..(Len(batch) + 1)
      /\ (k + 1) - index = k - index + 1
  OBVIOUS
<1>2. Drops(k - index + 1)
  BY <1>1, RequeueDrops, Zenon
<1>3. Settled \in Int
  BY DEF TypeOK, Settled
<1>4. batch[k].seq \in (Settled + 1)..(Settled + (k - index + 1))
  <2> DEFINE d == k - index + 1
  <2>1. batch[k].seq = Settled + d
    BY BatchNumbers, Zenon
  <2>2. d \in Int /\ 1 <= d /\ d <= d
    BY <1>1
  <2> HIDE PendingFacts DEF d
  <2>3. Settled + d \in (Settled + 1)..(Settled + d)
    BY <1>3, <2>2, OffsetInRange, Zenon
  <2> QED BY <2>1, <2>3, Zenon DEF d
<1> QED BY <1>2, <1>4, Zenon DEF Settles

\* A written group leaves the pending writes, the rest stays in the batch.
LEMMA GroupSettles ==
  ASSUME TypeOK, InOrder, flush_write_ok
  PROVE  Settles(group_end - index, {batch[k].seq : k \in index..(group_end - 1)}, {})
<1> USE PendingFacts
<1> DEFINE n == group_end - index
           C == {batch[k].seq : k \in index..(group_end - 1)}
<1>1. /\ group_end \in (index + 1)..(Len(batch) + 1) /\ index \in Int /\ group_end \in Int
      /\ write_queue' = write_queue /\ accepted' = accepted
      /\ batch \in Seq(PendingWrite) /\ write_queue \in Seq(PendingWrite)
      /\ Len(batch) \in Int
  BY DEF TypeOK, flush_write_ok
<1>2. C \subseteq (Settled + 1)..(Settled + n)
  <2>1. SUFFICES ASSUME NEW k \in index..(group_end - 1)
                 PROVE  batch[k].seq \in (Settled + 1)..(Settled + n)
    BY Zenon
  <2>2. k \in index..Len(batch) /\ k \in Int /\ index <= k /\ k <= group_end - 1
    BY <1>1
  <2>3. batch[k].seq = Settled + (k - index + 1)
    BY <2>2, BatchNumbers, Zenon
  <2>4. Settled \in Int
    BY DEF TypeOK, Settled
  <2>5. k - index + 1 \in Int /\ n \in Int /\ 1 <= k - index + 1 /\ k - index + 1 <= n
    BY <1>1, <2>2
  <2> QED BY <2>3, <2>4, <2>5, OffsetInRange, Zenon
<1>3. Pending' = SubSeq(batch, group_end, Len(batch)) \o write_queue
  <2>1. CASE group_end <= Len(batch)
    BY <2>1, <1>1, Zenon DEF flush_write_ok, Pending
  <2>2. CASE ~(group_end <= Len(batch))
    <3>1. group_end = Len(batch) + 1
      <4>1. group_end <= Len(batch) + 1
        BY <1>1
      <4>2. Len(batch) \in Int /\ group_end \in Int
        BY <1>1, Zenon
      <4> HIDE PendingFacts
      <4> QED BY <2>2, <4>1, <4>2
    <3>2. batch' = <<>> /\ index' = 1
      BY <2>2, Zenon DEF flush_write_ok
    <3>3. SubSeq(batch, Len(batch) + 1, Len(batch)) = <<>>
      BY <1>1, Slices
    <3>4. SubSeq(<<>>, 1, Len(<<>>)) = <<>>
      OBVIOUS
    <3> QED BY <3>1, <3>2, <3>3, <3>4, <1>1, Zenon DEF Pending
  <2> QED BY <2>1, <2>2, Zenon
<1>4. /\ Len(Pending') = Len(batch) - group_end + 1 + Len(write_queue)
      /\ \A k \in 1..(Len(batch) - group_end + 1) : Pending'[k] = batch[k + group_end - 1]
      /\ \A k \in (Len(batch) - group_end + 2)..Len(Pending') :
           Pending'[k] = write_queue[k - (Len(batch) - group_end + 1)]
  <2>1. group_end \in 1..(Len(batch) + 1)
    BY <1>1
  <2>2. batch \in Seq(PendingWrite) /\ write_queue \in Seq(PendingWrite)
    BY <1>1, Zenon
  <2> DEFINE p == SubSeq(batch, group_end, Len(batch)) \o write_queue
  <2> HIDE PendingFacts
  <2>3. /\ Len(p) = Len(batch) - group_end + 1 + Len(write_queue)
        /\ \A k \in 1..(Len(batch) - group_end + 1) : p[k] = batch[k + group_end - 1]
        /\ \A k \in (Len(batch) - group_end + 1 + 1)..Len(p) :
             p[k] = write_queue[k - (Len(batch) - group_end + 1)]
    BY <2>1, <2>2, PendingElements, Zenon
  <2>4. Len(batch) - group_end + 1 + 1 = Len(batch) - group_end + 2
    BY <1>1
  <2>5. Pending' = p
    BY <1>3, Zenon
  <2> HIDE DEF p
  <2> QED BY <2>3, <2>4, <2>5, Zenon
<1>5. ASSUME NEW k \in 1..Len(Pending')
      PROVE  Pending'[k] = Pending[k + n]
  <2>1. /\ k \in Int /\ n \in Int
        /\ k + group_end - 1 = (k + n) + index - 1
        /\ k - (Len(batch) - group_end + 1) = (k + n) - (Len(batch) - index + 1)
    BY <1>1, <1>4
  <2>2. CASE k <= Len(batch) - group_end + 1
    <3>1. /\ k \in 1..(Len(batch) - group_end + 1)
          /\ k + n \in 1..(Len(batch) - index + 1)
      BY <2>1, <2>2, <1>1
    <3> QED BY <3>1, <2>1, <1>4, Zenon
  <2>3. CASE k > Len(batch) - group_end + 1
    <3>1. k \in (Len(batch) - group_end + 2)..Len(Pending')
      BY <2>1, <2>3, <1>1, <1>4
    <3>2. k + n \in (Len(batch) - index + 2)..Len(Pending)
      BY <2>1, <2>3, <1>1, <1>4
    <3> QED BY <3>1, <3>2, <2>1, <1>4, Zenon
  <2> QED BY <2>1, <2>2, <2>3, <1>1
<1>6. Drops(n)
  <2>1. n \in 0..Len(Pending) /\ Len(Pending') = Len(Pending) - n
    BY <1>1, <1>4
  <2> QED BY <2>1, <1>1, <1>5, Zenon DEF Drops
<1>7. confirmed' = confirmed \cup C /\ rejected' = rejected
  BY Zenon DEF flush_write_ok
<1> QED BY <1>2, <1>6, <1>7, Zenon DEF Settles

-----------------------------------------------------------------------------
\* No value a client may send for a coil is refused by encode(): the coils
\* are bound to boolean tags.
CoilsEncode ==
  \A t \in Tags : Binding[t].area = "coil" => Binding[t].encodes \subseteq {TRUE}

\* The step settles the first n pending writes, and none is forgotten when
\* coils always encode.
SettlesSome ==
  \E n : \E C, R :
    /\ Settles(n, C, R)
    /\ CoilsEncode => (Settled + 1)..(Settled + n) \subseteq C \cup R

\* A written group is the next numbers without a gap.
LEMMA GroupIsRange ==
  ASSUME TypeOK, InOrder, flush = "sending"
  PROVE  (Settled + 1)..(Settled + (group_end - index))
           \subseteq {batch[k].seq : k \in index..(group_end - 1)}
<1>1. /\ index \in Int /\ group_end \in Int /\ Len(batch) \in Int
      /\ group_end <= Len(batch) + 1 /\ Settled \in Int
  BY PendingFacts DEF TypeOK, Settled
<1> SUFFICES ASSUME NEW m \in (Settled + 1)..(Settled + (group_end - index))
             PROVE  \E k \in index..(group_end - 1) : batch[k].seq = m
  BY Zenon
<1> DEFINE k == m - Settled + index - 1
<1>2. /\ k \in index..(group_end - 1) /\ k \in index..Len(batch)
      /\ Settled + (k - index + 1) = m
  BY <1>1
<1>3. batch[k].seq = m
  BY <1>2, BatchNumbers, Zenon
<1> QED BY <1>2, <1>3, Zenon

\* Nothing is settled, so nothing is forgotten.
LEMMA NoneSettled ==
  ASSUME TypeOK, Settles(0, {}, {})
  PROVE  SettlesSome
<1>1. Settled \in Int
  BY PendingFacts DEF TypeOK, Settled
<1>2. (Settled + 1)..(Settled + 0) \subseteq {} \cup {}
  BY <1>1
<1> QED BY <1>2, Zenon DEF SettlesSome

\* The write a flush fails on is reported.
LEMMA HeadSettled ==
  ASSUME TypeOK, InOrder, flush # "idle",
         rejected' = rejected \cup {batch[index].seq}, requeue_from(index + 1),
         UNCHANGED <<accepted, confirmed>>
  PROVE  SettlesSome
<1>1. index \in index..Len(batch) /\ index - index + 1 = 1
  BY DEF TypeOK
<1>2. Settles(1, {}, {batch[index].seq})
  BY <1>1, FailureSettles, Zenon
<1>3. batch[index].seq = Settled + 1
  BY <1>1, BatchNumbers, Zenon
<1>4. Settled \in Int
  BY PendingFacts DEF TypeOK, Settled
<1>5. (Settled + 1)..(Settled + 1) \subseteq {} \cup {batch[index].seq}
  BY <1>3, <1>4
<1> QED BY <1>2, <1>5, Zenon DEF SettlesSome

\* Every flush step settles the oldest n writes, for some n >= 0.
LEMMA FlushSettles ==
  ASSUME TypeOK, InOrder, FlushStep
  PROVE  SettlesSome
<1>1. CASE flush_take
  <2>1. /\ write_queue \in Seq(PendingWrite) /\ batch = <<>> /\ index = 1
        /\ batch' = write_queue /\ write_queue' = <<>> /\ index' = 1
    BY <1>1, Zenon DEF TypeOK, flush_take
  <2>2. SubSeq(<<>>, 1, Len(<<>>)) = <<>> /\ <<>> \o write_queue = write_queue
    BY <2>1
  <2>3. SubSeq(write_queue, 1, Len(write_queue)) = write_queue
    BY <2>1, Slices
  <2>4. write_queue \o <<>> = write_queue
    BY <2>1
  <2>5. Pending' = Pending
    BY <2>1, <2>2, <2>3, <2>4, Zenon DEF Pending
  <2> QED BY <1>1, <2>5, NothingSettles, NoneSettled, Zenon DEF flush_take
<1>2. CASE flush_lookup
  <2>1. CASE bound
    <3>1. Pending' = Pending
      BY <1>2, <2>1, Zenon DEF flush_lookup, Pending
    <3> QED BY <1>2, <3>1, NothingSettles, NoneSettled, Zenon DEF flush_lookup
  <2>2. CASE ~bound
    <3>1. index = 1 /\ 1 \in index..(Len(batch) + 1) /\ 1 - index = 0
      BY <1>2 DEF TypeOK, flush_lookup
    <3>2. requeue_from(1) /\ UNCHANGED <<accepted, confirmed, rejected>>
      BY <1>2, <2>2, Zenon DEF flush_lookup
    <3>3. Drops(0)
      BY <3>1, <3>2, RequeueDrops, Zenon
    <3>4. Settles(0, {}, {})
      BY <3>2, <3>3, Zenon DEF Settles
    <3> QED BY <3>4, NoneSettled, Zenon
  <2> QED BY <2>1, <2>2, Zenon
<1>3. CASE flush_encode_fails
  <2>1. index \in index..Len(batch) /\ flush # "idle"
    BY <1>3 DEF TypeOK, flush_encode_fails
  <2> QED BY <1>3, <2>1, HeadSettled, Zenon DEF flush_encode_fails
<1>4. CASE flush_coalesce_fails
  <2>1. PICK k \in (index + 1)..Len(batch) :
               /\ Continues(k) /\ ~batch[k].encodes
               /\ rejected' = rejected \cup {batch[k].seq} /\ requeue_from(k + 1)
    BY <1>4, Zenon DEF flush_coalesce_fails
  <2>2. k \in index..Len(batch) /\ flush # "idle"
    BY <1>4 DEF TypeOK, flush_coalesce_fails
  <2>3. UNCHANGED <<accepted, confirmed>>
    BY <1>4, Zenon DEF flush_coalesce_fails
  <2>4. Settles(k - index + 1, {}, {batch[k].seq})
    BY <2>1, <2>2, <2>3, FailureSettles, Zenon
  <2>5. ~CoilsEncode
    <3>1. batch[k] \in PendingWrite
      BY <2>2 DEF TypeOK
    <3> QED BY <2>1, <3>1, Zenon DEF PendingWrite, Continues, CoilsEncode
  <2> QED BY <2>4, <2>5, Zenon DEF SettlesSome
<1>5. CASE flush_write
  <2>1. Pending' = Pending
    BY <1>5, Zenon DEF flush_write, Pending
  <2> QED BY <1>5, <2>1, NothingSettles, NoneSettled, Zenon DEF flush_write
<1>6. CASE flush_write_ok
  <2>1. flush = "sending"
    BY <1>6, Zenon DEF flush_write_ok
  <2> QED BY <1>6, <2>1, GroupSettles, GroupIsRange, Zenon DEF SettlesSome
<1>7. CASE flush_write_fails
  <2>1. index \in index..Len(batch) /\ flush # "idle"
    BY <1>7 DEF TypeOK, flush_write_fails
  <2> QED BY <1>7, <2>1, HeadSettled, Zenon DEF flush_write_fails
<1> QED BY <1>1, <1>2, <1>3, <1>4, <1>5, <1>6, <1>7, Zenon DEF FlushStep

\* Accepting a write appends it to the pending ones under the next number.
LEMMA EnqueueAppends ==
  ASSUME TypeOK, InOrder, NEW t \in Tags, NEW e \in BOOLEAN, enqueue_write(t, e)
  PROVE  InOrder' /\ Settled' = Settled
<1> DEFINE x == [seq |-> accepted + 1, tag |-> t, encodes |-> e]
<1>1. accepted \in Nat /\ x \in PendingWrite
  BY WritesAssumption DEF TypeOK, PendingWrite, enqueue_write
<1>2. write_queue \in Seq(PendingWrite) /\ write_queue' = Append(write_queue, x)
  BY Zenon DEF TypeOK, enqueue_write
<1> DEFINE f == SubSeq(batch, index, Len(batch))
<1>3. f \in Seq(PendingWrite)
  BY PendingFacts, Slices, Zenon DEF TypeOK
<1>4. Pending = f \o write_queue /\ Pending' = f \o Append(write_queue, x)
  BY <1>2, Zenon DEF Pending, enqueue_write, loopVars
<1> HIDE DEF f, x
<1>5. f \o Append(write_queue, x) = Append(f \o write_queue, x)
  BY <1>1, <1>2, <1>3
<1>6. Pending \in Seq(PendingWrite) /\ Pending' = Append(Pending, x) /\ Len(Pending) \in Nat
  BY <1>4, <1>5, PendingFacts, Zenon
<1>7. /\ Len(Pending') = Len(Pending) + 1
      /\ \A k \in 1..Len(Pending) : Pending'[k] = Pending[k]
      /\ Pending'[Len(Pending) + 1] = x
  BY <1>1, <1>6
<1>8. accepted' = accepted + 1
  BY Zenon DEF enqueue_write
<1>9. Settled' = Settled
  BY <1>1, <1>6, <1>7, <1>8 DEF Settled
<1>10. x.seq = Settled + (Len(Pending) + 1)
  BY <1>1, <1>6 DEF Settled, x
<1>11. ASSUME NEW k \in 1..Len(Pending')
       PROVE  Pending'[k].seq = Settled + k
  <2>1. CASE k \in 1..Len(Pending)
    BY <2>1, <1>7, Zenon DEF InOrder
  <2>2. CASE k = Len(Pending) + 1
    BY <2>2, <1>7, <1>10, Zenon
  <2> QED BY <1>6, <1>7, <2>1, <2>2
<1> QED BY <1>9, <1>11, Zenon DEF InOrder

-----------------------------------------------------------------------------
\* The type invariant is kept by every step; a flush step that goes back to
\* "idle" does so with an empty batch.
LEMMA TypeStep ==
  ASSUME TypeOK, [Next]_vars
  PROVE  TypeOK'
<1> USE PendingFacts
<1>1. CASE bind_transport
  BY <1>1, Zenon DEF TypeOK, bind_transport, loopVars
<1>2. ASSUME NEW t \in Tags, NEW e \in BOOLEAN, enqueue_write(t, e)
      PROVE  TypeOK'
  <2>1. accepted \in Nat /\ accepted + 1 \in 0..MaxWrites
    BY <1>2, WritesAssumption DEF TypeOK, enqueue_write
  <2>2. [seq |-> accepted + 1, tag |-> t, encodes |-> e] \in PendingWrite
    BY <1>2, <2>1 DEF PendingWrite, enqueue_write
  <2>3. write_queue' \in Seq(PendingWrite)
    BY <1>2, <2>2 DEF TypeOK, enqueue_write
  <2> QED BY <1>2, <2>1, <2>3, Zenon DEF TypeOK, enqueue_write, loopVars
<1>3. CASE flush_take
  <2>1. write_queue \in Seq(PendingWrite) /\ write_queue # <<>>
    BY <1>3, Zenon DEF TypeOK, flush_take
  <2>2. 1 \in 1..Len(write_queue)
    BY <2>1
  <2> QED BY <1>3, <2>1, <2>2, Zenon DEF TypeOK, flush_take, FlushStates
<1>4. CASE flush_lookup
  <2>1. CASE bound
    BY <1>4, <2>1, Zenon DEF TypeOK, flush_lookup, FlushStates
  <2>2. CASE ~bound
    <3>1. index = 1 /\ 1 \in index..(Len(batch) + 1)
      BY <1>4, Zenon DEF TypeOK, flush_lookup
    <3>2. /\ write_queue' \in Seq(PendingWrite)
          /\ batch' = <<>> /\ index' = 1 /\ flush' = "idle"
      BY <1>4, <2>2, <3>1, RequeueDrops, Zenon DEF flush_lookup
    <3> QED BY <1>4, <3>2 DEF TypeOK, flush_lookup, FlushStates
  <2> QED BY <2>1, <2>2, Zenon
<1>5. ASSUME NEW k \in index..Len(batch), flush # "idle",
             rejected' = rejected \cup {batch[k].seq}, requeue_from(k + 1),
             UNCHANGED <<group_end, bound, accepted, sent, confirmed>>
      PROVE  TypeOK'
  <2>1. k + 1 \in index..(Len(batch) + 1) /\ k \in 1..Len(batch)
    OBVIOUS
  <2>2. /\ write_queue' \in Seq(PendingWrite)
        /\ batch' = <<>> /\ index' = 1 /\ flush' = "idle"
    BY <1>5, <2>1, RequeueDrops, Zenon
  <2>3. batch[k] \in PendingWrite
    BY <2>1 DEF TypeOK
  <2>4. batch[k].seq \in Nat
    BY <2>3, Zenon DEF PendingWrite
  <2>5. rejected' \in SUBSET Nat
    BY <1>5, <2>4, Zenon DEF TypeOK
  <2> QED BY <1>5, <2>2, <2>5 DEF TypeOK, FlushStates
<1>6. CASE flush_encode_fails
  <2>1. index \in index..Len(batch) /\ flush # "idle"
    BY <1>6 DEF TypeOK, flush_encode_fails
  <2> QED BY <1>5, <1>6, <2>1, Zenon DEF flush_encode_fails
<1>7. CASE flush_coalesce_fails
  <2>1. PICK k \in (index + 1)..Len(batch) :
               rejected' = rejected \cup {batch[k].seq} /\ requeue_from(k + 1)
    BY <1>7, Zenon DEF flush_coalesce_fails
  <2>2. k \in index..Len(batch) /\ flush # "idle"
    BY <1>7 DEF TypeOK, flush_coalesce_fails
  <2>3. UNCHANGED <<group_end, bound, accepted, sent, confirmed>>
    BY <1>7, Zenon DEF flush_coalesce_fails
  <2> HIDE <1>7
  <2> QED BY <1>5, <2>1, <2>2, <2>3, Zenon
<1>8. CASE flush_write
  <2>1. PICK end \in (index + 1)..(Len(batch) + 1) :
          /\ group_end' = end
          /\ sent' = [t \in Tags |->
                        IF \E k \in index..(end - 1) : batch[k].tag = t
                        THEN batch[CHOOSE k \in index..(end - 1) : batch[k].tag = t].seq
                        ELSE sent[t]]
    BY <1>8, Zenon DEF flush_write
  <2>2. ASSUME NEW k \in index..(end - 1)
        PROVE  batch[k].seq \in Nat
    <3>1. k \in 1..Len(batch)
      OBVIOUS
    <3>2. batch[k] \in PendingWrite
      BY <3>1 DEF TypeOK
    <3> QED BY <3>2, Zenon DEF PendingWrite
  <2>3. ASSUME NEW t \in Tags
        PROVE  sent'[t] \in Nat
    <3>1. CASE \E k \in index..(end - 1) : batch[k].tag = t
      <4> DEFINE c == CHOOSE k \in index..(end - 1) : batch[k].tag = t
      <4>1. c \in index..(end - 1)
        BY <3>1, Zenon
      <4>2. sent'[t] = batch[c].seq
        BY <2>1, <3>1, Zenon
      <4> QED BY <4>1, <4>2, <2>2, Zenon
    <3>2. CASE ~\E k \in index..(end - 1) : batch[k].tag = t
      <4>1. sent'[t] = sent[t]
        BY <2>1, <3>2, Zenon
      <4> QED BY <4>1, Zenon DEF TypeOK
    <3> QED BY <3>1, <3>2, Zenon
  <2>4. sent' \in [Tags -> Nat]
    BY <2>1, <2>3, Zenon
  <2>5. group_end' \in Nat /\ group_end' \in (index + 1)..(Len(batch) + 1)
    BY <2>1
  <2> QED BY <1>8, <2>4, <2>5, Zenon DEF TypeOK, flush_write, FlushStates
<1>9. CASE flush_write_ok
  <2>1. group_end \in (index + 1)..(Len(batch) + 1) /\ flush # "idle"
    BY <1>9, Zenon DEF TypeOK, flush_write_ok
  <2>2. ASSUME NEW k \in index..(group_end - 1)
        PROVE  batch[k].seq \in Nat
    <3>1. k \in 1..Len(batch)
      BY <2>1
    <3>2. batch[k] \in PendingWrite
      BY <3>1 DEF TypeOK
    <3> QED BY <3>2, Zenon DEF PendingWrite
  <2>3. confirmed' \in SUBSET Nat
    <3>1. confirmed' = confirmed \cup {batch[k].seq : k \in index..(group_end - 1)}
      BY <1>9, Zenon DEF flush_write_ok
    <3>2. confirmed \subseteq Nat
      BY Zenon DEF TypeOK
    <3> SUFFICES ASSUME NEW n \in confirmed' PROVE n \in Nat
      BY Zenon
    <3>3. CASE n \in confirmed
      BY <3>2, <3>3, Zenon
    <3>4. CASE \E k \in index..(group_end - 1) : n = batch[k].seq
      BY <2>2, <3>4, Zenon
    <3> QED BY <3>1, <3>3, <3>4, Zenon
  <2>4. CASE group_end <= Len(batch)
    <3>1. group_end \in 1..Len(batch) /\ group_end \in Nat \ {0}
      BY <2>1, <2>4
    <3> QED BY <1>9, <2>3, <2>4, <3>1, Zenon DEF TypeOK, flush_write_ok, FlushStates
  <2>5. CASE ~(group_end <= Len(batch))
    BY <1>9, <2>3, <2>5 DEF TypeOK, flush_write_ok, FlushStates
  <2> QED BY <2>4, <2>5, Zenon
<1>10. CASE flush_write_fails
  <2>1. index \in index..Len(batch) /\ flush # "idle"
    BY <1>10 DEF TypeOK, flush_write_fails
  <2> QED BY <1>5, <1>10, <2>1, Zenon DEF flush_write_fails
<1>11. CASE UNCHANGED vars
  BY <1>11, Zenon DEF TypeOK, vars
<1> QED BY <1>1, <1>2, <1>3, <1>4, <1>6, <1>7, <1>8, <1>9, <1>10, <1>11, Zenon
        DEF Next, FlushStep

-----------------------------------------------------------------------------
IInv == TypeOK /\ InOrder /\ SettledOnce

\* Initially nothing is pending and nothing is settled.
LEMMA InitPending ==
  ASSUME Init
  PROVE  Pending = <<>> /\ Len(Pending) = 0 /\ Settled = 0
<1>1. Pending = SubSeq(<<>>, 1, Len(<<>>)) \o <<>>
  BY Zenon DEF Init, Pending
<1>2. Pending = <<>>
  BY <1>1
<1>3. Len(Pending) = 0
  BY <1>2, Zenon
<1>4. accepted = 0
  BY Zenon DEF Init
<1>5. Settled = 0
  BY <1>3, <1>4 DEF Settled
<1> QED BY <1>2, <1>3, <1>5, Zenon

\* The inductive invariant holds initially.
LEMMA InitInvariant == Init => IInv
<1> SUFFICES ASSUME Init PROVE IInv
  BY Zenon
<1>1. TypeOK
  BY WritesAssumption DEF Init, TypeOK, FlushStates
<1>2. InOrder /\ SettledOnce
  BY InitPending DEF Init, InOrder, SettledOnce
<1> QED BY <1>1, <1>2, Zenon DEF IInv

\* Each step accepts a write, settles the oldest ones or changes no report.
LEMMA StepKinds ==
  ASSUME IInv, [Next]_vars
  PROVE  \/ \E t \in Tags, e \in BOOLEAN : enqueue_write(t, e)
         \/ SettlesSome
<1> USE DEF IInv
<1>1. CASE bind_transport
  <2>1. Pending' = Pending /\ UNCHANGED <<accepted, confirmed, rejected>>
    BY <1>1, Zenon DEF bind_transport, Pending, loopVars
  <2> QED BY <2>1, NothingSettles, NoneSettled, Zenon
<1>2. CASE UNCHANGED vars
  <2>1. Pending' = Pending /\ UNCHANGED <<accepted, confirmed, rejected>>
    BY <1>2, Zenon DEF vars, Pending
  <2> QED BY <2>1, NothingSettles, NoneSettled, Zenon
<1> QED BY <1>1, <1>2, FlushSettles, Zenon DEF Next

\* No more writes are pending than were accepted.
LEMMA SettledIsNat ==
  ASSUME TypeOK, InOrder
  PROVE  Settled \in 0..accepted
<1> USE PendingFacts
<1>1. Settled \in Int /\ accepted \in Nat
  BY DEF TypeOK, Settled
<1>2. CASE Len(Pending) = 0
  BY <1>1, <1>2 DEF Settled
<1>3. CASE Len(Pending) # 0
  <2>1. 1 \in 1..Len(Pending)
    BY <1>3
  <2>2. Pending[1].seq = Settled + 1 /\ Pending[1] \in PendingWrite
    BY <2>1 DEF InOrder
  <2>3. Pending[1].seq \in Nat \ {0}
    BY <2>2, Zenon DEF PendingWrite
  <2>4. Settled <= accepted
    BY <1>1 DEF Settled
  <2> QED BY <1>1, <2>2, <2>3, <2>4
<1> QED BY <1>2, <1>3, Zenon

\* Settling the oldest writes keeps the invariant.
LEMMA SettleKeepsInvariant ==
  ASSUME IInv, NEW n, NEW C, NEW R, Settles(n, C, R)
  PROVE  InOrder' /\ SettledOnce' /\ Settled' = Settled + n
<1> USE DEF IInv
<1>1. InOrder' /\ Settled' = Settled + n
  BY DropsKeepOrder, Zenon DEF Settles
<1>2. Settled \in Int /\ n \in Nat
  BY PendingFacts DEF TypeOK, Settled, Settles, Drops
<1>3. ASSUME NEW m \in confirmed' \cup rejected'
      PROVE  m \in 1..Settled'
  <2>1. CASE m \in confirmed \cup rejected
    <3>1. m \in 1..Settled
      BY <2>1, Zenon DEF SettledOnce
    <3> QED BY <3>1, <1>1, <1>2
  <2>2. CASE m \in C \cup R
    <3>1. m \in (Settled + 1)..(Settled + n)
      BY <2>2, Zenon DEF Settles
    <3>2. Settled >= 0
      BY <1>2, SettledIsNat
    <3> QED BY <3>1, <3>2, <1>1, <1>2
  <2> QED BY <2>1, <2>2, Zenon DEF Settles
<1>4. confirmed' \cap rejected' = {}
  <2>1. ASSUME NEW m \in confirmed \cup rejected PROVE m \notin C \cup R
    <3>1. m \in 1..Settled
      BY Zenon DEF SettledOnce
    <3>2. m \notin (Settled + 1)..(Settled + n)
      BY <3>1, <1>2
    <3> QED BY <3>2, Zenon DEF Settles
  <2> QED BY <2>1, Zenon DEF Settles, SettledOnce
<1> QED BY <1>1, <1>3, <1>4, Zenon DEF SettledOnce

\* The invariant is kept by every step.
LEMMA StepInvariant ==
  ASSUME IInv, [Next]_vars
  PROVE  IInv'
<1> USE DEF IInv
<1>1. TypeOK'
  BY TypeStep, Zenon
<1>2. ASSUME NEW t \in Tags, NEW e \in BOOLEAN, enqueue_write(t, e)
      PROVE  InOrder' /\ SettledOnce'
  <2>1. InOrder' /\ Settled' = Settled
    BY <1>2, EnqueueAppends, Zenon
  <2> QED BY <1>2, <2>1, Zenon DEF SettledOnce, enqueue_write
<1>3. ASSUME SettlesSome
      PROVE  InOrder' /\ SettledOnce'
  BY <1>3, SettleKeepsInvariant, Zenon DEF SettlesSome
<1> QED BY <1>1, <1>2, <1>3, StepKinds, Zenon

\* A settled write stays settled.
LEMMA SettledGrows ==
  ASSUME IInv, [Next]_vars
  PROVE  Settled \in Nat /\ Settled' \in Nat /\ Settled <= Settled'
<1>1. Settled \in Nat
  BY SettledIsNat DEF IInv, TypeOK
<1>2. ASSUME NEW t \in Tags, NEW e \in BOOLEAN, enqueue_write(t, e)
      PROVE  Settled' = Settled
  BY <1>2, EnqueueAppends, Zenon DEF IInv
<1>3. ASSUME SettlesSome
      PROVE  \E n \in Nat : Settled' = Settled + n
  <2>1. PICK n, C, R : Settles(n, C, R)
    BY <1>3, Zenon DEF SettlesSome
  <2>2. n \in Nat
    BY <2>1, PendingFacts DEF IInv, Settles, Drops
  <2> QED BY <2>1, <2>2, SettleKeepsInvariant, Zenon
<1> QED BY <1>1, <1>2, <1>3, StepKinds

\* flush_writes never loses, repeats or reorders a waiting write, never
\* indexes outside its batch and never reports a write twice: however its
\* steps interleave with enqueue_write, the waiting writes are exactly the
\* youngest accepted ones in order, and the reported ones are not among them.
THEOREM QueueCorrect == SafeSpec => []QueueSound
<1>1. Init => IInv
  BY InitInvariant, Zenon
<1>2. IInv /\ [Next]_vars => IInv'
  BY StepInvariant, Zenon
<1>3. IInv => QueueSound
  BY Zenon DEF IInv, QueueSound
<1> QED BY <1>1, <1>2, <1>3, PTL DEF SafeSpec

-----------------------------------------------------------------------------
\* When encode() refuses no coil value, every accepted write is waiting or
\* was reported: the only place flush_writes forgets a write is the error
\* return of the coil coalescing loop.
THEOREM NothingForgotten ==
  ASSUME CoilsEncode
  PROVE  SafeSpec => []NoSilentDrop
<1> DEFINE J == IInv /\ NoSilentDrop
<1>1. Init => J
  <2> SUFFICES ASSUME Init PROVE J
    BY Zenon
  <2>1. 1..0 = {}
    OBVIOUS
  <2> QED BY <2>1, InitInvariant, InitPending, Zenon DEF NoSilentDrop
<1>2. J /\ [Next]_vars => J'
  <2> SUFFICES ASSUME J, [Next]_vars PROVE J'
    BY Zenon
  <2>1. IInv'
    BY StepInvariant, Zenon
  <2>2. ASSUME NEW t \in Tags, NEW e \in BOOLEAN, enqueue_write(t, e)
        PROVE  NoSilentDrop'
    <3>1. Settled' = Settled
      BY <2>2, EnqueueAppends, Zenon DEF IInv
    <3> QED BY <2>2, <3>1, Zenon DEF NoSilentDrop, enqueue_write
  <2>3. ASSUME SettlesSome
        PROVE  NoSilentDrop'
    <3>1. PICK n, C, R : /\ Settles(n, C, R)
                         /\ (Settled + 1)..(Settled + n) \subseteq C \cup R
      BY <2>3, CoilsEncode, Zenon DEF SettlesSome
    <3>2. Settled' = Settled + n
      BY <3>1, SettleKeepsInvariant, Zenon
    <3>3. Settled \in Int /\ n \in Nat
      BY <3>1, SettledIsNat, PendingFacts DEF IInv, Settles, Drops, TypeOK, Settled
    <3>4. ASSUME NEW m \in 1..Settled'
          PROVE  m \in confirmed' \cup rejected'
      <4>1. CASE m <= Settled
        <5>1. m \in confirmed \cup rejected
          BY <4>1, <3>3 DEF NoSilentDrop
        <5> QED BY <5>1, <3>1, Zenon DEF Settles
      <4>2. CASE m > Settled
        <5>1. m \in (Settled + 1)..(Settled + n)
          BY <4>2, <3>2, <3>3
        <5> QED BY <5>1, <3>1, Zenon DEF Settles
      <4> QED BY <4>1, <4>2, <3>3
    <3> QED BY <3>4, Zenon DEF NoSilentDrop
  <2> QED BY <2>1, <2>2, <2>3, StepKinds, Zenon
<1>3. J => NoSilentDrop
  BY Zenon
<1> QED BY <1>1, <1>2, <1>3, PTL DEF SafeSpec

-----------------------------------------------------------------------------
\* The queue implements the ledger: enqueue_write accepts, every flush step
\* settles the oldest writes or is invisible to the client.
THEOREM LedgerRefinement == SafeSpec => ImplementsLedger
<1>1. Init => Ledger!LedgerInit
  BY InitPending, Zenon DEF Init, Ledger!LedgerInit
<1>2. IInv /\ [Next]_vars => [Ledger!LedgerNext]_(Ledger!ledger)
  <2> SUFFICES ASSUME IInv, [Next]_vars
               PROVE  [Ledger!LedgerNext]_(Ledger!ledger)
    BY Zenon
  <2>1. ASSUME NEW t \in Tags, NEW e \in BOOLEAN, enqueue_write(t, e)
        PROVE  Ledger!Accept
    <3>1. Settled' = Settled
      BY <2>1, EnqueueAppends, Zenon DEF IInv
    <3> QED BY <2>1, <3>1, Zenon DEF Ledger!Accept, enqueue_write
  <2>2. ASSUME NEW n, NEW C, NEW R, Settles(n, C, R)
        PROVE  [Ledger!LedgerNext]_(Ledger!ledger)
    <3>1. Settled' = Settled + n /\ accepted' = accepted
      BY <2>2, SettleKeepsInvariant, Zenon DEF Settles, Drops
    <3>2. /\ Settled \in Nat /\ n \in Nat /\ Settled + n <= accepted
          /\ accepted \in 0..MaxWrites
      <4>1. /\ accepted \in 0..MaxWrites /\ Len(Pending) \in Nat
            /\ Settled \in 0..accepted /\ n \in 0..Len(Pending)
        BY <2>2, SettledIsNat, PendingFacts, Zenon DEF IInv, TypeOK, Settles, Drops
      <4>2. Settled = accepted - Len(Pending)
        BY Zenon DEF Settled
      <4> QED BY <4>1, <4>2, WritesAssumption
    <3>3. CASE n = 0
      <4>1. C = {} /\ R = {}
        BY <2>2, <3>2, <3>3 DEF Settles
      <4> QED BY <2>2, <3>1, <3>2, <3>3, <4>1 DEF Settles, Ledger!ledger
    <3>4. CASE n # 0
      <4>1. Settled + n \in (Settled + 1)..accepted /\ Settled + n \in 1..MaxWrites
        BY <3>2, <3>4, WritesAssumption
      <4>2. Ledger!Settle(Settled + n)
        BY <4>1, <3>1, <2>2, Zenon DEF Ledger!Settle, Settles
      <4> QED BY <4>1, <4>2, Zenon DEF Ledger!LedgerNext
    <3> QED BY <3>3, <3>4, Zenon
  <2> QED BY <2>1, <2>2, StepKinds, Zenon DEF SettlesSome, Ledger!LedgerNext
<1>3. SafeSpec => []IInv
  BY InitInvariant, StepInvariant, PTL DEF SafeSpec
<1> QED BY <1>1, <1>2, <1>3, PTL DEF SafeSpec, ImplementsLedger, Ledger!LedgerSpec

=============================================================================

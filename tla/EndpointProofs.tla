--------------------------- MODULE EndpointProofs ---------------------------
(***************************************************************************)
(* Proofs about EndpointRuntime, for every set of tags, every list of poll *)
(* groups and every number of writes and transport errors.                 *)
(*                                                                         *)
(* NoGoodInBackoff is not inductive: a late read could publish Good during *)
(* a backoff.  It cannot, because a poll in flight excludes a backoff, and *)
(* a completion waiting on the strand belongs to the poll in flight.       *)
(* ReadsAfterWrites needs to know of a poll that is still flushing that    *)
(* the writes before its tick have left the queue, and of the write queue  *)
(* that settled writes stay settled; the latter comes from the proofs      *)
(* about WriteQueue, of which every endpoint step is a step or a stutter.  *)
(***************************************************************************)
EXTENDS EndpointRuntime, TLAPS

\* The time SMT may take for a step.
USE SMTT(60)

-----------------------------------------------------------------------------
(* The handlers posted on the strand.                                      *)

IsQueue(q) == \E S : q \in Seq(S)
NoCompletion(q) == \A k \in 1..Len(q) : q[k].kind = "flush"
AtMostOne(q) ==
  \A k, m \in 1..Len(q) : q[k].kind # "flush" /\ q[m].kind # "flush" => k = m
HasRead(q) == \E k \in 1..Len(q) : q[k].kind = "read"

\* What Append does, whatever the elements are.
LEMMA AppendElements ==
  ASSUME NEW q, IsQueue(q), NEW e
  PROVE  /\ IsQueue(Append(q, e))
         /\ Len(q) \in Nat /\ Len(Append(q, e)) = Len(q) + 1
         /\ \A k \in 1..Len(q) : Append(q, e)[k] = q[k]
         /\ Append(q, e)[Len(q) + 1] = e
<1>1. PICK S : q \in Seq(S)
  BY Zenon DEF IsQueue
<1>2. q \in Seq(S \cup {e})
  BY <1>1
<1>3. Append(q, e) \in Seq(S \cup {e})
  BY <1>2
<1>4. IsQueue(Append(q, e))
  BY <1>3, Zenon DEF IsQueue
<1>5. /\ Len(q) \in Nat /\ Len(Append(q, e)) = Len(q) + 1
      /\ \A k \in 1..Len(q) : Append(q, e)[k] = q[k]
      /\ Append(q, e)[Len(q) + 1] = e
  BY <1>2
<1> QED BY <1>4, <1>5, Zenon

\* Posting a flush adds no completion.
LEMMA AppendFlush ==
  ASSUME NEW q, IsQueue(q), NEW e, e.kind = "flush"
  PROVE  LET a == Append(q, e)
         IN  /\ IsQueue(a)
             /\ NoCompletion(q) => NoCompletion(a)
             /\ AtMostOne(q) => AtMostOne(a)
             /\ HasRead(a) => HasRead(q)
<1> DEFINE a == Append(q, e)
<1>1. /\ IsQueue(a) /\ Len(q) \in Nat /\ Len(a) = Len(q) + 1
      /\ \A k \in 1..Len(q) : a[k] = q[k]
      /\ a[Len(q) + 1] = e
  BY AppendElements
<1> HIDE DEF a
<1>2. \A k \in 1..Len(a) : a[k].kind # "flush" => k \in 1..Len(q) /\ a[k] = q[k]
  BY <1>1
<1>3. NoCompletion(q) => NoCompletion(a)
  BY <1>2, Zenon DEF NoCompletion
<1>4. AtMostOne(q) => AtMostOne(a)
  BY <1>2, Zenon DEF AtMostOne
<1>5. HasRead(a) => HasRead(q)
  BY <1>2, Zenon DEF HasRead
<1> QED BY <1>1, <1>3, <1>4, <1>5, Zenon DEF a

\* Posting a completion on a queue without one.
LEMMA AppendCompletion ==
  ASSUME NEW q, IsQueue(q), NoCompletion(q), NEW e
  PROVE  LET a == Append(q, e)
         IN  IsQueue(a) /\ AtMostOne(a) /\ (HasRead(a) => e.kind = "read")
<1> DEFINE a == Append(q, e)
<1>1. /\ IsQueue(a) /\ Len(q) \in Nat /\ Len(a) = Len(q) + 1
      /\ \A k \in 1..Len(q) : a[k] = q[k]
      /\ a[Len(q) + 1] = e
  BY AppendElements
<1> HIDE DEF a
<1>2. \A k \in 1..Len(a) : a[k].kind # "flush" => k = Len(q) + 1 /\ a[k] = e
  BY <1>1 DEF NoCompletion
<1>3. AtMostOne(a)
  BY <1>2, Zenon DEF AtMostOne
<1>4. HasRead(a) => e.kind = "read"
  BY <1>2, Zenon DEF HasRead
<1> QED BY <1>1, <1>3, <1>4, Zenon DEF a

\* Taking up the first handler.
LEMMA TailQueue ==
  ASSUME NEW q, IsQueue(q), q # <<>>, AtMostOne(q)
  PROVE  /\ IsQueue(Tail(q)) /\ AtMostOne(Tail(q))
         /\ Head(q).kind # "flush" => NoCompletion(Tail(q))
         /\ NoCompletion(q) => NoCompletion(Tail(q)) /\ Head(q).kind = "flush"
         /\ HasRead(Tail(q)) => HasRead(q)
         /\ Head(q).kind = "read" => HasRead(q)
<1> DEFINE r == Tail(q)
           h == Head(q)
<1>1. PICK S : q \in Seq(S)
  BY Zenon DEF IsQueue
<1>2. IsQueue(r)
  BY <1>1 DEF IsQueue
<1>3. /\ Len(q) \in Nat \ {0} /\ Len(r) = Len(q) - 1
      /\ \A k \in 1..Len(r) : r[k] = q[k + 1]
      /\ h = q[1]
  BY <1>1
<1> HIDE DEF r, h
<1>4. /\ 1 \in 1..Len(q)
      /\ \A k \in 1..Len(r) : k + 1 \in 1..Len(q) /\ k + 1 # 1 /\ k \in Int
  BY <1>3
<1>5. AtMostOne(r)
  <2> SUFFICES ASSUME NEW k \in 1..Len(r), NEW m \in 1..Len(r),
                      r[k].kind # "flush", r[m].kind # "flush"
               PROVE  k = m
    BY Zenon DEF AtMostOne
  <2>1. /\ k + 1 \in 1..Len(q) /\ q[k + 1].kind # "flush"
        /\ m + 1 \in 1..Len(q) /\ q[m + 1].kind # "flush"
    BY <1>3, <1>4, Zenon
  <2>2. k + 1 = m + 1
    BY <2>1, Zenon DEF AtMostOne
  <2> QED BY <1>4, <2>2
<1>6. h.kind # "flush" => NoCompletion(r)
  BY <1>3, <1>4 DEF AtMostOne, NoCompletion
<1>7. NoCompletion(q) => NoCompletion(r) /\ h.kind = "flush"
  BY <1>3, <1>4, Zenon DEF NoCompletion
<1>8. (HasRead(r) => HasRead(q)) /\ (h.kind = "read" => HasRead(q))
  BY <1>3, <1>4, Zenon DEF HasRead
<1> QED BY <1>2, <1>5, <1>6, <1>7, <1>8, Zenon DEF r, h

-----------------------------------------------------------------------------
(* The poll chain and the tags.                                            *)

ChainRecord(c) ==
  c = [x \in {"at", "todo", "error", "due", "since", "mark", "sample"} |-> c[x]]

Store(s) == s = [t \in Tags |-> s[t]]

\* What polls, the connection and the backoff have to do with each other.
Polling ==
  /\ Store(tags)
  /\ backoff \in Nat
  /\ InflightIsChain
  /\ inflight => backoff = 0
  /\ NoGoodInBackoff

\* The completion of a poll leaves no Good tag behind a lost connection.
LEMMA DonePolling ==
  ASSUME NEW e, NEW store, NEW conn, Store(store), Done(e, store, conn)
  PROVE  Polling' /\ chain' = NoChain
<1>1. chain' = NoChain /\ inflight' = FALSE /\ chain'.at = "none"
  BY Zenon DEF Done, NoChain
<1>2. CASE ~conn \/ e = "Connection"
  <2>1. connected' = FALSE /\ backoff' = ReconnectDelay /\ tags' = mark_endpoint_bad(store)
    BY <1>2, Zenon DEF Done
  <2>2. /\ Store(tags')
        /\ \A t \in Tags : tags'[t].quality # "Good"
    BY <2>1, Zenon DEF Store, mark_endpoint_bad, with_quality
  <2> QED BY <1>1, <2>1, <2>2, DelayAssumption, Zenon DEF Polling, InflightIsChain, NoGoodInBackoff
<1>3. CASE ~(~conn \/ e = "Connection")
  <2>1. backoff' = 0 /\ tags' = store
    BY <1>3, Zenon DEF Done
  <2> QED BY <1>1, <2>1 DEF Polling, InflightIsChain, NoGoodInBackoff, Store
<1> QED BY <1>2, <1>3, Zenon

\* PollChain::next ends the poll or issues a read on behalf of the same tick.
LEMMA NextPolling ==
  ASSUME NEW c, NEW store, NEW conn, ChainRecord(c), Store(store), backoff = 0,
         next(c, store, conn)
  PROVE  /\ Polling' /\ ChainRecord(chain')
         /\ chain' = NoChain \/ (chain'.at \in {"reading", "refused"} /\ chain'.mark = c.mark)
<1>1. CASE c.todo = <<>>
  <2>1. Done(c.error, store, conn)
    BY <1>1, Zenon DEF next
  <2> QED BY <2>1, DonePolling, Zenon DEF ChainRecord, NoChain
<1>2. CASE c.todo # <<>>
  <2>1. /\ chain' = [c EXCEPT !.at = IF conn THEN "reading" ELSE "refused", !.sample = NoValue]
        /\ tags' = store /\ inflight' = TRUE /\ backoff' = 0
    BY <1>2, Zenon DEF next
  <2>2. /\ chain'.at \in {"reading", "refused"} /\ chain'.mark = c.mark
        /\ ChainRecord(chain')
    BY <2>1, Zenon DEF ChainRecord
  <2> QED BY <2>1, <2>2 DEF Polling, InflightIsChain, NoGoodInBackoff, Store
<1> QED BY <1>1, <1>2, Zenon

\* The reads of a poll begin.
LEMMA StartPolling ==
  ASSUME NEW c, NEW store, NEW conn, Store(store), backoff = 0,
         StartReads(c, store, conn)
  PROVE  /\ Polling' /\ ChainRecord(chain')
         /\ chain' = NoChain \/ (chain'.at \in {"reading", "refused"} /\ chain'.mark = c.mark)
<1> DEFINE d == [NoChain EXCEPT !.todo = Collect(c.due), !.mark = c.mark]
<1>1. ChainRecord(d) /\ d.mark = c.mark
  BY Zenon DEF ChainRecord, NoChain
<1>2. next(d, store, conn)
  BY Zenon DEF StartReads
<1> HIDE DEF d
<1> QED BY <1>1, <1>2, NextPolling, Zenon

-----------------------------------------------------------------------------
(* The inductive invariant.                                                *)

\* The flush of a poll takes every write accepted before its tick out of the
\* queue; a poll that reads, or has read, has settled them.
Marks ==
  /\ chain.mark \in 0..accepted
  /\ chain.at = "flushing" => strand # "free" /\ chain.mark <= accepted - Len(write_queue)
  /\ chain.at \in {"reading", "refused"} => chain.mark <= WQ!Settled
  /\ HasRead(strandq) => chain.mark <= WQ!Settled

\* The strand holds the completion of the poll in progress and no other.
Completions ==
  /\ IsQueue(strandq) /\ AtMostOne(strandq)
  /\ chain.at # "posted" => NoCompletion(strandq)

StrandFlush == strand = "free" <=> flush = "idle"

EInv ==
  /\ ChainRecord(chain)
  /\ Completions
  /\ Polling
  /\ StrandFlush
  /\ Marks

\* The numbers a step may rely on.
Grows ==
  /\ accepted \in Nat /\ accepted' \in Nat /\ accepted <= accepted'
  /\ WQ!Settled \in Nat /\ WQ!Settled' \in Nat
  /\ WQ!Settled <= WQ!Settled' /\ WQ!Settled' <= accepted'
  /\ Len(write_queue) \in Nat
  /\ WQ!TypeOK /\ WQ!TypeOK' /\ bound = TRUE

\* Marks after a handler that ended the poll or issued a read.
LEMMA MarksOfReads ==
  ASSUME Grows, NEW m \in 0..accepted, m <= WQ!Settled',
         chain' = NoChain \/ (chain'.at \in {"reading", "refused"} /\ chain'.mark = m)
  PROVE  Marks' /\ chain'.at # "posted"
<1>1. CASE chain' = NoChain
  <2>1. chain'.at = "none" /\ chain'.mark = 0
    BY <1>1, Zenon DEF NoChain
  <2> QED BY <2>1 DEF Marks, Grows
<1>2. CASE chain'.at \in {"reading", "refused"} /\ chain'.mark = m
  BY <1>2 DEF Marks, Grows
<1> QED BY <1>1, <1>2, Zenon

\* Marks of a chain that goes on where it is.
LEMMA MarksKept ==
  ASSUME Grows, Marks, chain'.at = chain.at, chain'.mark = chain.mark,
         HasRead(strandq') => HasRead(strandq),
         chain.at = "flushing" =>
           strand' # "free" /\ accepted - Len(write_queue) = accepted' - Len(write_queue')
  PROVE  Marks'
BY DEF Marks, Grows

\* With nothing left in a batch, the writes not in the queue are settled.
LEMMA EmptyBatch ==
  ASSUME WQ!TypeOK', batch' = <<>>, index' = 1
  PROVE  WQ!Settled' = accepted' - Len(write_queue')
<1>1. SubSeq(<<>>, 1, Len(<<>>)) = <<>>
  OBVIOUS
<1>2. write_queue' \in Seq(WQ!PendingWrite)
  BY Zenon DEF WQ!TypeOK, WQ!PendingWrite
<1>3. WQ!Pending' = write_queue'
  <2> DEFINE w == write_queue'
  <2>1. Len(<<>> \o w) = Len(w) /\ <<>> \o w \in Seq(WQ!PendingWrite)
    BY <1>2
  <2>2. \A k \in 1..Len(w) : (<<>> \o w)[k] = w[k]
    BY <1>2
  <2>3. <<>> \o w = w
    BY <1>2, <2>1, <2>2
  <2>4. WQ!Pending' = SubSeq(<<>>, 1, Len(<<>>)) \o w
    BY Zenon DEF WQ!Pending
  <2> QED BY <1>1, <2>3, <2>4, Zenon
<1> QED BY <1>3, Zenon DEF WQ!Settled

\* run_polls, called by the tick or after a reconnect.
LEMMA RunPolls ==
  ASSUME EInv, Grows, NEW c, ChainRecord(c), c.mark \in 0..accepted,
         strand = "free", backoff = 0, run_polls(c), NoCompletion(strandq')
  PROVE  /\ ChainRecord(chain') /\ Polling' /\ StrandFlush' /\ Marks'
         /\ chain'.at # "posted"
<1>1. WQ!TypeOK /\ WQ!TypeOK' /\ flush = "idle" /\ Store(tags)
  BY Zenon DEF EInv, StrandFlush, Polling, Grows
<1>2. ~HasRead(strandq')
  BY Zenon DEF NoCompletion, HasRead
<1>3. CASE write_queue # <<>>
  <2>1. /\ WQ!flush_take /\ strand' = "flush" /\ inflight' = TRUE
        /\ chain' = [c EXCEPT !.at = "flushing"]
        /\ tags' = tags /\ connected' = connected /\ backoff' = backoff
    BY <1>3, Zenon DEF run_polls
  <2>2. chain'.at = "flushing" /\ chain'.mark = c.mark /\ ChainRecord(chain')
    BY <2>1, Zenon DEF ChainRecord
  <2>3. flush' = "taken" /\ write_queue' = <<>> /\ accepted' = accepted
    BY <2>1, Zenon DEF WQ!flush_take
  <2>4. Len(write_queue') = 0
    BY <2>3, Zenon
  <2>5. Marks'
    BY <1>1, <1>2, <2>1, <2>2, <2>3, <2>4 DEF Marks, Grows
  <2>6. Polling'
    BY <2>1, <2>2, Zenon DEF EInv, Polling, InflightIsChain, NoGoodInBackoff, Store
  <2> QED BY <2>1, <2>2, <2>3, <2>5, <2>6, Zenon DEF StrandFlush
<1>4. CASE write_queue = <<>>
  <2>1. StartReads(c, tags, connected) /\ UNCHANGED <<wqVars, strand>>
    BY <1>4, Zenon DEF run_polls
  <2>2. /\ Polling' /\ ChainRecord(chain')
        /\ chain' = NoChain \/ (chain'.at \in {"reading", "refused"} /\ chain'.mark = c.mark)
    BY <2>1, <1>1, StartPolling, Zenon
  <2>3. /\ batch' = <<>> /\ index' = 1 /\ write_queue' = <<>> /\ accepted' = accepted
        /\ flush' = flush
    BY <1>1, <1>4, <2>1 DEF WQ!TypeOK, wqVars
  <2>4. WQ!Settled' = accepted'
    <3>1. WQ!Settled' = accepted' - Len(write_queue')
      BY <1>1, <2>3, EmptyBatch, Zenon
    <3>2. Len(write_queue') = 0
      BY <2>3, Zenon
    <3>3. accepted' \in Nat
      BY <1>1, Zenon DEF Grows
    <3>4. \A n \in Nat : n - 0 = n
      OBVIOUS
    <3>5. accepted' - 0 = accepted'
      BY <3>3, <3>4, Zenon
    <3> QED BY <3>1, <3>2, <3>5, Zenon
  <2>5. c.mark <= WQ!Settled'
    BY <2>3, <2>4, <1>1 DEF Grows
  <2>6. Marks' /\ chain'.at # "posted"
    BY <1>1, <2>2, <2>5, MarksOfReads, Zenon
  <2> QED BY <2>1, <2>2, <2>3, <2>6, <1>1, Zenon DEF StrandFlush
<1> QED BY <1>3, <1>4, Zenon

\* flush_writes returns to run_polls or to the handler a client write posted.
LEMMA ReturnKeeps ==
  ASSUME EInv, Grows, NEW e, NEW store, NEW conn, Store(store),
         FlushReturns(e, store, conn), flush' = "idle", strandq' = strandq,
         backoff > 0 => ~conn /\ \A t \in Tags : store[t].quality # "Good",
         e = "none" => /\ batch' = <<>> /\ index' = 1
                       /\ write_queue' = write_queue /\ accepted' = accepted
  PROVE  EInv'
<1>2. strand' = "free" /\ StrandFlush'
  BY DEF FlushReturns, StrandFlush
<1>3. /\ ChainRecord(chain) /\ Completions /\ Polling /\ Marks
      /\ IsQueue(strandq') /\ AtMostOne(strandq')
  BY Zenon DEF EInv, Completions
<1>4. CASE chain.at # "flushing"
  <2>1. /\ tags' = store /\ connected' = conn
        /\ UNCHANGED <<inflight, backoff, chain>>
    BY <1>4 DEF FlushReturns
  <2>2. Polling'
    BY <1>3, <2>1, Zenon DEF Polling, InflightIsChain, NoGoodInBackoff
  <2>3. Marks'
    BY <1>3, <1>4, <2>1, MarksKept, Zenon
  <2> QED BY <1>2, <1>3, <2>1, <2>2, <2>3, Zenon DEF EInv, Completions
<1>5. CASE chain.at = "flushing" /\ e = "none"
  <2>1. StartReads(chain, store, conn) /\ backoff = 0
    BY <1>3, <1>5, Zenon DEF FlushReturns, Polling, InflightIsChain
  <2>2. /\ Polling' /\ ChainRecord(chain')
        /\ chain' = NoChain \/ (chain'.at \in {"reading", "refused"} /\ chain'.mark = chain.mark)
    BY <2>1, StartPolling, Zenon
  <2>3. chain.mark <= WQ!Settled'
    <3>1. WQ!Settled' = accepted' - Len(write_queue')
      BY <1>5, EmptyBatch, Zenon DEF Grows
    <3>2. chain.mark <= accepted - Len(write_queue)
      BY <1>3, <1>5, Zenon DEF Marks
    <3> QED BY <3>1, <3>2, <1>5
  <2>4. Marks' /\ chain'.at # "posted"
    BY <1>3, <2>2, <2>3, MarksOfReads DEF Marks
  <2> QED BY <1>2, <1>3, <1>5, <2>2, <2>4 DEF EInv, Completions
<1>6. CASE chain.at = "flushing" /\ e # "none"
  <2>1. Done(e, store, conn)
    BY <1>6, Zenon DEF FlushReturns
  <2>2. Polling' /\ chain' = NoChain /\ ChainRecord(chain')
    BY <2>1, DonePolling, Zenon DEF ChainRecord, NoChain
  <2>3. 0 \in 0..accepted /\ 0 <= WQ!Settled'
    BY DEF Grows
  <2>4. Marks' /\ chain'.at # "posted"
    BY <2>2, <2>3, MarksOfReads, Zenon
  <2> QED BY <1>2, <1>3, <1>6, <2>2, <2>4, Zenon DEF EInv, Completions
<1> QED BY <1>4, <1>5, <1>6, Zenon

\* tick_endpoint starts a poll.
LEMMA TickKeeps ==
  ASSUME EInv, Grows, tick_endpoint
  PROVE  EInv'
<1> DEFINE c == [NoChain EXCEPT !.due = {g \in Groups : age[g] >= Period(g)},
                                !.mark = accepted]
<1>2. /\ strand = "free" /\ ~inflight /\ (connected \/ backoff = 0)
      /\ UNCHANGED <<strandq, dev, ua, faults>>
      /\ \/ connected /\ run_polls(c)
         \/ /\ ~connected /\ chain' = [c EXCEPT !.at = "connecting"] /\ inflight' = TRUE
            /\ UNCHANGED <<wqVars, tags, connected, backoff, age, strand>>
  BY Zenon DEF tick_endpoint
<1>3. ChainRecord(c) /\ c.mark = accepted
  BY Zenon DEF ChainRecord, NoChain
<1> HIDE DEF c
<1>4. /\ backoff = 0 /\ NoCompletion(strandq) /\ NoCompletion(strandq')
      /\ IsQueue(strandq') /\ AtMostOne(strandq')
  BY <1>2 DEF EInv, Polling, InflightIsChain, NoGoodInBackoff, Completions
<1>5. c.mark \in 0..accepted
  BY <1>3 DEF Grows
<1>6. CASE connected
  <2>1. /\ ChainRecord(chain') /\ Polling' /\ StrandFlush' /\ Marks' /\ chain'.at # "posted"
    BY <1>2, <1>3, <1>4, <1>5, <1>6, RunPolls
  <2> QED BY <1>4, <2>1, Zenon DEF EInv, Completions
<1>7. CASE ~connected
  <2>1. /\ chain' = [c EXCEPT !.at = "connecting"] /\ inflight' = TRUE
        /\ UNCHANGED <<wqVars, tags, connected, backoff, age, strand>>
    BY <1>2, <1>7, Zenon
  <2>2. ChainRecord(chain') /\ chain'.at = "connecting" /\ chain'.mark = accepted
    BY <1>3, <2>1 DEF ChainRecord
  <2>3. Polling'
    BY <1>4, <2>1, <2>2, Zenon DEF EInv, Polling, InflightIsChain, NoGoodInBackoff, Store
  <2>4. ~HasRead(strandq') /\ accepted' = accepted /\ flush' = flush
    BY <1>4, <2>1, Zenon DEF HasRead, NoCompletion, wqVars
  <2>5. Marks'
    BY <2>2, <2>4 DEF Marks, Grows
  <2>6. StrandFlush'
    BY <2>1, <2>4, Zenon DEF EInv, StrandFlush
  <2> QED BY <1>4, <2>2, <2>3, <2>5, <2>6, Zenon DEF EInv, Completions
<1> QED BY <1>6, <1>7, Zenon

\* The strand takes up the completion of async_connect.
LEMMA ConnectDoneKeeps ==
  ASSUME EInv, Grows, connect_done
  PROVE  EInv'
<1>2. /\ strand = "free" /\ strandq # <<>> /\ Head(strandq).kind = "connect"
      /\ strandq' = Tail(strandq)
  BY Zenon DEF connect_done
<1>3. /\ IsQueue(strandq') /\ AtMostOne(strandq') /\ NoCompletion(strandq')
      /\ ~NoCompletion(strandq)
  BY <1>2, TailQueue, Zenon DEF EInv, Completions
<1>4. /\ chain.at = "posted" /\ backoff = 0 /\ Store(tags) /\ ChainRecord(chain)
      /\ chain.mark \in 0..accepted
  BY <1>3, Zenon DEF EInv, Completions, Polling, InflightIsChain, Marks
<1>5. CASE Head(strandq).error = "none"
  <2>1. run_polls(chain)
    BY <1>5, Zenon DEF connect_done
  <2>2. /\ ChainRecord(chain') /\ Polling' /\ StrandFlush' /\ Marks' /\ chain'.at # "posted"
    BY <1>2, <1>3, <1>4, <2>1, RunPolls
  <2> QED BY <1>3, <2>2, Zenon DEF EInv, Completions
<1>6. CASE Head(strandq).error # "none"
  <2>1. /\ Done(Head(strandq).error, mark_endpoint_bad(tags), connected)
        /\ UNCHANGED <<wqVars, age, strand>>
    BY <1>6, Zenon DEF connect_done
  <2>2. Store(mark_endpoint_bad(tags))
    BY Zenon DEF Store, mark_endpoint_bad
  <2>3. Polling' /\ chain' = NoChain
    BY <2>1, <2>2, DonePolling, Zenon
  <2>4. ChainRecord(chain')
    BY <2>3, Zenon DEF ChainRecord, NoChain
  <2>5. 0 \in 0..accepted /\ 0 <= WQ!Settled'
    BY DEF Grows
  <2>6. Marks' /\ chain'.at # "posted"
    BY <2>3, <2>5, MarksOfReads, Zenon
  <2>7. StrandFlush'
    BY <2>1, Zenon DEF EInv, StrandFlush, wqVars
  <2> QED BY <1>3, <2>3, <2>4, <2>6, <2>7, Zenon DEF EInv, Completions
<1> QED BY <1>5, <1>6, Zenon

\* The strand takes up the completion of a read.
LEMMA PollTagDoneKeeps ==
  ASSUME EInv, Grows, poll_tag_done
  PROVE  EInv'
<1> DEFINE ev == Head(strandq)
           t == Head(chain.todo)
           c == [chain EXCEPT !.todo = Tail(@), !.error = IF @ = "none" THEN ev.error ELSE @]
           store == IF ev.error = "none" THEN [tags EXCEPT ![t] = Good(ev.value)]
                                         ELSE publish_bad(tags, t, ReasonOf(ev.error))
<1>2. /\ strandq # <<>> /\ ev.kind = "read" /\ strandq' = Tail(strandq)
      /\ next(c, store, connected) /\ UNCHANGED <<wqVars, strand>>
  BY Zenon DEF poll_tag_done
<1>3. /\ IsQueue(strandq') /\ AtMostOne(strandq') /\ NoCompletion(strandq')
      /\ HasRead(strandq) /\ ~NoCompletion(strandq)
  BY <1>2, TailQueue DEF EInv, Completions
<1>4. /\ chain.at = "posted" /\ backoff = 0 /\ Store(tags) /\ ChainRecord(chain)
      /\ chain.mark \in 0..accepted /\ chain.mark <= WQ!Settled
  BY <1>3, Zenon DEF EInv, Completions, Polling, InflightIsChain, Marks
<1>5. Store(store)
  <2>1. Store([tags EXCEPT ![t] = Good(ev.value)])
    BY <1>4, Zenon DEF Store
  <2>2. Store(publish_bad(tags, t, ReasonOf(ev.error)))
    BY <1>4, Zenon DEF Store, publish_bad
  <2> QED BY <2>1, <2>2, Zenon
<1>6. ChainRecord(c) /\ c.mark = chain.mark
  BY <1>4, Zenon DEF ChainRecord
<1> HIDE DEF c, store, ev
<1>7. /\ Polling' /\ ChainRecord(chain')
      /\ chain' = NoChain \/ (chain'.at \in {"reading", "refused"} /\ chain'.mark = c.mark)
  BY <1>2, <1>4, <1>5, <1>6, NextPolling
<1>8. c.mark \in 0..accepted /\ c.mark <= WQ!Settled'
  BY <1>4, <1>6 DEF Grows
<1>9. Marks' /\ chain'.at # "posted"
  BY <1>7, <1>8, MarksOfReads, Zenon
<1>10. StrandFlush'
  BY <1>2, Zenon DEF EInv, StrandFlush, wqVars
<1> QED BY <1>3, <1>7, <1>9, <1>10, Zenon DEF EInv, Completions

\* The strand takes up a posted flush.
LEMMA PostedFlushKeeps ==
  ASSUME EInv, Grows, posted_flush
  PROVE  EInv'
<1>2. /\ strand = "free" /\ strandq # <<>> /\ strandq' = Tail(strandq)
      /\ UNCHANGED <<tags, connected, inflight, backoff, chain>>
  BY Zenon DEF posted_flush
<1>3. /\ IsQueue(strandq') /\ AtMostOne(strandq')
      /\ NoCompletion(strandq) => NoCompletion(strandq')
      /\ HasRead(strandq') => HasRead(strandq)
  BY <1>2, TailQueue, Zenon DEF EInv, Completions
<1>4. chain.at # "flushing"
  BY <1>2, Zenon DEF EInv, Marks
<1>5. Marks'
  BY <1>2, <1>3, <1>4, MarksKept, Zenon DEF EInv
<1>6. StrandFlush'
  BY <1>2, Zenon DEF posted_flush, EInv, StrandFlush, wqVars, WQ!flush_take
<1>7. Polling' /\ ChainRecord(chain')
  BY <1>2, Zenon DEF EInv, Polling, InflightIsChain, NoGoodInBackoff
<1> QED BY <1>2, <1>3, <1>5, <1>6, <1>7, Zenon DEF EInv, Completions

\* Steps of a flush that does not return yet and publishes nothing.
LEMMA FlushGoesOn ==
  ASSUME EInv, Grows, strand' # "free", flush' # "idle",
         UNCHANGED <<write_queue, accepted, tags, connected, inflight, backoff, chain, strandq>>
  PROVE  EInv'
<1>2. Marks'
  BY MarksKept, Zenon DEF EInv
<1>3. Polling' /\ ChainRecord(chain') /\ Completions'
  BY Zenon DEF EInv, Polling, InflightIsChain, NoGoodInBackoff, Completions
<1> QED BY <1>2, <1>3, Zenon DEF EInv, StrandFlush

\* A Bad quality keeps the store a store and adds nothing Good.
LEMMA PublishBad ==
  ASSUME Store(tags), NEW t, NEW r
  PROVE  /\ Store(publish_bad(tags, t, r))
         /\ \A u \in Tags : publish_bad(tags, t, r)[u].quality = "Good" => tags[u].quality = "Good"
BY Zenon DEF Store, publish_bad, with_quality

\* The steps of flush_writes.
LEMMA FlushKeeps ==
  ASSUME EInv, Grows,
         flush_lookup \/ flush_encode_fails \/ flush_write \/ flush_write_ok \/ flush_write_fails
  PROVE  EInv'
<1>1. /\ Store(tags) /\ bound = TRUE
      /\ backoff > 0 => ~connected /\ \A t \in Tags : tags[t].quality # "Good"
  BY Zenon DEF EInv, Polling, NoGoodInBackoff, Grows
<1>2. CASE flush_lookup
  BY <1>1, <1>2, FlushGoesOn DEF flush_lookup, WQ!flush_lookup
<1>3. CASE flush_write
  BY <1>3, FlushGoesOn, Zenon DEF flush_write, WQ!flush_write
<1>4. CASE flush_encode_fails
  <2>1. PICK k \in index..Len(batch) :
          FlushReturns("InvalidArgument",
                       publish_bad(tags, batch[k].tag, "DecodingError"), connected)
    BY <1>4, Zenon DEF flush_encode_fails
  <2>2. flush' = "idle" /\ strandq' = strandq
    BY <1>4, Zenon DEF flush_encode_fails, WQ!flush_encode_fails, WQ!flush_coalesce_fails,
                WQ!requeue_from
  <2> DEFINE store == publish_bad(tags, batch[k].tag, "DecodingError")
  <2>3. Store(store) /\ \A u \in Tags : store[u].quality = "Good" => tags[u].quality = "Good"
    BY <1>1, PublishBad, Zenon
  <2> HIDE DEF store
  <2>4. FlushReturns("InvalidArgument", store, connected)
    BY <2>1, Zenon DEF store
  <2> QED BY <1>1, <2>2, <2>3, <2>4, ReturnKeeps, Zenon
<1>5. CASE flush_write_ok
  <2> DEFINE store == Written(tags, Good)
  <2>1. /\ connected /\ WQ!flush_write_ok /\ strandq' = strandq
        /\ IF flush' = "idle"
           THEN FlushReturns("none", store, connected)
           ELSE /\ tags' = store /\ strand' = "flush"
                /\ UNCHANGED <<connected, inflight, backoff, age, chain>>
    BY <1>5, Zenon DEF flush_write_ok
  <2>2. backoff = 0 /\ Store(store)
    BY <1>1, <2>1 DEF EInv, Polling, Written, Store
  <2>3. /\ flush' = "idle" => batch' = <<>> /\ index' = 1
        /\ write_queue' = write_queue /\ accepted' = accepted
    BY <2>1, Zenon DEF WQ!flush_write_ok
  <2> HIDE DEF store
  <2>4. CASE flush' = "idle"
    <3>1. FlushReturns("none", store, connected)
      BY <2>1, <2>4, Zenon
    <3>2. ~(backoff > 0)
      BY <2>2
    <3> QED BY <2>1, <2>2, <2>3, <2>4, <3>1, <3>2, ReturnKeeps, Zenon
  <2>5. CASE flush' # "idle"
    <3>2. Marks'
      BY <2>1, <2>3, <2>5, MarksKept DEF EInv
    <3>3. Polling' /\ ChainRecord(chain') /\ Completions'
      BY <2>1, <2>2, <2>5 DEF EInv, Polling, InflightIsChain, NoGoodInBackoff, Completions
    <3> QED BY <2>1, <2>5, <3>2, <3>3, Zenon DEF EInv, StrandFlush
  <2> QED BY <2>4, <2>5, Zenon
<1>6. CASE flush_write_fails
  <2> DEFINE store == publish_bad(tags, batch[index].tag, "WriteRejected")
  <2>1. PICK e \in TransportErrors : FlushReturns(e, store, connected /\ ~Disconnects(e))
    BY <1>6 DEF flush_write_fails
  <2>2. flush' = "idle" /\ strandq' = strandq /\ e # "none"
    BY <1>6, <2>1, Zenon DEF flush_write_fails, WQ!flush_write_fails, WQ!requeue_from, TransportErrors
  <2>3. Store(store) /\ \A u \in Tags : store[u].quality = "Good" => tags[u].quality = "Good"
    BY <1>1, PublishBad, Zenon
  <2> DEFINE conn == connected /\ ~Disconnects(e)
  <2>4. conn => connected
    BY Zenon
  <2> HIDE DEF store, conn
  <2>5. FlushReturns(e, store, conn)
    BY <2>1, Zenon DEF conn
  <2> QED BY <1>1, <2>2, <2>3, <2>4, <2>5, ReturnKeeps, Zenon
<1> QED BY <1>2, <1>3, <1>4, <1>5, <1>6, Zenon

\* The transport posts the completion of the operation in progress.
LEMMA CompleteKeeps ==
  ASSUME EInv, Grows, chain.at \in {"connecting", "reading", "refused"},
         NEW kind, NEW e, NEW v, Complete(kind, e, v),
         kind = "read" => chain.at \in {"reading", "refused"}
  PROVE  EInv'
<1>2. /\ strandq' = Append(strandq, Event(kind, e, v))
      /\ chain' = [chain EXCEPT !.at = "posted"]
      /\ UNCHANGED <<tags, inflight, backoff, strand>>
      /\ flush' = flush /\ accepted' = accepted
  BY Zenon DEF Complete, wqVars
<1>3. ChainRecord(chain') /\ chain'.at = "posted" /\ chain'.mark = chain.mark
  BY <1>2, Zenon DEF EInv, ChainRecord
<1>4. backoff = 0 /\ inflight /\ IsQueue(strandq) /\ NoCompletion(strandq)
  BY Zenon DEF EInv, Polling, InflightIsChain, Completions
<1>5. Polling'
  BY <1>2, <1>3, <1>4 DEF EInv, Polling, InflightIsChain, NoGoodInBackoff
<1>6. /\ IsQueue(strandq') /\ AtMostOne(strandq')
      /\ HasRead(strandq') => kind = "read"
  BY <1>2, <1>4, AppendCompletion DEF Event
<1>7. Marks'
  BY <1>2, <1>3, <1>6 DEF EInv, Marks, Grows
<1>8. StrandFlush'
  BY <1>2, Zenon DEF EInv, StrandFlush
<1> QED BY <1>3, <1>5, <1>6, <1>7, <1>8, Zenon DEF EInv, Completions

\* The steps of the transport worker.
LEMMA TransportKeeps ==
  ASSUME EInv, Grows, Transport
  PROVE  EInv'
<1>1. CASE async_connect
  BY <1>1, CompleteKeeps, Zenon DEF async_connect
<1>2. CASE async_read
  BY <1>2, CompleteKeeps DEF async_read
<1>3. CASE device_answers
  <2>2. /\ chain' = [chain EXCEPT !.sample = dev[Head(chain.todo)]]
        /\ UNCHANGED <<tags, connected, inflight, backoff, strand, strandq>>
        /\ flush' = flush /\ accepted' = accepted /\ write_queue' = write_queue
        /\ chain.at = "reading"
    BY <1>3, Zenon DEF device_answers, wqVars
  <2>3. ChainRecord(chain') /\ chain'.at = chain.at /\ chain'.mark = chain.mark
    BY <2>2 DEF EInv, ChainRecord
  <2>4. Marks'
    BY <2>2, <2>3, MarksKept, Zenon DEF EInv
  <2>5. Polling' /\ Completions' /\ StrandFlush'
    BY <2>2, <2>3, Zenon DEF EInv, Polling, InflightIsChain, NoGoodInBackoff, Completions, StrandFlush
  <2> QED BY <2>3, <2>4, <2>5, Zenon DEF EInv
<1> QED BY <1>1, <1>2, <1>3, Zenon DEF Transport

\* The steps of the OPC UA thread, and a step that changes nothing.
LEMMA ClientKeeps ==
  ASSUME EInv, Grows,
         \/ \E t \in Tags, e \in BOOLEAN : ua_enqueue(t, e)
         \/ ua_post \/ ua_get \/ ua_publish
         \/ UNCHANGED vars
  PROVE  EInv'
<1>2. UNCHANGED <<connected, inflight, backoff, chain, strand>> /\ flush' = flush
  BY Zenon DEF ua_enqueue, ua_post, ua_get, ua_publish, vars, wqVars, WQ!enqueue_write, WQ!loopVars
<1>3. accepted' - Len(write_queue') = accepted - Len(write_queue)
  <2>1. ASSUME NEW t \in Tags, NEW e \in BOOLEAN, ua_enqueue(t, e)
        PROVE  accepted' - Len(write_queue') = accepted - Len(write_queue)
    <3>1. PICK w : write_queue' = Append(write_queue, w) /\ accepted' = accepted + 1
      BY <2>1, Zenon DEF ua_enqueue, WQ!enqueue_write
    <3>2. IsQueue(write_queue)
      BY Zenon DEF Grows, WQ!TypeOK, IsQueue
    <3>3. Len(write_queue') = Len(write_queue) + 1
      BY <3>1, <3>2, AppendElements, Zenon
    <3> QED BY <3>1, <3>3 DEF Grows
  <2>2. CASE ua_post \/ ua_get \/ ua_publish \/ UNCHANGED vars
    BY <2>2, Zenon DEF ua_post, ua_get, ua_publish, vars, wqVars
  <2> QED BY <2>1, <2>2, Zenon
<1>4. /\ IsQueue(strandq') /\ AtMostOne(strandq')
      /\ NoCompletion(strandq) => NoCompletion(strandq')
      /\ HasRead(strandq') => HasRead(strandq)
  <2>1. strandq' = strandq \/ strandq' = Append(strandq, FlushEvent)
    BY Zenon DEF ua_enqueue, ua_post, ua_get, ua_publish, vars
  <2>2. FlushEvent.kind = "flush"
    BY Zenon DEF FlushEvent, Event
  <2>3. IsQueue(strandq) /\ AtMostOne(strandq)
    BY Zenon DEF EInv, Completions
  <2> QED BY <2>1, <2>2, <2>3, AppendFlush, Zenon
<1>5. Marks'
  BY <1>2, <1>3, <1>4, MarksKept, Zenon DEF EInv, Marks
<1>6. /\ Store(tags')
      /\ \A u \in Tags : tags'[u].quality = "Good" => tags[u].quality = "Good"
  <2>1. Store(tags)
    BY Zenon DEF EInv, Polling
  <2>2. CASE tags' = tags
    BY <2>1, <2>2, Zenon
  <2>3. CASE ua_publish
    BY <2>1, <2>3, Zenon DEF ua_publish, Store
  <2> QED BY <2>2, <2>3, Zenon DEF ua_enqueue, ua_post, ua_get, vars
<1>7. Polling'
  BY <1>2, <1>6, Zenon DEF EInv, Polling, InflightIsChain, NoGoodInBackoff
<1> QED BY <1>2, <1>4, <1>5, <1>7 DEF EInv, Completions, StrandFlush

\* The clock shortens a backoff and never starts one.
LEMMA AdvanceKeeps ==
  ASSUME EInv, Grows, Advance
  PROVE  EInv'
<1>2. /\ \E f : chain' = [chain EXCEPT !.since = f]
      /\ backoff' = IF backoff > 0 THEN backoff - 1 ELSE 0
      /\ UNCHANGED <<tags, connected, inflight, strand, strandq>>
      /\ flush' = flush /\ accepted' = accepted /\ write_queue' = write_queue
  BY Zenon DEF Advance, wqVars
<1>3. ChainRecord(chain') /\ chain'.at = chain.at /\ chain'.mark = chain.mark
  BY <1>2, Zenon DEF EInv, ChainRecord
<1>4. backoff \in Nat
  BY Zenon DEF EInv, Polling
<1>5. backoff' \in Nat /\ (backoff = 0 => backoff' = 0) /\ (backoff' > 0 => backoff > 0)
  BY <1>2, <1>4
<1>6. Polling'
  BY <1>2, <1>3, <1>5, Zenon DEF EInv, Polling, InflightIsChain, NoGoodInBackoff
<1>7. Marks'
  BY <1>2, <1>3, MarksKept, Zenon DEF EInv, Marks
<1> QED BY <1>2, <1>3, <1>6, <1>7, Zenon DEF EInv, Completions, StrandFlush

-----------------------------------------------------------------------------
\* start() leaves a state of the invariant.
LEMMA InitEndpoint ==
  ASSUME Init
  PROVE  EInv
<1>2. chain = NoChain /\ strandq = <<>> /\ inflight = FALSE /\ strand = "free"
      /\ flush = "idle" /\ accepted = 0
  BY Zenon DEF Init, WQ!Init
<1>3. ChainRecord(chain) /\ chain.at = "none" /\ chain.mark = 0
  BY <1>2, Zenon DEF ChainRecord, NoChain
<1>4. Completions /\ ~HasRead(strandq)
  <2>1. Len(strandq) = 0 /\ strandq \in Seq({})
    BY <1>2
  <2>2. IsQueue(strandq)
    BY <2>1, Zenon DEF IsQueue
  <2> QED BY <2>1, <2>2 DEF Completions, AtMostOne, NoCompletion, HasRead
<1>5. Store(tags) /\ (~connected => \A t \in Tags : tags[t].quality # "Good")
  <2>1. CASE connected
    BY <2>1, Zenon DEF Init, Store
  <2>2. CASE ~connected
    BY <2>2, Zenon DEF Init, Store, mark_endpoint_bad, with_quality
  <2> QED BY <2>1, <2>2, Zenon
<1>6. backoff \in Nat /\ (backoff > 0 => ~connected)
  BY DelayAssumption DEF Init
<1>7. Polling
  BY <1>2, <1>3, <1>5, <1>6, Zenon DEF Polling, InflightIsChain, NoGoodInBackoff
<1>8. Marks
  BY <1>2, <1>3, <1>4 DEF Marks
<1> QED BY <1>2, <1>3, <1>4, <1>7, <1>8, Zenon DEF EInv, StrandFlush

\* Every step keeps the invariant.
LEMMA StepEndpoint ==
  ASSUME EInv, Grows, [Next]_vars
  PROVE  EInv'
BY TickKeeps, ConnectDoneKeeps, PollTagDoneKeeps, PostedFlushKeeps, FlushKeeps,
   TransportKeeps, ClientKeeps, AdvanceKeeps DEF Next, Strand

-----------------------------------------------------------------------------
(* The theorems: the invariant joined with the one of the write queue      *)
(* inside the endpoint.                                                    *)

WQP == INSTANCE WriteQueueProofs

-----------------------------------------------------------------------------
(* The write queue inside the endpoint.                                    *)

\* Every step of the endpoint is a step of the write queue, or leaves it be.
LEMMA QueueStep ==
  ASSUME [Next]_vars
  PROVE  [WQP!Next]_(WQP!vars) /\ bound' = bound
<1> USE DEF WQP!Next, WQP!FlushStep
<1>1. ASSUME WQ!flush_take PROVE WQP!flush_take /\ bound' = bound
  BY <1>1 DEF WQ!flush_take, WQP!flush_take
<1>2. ASSUME WQ!flush_lookup PROVE WQP!flush_lookup /\ bound' = bound
  BY <1>2 DEF WQ!flush_lookup, WQP!flush_lookup, WQ!requeue_from, WQP!requeue_from
<1>3. ASSUME WQ!flush_encode_fails PROVE WQP!flush_encode_fails /\ bound' = bound
  BY <1>3, Zenon DEF WQ!flush_encode_fails, WQP!flush_encode_fails, WQ!requeue_from, WQP!requeue_from
<1>4. ASSUME WQ!flush_coalesce_fails PROVE WQP!flush_coalesce_fails /\ bound' = bound
  BY <1>4, Zenon DEF WQ!flush_coalesce_fails, WQP!flush_coalesce_fails, WQ!requeue_from,
              WQP!requeue_from, WQ!RunReaches, WQP!RunReaches, WQ!Continues, WQP!Continues
<1>5. ASSUME WQ!flush_write PROVE WQP!flush_write /\ bound' = bound
  BY <1>5, Zenon DEF WQ!flush_write, WQP!flush_write, WQ!RunReaches, WQP!RunReaches,
              WQ!Continues, WQP!Continues
<1>6. ASSUME WQ!flush_write_ok PROVE WQP!flush_write_ok /\ bound' = bound
  BY <1>6, Zenon DEF WQ!flush_write_ok, WQP!flush_write_ok
<1>7. ASSUME WQ!flush_write_fails PROVE WQP!flush_write_fails /\ bound' = bound
  BY <1>7 DEF WQ!flush_write_fails, WQP!flush_write_fails, WQ!requeue_from, WQP!requeue_from
<1>8. ASSUME NEW t \in Tags, NEW e \in BOOLEAN, WQ!enqueue_write(t, e)
      PROVE  WQP!enqueue_write(t, e) /\ bound' = bound
  BY <1>8 DEF WQ!enqueue_write, WQP!enqueue_write, WQ!loopVars, WQP!loopVars
<1>9. ASSUME UNCHANGED wqVars PROVE UNCHANGED WQP!vars /\ bound' = bound
  BY <1>9, Zenon DEF wqVars, WQP!vars
<1>10. ASSUME NEW c, run_polls(c) PROVE [WQP!Next]_(WQP!vars) /\ bound' = bound
  BY <1>10, <1>1, <1>9 DEF run_polls
<1>11. CASE tick_endpoint
  BY <1>11, <1>9, <1>10 DEF tick_endpoint
<1>12. CASE Strand
  <2>1. CASE connect_done
    BY <2>1, <1>9, <1>10 DEF connect_done
  <2>2. CASE poll_tag_done
    BY <2>2, <1>9 DEF poll_tag_done
  <2>3. CASE posted_flush
    BY <2>3, <1>1, <1>9, Zenon DEF posted_flush
  <2>4. CASE flush_lookup \/ flush_encode_fails \/ flush_write \/ flush_write_ok
             \/ flush_write_fails
    BY <2>4, <1>2, <1>3, <1>4, <1>5, <1>6, <1>7
       DEF flush_lookup, flush_encode_fails, flush_write, flush_write_ok, flush_write_fails
  <2> QED BY <1>12, <2>1, <2>2, <2>3, <2>4, Zenon DEF Strand
<1>13. CASE Transport
  BY <1>13, <1>9, Zenon DEF Transport, async_connect, device_answers, async_read, Complete
<1>14. ASSUME NEW t \in Tags, NEW e \in BOOLEAN, ua_enqueue(t, e)
       PROVE  [WQP!Next]_(WQP!vars) /\ bound' = bound
  BY <1>14, <1>8 DEF ua_enqueue
<1>15. CASE ua_post \/ ua_get \/ ua_publish \/ Advance
  BY <1>15, <1>9 DEF ua_post, ua_get, ua_publish, Advance
<1>16. CASE UNCHANGED vars
  BY <1>16, <1>9, Zenon DEF vars
<1> QED BY <1>11, <1>12, <1>13, <1>14, <1>15, <1>16 DEF Next

-----------------------------------------------------------------------------
\* The assumptions under which WriteQueue is instantiated.
LEMMA QueueAssumptions ==
  WQP!BindingAssumption /\ WQP!DepthAssumption /\ WQP!WritesAssumption
BY QueueAssumption DEF WQP!BindingAssumption, WQP!DepthAssumption, WQP!WritesAssumption,
     WQ!BindingType, WQP!BindingType

\* The invariant of the queue, which the endpoint starts bound.
QInv == WQP!IInv /\ bound = TRUE

\* Every step keeps the invariant of the queue, only ever adds writes and
\* never takes back that one is settled.
LEMMA QueueGrows ==
  ASSUME QInv, [Next]_vars
  PROVE  QInv' /\ Grows
<1>1. WQP!IInv /\ bound = TRUE
  BY DEF QInv
<1>2. [WQP!Next]_(WQP!vars) /\ bound' = TRUE
  BY <1>1, QueueStep, Zenon
<1>3. WQP!IInv'
  BY <1>1, <1>2, QueueAssumptions, WQP!StepInvariant
<1>4. WQP!TypeOK /\ WQP!TypeOK'
  BY <1>1, <1>3 DEF WQP!IInv
<1>5. WQ!TypeOK /\ WQ!TypeOK'
  BY <1>4, Zenon DEF WQ!TypeOK, WQP!TypeOK, WQ!PendingWrite, WQP!PendingWrite,
              WQ!FlushStates, WQP!FlushStates
<1>6. WQ!Settled = WQP!Settled /\ WQ!Settled' = WQP!Settled'
  BY Zenon DEF WQ!Settled, WQP!Settled, WQ!Pending, WQP!Pending
<1>7. WQ!Settled \in Nat /\ WQ!Settled' \in Nat /\ WQ!Settled <= WQ!Settled'
  BY <1>1, <1>2, <1>6, QueueAssumptions, WQP!SettledGrows
<1>8. WQ!Settled' <= accepted' /\ accepted' \in Nat /\ accepted \in Nat
  <2>1. accepted \in Nat /\ accepted' \in Nat
    BY <1>4, QueueAssumption DEF WQP!TypeOK
  <2>2. (WQP!TypeOK /\ WQP!InOrder => WQP!Settled \in 0..accepted)'
    BY QueueAssumptions, WQP!SettledIsNat, PTL
  <2>3. WQP!Settled' \in 0..accepted'
    BY <1>3, <2>2, Zenon DEF WQP!IInv
  <2> QED BY <1>6, <2>1, <2>3
<1>9. accepted <= accepted'
  <2>1. accepted' = accepted + 1 \/ accepted' = accepted
    <3>1. ASSUME NEW t \in Tags, NEW e \in BOOLEAN, WQP!enqueue_write(t, e)
          PROVE  accepted' = accepted + 1
      BY <3>1, Zenon DEF WQP!enqueue_write
    <3>2. ASSUME WQP!bind_transport \/ WQP!FlushStep \/ UNCHANGED WQP!vars
          PROVE  accepted' = accepted
      BY <3>2 DEF WQP!vars, WQP!FlushStep, WQP!bind_transport, WQP!flush_take,
         WQP!flush_lookup, WQP!flush_encode_fails, WQP!flush_coalesce_fails,
         WQP!flush_write, WQP!flush_write_ok, WQP!flush_write_fails
    <3> QED BY <1>2, <3>1, <3>2 DEF WQP!Next
  <2> QED BY <2>1, <1>8
<1>10. Len(write_queue) \in Nat
  BY <1>4 DEF WQP!TypeOK
<1> QED BY <1>1, <1>2, <1>3, <1>5, <1>7, <1>8, <1>9, <1>10 DEF Grows, QInv

-----------------------------------------------------------------------------
\* However ticks, completions, posted flushes, client writes and transport
\* errors interleave: the inflight flag of tick_endpoint is set exactly while
\* a poll runs, no tag is Good while the endpoint waits to reconnect, and a
\* poll reads only after the writes accepted before its tick are settled.
THEOREM EndpointSafe ==
  SafeSpec => [](NoGoodInBackoff /\ PollsInOrder)
<1> DEFINE I == QInv /\ EInv
<1>1. Init => I
  <2> SUFFICES ASSUME Init PROVE I
    OBVIOUS
  <2>1. WQP!Init /\ bound = TRUE
    BY DEF Init, WQ!Init, WQP!Init
  <2>2. WQP!IInv
    BY <2>1, QueueAssumptions, WQP!InitInvariant
  <2> QED BY <2>1, <2>2, InitEndpoint, Zenon DEF QInv
<1>2. I /\ [Next]_vars => I'
  <2> SUFFICES ASSUME QInv, EInv, [Next]_vars PROVE QInv' /\ EInv'
    OBVIOUS
  <2>1. QInv' /\ Grows
    BY QueueGrows, Zenon
  <2> QED BY <2>1, StepEndpoint
<1>3. I => NoGoodInBackoff /\ PollsInOrder
  <2> SUFFICES ASSUME QInv, EInv
               PROVE  NoGoodInBackoff /\ PollsInOrder
    BY Zenon
  <2>1. InflightIsChain /\ NoGoodInBackoff
    BY Zenon DEF EInv, Polling
  <2>2. WQ!Settled \in Int
    <3>1. WQP!TypeOK /\ WQP!InOrder /\ accepted \in Nat
      BY QueueAssumption DEF QInv, WQP!IInv, WQP!TypeOK
    <3>2. WQP!Settled \in 0..accepted
      BY <3>1, QueueAssumptions, WQP!SettledIsNat, Zenon
    <3>3. WQ!Settled = WQP!Settled
      BY Zenon DEF WQ!Settled, WQP!Settled, WQ!Pending, WQP!Pending
    <3> QED BY <3>1, <3>2, <3>3
  <2>3. chain.at \in {"reading", "refused"} => chain.mark <= WQ!Settled /\ chain.mark \in Int
    BY DEF EInv, Marks
  <2>4. ReadsAfterWrites
    BY <2>2, <2>3 DEF ReadsAfterWrites
  <2> QED BY <2>1, <2>4 DEF PollsInOrder
<1> HIDE DEF I
<1> QED BY <1>1, <1>2, <1>3, PTL DEF SafeSpec

\* While an endpoint waits to reconnect it is not connected and none of its tags
\* reads Good: no flush, late answer or client write brings a value back before
\* the next successful poll.
THEOREM BackoffIsQuiet == SafeSpec => []NoGoodInBackoff
BY EndpointSafe, PTL

\* The write path of the running endpoint, its flushes called from polls and
\* from posted handlers alike, is a behaviour of WriteQueue: what is proved
\* of the queue by itself holds inside the endpoint.
THEOREM EndpointIsWriteQueue == SafeSpec => WQP!SafeSpec
<1>1. Init => WQP!Init
  BY Zenon DEF Init, WQ!Init, WQP!Init
<1>2. [Next]_vars => [WQP!Next]_(WQP!vars)
  BY QueueStep
<1> QED BY <1>1, <1>2, PTL DEF SafeSpec, WQP!SafeSpec

\* Inside the running endpoint the write queue keeps what is proved of it by
\* itself: writes leave in the order they came and are reported once.
THEOREM EndpointWrites == SafeSpec => []WQP!QueueSound
BY EndpointIsWriteQueue, QueueAssumptions, WQP!QueueCorrect, PTL
=============================================================================

-------------------------- MODULE EndpointRuntime --------------------------
(***************************************************************************)
(* One endpoint at run time, after ServerRuntime::start_reactor: the       *)
(* repeating tick (app/server_runtime.cpp), the asynchronous poll chain    *)
(* and the write flush it runs (core/dispatcher.cpp), the flushes that     *)
(* client writes post on the same strand, the transport, the TagStore and  *)
(* the OPC UA thread that accepts writes (adapters/opc_ua_server.cpp).     *)
(*                                                                         *)
(* Threads.  A strand runs one handler at a time, in posting order.  A     *)
(* flush blocks its strand on the transport; a poll does not: it issues    *)
(* one read, returns, and goes on when the completion is posted.  The      *)
(* transport worker and the OPC UA thread run beside the strand.           *)
(*                                                                         *)
(* Values.  A register holds the number of the write that set it, 0 at     *)
(* first, so a TagStore entry shows which write it reflects.               *)
(*                                                                         *)
(* Time.  next_reconnect_ms and last_poll_ms only matter relative to now:  *)
(* backoff is max(0, next_reconnect_ms - now) and age[g] is now -          *)
(* last_poll_ms of group g, cut off at the period of the group.            *)
(***************************************************************************)
EXTENDS Integers, Sequences, FiniteSets

CONSTANTS
  Tags, Binding, kMaxWriteQueueDepth, MaxWrites,    \* as in WriteQueue
  PollGroups,         \* sequence of [period, tags]: groups_for_endpoint()
  ReconnectDelay,     \* reconnect_delay_ms, in steps of Advance
  MaxFaults           \* bound on the transport errors of a behaviour

ASSUME GroupsAssumption ==
  PollGroups \in Seq([period: Nat \ {0}, tags: Seq(Tags)])
ASSUME DelayAssumption == ReconnectDelay \in Nat /\ MaxFaults \in Nat

VARIABLES
  write_queue, batch, index, group_end, flush, bound,
  accepted, sent, confirmed, rejected,              \* as in WriteQueue
  tags,          \* TagStore: the entry of each tag
  dev,           \* the registers of the device
  connected,     \* IModbusTransport::is_connected
  inflight,      \* EndpointPollState::inflight
  backoff,       \* time until next_reconnect_ms
  age,           \* time since last_poll_ms of each group
  chain,         \* the poll in progress
  strand,        \* "free"; "flush", a handler is inside flush_writes; "wire",
                 \* and waits for a write issued on an open connection
  strandq,       \* handlers posted on the strand
  ua,            \* the OPC UA thread inside data_source_write
  faults,        \* transport errors so far
  mixed          \* the connection may deliver the bytes of another operation

wqVars == <<write_queue, batch, index, group_end, flush, bound,
            accepted, sent, confirmed, rejected>>
vars == <<wqVars, tags, dev, connected, inflight, backoff, age, chain,
          strand, strandq, ua, faults, mixed>>

WQ == INSTANCE WriteQueue

ASSUME QueueAssumption ==
  /\ Binding \in [Tags -> WQ!BindingType]
  /\ kMaxWriteQueueDepth \in Nat \ {0} /\ MaxWrites \in Nat

Groups == 1..Len(PollGroups)
Period(g) == PollGroups[g].period

NoValue == -1
AnyValue == -2     \* read on a mixed connection: it may be any
\* "Decode" is Translator::decode refusing what was read.
TransportErrors == {"Timeout", "Connection", "ModbusException", "Decoding"}
\* at: where the poll is; todo: the tags still to read, the one being read
\* first; due, since: the groups due at the tick and the time since then,
\* until they are stamped; mark: the writes accepted before the tick; sample:
\* the device's answer.
NotSince == [g \in Groups |-> 0]
NoChain == [at |-> "none", todo |-> <<>>, error |-> "none", due |-> {},
            since |-> NotSince, mark |-> 0, sample |-> NoValue]
Event(k, e, v) == [kind |-> k, error |-> e, value |-> v]
FlushEvent == Event("flush", "none", NoValue)

NoUa == [at |-> "idle"]

-----------------------------------------------------------------------------
\* with_quality: quality and reason change, the last value stays.
with_quality(v, q, r) == [value |-> v.value, quality |-> q, reason |-> r]

Good(v) == [value |-> v, quality |-> "Good", reason |-> "None"]

publish_bad(store, t, r) == [store EXCEPT ![t] = with_quality(@, "Bad", r)]

mark_endpoint_bad(store) ==
  [t \in Tags |-> with_quality(store[t], "Bad", "NoCommunication")]

\* start() connects each endpoint before the reactor runs; a failure marks
\* its tags and arms the backoff.
Init ==
  /\ WQ!Init /\ bound = TRUE
  /\ connected \in BOOLEAN
  /\ LET absent == [t \in Tags |-> [value |-> NoValue, quality |-> "Absent", reason |-> "None"]]
     IN  tags = IF connected THEN absent ELSE mark_endpoint_bad(absent)
  /\ backoff = IF connected THEN 0 ELSE ReconnectDelay
  /\ dev = [t \in Tags |-> 0]
  /\ inflight = FALSE
  /\ age = [g \in Groups |-> Period(g)]
  /\ chain = NoChain
  /\ strand = "free" /\ strandq = <<>>
  /\ ua = NoUa
  /\ faults = 0 /\ mixed = FALSE
-----------------------------------------------------------------------------
(* The poll chain.  The operators below end a handler on the strand: they  *)
(* fix tags', connected', inflight', backoff' and chain'.                  *)

Done_not_marking(e, store, conn) ==
  LET down == ~conn \/ e = "Connection"
  IN  /\ inflight' = FALSE
      /\ chain' = NoChain
      /\ connected' = ~down
      /\ tags' = store
      /\ backoff' = IF down THEN ReconnectDelay ELSE 0

\* The completion tick_endpoint passed to poll_due_async, called with e.
Done(e, store, conn) ==
  LET down == ~conn \/ e = "Connection"
  IN  /\ inflight' = FALSE
      /\ chain' = NoChain
      /\ connected' = ~down
      /\ tags' = IF down THEN mark_endpoint_bad(store) ELSE store
      /\ backoff' = IF down THEN ReconnectDelay ELSE 0

\* PollChain::next: issue the next read, or finish with the first error.
next(c, store, conn) ==
  IF c.todo = <<>>
  THEN Done(c.error, store, conn)
  ELSE /\ chain' = [c EXCEPT !.at = IF conn THEN "reading" ELSE "refused",
                             !.sample = NoValue]
       /\ tags' = store
       /\ connected' = conn
       /\ inflight' = TRUE
       /\ UNCHANGED backoff

\* The tags of the due groups, group by group (collect_group_tags).
Collect(due) ==
  LET upto[g \in 0..Len(PollGroups)] ==
        IF g = 0 THEN <<>>
        ELSE upto[g - 1] \o (IF g \in due THEN PollGroups[g].tags ELSE <<>>)
  IN  upto[Len(PollGroups)]

StartReads_stamping_all(c, store, conn) ==
  /\ age' = c.since
  /\ next([NoChain EXCEPT !.todo = Collect(c.due), !.mark = c.mark], store, conn)

\* The rest of run_polls: the due groups are stamped and their tags read.
StartReads(c, store, conn) ==
  /\ age' = [g \in Groups |-> IF g \in c.due THEN c.since[g] ELSE age[g]]
  /\ next([NoChain EXCEPT !.todo = Collect(c.due), !.mark = c.mark], store, conn)

run_polls_reads_first(c) ==
  StartReads(c, tags, connected) /\ UNCHANGED <<wqVars, strand>>

\* run_polls flushes the write queue first.
run_polls(c) ==
  IF write_queue # <<>>
  THEN /\ WQ!flush_take
       /\ strand' = "flush"
       /\ chain' = [c EXCEPT !.at = "flushing"]
       /\ inflight' = TRUE
       /\ UNCHANGED <<tags, connected, backoff, age>>
  ELSE StartReads(c, tags, connected) /\ UNCHANGED <<wqVars, strand>>

\* A tick that finds a poll in flight or the backoff running does nothing.
tick_endpoint ==
  LET c == [NoChain EXCEPT !.due = {g \in Groups : age[g] >= Period(g)},
                           !.mark = accepted]
  IN  /\ strand = "free"
      /\ ~inflight
      /\ connected \/ backoff = 0
      /\ \/ /\ connected
            /\ run_polls(c)
         \/ /\ ~connected
            /\ chain' = [c EXCEPT !.at = "connecting"]
            /\ inflight' = TRUE
            /\ UNCHANGED <<wqVars, tags, connected, backoff, age, strand>>
      /\ UNCHANGED <<dev, strandq, ua, faults, mixed>>

\* The strand takes up the completion of async_connect.
connect_done ==
  /\ strand = "free" /\ strandq # <<>> /\ Head(strandq).kind = "connect"
  /\ strandq' = Tail(strandq)
  /\ IF Head(strandq).error = "none"
     THEN run_polls(chain)
     ELSE /\ Done(Head(strandq).error, mark_endpoint_bad(tags), connected)
          /\ UNCHANGED <<wqVars, age, strand>>
  /\ UNCHANGED <<dev, ua, faults, mixed>>

ReasonOf(e) ==
  CASE e = "Timeout" -> "Timeout"
    [] e = "ModbusException" -> "ModbusException"
    [] e = "Decode" -> "DecodingError"
    [] OTHER -> "NoCommunication"

\* The strand takes up the completion of a read: publish, then go on.
poll_tag_done ==
  /\ strand = "free" /\ strandq # <<>> /\ Head(strandq).kind = "read"
  /\ strandq' = Tail(strandq)
  /\ LET ev == Head(strandq)
         t  == Head(chain.todo)
     IN  next([chain EXCEPT !.todo = Tail(@),
                            !.error = IF @ = "none" THEN ev.error ELSE @],
              IF ev.error = "none" THEN [tags EXCEPT ![t] = Good(ev.value)]
                                   ELSE publish_bad(tags, t, ReasonOf(ev.error)),
              connected)
  /\ UNCHANGED <<wqVars, dev, age, strand, ua, faults, mixed>>

-----------------------------------------------------------------------------
(* flush_writes, called by run_polls or by a posted handler.               *)

\* flush_writes returns: run_polls goes on to the reads or reports the
\* error, a posted handler only logs it.
FlushReturns(e, store, conn) ==
  /\ strand' = "free"
  /\ IF chain.at # "flushing"
     THEN /\ tags' = store
          /\ connected' = conn
          /\ UNCHANGED <<inflight, backoff, age, chain>>
     ELSE \/ e = "none" /\ StartReads(chain, store, conn)
          \/ e # "none" /\ Done(e, store, conn) /\ UNCHANGED age

posted_flush_discards ==
  /\ strand = "free" /\ strandq # <<>> /\ Head(strandq).kind = "flush"
  /\ strandq' = Tail(strandq)
  /\ IF connected
     THEN \/ write_queue = <<>> /\ UNCHANGED <<wqVars, strand>>
          \/ WQ!flush_take /\ strand' = "flush"
     ELSE /\ write_queue' = <<>>
          /\ UNCHANGED <<batch, index, group_end, flush, bound, accepted, sent,
                         confirmed, rejected, strand>>
  /\ UNCHANGED <<tags, dev, connected, inflight, backoff, age, chain, ua, faults, mixed>>

posted_flush ==
  /\ strand = "free" /\ strandq # <<>> /\ Head(strandq).kind = "flush"
  /\ strandq' = Tail(strandq)
  /\ \/ write_queue = <<>> /\ UNCHANGED <<wqVars, strand>>
     \/ WQ!flush_take /\ strand' = "flush"
  /\ UNCHANGED <<tags, dev, connected, inflight, backoff, age, chain, ua, faults, mixed>>

flush_lookup ==
  /\ strand = "flush"
  /\ WQ!flush_lookup
  /\ UNCHANGED <<tags, dev, connected, inflight, backoff, age, chain,
                 strand, strandq, ua, faults, mixed>>

flush_encode_fails ==
  /\ strand = "flush"
  /\ \/ WQ!flush_encode_fails
     \/ WQ!flush_coalesce_fails
  /\ \E k \in index..Len(batch) :
       /\ batch[k].seq \in rejected' \ rejected
       /\ FlushReturns("InvalidArgument",
                       publish_bad(tags, batch[k].tag, "DecodingError"), connected)
  /\ UNCHANGED <<dev, strandq, ua, faults, mixed>>

\* A blocking write is issued; without a connection it is refused at once.
\* Beside a read on the same connection the two may take each other's bytes.
flush_write ==
  /\ strand = "flush"
  /\ WQ!flush_write
  /\ strand' = IF connected THEN "wire" ELSE "flush"
  /\ UNCHANGED mixed \/ (connected /\ chain.at = "reading" /\ mixed' = TRUE)
  /\ UNCHANGED <<tags, dev, connected, inflight, backoff, age, chain,
                 strandq, ua, faults>>

\* f with the number of each write of the group at its tag.
Written(f, Entry(_)) ==
  LET group == {batch[k] : k \in index..(group_end - 1)}
  IN  [t \in Tags |-> IF \E w \in group : w.tag = t
                      THEN Entry((CHOOSE w \in group : w.tag = t).seq) ELSE f[t]]
Register(n) == n

\* On a mixed connection the answer may be another's.
flush_write_ok ==
  /\ strand = "wire" /\ connected
  /\ WQ!flush_write_ok
  /\ dev' = Written(dev, Register) \/ (mixed /\ UNCHANGED dev)
  /\ LET store == Written(tags, Good)
     IN  IF flush' = "idle"
         THEN FlushReturns("none", store, connected)
         ELSE /\ tags' = store
              /\ strand' = "flush"
              /\ UNCHANGED <<connected, inflight, backoff, age, chain>>
  /\ UNCHANGED <<strandq, ua, faults, mixed>>

Disconnects(e) == e \in {"Timeout", "Connection"}

Fault == faults < MaxFaults /\ faults' = faults + 1

\* An operation on an open connection fails.  An answer that does not decode
\* leaves it open, at a byte that may not begin an answer.
Fails(e) ==
  /\ Fault
  /\ UNCHANGED mixed \/ (e = "Decoding" /\ mixed' = TRUE)

\* The device may have executed a write whose answer was lost.
flush_write_fails ==
  /\ WQ!flush_write_fails
  /\ \E e \in TransportErrors :
       /\ CASE strand = "wire" /\ connected ->
                 /\ Fails(e)
                 /\ \/ UNCHANGED dev
                    \/ (mixed \/ e # "ModbusException") /\ dev' = Written(dev, Register)
            [] strand = "wire" /\ ~connected ->
                 /\ Disconnects(e)
                 /\ dev' \in {dev, Written(dev, Register)} /\ UNCHANGED <<faults, mixed>>
            [] OTHER ->
                 e = "Connection" /\ UNCHANGED <<dev, faults, mixed>>
       /\ FlushReturns(e, publish_bad(tags, batch[index].tag, "WriteRejected"),
                       connected /\ ~Disconnects(e))
  /\ UNCHANGED <<strandq, ua>>

-----------------------------------------------------------------------------
(* The transport worker, to the extent of the port's contract: each        *)
(* operation is completed once, on the strand.                             *)

Complete(kind, e, v) ==
  /\ strandq' = Append(strandq, Event(kind, e, v))
  /\ chain' = [chain EXCEPT !.at = "posted"]
  /\ UNCHANGED <<wqVars, tags, dev, inflight, backoff, age, strand, ua>>

\* A new connection begins with no bytes of the old one.
async_connect ==
  /\ chain.at = "connecting"
  /\ \/ /\ Complete("connect", "none", NoValue)
        /\ connected' = TRUE /\ mixed' = FALSE /\ UNCHANGED faults
     \/ \E e \in {"Timeout", "Connection", "InvalidArgument"} :
          Complete("connect", e, NoValue) /\ Fault /\ UNCHANGED <<connected, mixed>>

\* The device answers a read: the value is the one of this moment.
device_answers ==
  /\ chain.at = "reading" /\ connected /\ chain.sample = NoValue /\ ~mixed
  /\ chain' = [chain EXCEPT !.sample = dev[Head(chain.todo)]]
  /\ UNCHANGED <<wqVars, tags, dev, connected, inflight, backoff, age,
                 strand, strandq, ua, faults, mixed>>

\* A transaction that times out or loses the connection closes the socket,
\* which also aborts the other one that is on it.  On a mixed connection a
\* read may end with any value, without an answer to it.
async_read ==
  \/ /\ chain.at = "reading" /\ connected
     /\ mixed \/ chain.sample # NoValue
     /\ Complete("read", "none", IF mixed THEN AnyValue ELSE chain.sample)
     /\ UNCHANGED <<connected, faults, mixed>>
  \/ /\ chain.at = "reading" /\ connected
     /\ \E e \in TransportErrors \cup {"Decode"} :
          Complete("read", e, NoValue) /\ Fails(e) /\ connected' = ~Disconnects(e)
  \/ /\ chain.at = "reading" /\ ~connected
     /\ \E e \in {"Timeout", "Connection"} : Complete("read", e, NoValue)
     /\ UNCHANGED <<connected, faults, mixed>>
  \/ /\ chain.at = "refused"
     /\ Complete("read", "Connection", NoValue) /\ UNCHANGED <<connected, faults, mixed>>

-----------------------------------------------------------------------------
(* The OPC UA thread in data_source_write.                                 *)

\* The write handler of ServerRuntime: enqueue ...
ua_enqueue(t, e) ==
  /\ ua.at = "idle"
  /\ WQ!enqueue_write(t, e)
  /\ ua' = [at |-> "enqueued", tag |-> t]
  /\ UNCHANGED <<tags, dev, connected, inflight, backoff, age, chain, strand,
                 strandq, faults, mixed>>

\* ... and post a flush on the endpoint's strand.
ua_post ==
  /\ ua.at = "enqueued"
  /\ strandq' = Append(strandq, FlushEvent)
  /\ ua' = [ua EXCEPT !.at = "posted"]
  /\ UNCHANGED <<wqVars, tags, dev, connected, inflight, backoff, age, chain,
                 strand, faults, mixed>>

\* store->get ...
ua_get ==
  /\ ua.at = "posted"
  /\ ua' = [at |-> "got", tag |-> ua.tag, value |-> tags[ua.tag].value]
  /\ UNCHANGED <<wqVars, tags, dev, connected, inflight, backoff, age, chain,
                 strand, strandq, faults, mixed>>

\* ... and store->publish of that value as Uncertain, WritePending.
ua_publish ==
  /\ ua.at = "got"
  /\ tags' = [tags EXCEPT ![ua.tag] = [value |-> ua.value, quality |-> "Uncertain",
                                       reason |-> "WritePending"]]
  /\ ua' = NoUa
  /\ UNCHANGED <<wqVars, dev, connected, inflight, backoff, age, chain,
                 strand, strandq, faults, mixed>>

-----------------------------------------------------------------------------
\* One more unit of time, as far as group g can tell.
Later(g, n) == IF n < Period(g) THEN n + 1 ELSE n

\* The clock advances.
Advance ==
  /\ age' = [g \in Groups |-> Later(g, age[g])]
  /\ backoff' = IF backoff > 0 THEN backoff - 1 ELSE 0
  /\ chain' = [chain EXCEPT !.since =
                 [g \in Groups |-> IF g \in chain.due THEN Later(g, @[g]) ELSE 0]]
  /\ UNCHANGED <<wqVars, tags, dev, connected, inflight, strand, strandq, ua, faults, mixed>>

Strand ==
  \/ connect_done
  \/ poll_tag_done
  \/ posted_flush
  \/ flush_lookup
  \/ flush_encode_fails
  \/ flush_write
  \/ flush_write_ok
  \/ flush_write_fails

Transport == async_connect \/ device_answers \/ async_read

Next ==
  \/ tick_endpoint
  \/ Strand
  \/ Transport
  \/ \E t \in Tags, e \in BOOLEAN : ua_enqueue(t, e)
  \/ ua_post
  \/ ua_get
  \/ ua_publish
  \/ Advance

\* Timers, strands and the transport worker run as long as the reactor does;
\* a call of data_source_write ends.
Fairness ==
  /\ WF_vars(tick_endpoint)
  /\ WF_vars(Strand)
  /\ WF_vars(Transport)
  /\ WF_vars(ua_post \/ ua_get \/ ua_publish)
  /\ WF_vars(Advance)

SafeSpec == Init /\ [][Next]_vars

Spec == SafeSpec /\ Fairness

-----------------------------------------------------------------------------
\* A poll chain and the inflight flag come and go together: the flag is
\* never left set by a chain that is gone, which would end polling, and no
\* chain runs without it, which would let a second one start beside it.
InflightIsChain == inflight <=> chain.at # "none"

\* While an endpoint waits to reconnect, no tag of it reads Good, whatever
\* the writes, flushes and late publications of the meantime.
NoGoodInBackoff ==
  backoff > 0 => ~connected /\ \A t \in Tags : tags[t].quality # "Good"

\* Writes go first: once a poll reads, every write accepted before its tick
\* has been settled.
ReadsAfterWrites ==
  chain.at \in {"reading", "refused"} => WQ!Settled >= chain.mark

\* One poll at a time, and each after the writes that came before it.
PollsInOrder == InflightIsChain /\ ReadsAfterWrites

\* The tags some group reads.
Polled == {t \in Tags : \E g \in Groups : \E k \in DOMAIN PollGroups[g].tags :
                        PollGroups[g].tags[k] = t}

\* The endpoint implements the write queue, with the fairness WriteQueue
\* assumes of its caller: a write left in the queue is always flushed again.
ImplementsWriteQueue == WQ!Spec
=============================================================================

----------------------------- MODULE WriteQueue -----------------------------
(***************************************************************************)
(* The write-down queue of one endpoint: Dispatcher::enqueue_write, called *)
(* on the OPC UA thread, and Dispatcher::flush_writes, called on the       *)
(* endpoint's strand (core/dispatcher.cpp).                                *)
(*                                                                         *)
(* A pending write is the tag, the number under which the write was        *)
(* accepted (it stands for the value) and whether Translator::encode will  *)
(* take that value.  A flush swaps the queue out under write_mutex_, works *)
(* through the batch without the lock, and puts what it did not get to     *)
(* back in front of whatever was enqueued meanwhile.                       *)
(***************************************************************************)
EXTENDS Integers, Sequences, FiniteSets

CONSTANTS
  Tags,                  \* the tags of the endpoint
  Binding,               \* [Tags -> record], the RuntimeIndex entry of a tag
  kMaxWriteQueueDepth,   \* enqueue_write refuses at this depth
  MaxWrites              \* bound on the writes a behaviour accepts

\* area: "coil" or "holding"; width: the registers or bits encode() yields;
\* encodes: the outcomes encode() can have for a value a client may send.
BindingType == [area: {"coil", "holding"}, unit: Nat, address: Nat,
                width: Nat \ {0}, writable: BOOLEAN, encodes: SUBSET BOOLEAN]

ASSUME BindingAssumption == Binding \in [Tags -> BindingType]
ASSUME DepthAssumption == kMaxWriteQueueDepth \in Nat \ {0}
ASSUME WritesAssumption == MaxWrites \in Nat

VARIABLES
  write_queue,   \* write_queues_[endpoint]
  batch,         \* the batch a running flush swapped out
  index,         \* i of the flush loop, from 1
  group_end,     \* first index behind the group being written
  flush,         \* where flush_writes is
  bound,         \* a transport is bound to the endpoint
  accepted,      \* how many writes enqueue_write has accepted
  sent,          \* per tag, the last write put on the wire
  confirmed,     \* writes published Good
  rejected       \* writes published Bad

vars == <<write_queue, batch, index, group_end, flush, bound,
          accepted, sent, confirmed, rejected>>
loopVars == <<batch, index, group_end, flush>>

PendingWrite == {w \in [seq: Nat \ {0}, tag: Tags, encodes: BOOLEAN] :
                   w.encodes \in Binding[w.tag].encodes}

FlushStates == {"idle", "taken", "item", "sending"}

\* The types, and that the flush loop never indexes outside its batch.
TypeOK ==
  /\ write_queue \in Seq(PendingWrite)
  /\ batch \in Seq(PendingWrite)
  /\ index \in Nat \ {0}
  /\ group_end \in Nat
  /\ flush \in FlushStates
  /\ bound \in BOOLEAN
  /\ accepted \in 0..MaxWrites
  /\ sent \in [Tags -> Nat]
  /\ confirmed \in SUBSET Nat
  /\ rejected \in SUBSET Nat
  /\ flush = "idle" => batch = <<>>
  /\ flush \in {"idle", "taken"} => index = 1
  /\ flush # "idle" => index \in 1..Len(batch)
  /\ flush = "sending" => group_end \in (index + 1)..(Len(batch) + 1)

Init ==
  /\ write_queue = <<>>
  /\ batch = <<>>
  /\ index = 1
  /\ group_end = 0
  /\ flush = "idle"
  /\ bound \in BOOLEAN
  /\ accepted = 0
  /\ sent = [t \in Tags |-> 0]
  /\ confirmed = {}
  /\ rejected = {}

-----------------------------------------------------------------------------
bind_transport ==
  /\ bound' = TRUE
  /\ UNCHANGED <<write_queue, loopVars, accepted, sent, confirmed, rejected>>

\* The refusals (unknown tag, tag not writable, queue full) change nothing.
enqueue_write(t, e) ==
  /\ accepted < MaxWrites
  /\ Binding[t].writable
  /\ e \in Binding[t].encodes
  /\ Len(write_queue) < kMaxWriteQueueDepth
  /\ write_queue' = Append(write_queue, [seq |-> accepted + 1, tag |-> t, encodes |-> e])
  /\ accepted' = accepted + 1
  /\ UNCHANGED <<loopVars, bound, sent, confirmed, rejected>>

-----------------------------------------------------------------------------
flush_take_copies ==
  /\ flush = "idle"
  /\ write_queue # <<>>
  /\ batch' = write_queue
  /\ index' = 1
  /\ flush' = "taken"
  /\ UNCHANGED <<write_queue, group_end, bound, accepted, sent, confirmed, rejected>>

\* The swap under write_mutex_; an empty queue ends the flush at once.
flush_take ==
  /\ flush = "idle"
  /\ write_queue # <<>>
  /\ batch' = write_queue
  /\ write_queue' = <<>>
  /\ index' = 1
  /\ flush' = "taken"
  /\ UNCHANGED <<group_end, bound, accepted, sent, confirmed, rejected>>

requeue_at_back(from) ==
  /\ write_queue' = write_queue \o SubSeq(batch, from, Len(batch))
  /\ batch' = <<>>
  /\ index' = 1
  /\ flush' = "idle"

\* Insert batch[from..] in front of the queue and return.
requeue_from(from) ==
  /\ write_queue' = SubSeq(batch, from, Len(batch)) \o write_queue
  /\ batch' = <<>>
  /\ index' = 1
  /\ flush' = "idle"

flush_lookup ==
  /\ flush = "taken"
  /\ IF bound
     THEN flush' = "item" /\ UNCHANGED <<write_queue, batch, index>>
     ELSE requeue_from(1)
  /\ UNCHANGED <<group_end, bound, accepted, sent, confirmed, rejected>>

\* batch[k] continues the run of coils that starts at batch[index].
Continues(k) ==
  LET first == Binding[batch[index].tag]
      prev  == Binding[batch[k - 1].tag]
      next  == Binding[batch[k].tag]
  IN  /\ first.area = "coil"
      /\ next.area = "coil"
      /\ next.unit = first.unit
      /\ next.address = prev.address + prev.width

\* The coalescing loop gets past batch[index+1 .. k-1].
RunReaches(k) ==
  /\ k \in (index + 1)..(Len(batch) + 1)
  /\ \A m \in (index + 1)..(k - 1) : Continues(m) /\ batch[m].encodes

flush_encode_retries ==
  /\ flush = "item"
  /\ ~batch[index].encodes
  /\ requeue_from(index)
  /\ UNCHANGED <<group_end, bound, accepted, sent, confirmed, rejected>>

\* encode() refuses batch[index]: report it, requeue the rest, return.
flush_encode_fails ==
  /\ flush = "item"
  /\ ~batch[index].encodes
  /\ rejected' = rejected \cup {batch[index].seq}
  /\ requeue_from(index + 1)
  /\ UNCHANGED <<group_end, bound, accepted, sent, confirmed>>

\* encode() refuses a coil met while coalescing: report that one and requeue
\* what is behind it.  The coils already gathered are not written.
flush_coalesce_fails ==
  /\ flush = "item"
  /\ batch[index].encodes
  /\ \E k \in (index + 1)..Len(batch) :
       /\ RunReaches(k)
       /\ Continues(k)
       /\ ~batch[k].encodes
       /\ rejected' = rejected \cup {batch[k].seq}
       /\ requeue_from(k + 1)
  /\ UNCHANGED <<group_end, bound, accepted, sent, confirmed>>

\* Put batch[index .. end-1] on the wire as one Modbus write.
flush_write ==
  /\ flush = "item"
  /\ batch[index].encodes
  /\ \E end \in (index + 1)..(Len(batch) + 1) :
       /\ RunReaches(end)
       /\ end <= Len(batch) => ~Continues(end)
       /\ group_end' = end
       /\ sent' = [t \in Tags |->
                     IF \E k \in index..(end - 1) : batch[k].tag = t
                     THEN batch[CHOOSE k \in index..(end - 1) : batch[k].tag = t].seq
                     ELSE sent[t]]
  /\ flush' = "sending"
  /\ UNCHANGED <<write_queue, batch, index, bound, accepted, confirmed, rejected>>

\* The transport reports success: the whole group is published Good.
flush_write_ok ==
  /\ flush = "sending"
  /\ confirmed' = confirmed \cup {batch[k].seq : k \in index..(group_end - 1)}
  /\ IF group_end <= Len(batch)
     THEN flush' = "item" /\ index' = group_end /\ UNCHANGED batch
     ELSE flush' = "idle" /\ index' = 1 /\ batch' = <<>>
  /\ UNCHANGED <<write_queue, group_end, bound, accepted, sent, rejected>>

\* The transport reports an error: only the first write of the group is
\* reported and dropped, the others of the group go back to the queue.
flush_write_fails ==
  /\ flush = "sending"
  /\ rejected' = rejected \cup {batch[index].seq}
  /\ requeue_from(index + 1)
  /\ UNCHANGED <<group_end, bound, accepted, sent, confirmed>>

FlushStep ==
  \/ flush_take
  \/ flush_lookup
  \/ flush_encode_fails
  \/ flush_coalesce_fails
  \/ flush_write
  \/ flush_write_ok
  \/ flush_write_fails

Next ==
  \/ bind_transport
  \/ \E t \in Tags, e \in BOOLEAN : enqueue_write(t, e)
  \/ FlushStep

SafeSpec == Init /\ [][Next]_vars

\* ServerRuntime::start binds every endpoint; each accepted write posts a
\* flush and every tick starts with one; a transaction ends.
Spec == SafeSpec /\ WF_vars(bind_transport) /\ WF_vars(FlushStep)

-----------------------------------------------------------------------------
\* The accepted writes that are still to be dealt with, oldest first.
Pending == SubSeq(batch, index, Len(batch)) \o write_queue

Settled == accepted - Len(Pending)

\* Whatever batches were swapped out and put back, and whatever the OPC UA
\* thread enqueued meanwhile, the pending writes are exactly the youngest
\* accepted ones, each once, in the order enqueue_write accepted them.
InOrder ==
  \A k \in 1..Len(Pending) : Pending[k].seq = Settled + k

\* No write is both confirmed and rejected, and none that was reported
\* either way is still waiting to be written again.
SettledOnce ==
  /\ confirmed \cap rejected = {}
  /\ confirmed \cup rejected \subseteq 1..Settled

\* flush_writes against enqueue_write: it stays within the batch it took, the
\* waiting writes are the youngest ones in order, and the reported ones are
\* reported once.
QueueSound == TypeOK /\ InOrder /\ SettledOnce

\* An accepted write is waiting or was reported: "on an error the remaining
\* elements of the batch return to the queue" (DOCs/adr/0013, decision 4).
NoSilentDrop ==
  1..Settled \subseteq confirmed \cup rejected

\* Every accepted write is dealt with: a flush that fails always settles
\* the write it failed on, so the one behind it gets its turn.
EveryWriteSettles ==
  \A n \in 1..MaxWrites : []<>(accepted >= n => Settled >= n)

Ledger == INSTANCE WriteLedger WITH settled <- Settled

\* The queue, its batches and its retries implement the ledger: writes are
\* settled oldest first, and a settled write stays as it was reported.
ImplementsLedger == Ledger!LedgerSpec

=============================================================================

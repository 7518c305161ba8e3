------------------------------ MODULE Historian ------------------------------
(***************************************************************************)
(* SqliteHistorian: a hot ring of the last samples, a queue of pending     *)
(* ones, and a flush that moves the queue to a table in one transaction.   *)
(*                                                                         *)
(* record() is called by every thread that publishes, and flush() by the   *)
(* completion of every endpoint's poll; they share one connection to the   *)
(* database, where a transaction of one flush makes BEGIN of another fail. *)
(* A sample is its number, given when the ring takes it.                   *)
(***************************************************************************)
EXTENDS Integers, Sequences, FiniteSets

CONSTANTS
  Recorders,
  Flushers,
  Capacity,      \* hot_capacity
  MaxRecords,    \* bound: samples of a behaviour
  MaxFailures,   \* bound: statements that fail
  MaxStops       \* bound: ends of the process

ASSUME CapacityAssumption == Capacity \in Nat
ASSUME BoundsAssumption ==
  MaxRecords \in Nat /\ MaxFailures \in Nat /\ MaxStops \in Nat

VARIABLES
  serial,        \* samples so far
  by,            \* who recorded each
  first,         \* the number of the first sample of this process
  buffer, head, count, dropped,   \* RingHistorian
  held,          \* for each recorder, the sample between ring and queue; 0: none
  pending,       \* pending_
  cold_pending_dropped_,
  db_,           \* the database is open
  flushing,      \* what each flush is doing
  txn,           \* the open transaction: its owner and its rows
  samples,       \* the table
  gone,          \* samples that were dropped or lost with a process
  flushed,       \* the endpoints that have flushed so far
  failures, stops

ring == <<buffer, head, count, dropped>>
faults == <<failures, stops>>
database == <<flushing, txn, samples>>
vars == <<serial, by, first, ring, held, pending, cold_pending_dropped_, db_,
          database, gone, flushed, faults>>

\* The capacity of ring and queue.
cap == IF Capacity = 0 THEN 1 ELSE Capacity
max_pending == cap * 4

Numbers == 1..MaxRecords
NoOwner == "none"
ASSUME OwnerAssumption == NoOwner \notin Flushers
NoTransaction == [owner |-> NoOwner, rows |-> <<>>]
Idle == [at |-> "idle", batch |-> <<>>]
Places == {"idle", "taken", "inserting", "failed"}

\* sqlite3_open or the schema may fail; the historian then works without db_.
Init ==
  /\ serial = 0
  /\ by = <<>>
  /\ first = 1
  /\ buffer = [i \in 0..(cap - 1) |-> 0]
  /\ head = 0 /\ count = 0 /\ dropped = 0
  /\ held = [r \in Recorders |-> 0]
  /\ pending = <<>>
  /\ cold_pending_dropped_ = 0
  /\ db_ \in BOOLEAN
  /\ flushing = [f \in Flushers |-> Idle]
  /\ txn = NoTransaction
  /\ samples = <<>>
  /\ gone = {}
  /\ flushed = {}
  /\ failures = 0 /\ stops = 0

-----------------------------------------------------------------------------
(* Recording.                                                              *)

\* RingHistorian::record.
record_hot(r) ==
  /\ held[r] = 0 /\ serial < MaxRecords
  /\ serial' = serial + 1
  /\ by' = Append(by, r)
  /\ held' = [held EXCEPT ![r] = serial']
  /\ IF count = cap
     THEN dropped' = dropped + 1 /\ count' = count
     ELSE dropped' = dropped /\ count' = count + 1
  /\ buffer' = [buffer EXCEPT ![head] = serial']
  /\ head' = (head + 1) % cap
  /\ UNCHANGED <<first, pending, cold_pending_dropped_, db_, database, gone, flushed, faults>>

\* SqliteHistorian::record, under its own lock.
record_pending(r) ==
  /\ held[r] # 0
  /\ pending' = Append(pending, held[r])
  /\ held' = [held EXCEPT ![r] = 0]
  /\ UNCHANGED <<serial, by, first, ring, cold_pending_dropped_, db_, database,
                 gone, flushed, faults>>

\* What recent(max) returns, newest first, and snapshot(), oldest first.
recent(max) ==
  [i \in 1..(IF max < count THEN max ELSE count) |-> buffer[(head + cap - i) % cap]]

snapshot_from_head == [i \in 1..count |-> buffer[(head + i - 1) % cap]]

snapshot ==
  LET oldest == (head + cap - count) % cap
  IN [i \in 1..count |-> buffer[(oldest + i - 1) % cap]]

\* The order in which replay_recent publishes samples.
replay_recent(max) ==
  LET found == recent(max) IN [i \in DOMAIN found |-> found[Len(found) + 1 - i]]

-----------------------------------------------------------------------------
(* Flushing.                                                               *)

Goes(f, place) == flushing' = [flushing EXCEPT ![f].at = place]

\* The queue is taken under the lock.
flush(f) ==
  /\ flushing[f].at = "idle"
  /\ flushing' = [flushing EXCEPT ![f] = [at |-> "taken", batch |-> pending]]
  /\ pending' = <<>>
  /\ flushed' = flushed \cup {f}
  /\ UNCHANGED <<serial, by, first, ring, held, cold_pending_dropped_, db_, txn,
                 samples, gone, faults>>

Others == <<serial, by, first, ring, held, pending, cold_pending_dropped_, db_, gone,
            flushed>>

\* insert_batch returns before it begins a transaction.
no_insert(f) ==
  /\ flushing[f].at = "taken"
  /\ \/ ~db_ /\ Goes(f, "failed")
     \/ db_ /\ flushing[f].batch = <<>> /\ Goes(f, "idle")
  /\ UNCHANGED <<Others, txn, samples, faults>>

\* BEGIN IMMEDIATE: refused inside a transaction, whoever began it.
begin(f) ==
  /\ flushing[f].at = "taken" /\ db_ /\ flushing[f].batch # <<>>
  /\ IF txn = NoTransaction
     THEN txn' = [owner |-> f, rows |-> <<>>] /\ Goes(f, "inserting")
     ELSE txn' = txn /\ Goes(f, "failed")
  /\ UNCHANGED <<Others, samples, faults>>

Remaining(f) == Len(flushing[f].batch) - Len(txn.rows)

insert(f) ==
  /\ flushing[f].at = "inserting" /\ Remaining(f) > 0
  /\ txn' = [txn EXCEPT !.rows = Append(@, flushing[f].batch[Len(@) + 1])]
  /\ UNCHANGED <<Others, flushing, samples, faults>>

commit(f) ==
  /\ flushing[f].at = "inserting" /\ Remaining(f) = 0
  /\ samples' = samples \o txn.rows
  /\ txn' = NoTransaction
  /\ flushing' = [flushing EXCEPT ![f] = Idle]
  /\ UNCHANGED <<Others, faults>>

fail_no_rollback(f) ==
  /\ failures < MaxFailures /\ failures' = failures + 1
  /\ flushing[f].at \in {"taken", "inserting"} /\ db_ /\ flushing[f].batch # <<>>
  /\ txn' = txn
  /\ Goes(f, "failed")
  /\ UNCHANGED <<Others, samples, stops>>

\* BEGIN, the preparation, an insertion or COMMIT fails; the last three
\* roll the transaction back.
fail(f) ==
  /\ failures < MaxFailures /\ failures' = failures + 1
  /\ \/ flushing[f].at = "taken" /\ db_ /\ flushing[f].batch # <<>> /\ txn' = txn
     \/ flushing[f].at = "inserting" /\ txn' = NoTransaction
  /\ Goes(f, "failed")
  /\ UNCHANGED <<Others, samples, stops>>

Elements(seq) == {seq[i] : i \in DOMAIN seq}

Ungone == <<serial, by, first, ring, held, db_, txn, samples, flushed, faults>>

requeue_replacing(f) ==
  LET all == flushing[f].batch
      drop == IF Len(all) > max_pending THEN Len(all) - max_pending ELSE 0
  IN /\ flushing[f].at = "failed"
     /\ pending' = SubSeq(all, drop + 1, Len(all))
     /\ cold_pending_dropped_' = cold_pending_dropped_ + drop
     /\ gone' = gone \cup Elements(SubSeq(all, 1, drop))
     /\ flushing' = [flushing EXCEPT ![f] = Idle]
     /\ UNCHANGED Ungone

\* The batch goes back in front of what was recorded meanwhile, and the
\* oldest samples beyond the limit are dropped.
requeue(f) ==
  LET all == flushing[f].batch \o pending
      drop == IF Len(all) > max_pending THEN Len(all) - max_pending ELSE 0
  IN /\ flushing[f].at = "failed"
     /\ pending' = SubSeq(all, drop + 1, Len(all))
     /\ cold_pending_dropped_' = cold_pending_dropped_ + drop
     /\ gone' = gone \cup Elements(SubSeq(all, 1, drop))
     /\ flushing' = [flushing EXCEPT ![f] = Idle]
     /\ UNCHANGED Ungone

-----------------------------------------------------------------------------
\* The process ends, in whatever it was doing, and is started again.  What
\* was not committed is gone.
restart ==
  /\ stops < MaxStops /\ stops' = stops + 1
  /\ gone' = gone \cup {n \in Numbers : \E r \in Recorders : held[r] = n}
                  \cup Elements(pending)
                  \cup UNION {Elements(flushing[f].batch) : f \in Flushers}
  /\ first' = serial + 1
  /\ buffer' = [i \in 0..(cap - 1) |-> 0]
  /\ head' = 0 /\ count' = 0 /\ dropped' = 0
  /\ held' = [r \in Recorders |-> 0]
  /\ pending' = <<>>
  /\ cold_pending_dropped_' = 0
  /\ db_' \in BOOLEAN
  /\ flushing' = [f \in Flushers |-> Idle]
  /\ txn' = NoTransaction
  /\ UNCHANGED <<serial, by, samples, flushed, failures>>

Record == \E r \in Recorders : record_hot(r)
Queue(r) == record_pending(r)
Flush(f) ==
  flush(f) \/ no_insert(f) \/ begin(f) \/ insert(f) \/ commit(f) \/ requeue(f)

Next ==
  \/ Record
  \/ \E r \in Recorders : Queue(r)
  \/ \E f \in Flushers : Flush(f) \/ fail(f)
  \/ restart

Spec == Init /\ [][Next]_vars

\* record() returns, and every endpoint's polls go on flushing.  Nothing has
\* to be recorded, and nothing has to fail.
FairSpec ==
  /\ Spec
  /\ \A r \in Recorders : WF_vars(Queue(r))
  /\ \A f \in Flushers : WF_vars(Flush(f))

-----------------------------------------------------------------------------
(* Properties.                                                             *)

\* The ring holds the last samples of this process, as many as it can:
\* recent() returns them newest first, snapshot() and replay_recent()
\* oldest first, across every wrap of the ring; the others were dropped and
\* counted.
HotIsLast ==
  /\ \A max \in 0..(cap + 1) :
       recent(max) = [i \in 1..(IF max < count THEN max ELSE count) |-> serial + 1 - i]
  /\ snapshot = [i \in 1..count |-> serial - count + i]
  /\ replay_recent(cap) = snapshot
  /\ count + dropped = serial + 1 - first

Times(n, seq) == Cardinality({i \in DOMAIN seq : seq[i] = n})

\* Every sample is in one place: on its way to the queue, in it, in the batch
\* of one flush, in the table, or gone.  So no failure, rollback, collision
\* of two flushes or restart stores a sample twice or loses it uncounted.
Conserved ==
  /\ \A n \in 1..serial :
       1 = Cardinality({r \in Recorders : held[r] = n})
           + Times(n, pending) + Times(n, samples)
           + Cardinality(UNION {{f} \X {i \in DOMAIN flushing[f].batch :
                                         flushing[f].batch[i] = n} : f \in Flushers})
           + (IF n \in gone THEN 1 ELSE 0)
  /\ cold_pending_dropped_ = Cardinality({n \in gone : n >= first})

\* load_cold returns the rows by their id, "oldest-first": the samples of one
\* recorder are in the table in the order in which they were recorded.
ColdInOrder ==
  \A i, j \in DOMAIN samples :
    i < j /\ by[samples[i]] = by[samples[j]] => samples[i] < samples[j]

\* Every sample is in one place, whatever flushes fail, collide and are repeated
\* and however often the program restarts; and as long as one endpoint flushes,
\* the table is in the order of recording.
SamplesKept == Conserved /\ ((\A f, g \in flushed : f = g) => ColdInOrder)

\* With a database, what is queued is in the end stored (or was dropped):
\* failed flushes, and flushes refused because of another one, are repeated.
Drains == (<>[]db_) => <>[](pending = <<>>)
=============================================================================

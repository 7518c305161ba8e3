------------------------------ MODULE PollOnce ------------------------------
(***************************************************************************)
(* The blocking path of the server, OPC_SERVER --once and                  *)
(* --runtime-doctor: Application::run calls ServerRuntime::poll_once       *)
(* (app/server_runtime.cpp), which polls every endpoint with               *)
(* Dispatcher::poll_due, poll_group and poll_tag (core/dispatcher.cpp),    *)
(* lets the OPC UA server serve its clients once, and is followed by       *)
(* core::runtime_doctor.  Everything runs on one thread: the event loop    *)
(* thread of the OPC UA server starts with the reactor only.               *)
(*                                                                         *)
(* Time.  elapsed is the time that really passes; now_ms() is the wall     *)
(* clock, which is elapsed minus what the clock was set back.  Neither is  *)
(* 0, which last_poll_ms_ uses for "never".                                *)
(***************************************************************************)
EXTENDS ProjectLoad

CONSTANTS
  Configured,                              \* a project that validate accepts
  MaxPasses, MaxTime, MaxBack, MaxFaults, MaxWrites         \* bounds

VARIABLES
  elapsed, back,       \* the time, and how much the clock was set back
  last_poll_ms,        \* group id -> the clock when it was polled, 0: never
  connected,           \* endpoint id -> IModbusTransport::is_connected
  write_queues,        \* endpoint id -> ids of the tags written, in order
  store,               \* TagStore: id -> [quality, reason], absent at first
  pass,                \* where poll_once is
  findings,              \* findings of runtime_doctor after the last pass
  faults, writes,      \* transport errors and client writes so far
  contact,             \* history: id -> the pass and outcome of the last
                       \* read, write or connect that involved the tag
  polled               \* history: group id -> elapsed when it was polled

onceVars == <<elapsed, back, last_poll_ms, connected, write_queues, store, pass,
          findings, faults, writes, contact, polled>>

Index == build(Configured)
TagIds == DOMAIN Index
EndpointIds == {e.id : e \in Range(Configured.endpoints)}
GroupIds == {g.id : g \in Range(Configured.poll_groups)}
now_ms == elapsed - back

Of(e) == {i \in TagIds : Index[i].endpoint_id = e}
Area(i) == Index[i].tag.area

\* publish_quality, for all tags of a set.
publish(ids, q, r) ==
  [i \in ids \cup DOMAIN store |->
     IF i \in ids THEN [quality |-> q, reason |-> r] ELSE store[i]]

Contacted(ids, ok) ==
  [i \in TagIds |-> IF i \in ids THEN [pass |-> pass.number, ok |-> ok] ELSE contact[i]]

\* left: endpoints to poll; groups: of the first of them; todo: tags of the
\* first group; early: endpoints poll_due returned from before its groups;
\* due: groups whose period had passed; error: first_error is set.
Idle(n) == [at |-> "idle", number |-> n, now |-> 0, elapsed |-> 0, left |-> <<>>,
            groups |-> <<>>, todo |-> <<>>, early |-> {}, due |-> {}, error |-> FALSE]

OnceInit ==
  /\ elapsed = 1 /\ back = 0
  /\ last_poll_ms = [g \in GroupIds |-> 0]
  /\ \E up \in SUBSET EndpointIds :
       /\ connected = [e \in EndpointIds |-> e \in up]
       /\ store = [i \in UNION {Of(e) : e \in EndpointIds \ up} |->
                     [quality |-> "Bad", reason |-> "NoCommunication"]]
  /\ write_queues = [e \in EndpointIds |-> <<>>]
  /\ pass = Idle(0) /\ findings = {}
  /\ faults = 0 /\ writes = 0
  /\ contact = [i \in TagIds |-> [pass |-> 0, ok |-> FALSE]]
  /\ polled = [g \in GroupIds |-> 0]

period_passed(g) ==
  last_poll_ms[g.id] = 0 \/ pass.now - last_poll_ms[g.id] >= g.period_ms

-----------------------------------------------------------------------------
poll_once ==
  /\ pass.at = "idle" /\ pass.number < MaxPasses
  /\ pass' = [Idle(pass.number + 1) EXCEPT
                !.at = "endpoint", !.now = now_ms, !.elapsed = elapsed,
                !.left = [i \in DOMAIN Configured.endpoints |-> Configured.endpoints[i].id]]
  /\ findings' = {}
  /\ UNCHANGED <<elapsed, back, last_poll_ms, connected, write_queues, store,
                 faults, writes, contact, polled>>

\* poll_due returns before its groups: the next endpoint follows.
Early == [pass EXCEPT !.left = Tail(@), !.early = @ \cup {Head(pass.left)},
                      !.error = TRUE]

At(place) == pass.at = place /\ pass.left # <<>>

Fault == faults < MaxFaults /\ faults' = faults + 1

\* A mutant: poll_once gives up at the first endpoint that does not answer.
connect_fails_all ==
  /\ At("endpoint") /\ Fault
  /\ LET e == Head(pass.left) IN
       /\ ~connected[e]
       /\ store' = publish(Of(e), "Bad", "NoCommunication")
       /\ contact' = Contacted(Of(e), FALSE)
       /\ pass' = [Early EXCEPT !.left = <<>>]
  /\ UNCHANGED <<elapsed, back, last_poll_ms, connected, write_queues, findings,
                 writes, polled>>

connect_fails ==
  /\ At("endpoint") /\ Fault
  /\ LET e == Head(pass.left) IN
       /\ ~connected[e]
       /\ store' = publish(Of(e), "Bad", "NoCommunication")
       /\ contact' = Contacted(Of(e), FALSE)
  /\ pass' = Early
  /\ UNCHANGED <<elapsed, back, last_poll_ms, connected, write_queues, findings,
                 writes, polled>>

\* flush_writes of writes that are sent one by one; WriteQueue models the
\* grouping and the refusals of Translator::encode.
flushed ==
  /\ At("endpoint")
  /\ LET e == Head(pass.left)
         done == Range(write_queues[e])
     IN /\ connected' = [connected EXCEPT ![e] = TRUE]
        /\ write_queues' = [write_queues EXCEPT ![e] = <<>>]
        /\ store' = publish(done, "Good", "None")
        /\ contact' = Contacted(done, TRUE)
        /\ pass' = [pass EXCEPT !.at = "groups",
                                !.groups = groups_for_endpoint(Configured, e)]
  /\ UNCHANGED <<elapsed, back, last_poll_ms, findings, faults, writes, polled>>

flush_fails ==
  /\ At("endpoint") /\ Fault
  /\ LET e == Head(pass.left)
         q == write_queues[e]
     IN \E k \in DOMAIN q, lost \in BOOLEAN :
          LET done == {q[j] : j \in 1..(k - 1)} IN
          /\ connected' = [connected EXCEPT ![e] = ~lost]
          /\ write_queues' = [write_queues EXCEPT ![e] = SubSeq(q, k + 1, Len(q))]
          /\ store' = [publish(done \cup {q[k]}, "Good", "None") EXCEPT
                         ![q[k]] = [quality |-> "Bad", reason |-> "WriteRejected"]]
          /\ contact' = [Contacted(done \cup {q[k]}, TRUE) EXCEPT ![q[k]].ok = FALSE]
  /\ pass' = Early
  /\ UNCHANGED <<elapsed, back, last_poll_ms, findings, writes, polled>>

-----------------------------------------------------------------------------
skip_group ==
  /\ At("groups") /\ pass.groups # <<>>
  /\ ~period_passed(Head(pass.groups))
  /\ pass' = [pass EXCEPT !.groups = Tail(@)]
  /\ UNCHANGED <<elapsed, back, last_poll_ms, connected, write_queues, store,
                 findings, faults, writes, contact, polled>>

poll_group ==
  /\ At("groups") /\ pass.groups # <<>>
  /\ LET g == Head(pass.groups)
         found == poll_group_found(Index, g)
     IN /\ period_passed(g)
        /\ pass' = [pass EXCEPT !.at = "tags", !.due = @ \cup {g.id},
                      !.error = @ \/ ~found,
                      !.todo = IF found THEN SetToSortSeq(collect_group_tags(Index, g), <)
                               ELSE <<>>]
  /\ UNCHANGED <<elapsed, back, last_poll_ms, connected, write_queues, store,
                 findings, faults, writes, contact, polled>>

next_endpoint ==
  /\ At("groups") /\ pass.groups = <<>>
  /\ pass' = [pass EXCEPT !.at = "endpoint", !.left = Tail(@)]
  /\ UNCHANGED <<elapsed, back, last_poll_ms, connected, write_queues, store,
                 findings, faults, writes, contact, polled>>

\* The error of a read, as a reason: reads of bits lose it.
read_reason(i, error) ==
  IF Area(i) \in {"coil", "discrete"} \/ error = "Connection"
  THEN "NoCommunication" ELSE error

tag_read ==
  /\ At("tags") /\ pass.todo # <<>>
  /\ connected[Head(pass.left)]
  /\ LET i == Head(pass.todo) IN
       /\ store' = publish({i}, "Good", "None")
       /\ contact' = Contacted({i}, TRUE)
  /\ pass' = [pass EXCEPT !.todo = Tail(@)]
  /\ UNCHANGED <<elapsed, back, last_poll_ms, connected, write_queues, findings,
                 faults, writes, polled>>

\* A read on a connection that an earlier read lost fails at once; a timeout
\* closes a TCP connection and leaves a UDP one.
tag_fails(error) ==
  /\ At("tags") /\ pass.todo # <<>>
  /\ LET e == Head(pass.left)
         i == Head(pass.todo)
     IN /\ IF connected[e] THEN Fault ELSE error = "Connection" /\ UNCHANGED faults
        /\ \E stays \in [Timeout |-> BOOLEAN, ModbusException |-> {TRUE},
                        Connection |-> {FALSE}][error] :
             connected' = [connected EXCEPT ![e] = @ /\ stays]
        /\ store' = publish({i}, "Bad", read_reason(i, error))
        /\ contact' = Contacted({i}, FALSE)
  /\ pass' = [pass EXCEPT !.todo = Tail(@), !.error = TRUE]
  /\ UNCHANGED <<elapsed, back, last_poll_ms, write_queues, findings, writes, polled>>

\* The group is stamped with the time of the pass, whatever its reads gave.
group_polled ==
  /\ At("tags") /\ pass.todo = <<>>
  /\ LET g == Head(pass.groups).id IN
       /\ last_poll_ms' = [last_poll_ms EXCEPT ![g] = pass.now]
       /\ polled' = [polled EXCEPT ![g] = pass.elapsed]
  /\ pass' = [pass EXCEPT !.at = "groups", !.groups = Tail(@)]
  /\ UNCHANGED <<elapsed, back, connected, write_queues, store, findings, faults,
                 writes, contact>>

-----------------------------------------------------------------------------
Finish(st) ==
  /\ pass.at = "endpoint" /\ pass.left = <<>>
  /\ pass' = [pass EXCEPT !.at = "idle"]
  /\ findings' = runtime_doctor(Index, [i \in DOMAIN st |-> st[i].quality])
  /\ UNCHANGED <<elapsed, back, last_poll_ms, connected, faults, contact, polled>>

\* iterate() with no request of a client.
iterate == Finish(store) /\ UNCHANGED <<store, write_queues, writes>>

\* iterate() serves the write of a client: enqueue_write, then the tag is
\* pending.  The queue of kMaxWriteQueueDepth is in WriteQueue.
iterate_write(i) ==
  /\ writes < MaxWrites /\ Index[i].tag.writable
  /\ writes' = writes + 1
  /\ write_queues' = [write_queues EXCEPT ![Index[i].endpoint_id] = Append(@, i)]
  /\ store' = publish({i}, "Uncertain", "WritePending")
  /\ Finish(store')

Advance ==
  /\ elapsed < MaxTime /\ elapsed' = elapsed + 1
  /\ UNCHANGED <<back, last_poll_ms, connected, write_queues, store, pass, findings,
                 faults, writes, contact, polled>>

\* The clock of the machine is set back.
SetBack ==
  /\ back < MaxBack /\ now_ms > 1 /\ back' = back + 1
  /\ UNCHANGED <<elapsed, last_poll_ms, connected, write_queues, store, pass,
                 findings, faults, writes, contact, polled>>

OnceNext ==
  \/ Advance \/ SetBack \/ poll_once \/ connect_fails \/ flushed \/ flush_fails \/ skip_group
  \/ poll_group \/ next_endpoint \/ tag_read \/ group_polled \/ iterate
  \/ \E error \in {"Timeout", "ModbusException", "Connection"} : tag_fails(error)
  \/ \E i \in TagIds : iterate_write(i)

OnceSpec == OnceInit /\ [][OnceNext]_onceVars

-----------------------------------------------------------------------------
Ended == pass.at = "idle" /\ pass.number > 0
GroupTags(g) == collect_group_tags(Index, g)
EndpointOf(g) == Only({d.endpoint_id : d \in device(Configured, g.device_id)}, "")

\* Between two passes poll_once has left nothing half done: every group of an
\* endpoint that could be polled and whose period had passed was polled, and
\* each tag of it is either read in this pass or not Good.  A connection that
\* fails, an exception or a refused write of one endpoint takes nothing from
\* another (the loops of poll_once, poll_due and poll_group go on after an
\* error).
DueIsFresh ==
  Ended =>
    \A g \in Range(Configured.poll_groups) :
      EndpointOf(g) \notin pass.early =>
        /\ g.id \in pass.due \/ pass.now - last_poll_ms[g.id] < g.period_ms
        /\ g.id \in pass.due => \A i \in GroupTags(g) :
             /\ contact[i].pass = pass.number
             /\ store[i].quality = "Good" => contact[i].ok

\* poll_once returns an error exactly when something failed in this pass: an
\* endpoint was given up, or a tag of a polled group was not read (the first
\* error is kept over all later successes).
ErrorReported ==
  Ended =>
    (pass.error <=> \/ pass.early # {}
                    \/ \E g \in Range(Configured.poll_groups) :
                         g.id \in pass.due /\ \E i \in GroupTags(g) : ~contact[i].ok)

\* What --runtime-doctor calls an error is the state of the field: a tag whose
\* last read, write or connect failed, or that nothing was ever heard of; a
\* tag with a write of a client in the queue is left aside.
DoctorHonest ==
  Ended =>
    \A i \in TagIds :
      (\A e \in EndpointIds : i \notin Range(write_queues[e])) =>
        ([tag |-> Index[i].tag.name, severity |-> "Error"] \in findings <=> ~contact[i].ok)

\* A group of a reachable endpoint never waits longer than its period and what
\* the clock was set back meanwhile: the periods of poll_due are measured with
\* the wall clock.
PeriodKept ==
  Ended =>
    \A g \in Range(Configured.poll_groups) :
      EndpointOf(g) \notin pass.early =>
        pass.elapsed - polled[g.id] < g.period_ms + back
=============================================================================

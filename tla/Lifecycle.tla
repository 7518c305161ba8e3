------------------------------ MODULE Lifecycle ------------------------------
(***************************************************************************)
(* Who is still running while ServerRuntime starts and stops               *)
(* (Src/app/server_runtime.cpp, Application::run): the main thread, the    *)
(* reactor's strand of one endpoint, the transport's own worker and the    *)
(* OPC UA event loop, over the objects stop() destroys one after another.  *)
(* A step that uses an object already destroyed records it in `fault`.     *)
(*                                                                         *)
(* Polling is reduced to its calls: connect, flush of the queued writes,   *)
(* reads, completion.  HasWorker distinguishes ModbusTcpTransport, whose   *)
(* asynchronous calls are run by a worker thread that delivers completions *)
(* through the completion executor or inline, from the transports whose    *)
(* asynchronous calls are the blocking ones (UDP, replay).                 *)
(***************************************************************************)
EXTENDS Integers, Sequences

CONSTANTS
    HasWorker,   \* the transport has a worker thread
    UseReactor,  \* run() enters the reactor; FALSE is --once
    MaxReads,    \* tags read by one poll
    MaxWrites,   \* bound: OPC UA writes
    MaxStarts    \* bound: calls of start()

VARIABLES
    main,        \* where the main thread is
    reactor,     \* "none", "running", "stopping", "stopped", "freed"
    pollState,   \* endpoint_poll_state_: "none", "live", "freed"
    inflight,    \* EndpointPollState::inflight
    executor,    \* completion_executor of the transport: "null" or "strand"
    transport,   \* transports_: "none", "live", "freed"
    subscribed,  \* historian_sub_
    ua,          \* the OPC UA server: "none" or "up" with its event loop
    uaPost,      \* the event loop is between running() and post() of a write
    queue,       \* writes queued in the Dispatcher
    strandq,     \* handlers posted on the endpoint's strand
    tq,          \* operations posted on the transport's strand
    pc,          \* what the strand and the transport's worker do
    cur,         \* the completion the thread is running
    left,        \* reads the poll still has to issue
    joinable,    \* the worker is joinable: neither absent nor detached
    detached,    \* a worker that closed its own transport is on its way out
    fault,       \* destroyed objects some step has used
    starts, writes

vars == <<main, reactor, pollState, inflight, executor, transport, subscribed, ua, uaPost, queue,
          strandq, tq, pc, cur, left, joinable, detached, fault, starts, writes>>

objects == <<reactor, pollState, executor, transport, subscribed, ua>>
threads == <<strandq, tq, pc, cur, left, joinable, detached>>
counters == <<starts, writes>>

Init ==
    /\ main = "idle"
    /\ reactor = "none"
    /\ pollState = "none"
    /\ inflight = FALSE
    /\ executor = "null"
    /\ transport = "none"
    /\ subscribed = FALSE
    /\ ua = "none"
    /\ uaPost = FALSE
    /\ queue = 0
    /\ strandq = <<>>
    /\ tq = <<>>
    /\ pc = [strand |-> "idle", tw |-> "idle"]
    /\ cur = [strand |-> "none", tw |-> "none"]
    /\ left = 0
    /\ joinable = FALSE
    /\ detached = FALSE
    /\ fault = {}
    /\ starts = 0
    /\ writes = 0

\* A thread waits for its own blocking call while the call is in the queue.
Waiting(t) == \E i \in DOMAIN tq : tq[i].by = t

\* asio::post on the transport's strand after ensure_worker.
PostOp(op, by) ==
    /\ tq' = Append(tq, [op |-> op, by |-> by])
    /\ joinable' = TRUE

------------------------------------------------------------------------------
(* The main thread: start.                                                  *)

\* start(): the factory's transport connects, blocking; a refused connection
\* is not an error.
StartConnect ==
    /\ main = "idle"
    /\ starts < MaxStarts
    /\ starts' = starts + 1
    /\ main' = "connecting"
    /\ transport' = "live"
    /\ pollState' = "live"
    /\ inflight' = FALSE
    /\ IF HasWorker THEN PostOp("connect", "main") 
       ELSE UNCHANGED <<tq, joinable, pc>>
    /\ UNCHANGED <<reactor, executor, subscribed, ua, uaPost, queue, strandq, pc, cur, left, fault,
                   writes, detached>>

\* The factory returned null: stop() rolls back.
StartNoTransport ==
    /\ main = "idle"
    /\ starts < MaxStarts
    /\ starts' = starts + 1
    /\ main' = "stop"
    /\ UNCHANGED <<objects, threads, inflight, uaPost, queue, fault, writes>>

\* opcua_->start and bind_tags, and the historian's subscription; each of the
\* first two may fail, and stop() rolls back.
StartUa ==
    /\ main = "connecting"
    /\ ~Waiting("main")
    /\ \/ ua' = "up" /\ subscribed' = TRUE /\ main' = "started"
       \/ ua' \in {"none", "up"} /\ main' = "stop" /\ UNCHANGED subscribed
    /\ UNCHANGED <<reactor, pollState, executor, transport, threads, inflight, uaPost, queue, fault,
                   counters>>

\* --once: poll_due blocks in connect, flush_writes and reads on the main thread.
PollOnce ==
    /\ main = "started"
    /\ ~UseReactor
    /\ main' = "polling"
    /\ queue' = 0
    /\ IF HasWorker THEN PostOp("read", "main") ELSE UNCHANGED <<tq, joinable>>
    /\ UNCHANGED <<objects, strandq, pc, cur, left, inflight, uaPost, fault, counters, detached>>

PolledOnce ==
    /\ main = "polling"
    /\ ~Waiting("main")
    /\ main' = "stop"
    /\ UNCHANGED <<objects, threads, inflight, uaPost, queue, fault, counters>>

\* start_reactor: the strand's executor is wired into the transport.
StartReactor ==
    /\ main = "started"
    /\ UseReactor
    /\ main' = "running"
    /\ reactor' = "running"
    /\ executor' = "strand"
    /\ strandq' = <<>>
    /\ UNCHANGED <<pollState, transport, subscribed, ua, inflight, uaPost, queue, tq, pc, cur, left,
                   joinable, fault, counters, detached>>

------------------------------------------------------------------------------
(* The main thread: stop.                                                   *)

\* The signal handler's request_stop, which ends run_until_stop.
Signal ==
    /\ main = "running"
    /\ reactor' = "stopping"
    /\ main' = "stop"
    /\ UNCHANGED <<pollState, executor, transport, subscribed, ua, threads, inflight, uaPost, queue,
                   fault, counters>>

\* Mutated form: the workers are joined once the queued handlers ran.
StopReactorDrained ==
    /\ main = "stop"
    /\ reactor = "stopping"
    /\ pc.strand = "idle"
    /\ strandq = <<>>
    /\ reactor' = "stopped"
    /\ UNCHANGED <<main, pollState, executor, transport, subscribed, ua, threads, inflight, uaPost,
                   queue, fault, counters>>

\* The workers are joined: each leaves ctx.run() after the handler it is in.
StopReactor ==
    /\ main = "stop"
    /\ reactor = "stopping"
    /\ pc.strand = "idle"
    /\ reactor' = "stopped"
    /\ UNCHANGED <<main, pollState, executor, transport, subscribed, ua, threads, inflight, uaPost,
                   queue, fault, counters>>

\* reactor_.reset(): the io_context goes with its strands and queued handlers.
FreeReactor ==
    /\ main = "stop"
    /\ reactor \in {"none", "stopped", "freed"}
    /\ reactor' = IF reactor = "none" THEN "none" ELSE "freed"
    /\ strandq' = <<>>
    /\ main' = "stop_poll_state"
    /\ UNCHANGED <<pollState, executor, transport, subscribed, ua, tq, pc, cur, left, joinable,
                   inflight, uaPost, queue, fault, counters, detached>>

ClearPollState ==
    /\ main = "stop_poll_state"
    /\ pollState' = IF pollState = "live" THEN "freed" ELSE pollState
    /\ main' = "stop_executor"
    /\ UNCHANGED <<reactor, executor, transport, subscribed, ua, threads, inflight, uaPost, queue,
                   fault, counters>>

\* Mutated form: the historian stays subscribed.
ClearExecutorOnly ==
    /\ main = "stop_executor"
    /\ executor' = "null"
    /\ main' = "stop_ua"
    /\ UNCHANGED <<reactor, pollState, transport, subscribed, ua, threads, inflight, uaPost, queue,
                   fault, counters>>

\* set_completion_executor(nullptr), unsubscribe and the last flush.
ClearExecutor ==
    /\ main = "stop_executor"
    /\ executor' = "null"
    /\ subscribed' = FALSE
    /\ main' = "stop_ua"
    /\ UNCHANGED <<reactor, pollState, transport, ua, threads, inflight, uaPost, queue, fault,
                   counters>>

\* opcua_->stop() joins the event loop, then each transport's close() posts the
\* closing to a running worker.
StopUa ==
    /\ main = "stop_ua"
    /\ ~uaPost
    /\ ua' = "none"
    /\ main' = "closing"
    /\ IF joinable THEN PostOp("close", "main") ELSE UNCHANGED <<tq, joinable>>
    /\ UNCHANGED <<reactor, pollState, executor, transport, subscribed, strandq, pc, cur, left,
                   inflight, uaPost, queue, fault, counters, detached>>

\* close() has its answer, stop_worker joins the worker, transports_.clear().
StopTransport ==
    /\ main = "closing"
    /\ ~Waiting("main")
    /\ joinable => pc.tw = "idle"
    /\ tq' = <<>>
    /\ joinable' = FALSE
    /\ transport' = IF transport = "live" THEN "freed" ELSE transport
    /\ main' = "idle"
    /\ UNCHANGED <<reactor, pollState, executor, subscribed, ua, strandq, pc, cur, left, inflight, uaPost,
                   queue, detached, fault, counters>>

MainNext ==
    \/ StartConnect \/ StartNoTransport \/ StartUa \/ PollOnce \/ PolledOnce \/ StartReactor \/ Signal
    \/ StopReactor \/ FreeReactor \/ ClearPollState \/ ClearExecutor \/ StopUa \/ StopTransport

------------------------------------------------------------------------------
(* The strand of the endpoint.                                              *)

\* tick_endpoint: skipped while a poll is in flight; the poll starts with a
\* connect when the transport is disconnected, else with the flush.
Tick ==
    /\ reactor = "running"
    /\ pc.strand = "idle"
    /\ ~inflight
    /\ inflight' = TRUE
    /\ \E first \in {"connect", "connected"} :
           IF first = "connect" /\ HasWorker
           THEN PostOp("connect", "chain") /\ UNCHANGED <<pc, cur>>
           ELSE pc' = [pc EXCEPT !.strand = "run"] /\ cur' = [cur EXCEPT !.strand = "connected"]
                /\ UNCHANGED <<tq, joinable>>
    /\ UNCHANGED <<main, objects, uaPost, queue, strandq, left, fault, counters, detached>>

\* A posted handler: a completion, or the flush_writes of an OPC UA write.
StrandRun ==
    /\ reactor = "running"
    /\ pc.strand = "idle"
    /\ strandq # <<>>
    /\ pc' = [pc EXCEPT !.strand = "run"]
    /\ cur' = [cur EXCEPT !.strand = Head(strandq)]
    /\ strandq' = Tail(strandq)
    /\ UNCHANGED <<main, objects, uaPost, queue, inflight, tq, left, joinable, fault, counters, detached>>

------------------------------------------------------------------------------
(* A completion running on thread t, the strand or the worker itself.       *)

\* run_polls, and the handler of a write, start with flush_writes, which blocks
\* in the transport while it has writes to send.
Flush(t) ==
    /\ pc[t] = "run"
    /\ cur[t] \in {"connected", "flush"}
    /\ cur' = [cur EXCEPT ![t] = IF @ = "flush" THEN "done" ELSE "flushed"]
    /\ queue' = 0
    /\ IF HasWorker /\ queue > 0 THEN PostOp("write", t) ELSE UNCHANGED <<tq, joinable>>
    /\ UNCHANGED <<main, objects, uaPost, strandq, pc, left, inflight, fault, counters, detached>>

HandlerDone(t) ==
    /\ pc[t] = "run"
    /\ cur[t] = "done"
    /\ ~Waiting(t)
    /\ pc' = [pc EXCEPT ![t] = "idle"]
    /\ UNCHANGED <<main, objects, uaPost, queue, strandq, tq, cur, left, joinable, inflight, fault,
                   counters, detached>>

\* PollChain::next with a tag left: the read is posted to the worker, or made
\* here by a transport without one.
NextRead(t) ==
    /\ pc[t] = "run"
    /\ ~Waiting(t)
    /\ \/ cur[t] = "flushed" /\ left' = MaxReads - 1
       \/ cur[t] = "read" /\ left > 0 /\ left' = left - 1
    /\ IF HasWorker
       THEN PostOp("read", "chain") /\ pc' = [pc EXCEPT ![t] = "idle"] /\ UNCHANGED cur
       ELSE cur' = [cur EXCEPT ![t] = "read"] /\ UNCHANGED <<tq, joinable, pc>>
    /\ UNCHANGED <<main, objects, uaPost, queue, strandq, inflight, fault, counters, detached>>

\* state.inflight.store(false), whatever the poll's result.
PollInFlight(t) == FALSE

\* The completion of tick_endpoint, after the last read, a failed connect or
\* flush, or when no group is due: the poll state is written, and a Connection
\* error closes the transport.
Finish(t) ==
    /\ pc[t] = "run"
    /\ ~Waiting(t)
    /\ \/ cur[t] = "read" /\ left = 0
       \/ cur[t] \in {"refused", "flushed"}
    /\ inflight' = PollInFlight(t)
    /\ fault' = IF pollState = "freed" THEN fault \cup {"poll_state"} ELSE fault
    /\ \E closes \in BOOLEAN :
       /\ detached' = (detached \/ (closes /\ t = "tw"))
       /\ IF ~(closes /\ HasWorker)
          THEN pc' = [pc EXCEPT ![t] = "idle"] /\ UNCHANGED <<tq, joinable>>
          ELSE IF t = "tw"
               THEN pc' = [pc EXCEPT !.tw = "idle"] /\ joinable' = FALSE /\ UNCHANGED tq
               ELSE /\ pc' = [pc EXCEPT !.strand = "closing"]
                    /\ IF joinable THEN PostOp("close", "strand") ELSE UNCHANGED <<tq, joinable>>
    /\ UNCHANGED <<main, objects, uaPost, queue, strandq, cur, left, counters>>

\* close() on the strand: answered, then the worker is joined.
Closed ==
    /\ pc.strand = "closing"
    /\ ~Waiting("strand")
    /\ pc.tw = "idle"
    /\ pc' = [pc EXCEPT !.strand = "idle"]
    /\ joinable' = FALSE
    /\ UNCHANGED <<main, objects, uaPost, queue, strandq, tq, cur, left, inflight, fault, counters, detached>>

------------------------------------------------------------------------------
(* The transport's worker.                                                  *)

\* A blocking call's result goes to the waiting thread's promise.
WorkerAnswers ==
    /\ pc.tw = "idle"
    /\ joinable \/ detached
    /\ tq # <<>>
    /\ Head(tq).by # "chain"
    /\ tq' = Tail(tq)
    /\ UNCHANGED <<main, objects, uaPost, queue, strandq, pc, cur, left, joinable, inflight, fault,
                   counters, detached>>

\* deliver(): the executor is read under the lock; without one the completion
\* runs here.
WorkerDelivers ==
    /\ pc.tw = "idle"
    /\ joinable \/ detached
    /\ tq # <<>>
    /\ Head(tq).by = "chain"
    /\ tq' = Tail(tq)
    /\ \E r \in IF Head(tq).op = "read" THEN {"read"} ELSE {"connected", "refused"} :
          cur' = [cur EXCEPT !.tw = r]
    /\ pc' = [pc EXCEPT !.tw = IF executor = "null" THEN "run" ELSE "posting"]
    /\ UNCHANGED <<main, objects, uaPost, queue, strandq, left, joinable, inflight, fault, counters, detached>>

\* StrandExecutor::post: dropped once the reactor is stopping.
WorkerPosts ==
    /\ pc.tw = "posting"
    /\ pc' = [pc EXCEPT !.tw = "idle"]
    /\ strandq' = IF reactor = "running" THEN Append(strandq, cur.tw) ELSE strandq
    /\ fault' = IF reactor = "freed" THEN fault \cup {"reactor"} ELSE fault
    /\ UNCHANGED <<main, objects, uaPost, queue, tq, cur, left, joinable, inflight, counters, detached>>

\* A worker that closed its own transport was detached; it returns from its
\* handler through the transport's io_context.
WorkerLeaves ==
    /\ detached
    /\ pc.tw = "idle"
    /\ joinable \/ tq = <<>>
    /\ detached' = FALSE
    /\ UNCHANGED <<main, objects, uaPost, queue, strandq, tq, pc, cur, left, joinable, inflight, fault,
                   counters>>

------------------------------------------------------------------------------
(* The OPC UA event loop: the write handler of install_write_handler.       *)

UaWrite ==
    /\ ua = "up"
    /\ ~uaPost
    /\ writes < MaxWrites
    /\ writes' = writes + 1
    /\ queue' = queue + 1
    /\ uaPost' = (reactor \in {"running", "stopping"})
    /\ UNCHANGED <<main, objects, threads, inflight, fault, starts>>

UaPosts ==
    /\ uaPost
    /\ uaPost' = FALSE
    /\ strandq' = IF reactor = "running" THEN Append(strandq, "flush") ELSE strandq
    /\ fault' = IF reactor = "freed" THEN fault \cup {"reactor"} ELSE fault
    /\ UNCHANGED <<main, objects, queue, tq, pc, cur, left, joinable, inflight, counters, detached>>

Completion(t) == Flush(t) \/ HandlerDone(t) \/ NextRead(t) \/ Finish(t)

StrandNext == Tick \/ StrandRun \/ Completion("strand") \/ Closed

WorkerNext ==
    HasWorker /\ (WorkerAnswers \/ WorkerDelivers \/ WorkerPosts \/ WorkerLeaves \/ Completion("tw"))

Next == MainNext \/ StrandNext \/ WorkerNext \/ UaWrite \/ UaPosts

Spec == Init /\ [][Next]_vars

\* Threads that can run do run; the worker's operations end by their deadlines.
\* Nothing obliges the user to stop or a client to write.
StopStep ==
    \/ StopReactor \/ FreeReactor \/ ClearPollState \/ ClearExecutor \/ StopUa \/ StopTransport
Fairness ==
    /\ WF_vars(StopStep)
    /\ WF_vars(StrandRun \/ Completion("strand") \/ Closed)
    /\ WF_vars(WorkerNext)
    /\ WF_vars(UaPosts)
LiveSpec == Spec /\ Fairness

------------------------------------------------------------------------------
(* Properties.                                                              *)

\* When start() has failed or stop() has returned nothing is left behind: no
\* transport, poll state, executor, subscription or OPC UA server, and no thread
\* that could still run a handler.
AllReleased ==
    main = "idle" =>
        /\ reactor \in {"none", "freed"}
        /\ pollState # "live" /\ transport # "live" /\ executor = "null"
        /\ ~subscribed /\ ua = "none" /\ ~uaPost
        /\ pc = [strand |-> "idle", tw |-> "idle"]
        /\ ~joinable /\ ~detached /\ tq = <<>> /\ strandq = <<>>

\* The poll state that tick_endpoint hands to its completion by reference is
\* there when the completion runs.
PollStateLives == "poll_state" \notin fault

\* While the reactor runs, a poll that is in flight ends, so that the next tick
\* is not skipped as an overrun for ever.
PollsComplete == []<>(~inflight \/ reactor # "running")

\* A stop does not go on for ever: from each of its steps the main thread comes
\* back to "idle".
StopEnds == []<>(main \notin {"stop", "stop_poll_state", "stop_executor", "stop_ua", "closing"})
==============================================================================

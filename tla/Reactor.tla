------------------------------ MODULE Reactor ------------------------------
(***************************************************************************)
(* AsioReactor (adapters/asio_reactor.cpp): worker threads that run an     *)
(* asio::io_context, one strand per endpoint, repeating timers bound to a  *)
(* strand, and the stop that a signal, or the main thread, asks for.       *)
(*                                                                         *)
(* The io_context keeps strands with something to do in `ready`; a worker  *)
(* runs one handler of the first.  Timers are served by an idle worker.    *)
(* Both are external.  A step that uses a steady_timer is two steps, so    *)
(* that two threads at one timer can be seen.                              *)
(***************************************************************************)
EXTENDS Integers, Sequences, FiniteSets

CONSTANTS
  Endpoints,  \* endpoint ids; each has a strand
  Ops,        \* the repeats, in the order they are added: a sequence
  StrandOf,   \* op -> its endpoint, or a strand of its own
  Hardware,   \* std::thread::hardware_concurrency()
  Endless,    \* ops whose work may never end
  MaxTasks    \* bound: tasks posted from outside

VARIABLES
  main,       \* where the thread of start_reactor and run_until_stop is
  added,      \* ops added so far
  repeats,    \* Impl::repeats
  running, stopping,
  stopped,    \* the io_context is stopped
  signal,     \* signal_set: "none", "waiting", "fired", "cancelled"
  timer,      \* op -> "idle" or "armed"
  q,          \* strand -> handlers
  ready,      \* strands with handlers, in the io_context's queue
  worker,     \* worker -> what it does
  poster,     \* another thread in AsioReactor::post: "idle" or "checked"
  tasks

vars == <<main, added, repeats, running, stopping, stopped, signal, timer, q, ready, worker, poster, tasks>>

\* ServerRuntime::choose_worker_count.
choose_worker_count ==
  LET hw == IF Hardware < 2 THEN 2 ELSE Hardware
      endpoints == IF Endpoints = {} THEN 1 ELSE Cardinality(Endpoints)
      wanted == IF endpoints < hw THEN endpoints ELSE hw
  IN IF wanted < 2 THEN 2 ELSE wanted

Workers == 1..choose_worker_count
OpSet == {Ops[k] : k \in DOMAIN Ops}
Strands == Endpoints \cup {StrandOf[o] : o \in OpSet}

None == "none"
Idle == [pc |-> "idle", kind |-> None, op |-> None, strand |-> None]
Absent == [Idle EXCEPT !.pc = "absent"]
Fire(o) == [kind |-> "fire", op |-> o]
Aborted(o) == [kind |-> "aborted", op |-> o]
Cancel(o) == [kind |-> "cancel", op |-> o]
Task(e) == [kind |-> "task", op |-> e]

\* Every RepeatOp is made once, and "none" names no strand.
ASSUME ReactorAssumption ==
  /\ Ops \in Seq(DOMAIN StrandOf)
  /\ \A j, k \in DOMAIN Ops : Ops[j] = Ops[k] => j = k
  /\ None \notin Strands

Init ==
  /\ main = "new" /\ added = 0 /\ repeats = {}
  /\ running = FALSE /\ stopping = FALSE /\ stopped = FALSE
  /\ signal = "none"
  /\ timer = [o \in OpSet |-> "idle"]
  /\ q = [s \in Strands |-> <<>>] /\ ready = <<>>
  /\ worker = [w \in Workers |-> Absent]
  /\ poster = "idle" /\ tasks = 0

Busy(s) == \E w \in Workers : worker[w].strand = s

\* asio::post to a strand.
Queue(queue, s, h) == [queue EXCEPT ![s] = Append(@, h)]
Schedule(s) == IF q[s] = <<>> /\ ~Busy(s) THEN Append(ready, s) ELSE ready

-----------------------------------------------------------------------------
(* The main thread.                                                        *)

start ==
  /\ main = "new" /\ ~running
  /\ running' = TRUE /\ stopping' = FALSE
  /\ worker' = [w \in Workers |-> Idle]
  /\ main' = "started"
  /\ UNCHANGED <<added, repeats, stopped, signal, timer, q, ready, poster, tasks>>

\* A mutant: the op arms its timer when it is made, and once more by start.
add_repeat_armed ==
  /\ main = "started" /\ added < Len(Ops)
  /\ added' = added + 1
  /\ repeats' = repeats \cup {Ops[added + 1]}
  /\ timer' = [timer EXCEPT ![Ops[added + 1]] = "armed"]
  /\ main' = "arming"
  /\ UNCHANGED <<running, stopping, stopped, signal, q, ready, worker, poster, tasks>>

\* The op is registered; RepeatOp::start arms its timer on this thread.
add_repeat ==
  /\ main = "started" /\ added < Len(Ops)
  /\ added' = added + 1
  /\ repeats' = repeats \cup {Ops[added + 1]}
  /\ main' = "arming"
  /\ UNCHANGED <<running, stopping, stopped, signal, timer, q, ready, worker, poster, tasks>>

op_start ==
  /\ main = "arming"
  /\ timer' = [timer EXCEPT ![Ops[added]] = "armed"]
  /\ main' = "started"
  /\ UNCHANGED <<added, repeats, running, stopping, stopped, signal, q, ready, worker, poster, tasks>>

\* The workers run already; the main thread waits for them.
run_until_stop ==
  /\ main = "started" /\ added = Len(Ops)
  /\ signal' = "waiting"
  /\ main' = "joining"
  /\ UNCHANGED <<added, repeats, running, stopping, stopped, timer, q, ready, worker, poster, tasks>>

\* AsioReactor::stop, instead of run_until_stop or once more after it.
stop ==
  /\ main \in {"started", "done"}
  /\ main' = "request"
  /\ UNCHANGED <<added, repeats, running, stopping, stopped, signal, timer, q, ready, worker, poster, tasks>>

join ==
  /\ main = "joining"
  /\ \A w \in Workers : worker[w].pc = "exited"
  /\ running' = FALSE
  /\ main' = "done"
  /\ UNCHANGED <<added, repeats, stopping, stopped, signal, timer, q, ready, worker, poster, tasks>>

-----------------------------------------------------------------------------
(* request_stop, on the main thread or in the signal handler of a worker.  *)

Requesting(t) == IF t = 0 THEN main = "request" ELSE worker[t].pc = "request"
Canceling(t) == IF t = 0 THEN main = "cancel" ELSE worker[t].pc = "cancelling"
At(t, m, w) ==
  /\ main' = IF t = 0 THEN m ELSE main
  /\ worker' = IF t = 0 THEN worker ELSE [worker EXCEPT ![t] = w]

\* Only the first caller goes on.
request_stop(t) ==
  /\ Requesting(t)
  /\ stopping' = TRUE
  /\ IF stopping THEN /\ At(t, "joining", Idle)
                      /\ UNCHANGED signal
     ELSE /\ At(t, "cancel", [Idle EXCEPT !.pc = "cancelling", !.kind = "signal"])
          /\ signal' = IF signal = "waiting" THEN "cancelled" ELSE signal
  /\ UNCHANGED <<added, repeats, running, stopped, timer, q, ready, poster, tasks>>

\* RepeatOp::cancel of each op, dispatched to its strand.
cancel_op(t, o) ==
  /\ Canceling(t) /\ o \in repeats
  /\ repeats' = repeats \ {o}
  /\ q' = Queue(q, StrandOf[o], Cancel(o))
  /\ ready' = Schedule(StrandOf[o])
  /\ UNCHANGED <<main, added, running, stopping, stopped, signal, timer, worker, poster, tasks>>

\* The work guard goes and the context stops.
ctx_stop(t) ==
  /\ Canceling(t) /\ repeats = {}
  /\ stopped' = TRUE
  /\ At(t, "joining", Idle)
  /\ UNCHANGED <<added, repeats, running, stopping, signal, timer, q, ready, poster, tasks>>

-----------------------------------------------------------------------------
(* The worker threads in io_context::run.                                  *)

\* A timer expires, seen by an idle worker (external).
expire(o) ==
  /\ ~stopped /\ timer[o] = "armed"
  /\ \E w \in Workers : worker[w].pc = "idle"
  /\ timer' = [timer EXCEPT ![o] = "idle"]
  /\ q' = Queue(q, StrandOf[o], Fire(o))
  /\ ready' = Schedule(StrandOf[o])
  /\ UNCHANGED <<main, added, repeats, running, stopping, stopped, signal, worker, poster, tasks>>

\* SIGINT or SIGTERM arrives; its handler is on no strand.
signalled(w) ==
  /\ ~stopped /\ signal = "waiting" /\ worker[w].pc = "idle"
  /\ signal' = "fired"
  /\ worker' = [worker EXCEPT ![w] = [Idle EXCEPT !.pc = "request", !.kind = "signal"]]
  /\ UNCHANGED <<main, added, repeats, running, stopping, stopped, timer, q, ready, poster, tasks>>

\* The next handler of the first strand that is ready (external).
take(w) ==
  /\ ~stopped /\ worker[w].pc = "idle" /\ ready # <<>>
  /\ LET s == Head(ready) IN
     /\ worker' = [worker EXCEPT ![w] = [pc |-> "handler", kind |-> Head(q[s]).kind,
                                         op |-> Head(q[s]).op, strand |-> s]]
     /\ q' = [q EXCEPT ![s] = Tail(@)]
  /\ ready' = Tail(ready)
  /\ UNCHANGED <<main, added, repeats, running, stopping, stopped, signal, timer, poster, tasks>>

\* The handler returned: the strand is ready again if it has more.
Return(w, queue) ==
  /\ worker' = [worker EXCEPT ![w] = Idle]
  /\ ready' = IF queue[worker[w].strand] # <<>> THEN Append(ready, worker[w].strand) ELSE ready

Continue(w, pc) == worker' = [worker EXCEPT ![w].pc = pc] /\ UNCHANGED ready

\* A mutant: the timer is armed before the work.
handler_arm_first(w) ==
  /\ worker[w].pc = "handler" /\ worker[w].kind \in {"fire", "aborted"}
  /\ IF worker[w].kind = "aborted" \/ stopping THEN Return(w, q) /\ UNCHANGED timer
     ELSE Continue(w, "work") /\ timer' = [timer EXCEPT ![worker[w].op] = "armed"]
  /\ UNCHANGED <<main, added, repeats, running, stopping, stopped, signal, q, poster, tasks>>

\* The handler of async_wait, before work.
handler(w) ==
  /\ worker[w].pc = "handler" /\ worker[w].kind \in {"fire", "aborted"}
  /\ IF worker[w].kind = "aborted" \/ stopping THEN Return(w, q) ELSE Continue(w, "work")
  /\ UNCHANGED <<main, added, repeats, running, stopping, stopped, signal, timer, q, poster, tasks>>

\* work() returned.
worked(w) ==
  /\ worker[w].pc = "work" /\ worker[w].kind = "fire"
  /\ IF stopping THEN Return(w, q) ELSE Continue(w, "arm")
  /\ UNCHANGED <<main, added, repeats, running, stopping, stopped, signal, timer, q, poster, tasks>>

arm(w) ==
  /\ worker[w].pc = "arm"
  /\ timer' = [timer EXCEPT ![worker[w].op] = "armed"]
  /\ Return(w, q)
  /\ UNCHANGED <<main, added, repeats, running, stopping, stopped, signal, q, poster, tasks>>

\* timer.cancel() on the strand: a waiting handler is queued with an error.
cancel(w) ==
  /\ worker[w].pc = "handler" /\ worker[w].kind = "cancel"
  /\ LET o == worker[w].op
         queue == IF timer[o] = "armed" THEN Queue(q, StrandOf[o], Aborted(o)) ELSE q
     IN /\ q' = queue
        /\ timer' = [timer EXCEPT ![o] = "idle"]
        /\ Return(w, queue)
  /\ UNCHANGED <<main, added, repeats, running, stopping, stopped, signal, poster, tasks>>

\* Work posted to a strand: begins and ends.
task(w) ==
  /\ worker[w].kind = "task"
  /\ \/ worker[w].pc = "handler" /\ Continue(w, "work")
     \/ worker[w].pc = "work" /\ Return(w, q)
  /\ UNCHANGED <<main, added, repeats, running, stopping, stopped, signal, timer, q, poster, tasks>>

\* run() returns once the context is stopped.
exit(w) ==
  /\ stopped /\ worker[w].pc = "idle"
  /\ worker' = [worker EXCEPT ![w] = [Idle EXCEPT !.pc = "exited"]]
  /\ UNCHANGED <<main, added, repeats, running, stopping, stopped, signal, timer, q, ready, poster, tasks>>

-----------------------------------------------------------------------------
(* AsioReactor::post and StrandExecutor::post from another thread: the     *)
(* flag is read before the handler is queued.                              *)

post_check ==
  /\ running /\ poster = "idle" /\ tasks < MaxTasks /\ ~stopping
  /\ poster' = "checked"
  /\ tasks' = tasks + 1
  /\ UNCHANGED <<main, added, repeats, running, stopping, stopped, signal, timer, q, ready, worker>>

\* A mutant: the work is posted past the strand.
post_past(e) ==
  /\ poster = "checked"
  /\ poster' = "idle"
  /\ \E w \in Workers :
       /\ worker[w].pc = "idle"
       /\ worker' = [worker EXCEPT ![w] = [pc |-> "work", kind |-> "task", op |-> e, strand |-> e]]
  /\ UNCHANGED <<main, added, repeats, running, stopping, stopped, signal, timer, q, ready, tasks>>

post(e) ==
  /\ poster = "checked"
  /\ poster' = "idle"
  /\ q' = Queue(q, e, Task(e))
  /\ ready' = Schedule(e)
  /\ UNCHANGED <<main, added, repeats, running, stopping, stopped, signal, timer, worker, tasks>>

-----------------------------------------------------------------------------
Main == start \/ add_repeat \/ op_start \/ run_until_stop \/ join
Stopping == \E t \in Workers \cup {0} : request_stop(t) \/ ctx_stop(t) \/ \E o \in OpSet : cancel_op(t, o)
Handler(w) == handler(w) \/ arm(w) \/ cancel(w) \/ task(w) \/ exit(w)

Next ==
  \/ Main \/ stop \/ Stopping
  \/ \E o \in OpSet : expire(o)
  \/ \E w \in Workers : signalled(w) \/ take(w) \/ Handler(w) \/ worked(w)
  \/ post_check \/ \E e \in Endpoints : post(e)

Spec == Init /\ [][Next]_vars

(* Threads run, timers expire; the work of the ops in Endless may take     *)
(* forever.  Nobody is obliged to stop the reactor.                        *)
FairSpec ==
  /\ Spec
  /\ WF_vars(Main) /\ WF_vars(Stopping)
  /\ \A o \in OpSet : WF_vars(expire(o))
  /\ \A w \in Workers :
       /\ WF_vars(take(w)) /\ WF_vars(Handler(w))
       /\ WF_vars(worker[w].op \notin Endless /\ worked(w))

-----------------------------------------------------------------------------
(* Serialisation per endpoint: no two threads are in handlers of one       *)
(* strand.                                                                 *)
StrandSerial ==
  \A s \in Strands : Cardinality({w \in Workers : worker[w].strand = s}) <= 1

(* A repeat is in one place only: armed, queued or running.  Its work      *)
(* never overlaps or queues behind itself however slow it is.              *)
OneRound ==
  \A o \in DOMAIN timer :
    Cardinality({w \in Workers : worker[w].op = o /\ worker[w].kind = "fire"})
    + Cardinality({k \in DOMAIN q[StrandOf[o]] : q[StrandOf[o]][k] \in {Fire(o), Aborted(o)}})
    + (IF timer[o] = "armed" THEN 1 ELSE 0) <= 1

(* "Timer cancel must run on the same strand as arm()/async_wait": no two  *)
(* threads are ever at the timer of one op.                                *)
TimerAlone ==
  \A o \in DOMAIN timer :
    Cardinality({w \in Workers : worker[w].op = o /\ worker[w].pc \in {"arm", "handler"}
                                  /\ worker[w].kind \in {"fire", "cancel"}})
    + (IF main = "arming" /\ Ops[added] = o THEN 1 ELSE 0) <= 1

(* When stop or run_until_stop returns no worker runs anything, and what   *)
(* is still queued never runs.                                             *)
QuietAfterStop == main = "done" => \A w \in Workers : worker[w].pc = "exited"

(* Handlers of a strand run one at a time, and none once stop or           *)
(* run_until_stop has returned.                                            *)
HandlersSerial == StrandSerial /\ QuietAfterStop

=============================================================================

--------------------------- MODULE ReactorProofs ---------------------------
(***************************************************************************)
(* Proofs about Reactor, for any number of endpoints, repeats, workers and *)
(* posted tasks: strands are serial, a repeat is in one place at a time,   *)
(* no two threads are at one timer, and nothing runs after the stop.       *)
(***************************************************************************)
EXTENDS Reactor, TLAPS

\* The time SMT may take for a step.
USE SMTT(60)

-----------------------------------------------------------------------------
(* The inductive invariant.                                                *)

OnStrand == {"handler", "work", "arm"}
OffStrand == {"absent", "idle", "request", "cancelling", "exited"}
Kinds == {"fire", "aborted", "cancel", "task"}
Handlers == [kind : Kinds, op : OpSet \cup Endpoints]

\* What the workers, the strands and the queue of the context hold.
Shape ==
  /\ worker \in [Workers -> [pc : OnStrand \cup OffStrand, kind : Kinds \cup {"signal", None},
                             op : OpSet \cup Endpoints \cup {None}, strand : Strands \cup {None}]]
  /\ q \in [Strands -> Seq(Handlers)]
  /\ ready \in Seq(Strands)

\* A strand is with one worker, or once in the queue of the context, or has
\* nothing to do.
Serial ==
  /\ \A w \in Workers : worker[w].strand # None <=> worker[w].pc \in OnStrand
  /\ \A v, w \in Workers : worker[v].strand = worker[w].strand /\ worker[v].strand # None => v = w
  /\ \A j, k \in DOMAIN ready : ready[j] = ready[k] => j = k
  /\ \A k \in DOMAIN ready : q[ready[k]] # <<>> /\ ~Busy(ready[k])

\* The handlers of a repeat are on its strand.
Bound ==
  /\ \A w \in Workers :
       /\ worker[w].kind \in {"fire", "aborted", "cancel"} =>
            worker[w].op \in OpSet /\ worker[w].strand = StrandOf[worker[w].op]
       /\ worker[w].pc = "arm" => worker[w].kind = "fire"
  /\ \A s \in Strands : \A k \in DOMAIN q[s] :
       q[s][k].kind # "task" => q[s][k].op \in OpSet /\ s = StrandOf[q[s][k].op]

Waits(o, k) == q[StrandOf[o]][k].op = o /\ q[StrandOf[o]][k].kind \in {"fire", "aborted"}
Waiting(o) == {k \in DOMAIN q[StrandOf[o]] : Waits(o, k)}
Running(o) == {w \in Workers : worker[w].op = o /\ worker[w].kind = "fire"}
Started == IF main = "arming" THEN added - 1 ELSE added

\* The places of a repeat exclude each other, and it has none before its
\* timer is armed first.
Placed ==
  /\ timer \in [OpSet -> {"idle", "armed"}]
  /\ added \in 0..Len(Ops) /\ (main = "arming" => added > 0)
  /\ \A o \in OpSet :
       /\ \A j, k \in Waiting(o) : j = k
       /\ Waiting(o) # {} => Running(o) = {} /\ timer[o] = "idle"
       /\ Running(o) # {} => timer[o] = "idle"
  /\ \A n \in DOMAIN Ops : n > Started =>
       Waiting(Ops[n]) = {} /\ Running(Ops[n]) = {} /\ timer[Ops[n]] = "idle"

\* Nothing is cancelled before the last repeat was added.
Early == main \in {"new", "started", "arming"}
Uncancelled ==
  Early =>
    /\ signal = "none"
    /\ \A w \in Workers : worker[w].pc \notin {"request", "cancelling"} /\ worker[w].kind # "cancel"
    /\ \A s \in Strands : \A k \in DOMAIN q[s] : q[s][k].kind # "cancel"

IInv == Shape /\ Serial /\ Bound /\ Placed /\ Uncancelled

-----------------------------------------------------------------------------
(* Strands.                                                                *)

\* Strand ids are not None, and every repeat has a strand.
LEMMA StrandIds ==
  /\ None \notin Strands /\ Endpoints \subseteq Strands
  /\ \A o \in OpSet : StrandOf[o] \in Strands
  /\ 0 \notin Workers
BY ReactorAssumption DEF Strands, Workers

\* asio::post to a strand keeps the strands serial.
LEMMA PushKeeps ==
  ASSUME Shape, Serial, NEW s \in Strands, NEW h \in Handlers,
         q' = Queue(q, s, h), ready' = Schedule(s), UNCHANGED worker
  PROVE  Shape' /\ Serial'
<1>1. q' \in [Strands -> Seq(Handlers)]
  BY DEF Shape, Queue
<1>2. CASE q[s] = <<>> /\ ~Busy(s)
  <2>1. ready' = Append(ready, s)
    BY <1>2, Zenon DEF Schedule
  <2>2. \A k \in DOMAIN ready : ready[k] # s
    BY <1>2, Zenon DEF Serial, Shape
  <2>3. /\ ready' \in Seq(Strands) /\ DOMAIN ready' = DOMAIN ready \cup {Len(ready) + 1}
        /\ ready'[Len(ready) + 1] = s /\ \A k \in DOMAIN ready : ready'[k] = ready[k]
        /\ Len(ready) + 1 \notin DOMAIN ready
    BY <2>1 DEF Shape
  <2>4. \A t \in Strands : (t = s \/ q[t] # <<>>) => q'[t] # <<>>
    <3>1. q[s] \in Seq(Handlers)
      BY Zenon DEF Shape
    <3>2. Len(Append(q[s], h)) = Len(q[s]) + 1 /\ Len(q[s]) \in Nat
      BY <3>1
    <3>3. Append(q[s], h) # <<>>
      BY <3>2
    <3>. QED
      BY <3>3, Zenon DEF Shape, Queue
  <2>5. \A j, k \in DOMAIN ready' : ready'[j] = ready'[k] => j = k
    BY <2>2, <2>3 DEF Serial
  <2>6. \A k \in DOMAIN ready' : q'[ready'[k]] # <<>> /\ ~Busy(ready'[k])
    BY <1>2, <2>3, <2>4 DEF Serial, Shape
  <2>. QED
    BY <1>1, <2>3, <2>5, <2>6 DEF Serial, Shape, Busy
<1>3. CASE ~(q[s] = <<>> /\ ~Busy(s))
  <2>1. ready' = ready
    BY <1>3, Zenon DEF Schedule
  <2>2. \A t \in Strands : q[t] # <<>> => q'[t] # <<>>
    BY DEF Shape, Queue
  <2>3. \A k \in DOMAIN ready' : q'[ready'[k]] # <<>> /\ ~Busy(ready'[k])
    BY <2>1, <2>2 DEF Serial, Shape
  <2>. QED
    BY <1>1, <2>1, <2>3, Zenon DEF Serial, Shape, Busy
<1>. QED
  BY <1>2, <1>3, Zenon

\* A handler that returns gives its strand back to the context.
LEMMA ReturnKeeps ==
  ASSUME Shape, Serial, NEW w \in Workers, worker[w].pc \in OnStrand,
         q' \in [Strands -> Seq(Handlers)], Return(w, q'),
         \A s \in Strands : s # worker[w].strand => q'[s] = q[s]
  PROVE  Shape' /\ Serial'
<1>. DEFINE s == worker[w].strand
<1>1. s \in Strands /\ s # None
  BY Zenon DEF Serial, Shape
<1>2. worker' = [worker EXCEPT ![w] = Idle]
  BY Zenon DEF Return
<1>3. /\ worker' \in [Workers -> [pc : OnStrand \cup OffStrand, kind : Kinds \cup {"signal", None},
                             op : OpSet \cup Endpoints \cup {None}, strand : Strands \cup {None}]]
      /\ worker'[w].strand = None /\ worker'[w].pc \notin OnStrand
      /\ \A v \in Workers : v # w => worker'[v] = worker[v]
  BY <1>2, Zenon DEF Shape, Idle, None, OnStrand, OffStrand
<1>4. \A k \in DOMAIN ready : ready[k] # s /\ ready[k] \in Strands
  BY DEF Serial, Shape, Busy
<1>5. \A v \in Workers : worker'[v].strand # s
  BY <1>1, <1>3 DEF Serial
<1>6. \A t \in Strands : t # s /\ ~Busy(t) => ~Busy(t)'
  BY <1>1, <1>3, StrandIds DEF Busy
<1>7. /\ \A v \in Workers : worker'[v].strand # None <=> worker'[v].pc \in OnStrand
      /\ \A u, v \in Workers : worker'[u].strand = worker'[v].strand /\ worker'[u].strand # None => u = v
  BY <1>3 DEF Serial
<1>8. CASE q'[s] = <<>>
  <2>1. ready' = ready
    BY <1>8, Zenon DEF Return
  <2>2. \A k \in DOMAIN ready' : q'[ready'[k]] # <<>> /\ \A v \in Workers : worker'[v].strand # ready'[k]
    BY <1>4, <1>6, <2>1 DEF Serial, Busy
  <2>. QED
    BY <1>3, <1>7, <2>1, <2>2, Zenon DEF Serial, Shape, Busy
<1>9. CASE q'[s] # <<>>
  <2>1. ready' = Append(ready, s)
    BY <1>9, Zenon DEF Return
  <2>2. /\ ready' \in Seq(Strands) /\ DOMAIN ready' = DOMAIN ready \cup {Len(ready) + 1}
        /\ ready'[Len(ready) + 1] = s /\ \A k \in DOMAIN ready : ready'[k] = ready[k]
        /\ Len(ready) + 1 \notin DOMAIN ready
    BY <1>1, <2>1 DEF Shape
  <2>3. \A j, k \in DOMAIN ready' : ready'[j] = ready'[k] => j = k
    BY <1>4, <2>2 DEF Serial
  <2>4. \A k \in DOMAIN ready' : q'[ready'[k]] # <<>> /\ \A v \in Workers : worker'[v].strand # ready'[k]
    BY <1>4, <1>5, <1>6, <1>9, <2>2 DEF Serial, Busy
  <2>. QED
    BY <1>3, <1>7, <2>2, <2>3, <2>4, Zenon DEF Serial, Shape, Busy
<1>. QED
  BY <1>8, <1>9, Zenon

\* A worker moves on inside its handler, or outside all strands.
LEMMA StayKeeps ==
  ASSUME Shape, Serial, NEW w \in Workers, NEW r, UNCHANGED <<q, ready>>,
         worker' = [worker EXCEPT ![w] = r],
         r \in [pc : OnStrand \cup OffStrand, kind : Kinds \cup {"signal", None},
                op : OpSet \cup Endpoints \cup {None}, strand : Strands \cup {None}],
         r.strand = worker[w].strand, r.pc \in OnStrand <=> worker[w].pc \in OnStrand
  PROVE  Shape' /\ Serial'
<1>1. /\ Shape'
      /\ \A v \in Workers : /\ worker'[v].strand = worker[v].strand
                            /\ worker'[v].pc \in OnStrand <=> worker[v].pc \in OnStrand
  BY Zenon DEF Shape
<1>. QED
  BY <1>1 DEF Serial, Busy

\* The context gives a worker the first strand that is ready.
LEMMA TakeKeeps ==
  ASSUME Shape, Serial, NEW w \in Workers, take(w)
  PROVE  /\ Shape' /\ Serial'
         /\ LET s == Head(ready) IN
            /\ s \in Strands /\ 1 \in DOMAIN q[s] /\ Head(q[s]) = q[s][1] /\ q[s][1] \in Handlers
            /\ worker' = [worker EXCEPT ![w] = [pc |-> "handler", kind |-> q[s][1].kind,
                                                op |-> q[s][1].op, strand |-> s]]
            /\ q' = [q EXCEPT ![s] = Tail(@)]
            /\ \A k \in DOMAIN q'[s] : k + 1 \in DOMAIN q[s] /\ q'[s][k] = q[s][k + 1]
<1>. DEFINE s == Head(ready)
<1>1. /\ ready # <<>> /\ ready' = Tail(ready) /\ worker[w].pc = "idle"
      /\ q' = [q EXCEPT ![s] = Tail(@)]
      /\ worker' = [worker EXCEPT ![w] = [pc |-> "handler", kind |-> Head(q[s]).kind,
                                          op |-> Head(q[s]).op, strand |-> s]]
  BY Zenon DEF take
<1>2. 1 \in DOMAIN ready /\ s = ready[1] /\ s \in Strands
  BY <1>1 DEF Shape
<1>3. q[s] # <<>> /\ ~Busy(s) /\ q[s] \in Seq(Handlers)
  BY <1>2 DEF Serial, Shape
<1>4. 1 \in DOMAIN q[s] /\ Head(q[s]) = q[s][1] /\ q[s][1] \in Handlers
  BY <1>3
<1>5. /\ q' \in [Strands -> Seq(Handlers)] /\ q'[s] = Tail(q[s])
      /\ \A t \in Strands : t # s => q'[t] = q[t]
  BY <1>1, <1>2, <1>3 DEF Shape
<1>6. \A k \in DOMAIN q'[s] : k + 1 \in DOMAIN q[s] /\ q'[s][k] = q[s][k + 1]
  BY <1>3, <1>5
<1>7. /\ ready' \in Seq(Strands)
      /\ \A k \in DOMAIN ready' : k + 1 \in DOMAIN ready /\ ready'[k] = ready[k + 1] /\ k \in Nat \ {0}
  BY <1>1 DEF Shape
<1>8. /\ worker' \in [Workers -> [pc : OnStrand \cup OffStrand, kind : Kinds \cup {"signal", None},
                             op : OpSet \cup Endpoints \cup {None}, strand : Strands \cup {None}]]
      /\ worker'[w].strand = s /\ worker'[w].pc \in OnStrand
      /\ \A v \in Workers : v # w => worker'[v] = worker[v]
  BY <1>1, <1>2, <1>4, Zenon DEF Shape, OnStrand, Handlers
<1>9. \A k \in DOMAIN ready' : ready'[k] # s /\ ready'[k] \in Strands /\ q[ready'[k]] # <<>> /\ ~Busy(ready'[k])
  <2>. SUFFICES ASSUME NEW k \in DOMAIN ready'
                PROVE  ready'[k] # s /\ ready'[k] \in Strands /\ q[ready'[k]] # <<>> /\ ~Busy(ready'[k])
    BY Zenon
  <2>1. k + 1 \in DOMAIN ready /\ ready'[k] = ready[k + 1] /\ k + 1 # 1
    BY <1>7
  <2>2. ready[k + 1] # ready[1]
    BY <1>2, <2>1, Zenon DEF Serial
  <2>. QED
    BY <1>2, <2>1, <2>2 DEF Serial, Shape
<1>10. \A j, k \in DOMAIN ready' : ready'[j] = ready'[k] => j = k
  BY <1>7 DEF Serial
<1>11. /\ \A v \in Workers : worker'[v].strand # None <=> worker'[v].pc \in OnStrand
       /\ \A u, v \in Workers : worker'[u].strand = worker'[v].strand /\ worker'[u].strand # None => u = v
  BY <1>2, <1>3, <1>8, StrandIds DEF Serial, Busy
<1>12. \A k \in DOMAIN ready' : q'[ready'[k]] # <<>> /\ \A v \in Workers : worker'[v].strand # ready'[k]
  BY <1>5, <1>8, <1>9, Zenon DEF Busy
<1>. QED
  BY <1>1, <1>2, <1>4, <1>5, <1>6, <1>7, <1>8, <1>10, <1>11, <1>12 DEF Serial, Shape, Busy

-----------------------------------------------------------------------------
(* Repeats.                                                                *)

\* A step that moves no repeat to a new place keeps the places apart.
LEMMA PlacedFrame ==
  ASSUME Placed, UNCHANGED <<timer, added>>, main' = "arming" <=> main = "arming",
         \A o \in OpSet : Waiting(o)' \subseteq Waiting(o) /\ Running(o)' \subseteq Running(o)
  PROVE  Placed'
<1>1. Started' = Started
  BY Zenon DEF Started
<1>2. \A n \in DOMAIN Ops : Ops[n] \in OpSet
  BY Zenon DEF OpSet
<1>. QED
  BY <1>1, <1>2, Zenon DEF Placed

\* A handler returns without touching a timer or a queue.
LEMMA ReturnStep ==
  ASSUME IInv, NEW w \in Workers, worker[w].pc \in OnStrand, Return(w, q),
         UNCHANGED <<main, added, signal, timer, q>>
  PROVE  IInv'
<1>1. Shape' /\ Serial'
  <2>1. Return(w, q')
    BY Zenon DEF Return
  <2>. QED
    BY <2>1, ReturnKeeps, Zenon DEF IInv, Shape
<1>2. /\ worker'[w].kind = None /\ worker'[w].pc = "idle"
      /\ \A v \in Workers : v # w => worker'[v] = worker[v]
  BY Zenon DEF Return, Idle, IInv, Shape
<1>3. Bound'
  BY <1>2 DEF IInv, Bound, None
<1>4. Placed'
  <2>1. \A o \in OpSet : Waiting(o)' \subseteq Waiting(o) /\ Running(o)' \subseteq Running(o)
    BY <1>2, Zenon DEF Waiting, Waits, Running, None
  <2>. QED
    BY <2>1, PlacedFrame, Zenon DEF IInv
<1>5. Uncancelled'
  BY <1>2, Zenon DEF IInv, Uncancelled, Early, None
<1>. QED
  BY <1>1, <1>3, <1>4, <1>5, Zenon DEF IInv

\* A handler goes on.
LEMMA ContinueStep ==
  ASSUME IInv, NEW w \in Workers, worker[w].pc \in OnStrand, NEW pc \in {"work", "arm"},
         pc = "arm" => worker[w].kind = "fire", Continue(w, pc),
         UNCHANGED <<main, added, signal, timer, q>>
  PROVE  IInv'
<1>. DEFINE r == [worker[w] EXCEPT !.pc = pc]
<1>1. worker' = [worker EXCEPT ![w] = r] /\ UNCHANGED ready
  BY Zenon DEF Continue
<1>2. /\ r \in [pc : OnStrand \cup OffStrand, kind : Kinds \cup {"signal", None},
                op : OpSet \cup Endpoints \cup {None}, strand : Strands \cup {None}]
      /\ r.strand = worker[w].strand /\ r.pc = pc /\ r.kind = worker[w].kind /\ r.op = worker[w].op
  BY Zenon DEF IInv, Shape, OnStrand
<1>3. \A v \in Workers : /\ worker'[v].kind = worker[v].kind /\ worker'[v].op = worker[v].op
                         /\ worker'[v].strand = worker[v].strand
                         /\ worker'[v].pc = IF v = w THEN pc ELSE worker[v].pc
  BY <1>1, <1>2, Zenon DEF IInv, Shape
<1>. HIDE DEF r
<1>4. Shape' /\ Serial'
  BY <1>1, <1>2, StayKeeps, Zenon DEF IInv, OnStrand
<1>5. Bound'
  BY <1>3 DEF IInv, Bound
<1>6. Placed'
  <2>1. \A o \in OpSet : Waiting(o)' \subseteq Waiting(o) /\ Running(o)' \subseteq Running(o)
    BY <1>3, Zenon DEF Waiting, Waits, Running
  <2>. QED
    BY <2>1, PlacedFrame, Zenon DEF IInv
<1>7. Uncancelled'
  BY <1>3, Zenon DEF IInv, Uncancelled, Early
<1>. QED
  BY <1>4, <1>5, <1>6, <1>7, Zenon DEF IInv

\* A worker that is in no handler does something that is in none.
LEMMA OffStep ==
  ASSUME IInv, NEW w \in Workers, worker[w].pc \in OffStrand,
         NEW r \in [pc : OffStrand, kind : {"signal", None}, op : {None}, strand : {None}],
         worker' = [worker EXCEPT ![w] = r],
         UNCHANGED <<added, timer, q, ready>>, main' = "arming" <=> main = "arming",
         Early' => Early /\ UNCHANGED signal /\ r.pc \notin {"request", "cancelling"}
  PROVE  IInv'
<1>1. /\ r \in [pc : OnStrand \cup OffStrand, kind : Kinds \cup {"signal", None},
                op : OpSet \cup Endpoints \cup {None}, strand : Strands \cup {None}]
      /\ r.strand = None /\ r.pc \in OffStrand /\ r.kind \in {"signal", None}
  BY Zenon
<1>2. worker[w].strand = None /\ worker[w].pc \notin OnStrand /\ r.pc \notin OnStrand
  BY <1>1, Zenon DEF IInv, Serial, OnStrand, OffStrand
<1>3. /\ worker'[w] = r
      /\ \A v \in Workers : v # w => worker'[v] = worker[v]
  BY Zenon DEF IInv, Shape
<1>4. Shape' /\ Serial'
  BY <1>1, <1>2, StayKeeps, Zenon DEF IInv
<1>5. Bound'
  BY <1>1, <1>2, <1>3 DEF IInv, Bound, None, OnStrand
<1>6. Placed'
  <2>1. \A o \in OpSet : Waiting(o)' \subseteq Waiting(o) /\ Running(o)' \subseteq Running(o)
    BY <1>1, <1>3, Zenon DEF Waiting, Waits, Running, None
  <2>. QED
    BY <2>1, PlacedFrame, Zenon DEF IInv
<1>7. Uncancelled'
  BY <1>1, <1>3, Zenon DEF IInv, Uncancelled, None
<1>. QED
  BY <1>4, <1>5, <1>6, <1>7, Zenon DEF IInv

\* A handler that is no firing of a timer is queued.
LEMMA PushStep ==
  ASSUME IInv, NEW s \in Strands, NEW h \in Handlers, h.kind \in {"cancel", "task"},
         h.kind = "cancel" => h.op \in OpSet /\ s = StrandOf[h.op] /\ ~Early,
         q' = Queue(q, s, h), ready' = Schedule(s),
         UNCHANGED <<main, added, signal, timer, worker>>
  PROVE  IInv'
<1>1. Shape' /\ Serial'
  BY PushKeeps, Zenon DEF IInv
<1>2. /\ \A t \in Strands : t # s => q'[t] = q[t]
      /\ DOMAIN q'[s] = DOMAIN q[s] \cup {Len(q[s]) + 1}
      /\ q'[s][Len(q[s]) + 1] = h /\ \A k \in DOMAIN q[s] : q'[s][k] = q[s][k]
  BY DEF IInv, Shape, Queue
<1>3. Bound'
  BY <1>2 DEF IInv, Bound
<1>4. Placed'
  <2>1. \A o \in OpSet : Waiting(o)' \subseteq Waiting(o)
    BY <1>2, StrandIds DEF Waiting, Waits
  <2>2. \A o \in OpSet : Running(o)' = Running(o)
    BY Zenon DEF Running
  <2>. QED
    BY <2>1, <2>2, PlacedFrame, Zenon DEF IInv
<1>5. Uncancelled'
  BY <1>2 DEF IInv, Uncancelled, Early
<1>. QED
  BY <1>1, <1>3, <1>4, <1>5, Zenon DEF IInv

-----------------------------------------------------------------------------
(* The actions.                                                            *)

LEMMA InitHolds == Init => IInv
<1>. SUFFICES ASSUME Init PROVE IInv
  BY Zenon
<1>1. Shape
  BY DEF Init, Shape, Absent, Idle, OffStrand
<1>2. Serial
  BY DEF Init, Serial, Absent, Idle, OnStrand
<1>3. Bound
  BY DEF Init, Bound, Absent, Idle, None
<1>4. \A o \in OpSet : Waiting(o) = {} /\ Running(o) = {}
  BY StrandIds DEF Init, Waiting, Running, Absent, Idle, None
<1>5. Placed
  <2>1. /\ timer = [o \in OpSet |-> "idle"]
        /\ added = 0 /\ main = "new" /\ Len(Ops) \in Nat
    BY ReactorAssumption DEF Init
  <2>2. \A n \in DOMAIN Ops : Ops[n] \in OpSet
    BY Zenon DEF OpSet
  <2>3. /\ timer \in [OpSet -> {"idle", "armed"}]
        /\ added \in 0..Len(Ops) /\ (main = "arming" => added > 0)
    BY <2>1
  <2>4. \A o \in OpSet : timer[o] = "idle"
    BY <2>1, Zenon
  <2> QED BY <1>4, <2>2, <2>3, <2>4, Zenon DEF Placed
<1>6. Uncancelled
  <2>1. \A w \in Workers : worker[w] = Absent
    BY Zenon DEF Init
  <2>2. Absent.pc = "absent" /\ Absent.kind # "cancel"
    BY Zenon DEF Absent, Idle, None
  <2>3. \A s \in Strands : DOMAIN q[s] = {}
    BY DEF Init
  <2>4. signal = "none"
    BY Zenon DEF Init
  <2> QED BY <2>1, <2>2, <2>3, <2>4, Zenon DEF Uncancelled
<1>. QED
  BY <1>1, <1>2, <1>3, <1>5, <1>6, Zenon DEF IInv

\* The steps of the main thread that change neither workers nor queues.
LEMMA MainMoves ==
  ASSUME IInv, UNCHANGED <<added, timer, q, ready, worker>>,
         main' = "arming" <=> main = "arming", Early' => Early /\ UNCHANGED signal
  PROVE  IInv'
<1>1. \A o \in OpSet : Waiting(o)' = Waiting(o) /\ Running(o)' = Running(o)
  BY Zenon DEF Waiting, Waits, Running
<1>2. Placed'
  BY <1>1, PlacedFrame, Zenon DEF IInv
<1>. QED
  BY <1>2 DEF IInv, Shape, Serial, Busy, Bound, Uncancelled

LEMMA StartStep == ASSUME IInv, start PROVE IInv'
<1>1. \A w \in Workers : worker'[w] = Idle
  BY Zenon DEF start
<1>2. Shape'
  BY <1>1, Zenon DEF IInv, Shape, start, Idle, OffStrand
<1>3. \A w \in Workers : worker'[w].strand = None /\ worker'[w].pc = "idle" /\ worker'[w].kind = None
  BY <1>1 DEF Idle
<1>4. Serial'
  BY <1>3, StrandIds DEF IInv, Shape, Serial, Busy, start, OnStrand
<1>5. Bound'
  BY <1>3, Zenon DEF IInv, Bound, start, None
<1>6. Placed'
  <2>1. \A o \in OpSet : Waiting(o)' \subseteq Waiting(o) /\ Running(o)' \subseteq Running(o)
    BY <1>3, Zenon DEF Waiting, Waits, Running, None, start
  <2>. QED
    BY <2>1, PlacedFrame, Zenon DEF IInv, start
<1>7. Uncancelled'
  BY <1>3, Zenon DEF IInv, Uncancelled, Early, start, None
<1>. QED
  BY <1>2, <1>4, <1>5, <1>6, <1>7, Zenon DEF IInv

LEMMA AddStep == ASSUME IInv, add_repeat PROVE IInv'
<1>1. \A o \in OpSet : Waiting(o)' = Waiting(o) /\ Running(o)' = Running(o)
  BY Zenon DEF Waiting, Waits, Running, add_repeat
<1>2. added' = added + 1 /\ Started' = Started /\ added' \in 0..Len(Ops) /\ added' > 0
  BY ReactorAssumption DEF IInv, Placed, add_repeat, Started
<1>3. \A n \in DOMAIN Ops : Ops[n] \in OpSet
  BY Zenon DEF OpSet
<1>4. Placed'
  BY <1>1, <1>2, <1>3 DEF IInv, Placed, add_repeat
<1>. QED
  BY <1>4 DEF IInv, Shape, Serial, Busy, Bound, Uncancelled, Early, add_repeat

\* The first round of a repeat begins: it had no place before.
LEMMA ArmFirstStep == ASSUME IInv, op_start PROVE IInv'
<1>. DEFINE o == Ops[added]
<1>1. /\ added \in DOMAIN Ops /\ Started = added - 1 /\ Started' = added /\ added' = added
      /\ added > Started /\ added \in Nat
  BY ReactorAssumption DEF IInv, Placed, op_start, Started
<1>2. \A p \in OpSet : Waiting(p)' = Waiting(p) /\ Running(p)' = Running(p)
  BY Zenon DEF Waiting, Waits, Running, op_start
<1>3. o \in OpSet /\ Waiting(o) = {} /\ Running(o) = {}
  BY <1>1, Zenon DEF IInv, Placed, OpSet
<1>4. /\ timer' \in [OpSet -> {"idle", "armed"}]
      /\ \A p \in OpSet : p # o => timer'[p] = timer[p]
  BY <1>3 DEF IInv, Placed, op_start
<1>5. \A n \in DOMAIN Ops : n > added => Ops[n] # o /\ Ops[n] \in OpSet /\ n > Started
  BY <1>1, ReactorAssumption DEF OpSet
<1>6. Placed'
  <2>1. \A p \in OpSet : /\ \A j, k \in Waiting(p)' : j = k
                         /\ Waiting(p)' # {} => Running(p)' = {} /\ timer'[p] = "idle"
                         /\ Running(p)' # {} => timer'[p] = "idle"
    BY <1>2, <1>3, <1>4 DEF IInv, Placed
  <2>2. \A n \in DOMAIN Ops : n > Started' =>
          Waiting(Ops[n])' = {} /\ Running(Ops[n])' = {} /\ timer'[Ops[n]] = "idle"
    BY <1>1, <1>2, <1>4, <1>5 DEF IInv, Placed
  <2>3. added' \in 0..Len(Ops) /\ main' = "started"
    BY <1>1, Zenon DEF IInv, Placed, op_start
  <2>. QED
    BY <1>4, <2>1, <2>2, <2>3, Zenon DEF Placed
<1>. QED
  BY <1>6 DEF IInv, Shape, Serial, Busy, Bound, Uncancelled, Early, op_start

LEMMA RequestStep == ASSUME IInv, NEW t \in Workers \cup {0}, request_stop(t) PROVE IInv'
<1>1. CASE t = 0
  BY <1>1, MainMoves, Zenon DEF request_stop, Requesting, At, Early
<1>2. CASE t \in Workers
  <2>1. t # 0 /\ worker[t].pc = "request" /\ main' = main /\ ~Early
    BY <1>2, StrandIds, Zenon DEF request_stop, Requesting, At, IInv, Uncancelled
  <2>2. PICK r \in [pc : OffStrand, kind : {"signal", None}, op : {None}, strand : {None}] :
          worker' = [worker EXCEPT ![t] = r]
    <3>1. /\ Idle \in [pc : OffStrand, kind : {"signal", None}, op : {None}, strand : {None}]
          /\ [Idle EXCEPT !.pc = "cancelling", !.kind = "signal"]
               \in [pc : OffStrand, kind : {"signal", None}, op : {None}, strand : {None}]
      BY Zenon DEF Idle, OffStrand
    <3>. QED
      BY <2>1, <3>1, Zenon DEF request_stop, At
  <2>. QED
    BY <1>2, <2>1, <2>2, OffStep, Zenon DEF request_stop, OffStrand, Early
<1>. QED
  BY <1>1, <1>2, Zenon

LEMMA CtxStopStep == ASSUME IInv, NEW t \in Workers \cup {0}, ctx_stop(t) PROVE IInv'
<1>1. CASE t = 0
  BY <1>1, MainMoves, Zenon DEF ctx_stop, Canceling, At, Early
<1>2. CASE t \in Workers
  <2>1. t # 0 /\ worker[t].pc = "cancelling" /\ main' = main /\ ~Early
    BY <1>2, StrandIds, Zenon DEF ctx_stop, Canceling, At, IInv, Uncancelled
  <2>2. /\ worker' = [worker EXCEPT ![t] = Idle]
        /\ Idle \in [pc : OffStrand, kind : {"signal", None}, op : {None}, strand : {None}]
    BY <2>1, Zenon DEF ctx_stop, At, Idle, OffStrand
  <2>. QED
    BY <1>2, <2>1, <2>2, OffStep, Zenon DEF ctx_stop, OffStrand, Early
<1>. QED
  BY <1>1, <1>2, Zenon

LEMMA CancelOpStep ==
  ASSUME IInv, NEW t \in Workers \cup {0}, NEW o \in OpSet, cancel_op(t, o) PROVE IInv'
<1>1. ~Early
  BY StrandIds, Zenon DEF cancel_op, Canceling, Early, IInv, Uncancelled
<1>2. /\ Cancel(o) \in Handlers /\ Cancel(o).kind = "cancel" /\ Cancel(o).op = o
      /\ StrandOf[o] \in Strands
  BY StrandIds, Zenon DEF Cancel, Handlers, Kinds
<1>. QED
  BY <1>1, <1>2, PushStep, Zenon DEF cancel_op

LEMMA PostStep == ASSUME IInv, NEW e \in Endpoints, post(e) PROVE IInv'
<1>1. Task(e) \in Handlers /\ Task(e).kind = "task" /\ e \in Strands
  BY StrandIds, Zenon DEF Task, Handlers, Kinds
<1>. QED
  BY <1>1, PushStep, Zenon DEF post

LEMMA SignalledStep == ASSUME IInv, NEW w \in Workers, signalled(w) PROVE IInv'
<1>1. ~Early
  BY Zenon DEF signalled, IInv, Uncancelled
<1>2. [Idle EXCEPT !.pc = "request", !.kind = "signal"]
        \in [pc : OffStrand, kind : {"signal", None}, op : {None}, strand : {None}]
  BY Zenon DEF Idle, OffStrand
<1>. QED
  BY <1>1, <1>2, OffStep, Zenon DEF signalled, OffStrand, Early

LEMMA ExitStep == ASSUME IInv, NEW w \in Workers, exit(w) PROVE IInv'
<1>1. /\ [Idle EXCEPT !.pc = "exited"]
           \in [pc : OffStrand, kind : {"signal", None}, op : {None}, strand : {None}]
      /\ [Idle EXCEPT !.pc = "exited"].pc = "exited"
  BY Zenon DEF Idle, OffStrand
<1>. QED
  BY <1>1, OffStep, Zenon DEF exit, OffStrand, Early

LEMMA HandlerStep == ASSUME IInv, NEW w \in Workers, handler(w) PROVE IInv'
BY ReturnStep, ContinueStep, Zenon DEF handler, OnStrand

LEMMA WorkedStep == ASSUME IInv, NEW w \in Workers, worked(w) PROVE IInv'
BY ReturnStep, ContinueStep, Zenon DEF worked, OnStrand

LEMMA TaskStep == ASSUME IInv, NEW w \in Workers, task(w) PROVE IInv'
BY ReturnStep, ContinueStep, Zenon DEF task, OnStrand

\* A timer that is armed expires: its repeat moves from the timer to the queue.
LEMMA ExpireStep == ASSUME IInv, NEW o \in OpSet, expire(o) PROVE IInv'
<1>. DEFINE s == StrandOf[o]
<1>1. s \in Strands /\ Fire(o) \in Handlers /\ Fire(o).kind = "fire" /\ Fire(o).op = o
  BY StrandIds, Zenon DEF Fire, Handlers, Kinds
<1>2. Shape' /\ Serial'
  BY <1>1, PushKeeps, Zenon DEF IInv, expire
<1>3. /\ \A t \in Strands : t # s => q'[t] = q[t]
      /\ DOMAIN q'[s] = DOMAIN q[s] \cup {Len(q[s]) + 1}
      /\ q'[s][Len(q[s]) + 1] = Fire(o) /\ \A k \in DOMAIN q[s] : q'[s][k] = q[s][k]
  BY <1>1 DEF IInv, Shape, Queue, expire
<1>4. Bound'
  BY <1>1, <1>3 DEF IInv, Bound, expire
<1>5. /\ timer' \in [OpSet -> {"idle", "armed"}] /\ timer'[o] = "idle"
      /\ \A p \in OpSet : p # o => timer'[p] = timer[p]
      /\ timer[o] = "armed" /\ added' = added /\ main' = main
  BY Zenon DEF IInv, Placed, expire
<1>6. Waiting(o) = {} /\ Running(o) = {}
  BY <1>5, Zenon DEF IInv, Placed
<1>7. \A p \in OpSet : Running(p)' = Running(p)
  BY Zenon DEF Running, expire
<1>8. \A p \in OpSet : p # o => Waiting(p)' \subseteq Waiting(p)
  BY <1>1, <1>3, StrandIds DEF Waiting, Waits
<1>9. Waiting(o)' \subseteq {Len(q[s]) + 1}
  BY <1>3, <1>6, Zenon DEF Waiting, Waits
<1>10. Placed'
  <2>1. \A p \in OpSet : /\ \A j, k \in Waiting(p)' : j = k
                         /\ Waiting(p)' # {} => Running(p)' = {} /\ timer'[p] = "idle"
                         /\ Running(p)' # {} => timer'[p] = "idle"
    BY <1>5, <1>6, <1>7, <1>8, <1>9 DEF IInv, Placed
  <2>2. \A n \in DOMAIN Ops : n > Started => Ops[n] # o /\ Ops[n] \in OpSet
    BY <1>5, Zenon DEF IInv, Placed, OpSet
  <2>3. Started' = Started
    BY <1>5, Zenon DEF Started
  <2>4. \A n \in DOMAIN Ops : n > Started' =>
          Waiting(Ops[n])' = {} /\ Running(Ops[n])' = {} /\ timer'[Ops[n]] = "idle"
    BY <1>5, <1>7, <1>8, <2>2, <2>3 DEF IInv, Placed
  <2>. QED
    BY <1>5, <2>1, <2>4, Zenon DEF IInv, Placed
<1>11. Uncancelled'
  BY <1>1, <1>3 DEF IInv, Uncancelled, Early, expire
<1>. QED
  BY <1>2, <1>4, <1>10, <1>11, Zenon DEF IInv

\* The first handler of a strand moves from the queue to a worker.
LEMMA TakeStep == ASSUME IInv, NEW w \in Workers, take(w) PROVE IInv'
<1>. DEFINE s == Head(ready)
            h == q[s][1]
<1>1. Shape' /\ Serial'
  BY TakeKeeps, Zenon DEF IInv
<1>2. /\ s \in Strands /\ 1 \in DOMAIN q[s] /\ h \in Handlers
      /\ worker' = [worker EXCEPT ![w] = [pc |-> "handler", kind |-> h.kind, op |-> h.op, strand |-> s]]
      /\ q' = [q EXCEPT ![s] = Tail(@)]
      /\ \A k \in DOMAIN q'[s] : k + 1 \in DOMAIN q[s] /\ q'[s][k] = q[s][k + 1]
  BY TakeKeeps, Zenon DEF IInv
<1>3. UNCHANGED <<main, added, signal, timer>>
  BY Zenon DEF take
<1>4. \A t \in Strands : t # s => q'[t] = q[t]
  BY <1>2, Zenon DEF IInv, Shape
<1>5. \A k \in DOMAIN q'[s] : k \in Nat \ {0}
  BY <1>1, <1>2 DEF Shape
<1>6. /\ worker'[w].pc = "handler" /\ worker'[w].kind = h.kind /\ worker'[w].op = h.op
      /\ worker'[w].strand = s
      /\ \A v \in Workers : v # w => worker'[v] = worker[v]
  BY <1>2, Zenon DEF IInv, Shape
<1>. HIDE DEF s, h
<1>7. Bound'
  <2>1. h.kind # "task" => h.op \in OpSet /\ s = StrandOf[h.op]
    BY <1>2, Zenon DEF IInv, Bound, h
  <2>2. \A v \in Workers :
          /\ worker'[v].kind \in {"fire", "aborted", "cancel"} =>
               worker'[v].op \in OpSet /\ worker'[v].strand = StrandOf[worker'[v].op]
          /\ worker'[v].pc = "arm" => worker'[v].kind = "fire"
    BY <1>6, <2>1 DEF IInv, Bound
  <2>3. \A t \in Strands : \A k \in DOMAIN q'[t] :
          q'[t][k].kind # "task" => q'[t][k].op \in OpSet /\ t = StrandOf[q'[t][k].op]
    BY <1>2, <1>4 DEF IInv, Bound
  <2>. QED
    BY <2>2, <2>3, Zenon DEF Bound
<1>8. \A o \in OpSet : StrandOf[o] # s => Waiting(o)' = Waiting(o)
  BY <1>4, StrandIds, Zenon DEF Waiting, Waits
<1>9. \A o \in OpSet : StrandOf[o] = s => \A k \in Waiting(o)' : k + 1 \in Waiting(o) /\ k \in Nat \ {0}
  BY <1>2, <1>5 DEF Waiting, Waits
<1>10. \A o \in OpSet : Running(o)' \subseteq Running(o)
                        \/ /\ StrandOf[o] = s /\ 1 \in Waiting(o)
  <2>. SUFFICES ASSUME NEW o \in OpSet, NEW v \in Running(o)', v \notin Running(o)
                PROVE  StrandOf[o] = s /\ 1 \in Waiting(o)
    BY Zenon
  <2>1. v = w /\ h.op = o /\ h.kind = "fire"
    BY <1>6, Zenon DEF Running
  <2>2. StrandOf[o] = s
    BY <1>2, <2>1, Zenon DEF IInv, Bound, h
  <2>. QED
    BY <1>2, <2>1, <2>2, Zenon DEF Waiting, Waits, h
<1>11. \A o \in OpSet : /\ \A j, k \in Waiting(o)' : j = k
                        /\ Waiting(o)' # {} => Waiting(o) # {} /\ Running(o)' \subseteq Running(o)
                        /\ Running(o)' # {} => timer[o] = "idle"
                        /\ Waiting(o) = {} => Waiting(o)' = {} /\ Running(o)' \subseteq Running(o)
  <2>. SUFFICES ASSUME NEW o \in OpSet
                PROVE  /\ \A j, k \in Waiting(o)' : j = k
                       /\ Waiting(o)' # {} => Waiting(o) # {} /\ Running(o)' \subseteq Running(o)
                       /\ Running(o)' # {} => timer[o] = "idle"
                       /\ Waiting(o) = {} => Waiting(o)' = {} /\ Running(o)' \subseteq Running(o)
    BY Zenon
  <2>1. /\ \A j, k \in Waiting(o) : j = k
        /\ Waiting(o) # {} => Running(o) = {} /\ timer[o] = "idle"
        /\ Running(o) # {} => timer[o] = "idle"
    BY Zenon DEF IInv, Placed
  <2>2. CASE StrandOf[o] # s
    BY <1>8, <1>10, <2>1, <2>2, Zenon
  <2>3. CASE StrandOf[o] = s
    <3>1. \A j, k \in Waiting(o)' : j = k
      <4>. SUFFICES ASSUME NEW j \in Waiting(o)', NEW k \in Waiting(o)' PROVE j = k
        BY Zenon
      <4>1. j + 1 \in Waiting(o) /\ k + 1 \in Waiting(o) /\ j \in Nat /\ k \in Nat
        BY <1>9, <2>3, Zenon
      <4>2. j + 1 = k + 1
        BY <2>1, <4>1, Zenon
      <4>. QED
        BY <4>1, <4>2
    <3>2. ASSUME NEW k \in Waiting(o)' PROVE Waiting(o) # {} /\ 1 \notin Waiting(o)
      <4>1. k + 1 \in Waiting(o) /\ k + 1 # 1
        BY <1>9, <2>3
      <4>. QED
        BY <2>1, <4>1, Zenon
    <3>. QED
      BY <1>10, <2>1, <3>1, <3>2, Zenon
  <2>. QED
    BY <2>2, <2>3, Zenon
<1>12. Placed'
  <2>1. Started' = Started /\ \A n \in DOMAIN Ops : Ops[n] \in OpSet
    BY <1>3, Zenon DEF Started, OpSet
  <2>2. \A o \in OpSet : Waiting(o)' # {} => Running(o)' = {} /\ timer'[o] = "idle"
    BY <1>3, <1>11, Zenon DEF IInv, Placed
  <2>3. \A n \in DOMAIN Ops : n > Started' =>
          Waiting(Ops[n])' = {} /\ Running(Ops[n])' = {} /\ timer'[Ops[n]] = "idle"
    BY <1>3, <1>11, <2>1, Zenon DEF IInv, Placed
  <2>. QED
    BY <1>3, <1>11, <2>2, <2>3, Zenon DEF IInv, Placed
<1>13. Uncancelled'
  <2>1. Early => h.kind # "cancel"
    BY <1>2, Zenon DEF IInv, Uncancelled, h
  <2>2. Early => \A t \in Strands : \A k \in DOMAIN q'[t] : q'[t][k].kind # "cancel"
    BY <1>2, <1>4 DEF IInv, Uncancelled
  <2>. QED
    BY <1>3, <1>6, <2>1, <2>2, Zenon DEF IInv, Uncancelled, Early
<1>. QED
  BY <1>1, <1>7, <1>12, <1>13, Zenon DEF IInv

\* work() returned and the timer is armed again: its repeat moves from the
\* worker to the timer.
LEMMA ArmStep == ASSUME IInv, NEW w \in Workers, arm(w) PROVE IInv'
<1>0. PICK o \in OpSet : o = worker[w].op
  BY Zenon DEF arm, IInv, Bound
<1>1. /\ worker[w].pc \in OnStrand /\ Return(w, q) /\ UNCHANGED <<main, added, signal, q>>
      /\ timer' = [timer EXCEPT ![o] = "armed"] /\ worker[w].pc = "arm"
  BY <1>0, Zenon DEF arm, OnStrand
<1>2. o \in OpSet /\ worker[w].kind = "fire" /\ worker[w].strand = StrandOf[o]
  BY <1>0, <1>1, Zenon DEF IInv, Bound
<1>3. Shape' /\ Serial'
  <2>1. Return(w, q')
    BY <1>1, Zenon DEF Return
  <2>. QED
    BY <1>1, <2>1, ReturnKeeps, Zenon DEF IInv, Shape
<1>4. /\ worker'[w].kind = None /\ worker'[w].pc = "idle"
      /\ \A v \in Workers : v # w => worker'[v] = worker[v]
  BY <1>1, Zenon DEF Return, Idle, IInv, Shape
<1>5. Bound'
  BY <1>1, <1>4 DEF IInv, Bound, None
<1>6. \A p \in OpSet : Waiting(p)' = Waiting(p) /\ Running(p)' \subseteq Running(p)
  BY <1>1, <1>4, Zenon DEF Waiting, Waits, Running, None
<1>7. Waiting(o) = {} /\ w \in Running(o)
  BY <1>0, <1>2, Zenon DEF IInv, Placed, Running
<1>8. Running(o)' = {}
  <2>. SUFFICES ASSUME NEW v \in Running(o)' PROVE FALSE
    BY Zenon DEF Running
  <2>1. v # w /\ v \in Workers /\ worker[v].kind = "fire" /\ worker[v].op = o
    BY <1>4, <1>6, <1>2, Zenon DEF Running, None
  <2>2. worker[v].strand = StrandOf[o] /\ StrandOf[o] # None
    BY <1>2, <2>1, StrandIds, Zenon DEF IInv, Bound
  <2>. QED
    BY <1>2, <2>1, <2>2, Zenon DEF IInv, Serial
<1>9. /\ timer' \in [OpSet -> {"idle", "armed"}]
      /\ \A p \in OpSet : p # o => timer'[p] = timer[p]
  BY <1>1, <1>2, Zenon DEF IInv, Placed
<1>10. Placed'
  <2>1. \A p \in OpSet : /\ \A j, k \in Waiting(p)' : j = k
                         /\ Waiting(p)' # {} => Running(p)' = {} /\ timer'[p] = "idle"
                         /\ Running(p)' # {} => timer'[p] = "idle"
    BY <1>6, <1>7, <1>8, <1>9 DEF IInv, Placed
  <2>2. Started' = Started
    BY <1>1, Zenon DEF Started
  <2>3. \A n \in DOMAIN Ops : n > Started => Ops[n] # o /\ Ops[n] \in OpSet
    BY <1>7, Zenon DEF IInv, Placed, OpSet
  <2>4. \A n \in DOMAIN Ops : n > Started' =>
          Waiting(Ops[n])' = {} /\ Running(Ops[n])' = {} /\ timer'[Ops[n]] = "idle"
    BY <1>6, <1>9, <2>2, <2>3, Zenon DEF IInv, Placed
  <2>. QED
    BY <1>1, <1>9, <2>1, <2>4, Zenon DEF IInv, Placed
<1>11. Uncancelled'
  BY <1>1, <1>4, Zenon DEF IInv, Uncancelled, Early, None
<1>. QED
  BY <1>3, <1>5, <1>10, <1>11, Zenon DEF IInv

\* timer.cancel(): a repeat whose timer is armed moves from it to the queue.
LEMMA CancelStep == ASSUME IInv, NEW w \in Workers, cancel(w) PROVE IInv'
<1>0. PICK o \in OpSet : o = worker[w].op
  BY Zenon DEF cancel, IInv, Bound
<1>. DEFINE s == StrandOf[o]
<1>1. /\ worker[w].pc \in OnStrand /\ worker[w].pc = "handler" /\ worker[w].kind = "cancel"
      /\ q' = (IF timer[o] = "armed" THEN Queue(q, StrandOf[o], Aborted(o)) ELSE q)
      /\ timer' = [timer EXCEPT ![o] = "idle"]
      /\ Return(w, q') /\ UNCHANGED <<main, added, signal>>
  BY <1>0, Zenon DEF cancel, OnStrand
<1>2. s = worker[w].strand /\ s \in Strands
  BY <1>0, <1>1, StrandIds, Zenon DEF IInv, Bound
<1>3. ~Early
  BY <1>1, Zenon DEF IInv, Uncancelled
<1>4. Aborted(o) \in Handlers /\ Aborted(o).kind = "aborted" /\ Aborted(o).op = o
  BY <1>2, Zenon DEF Aborted, Handlers, Kinds
<1>5. /\ q' \in [Strands -> Seq(Handlers)]
      /\ \A t \in Strands : t # s => q'[t] = q[t]
      /\ timer[o] # "armed" => q' = q
      /\ timer[o] = "armed" =>
           /\ DOMAIN q'[s] = DOMAIN q[s] \cup {Len(q[s]) + 1}
           /\ q'[s][Len(q[s]) + 1] = Aborted(o) /\ \A k \in DOMAIN q[s] : q'[s][k] = q[s][k]
  BY <1>1, <1>2, <1>4 DEF IInv, Shape, Queue
<1>6. Shape' /\ Serial'
  BY <1>1, <1>2, <1>5, ReturnKeeps, Zenon DEF IInv
<1>7. /\ worker'[w].kind = None /\ worker'[w].pc = "idle"
      /\ \A v \in Workers : v # w => worker'[v] = worker[v]
  BY <1>1, Zenon DEF Return, Idle, IInv, Shape
<1>8. Bound'
  <2>1. \A v \in Workers :
          /\ worker'[v].kind \in {"fire", "aborted", "cancel"} =>
               worker'[v].op \in OpSet /\ worker'[v].strand = StrandOf[worker'[v].op]
          /\ worker'[v].pc = "arm" => worker'[v].kind = "fire"
    BY <1>7 DEF IInv, Bound, None
  <2>2. \A t \in Strands : \A k \in DOMAIN q'[t] :
          q'[t][k].kind # "task" => q'[t][k].op \in OpSet /\ t = StrandOf[q'[t][k].op]
    BY <1>2, <1>4, <1>5 DEF IInv, Bound
  <2>. QED
    BY <2>1, <2>2, Zenon DEF Bound
<1>9. \A p \in OpSet : Running(p)' \subseteq Running(p)
  BY <1>7, Zenon DEF Running, None
<1>10. \A p \in OpSet : p # o => Waiting(p)' \subseteq Waiting(p)
  BY <1>2, <1>4, <1>5, StrandIds DEF Waiting, Waits
<1>11. timer[o] # "armed" => Waiting(o)' = Waiting(o)
  BY <1>5, Zenon DEF Waiting, Waits
<1>12. timer[o] = "armed" => Waiting(o) = {} /\ Running(o) = {} /\ Waiting(o)' \subseteq {Len(q[s]) + 1}
  <2>. SUFFICES ASSUME timer[o] = "armed"
                PROVE  Waiting(o) = {} /\ Running(o) = {} /\ Waiting(o)' \subseteq {Len(q[s]) + 1}
    BY Zenon
  <2>1. Waiting(o) = {} /\ Running(o) = {}
    BY <1>2, Zenon DEF IInv, Placed
  <2>. QED
    BY <1>2, <1>5, <2>1, Zenon DEF Waiting, Waits
<1>13. /\ timer' \in [OpSet -> {"idle", "armed"}] /\ timer'[o] = "idle"
       /\ \A p \in OpSet : p # o => timer'[p] = timer[p]
  BY <1>1, <1>2, Zenon DEF IInv, Placed
<1>14. Placed'
  <2>1. \A p \in OpSet : /\ \A j, k \in Waiting(p)' : j = k
                         /\ Waiting(p)' # {} => Running(p)' = {} /\ timer'[p] = "idle"
                         /\ Running(p)' # {} => timer'[p] = "idle"
    BY <1>9, <1>10, <1>11, <1>12, <1>13 DEF IInv, Placed
  <2>2. Started' = Started /\ \A n \in DOMAIN Ops : Ops[n] \in OpSet
    BY <1>1, Zenon DEF Started, OpSet
  <2>3. \A n \in DOMAIN Ops : n > Started' =>
          Waiting(Ops[n])' = {} /\ Running(Ops[n])' = {} /\ timer'[Ops[n]] = "idle"
    BY <1>9, <1>10, <1>11, <1>13, <2>2 DEF IInv, Placed
  <2>. QED
    BY <1>1, <1>13, <2>1, <2>3, Zenon DEF IInv, Placed
<1>15. Uncancelled'
  BY <1>1, <1>3, Zenon DEF Uncancelled, Early
<1>. QED
  BY <1>6, <1>8, <1>14, <1>15, Zenon DEF IInv

-----------------------------------------------------------------------------
(* The theorems.                                                           *)

LEMMA NextKeeps == IInv /\ [Next]_vars => IInv'
<1>. SUFFICES ASSUME IInv, [Next]_vars PROVE IInv'
  BY Zenon
<1>1. CASE UNCHANGED vars
  BY <1>1, MainMoves, Zenon DEF vars, Early
<1>2. CASE Main
  <2>1. CASE run_until_stop \/ join
    BY <2>1, MainMoves, Zenon DEF run_until_stop, join, Early
  <2>. QED
    BY <1>2, <2>1, StartStep, AddStep, ArmFirstStep, Zenon DEF Main
<1>3. CASE stop \/ post_check
  BY <1>3, MainMoves, Zenon DEF stop, post_check, Early
<1>4. CASE Stopping
  BY <1>4, RequestStep, CtxStopStep, CancelOpStep, Zenon DEF Stopping
<1>5. CASE (\E o \in OpSet : expire(o)) \/ (\E e \in Endpoints : post(e))
  BY <1>5, ExpireStep, PostStep, Zenon
<1>6. CASE \E w \in Workers : signalled(w) \/ take(w) \/ Handler(w) \/ worked(w)
  BY <1>6, SignalledStep, TakeStep, HandlerStep, ArmStep, CancelStep, TaskStep, ExitStep, WorkedStep, Zenon
     DEF Handler
<1>. QED
  BY <1>1, <1>2, <1>3, <1>4, <1>5, <1>6, Zenon DEF Next

LEMMA Inductive == Spec => []IInv
BY InitHolds, NextKeeps, PTL DEF Spec

INSTANCE FiniteSetTheorems

\* A set whose elements are all equal has at most one.
LEMMA AtMostOne ==
  ASSUME NEW S, \A x, y \in S : x = y
  PROVE  Cardinality(S) \in {0, 1} /\ (S = {} => Cardinality(S) = 0)
<1>1. CASE S = {}
  BY <1>1, FS_EmptySet
<1>2. CASE S # {}
  <2>1. PICK x \in S : TRUE
    BY <1>2, Zenon
  <2>2. S = {x}
    BY <2>1
  <2>. QED
    BY <1>2, <2>2, FS_Singleton, Zenon
<1>. QED
  BY <1>1, <1>2, Zenon

\* Serialisation per endpoint ("strand per Modbus endpoint", ADR-0002): no two
\* workers are in handlers of one strand.
THEOREM StrandsAreSerial == Spec => []StrandSerial
<1>1. IInv => StrandSerial
  <2>. SUFFICES ASSUME IInv, NEW s \in Strands
                PROVE  Cardinality({w \in Workers : worker[w].strand = s}) <= 1
    BY DEF StrandSerial
  <2>1. \A v, w \in {u \in Workers : worker[u].strand = s} : v = w
    BY StrandIds, Zenon DEF IInv, Serial
  <2>. QED
    BY <2>1, AtMostOne
<1>. QED
  BY <1>1, Inductive, PTL

\* RepeatOp: a repeat is armed, queued or running, and never two of these, so
\* its work neither overlaps nor queues behind itself.
THEOREM RepeatsDoNotOverlap == Spec => []OneRound
<1>1. IInv => OneRound
  <2>. SUFFICES ASSUME IInv, NEW o \in OpSet
                PROVE  Cardinality({w \in Workers : worker[w].op = o /\ worker[w].kind = "fire"})
                       + Cardinality({k \in DOMAIN q[StrandOf[o]] :
                                        q[StrandOf[o]][k] \in {Fire(o), Aborted(o)}})
                       + (IF timer[o] = "armed" THEN 1 ELSE 0) <= 1
    BY Zenon DEF OneRound, IInv, Placed
  <2>. DEFINE R == {w \in Workers : worker[w].op = o /\ worker[w].kind = "fire"}
              Q == {k \in DOMAIN q[StrandOf[o]] : q[StrandOf[o]][k] \in {Fire(o), Aborted(o)}}
  <2>1. R = Running(o)
    BY Zenon DEF Running
  <2>2. Q \subseteq Waiting(o)
    BY DEF Waiting, Waits, Fire, Aborted
  <2>3. \A v, w \in R : v = w
    <3>. SUFFICES ASSUME NEW v \in R, NEW w \in R PROVE v = w
      BY Zenon
    <3>1. worker[v].strand = StrandOf[o] /\ worker[w].strand = StrandOf[o]
      BY DEF IInv, Bound
    <3>. QED
      BY <3>1, StrandIds, Zenon DEF IInv, Serial
  <2>4. /\ \A j, k \in Q : j = k
        /\ Q # {} => R = {} /\ timer[o] # "armed"
        /\ R # {} => timer[o] # "armed"
    BY <2>1, <2>2, Zenon DEF IInv, Placed
  <2>. HIDE DEF R, Q
  <2>5. /\ Cardinality(R) \in {0, 1} /\ (R = {} => Cardinality(R) = 0)
        /\ Cardinality(Q) \in {0, 1} /\ (Q = {} => Cardinality(Q) = 0)
    BY <2>3, <2>4, AtMostOne
  <2>6. Cardinality(R) + Cardinality(Q) + (IF timer[o] = "armed" THEN 1 ELSE 0) <= 1
    BY <2>4, <2>5
  <2>. QED
    BY <2>6 DEF R, Q
<1>. QED
  BY <1>1, Inductive, PTL

\* asio_reactor.cpp's "Timer cancel must run on the same strand as
\* arm()/async_wait": no two threads are ever at one timer, the main thread that
\* arms it first included.
THEOREM TimersAreAlone == Spec => []TimerAlone
<1>1. IInv => TimerAlone
  <2>. SUFFICES ASSUME IInv, NEW o \in OpSet
                PROVE  Cardinality({w \in Workers : worker[w].op = o /\ worker[w].pc \in {"arm", "handler"}
                                                    /\ worker[w].kind \in {"fire", "cancel"}})
                       + (IF main = "arming" /\ Ops[added] = o THEN 1 ELSE 0) <= 1
    BY DEF TimerAlone, IInv, Placed
  <2>. DEFINE R == {w \in Workers : worker[w].op = o /\ worker[w].pc \in {"arm", "handler"}
                                    /\ worker[w].kind \in {"fire", "cancel"}}
  <2>1. \A v, w \in R : v = w
    <3>. SUFFICES ASSUME NEW v \in R, NEW w \in R PROVE v = w
      BY Zenon
    <3>1. worker[v].strand = StrandOf[o] /\ worker[w].strand = StrandOf[o]
      BY Zenon DEF IInv, Bound
    <3>. QED
      BY <3>1, StrandIds, Zenon DEF IInv, Serial
  <2>2. ASSUME main = "arming", Ops[added] = o PROVE R = {}
    <3>1. added \in DOMAIN Ops /\ added > Started
      BY <2>2, ReactorAssumption DEF IInv, Placed, Started
    <3>2. Running(o) = {}
      BY <2>2, <3>1 DEF IInv, Placed
    <3>3. \A w \in Workers : worker[w].kind # "cancel"
      BY <2>2, Zenon DEF IInv, Uncancelled, Early
    <3>. QED
      BY <3>2, <3>3, Zenon DEF Running
  <2>. HIDE DEF R
  <2>3. Cardinality(R) \in {0, 1} /\ (R = {} => Cardinality(R) = 0)
    BY <2>1, AtMostOne, Zenon
  <2>4. Cardinality(R) + (IF main = "arming" /\ Ops[added] = o THEN 1 ELSE 0) <= 1
    BY <2>2, <2>3
  <2>. QED
    BY <2>4, Zenon DEF R
<1>. QED
  BY <1>1, Inductive, PTL

\* AsioReactor::stop and run_until_stop return after all workers left run():
\* from then on nothing queued is ever run.
THEOREM QuietOnceStopped == Spec => []QuietAfterStop
<1>1. Init => QuietAfterStop
  BY Zenon DEF Init, QuietAfterStop
<1>2. IInv /\ QuietAfterStop /\ [Next]_vars => QuietAfterStop'
  <2>. SUFFICES ASSUME IInv, QuietAfterStop, [Next]_vars, main' = "done" PROVE \A w \in Workers : worker'[w].pc = "exited"
    BY DEF QuietAfterStop
  <2>1. CASE UNCHANGED vars
    BY <2>1, Zenon DEF vars, QuietAfterStop
  <2>2. CASE Main \/ stop \/ post_check
    BY <2>2, Zenon DEF Main, start, add_repeat, op_start, run_until_stop, join, stop, post_check, QuietAfterStop
  <2>3. CASE Stopping
    <3>1. PICK t \in Workers \cup {0} : request_stop(t) \/ ctx_stop(t) \/ \E o \in OpSet : cancel_op(t, o)
      BY <2>3, Zenon DEF Stopping
    <3>2. main = "done" /\ t # 0
      BY <3>1, Zenon DEF request_stop, ctx_stop, cancel_op, Requesting, Canceling, At
    <3>3. t \in Workers /\ worker[t].pc = "exited"
      BY <3>2 DEF QuietAfterStop
    <3>. QED
      BY <3>1, <3>2, <3>3 DEF request_stop, ctx_stop, cancel_op, Requesting, Canceling
  <2>4. CASE (\E o \in OpSet : expire(o)) \/ (\E e \in Endpoints : post(e))
    BY <2>4, Zenon DEF expire, post, QuietAfterStop
  <2>5. CASE \E w \in Workers : signalled(w) \/ take(w) \/ Handler(w) \/ worked(w)
    BY <2>5, Zenon DEF signalled, take, Handler, handler, arm, cancel, task, exit, worked, QuietAfterStop
  <2>. QED
    BY <2>1, <2>2, <2>3, <2>4, <2>5, Zenon DEF Next
<1>. QED
  BY <1>1, <1>2, Inductive, PTL DEF Spec

\* Both together: the handlers of one strand never overlap, however many
\* workers run the io_context, and after stop none runs any more.
THEOREM HandlersAreSerial == Spec => []HandlersSerial
BY StrandsAreSerial, QuietOnceStopped, PTL DEF HandlersSerial

=============================================================================

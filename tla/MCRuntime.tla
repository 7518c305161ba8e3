------------------------------ MODULE MCRuntime ------------------------------
(***************************************************************************)
(* The threads of the program, and the transports.  A behaviour is one of: *)
(*  - "polls": a reactor with the polls of two endpoints and the watchlist,*)
(*    which has a strand of its own; all work ends;                        *)
(*  - "slow": a reactor without a watchlist, with a poll whose work may    *)
(*    never end and a task from outside;                                   *)
(*  - "udp", "tcp": ServerRuntime with a transport without and with a      *)
(*    worker thread of its own, and "once": with --once;                   *)
(*  - "transports": one of the transports, see MCTransports.               *)
(* What a behaviour is not about rests in its initial state.               *)
(***************************************************************************)
EXTENDS Reactor, MCTransports

VARIABLES
  about,
  app, reactor, pollState, inflight, executor, transport, subscribed, ua, uaPost, queue,  \* of Lifecycle
  strandq, tq, pc, cur, left, joinable, detached, fault, starts, writes

appVars == <<app, reactor, pollState, inflight, executor, transport, subscribed, ua, uaPost, queue,
             strandq, tq, pc, cur, left, joinable, detached, fault, starts, writes>>

MCEndpoints == {"e1", "e2"}
MCOps == <<"p1", "p2", "watch">>
MCStrandOf == [o \in {"p1", "p2", "watch"} |->
                 CASE o = "p1" -> "e1" [] o = "p2" -> "e2" [] o = "watch" -> "own"]
Nothing == {}

Slow == INSTANCE Reactor WITH Ops <- <<"p1", "p2">>, MaxTasks <- 1, Endless <- {"p1"}

Udp == INSTANCE Lifecycle WITH
  HasWorker <- FALSE, UseReactor <- TRUE, MaxReads <- 2, MaxWrites <- 2, MaxStarts <- 2, main <- app
Tcp == INSTANCE Lifecycle WITH
  HasWorker <- TRUE, UseReactor <- TRUE, MaxReads <- 2, MaxWrites <- 1, MaxStarts <- 1, main <- app
Once == INSTANCE Lifecycle WITH
  HasWorker <- TRUE, UseReactor <- FALSE, MaxReads <- 2, MaxWrites <- 2, MaxStarts <- 2, main <- app

-----------------------------------------------------------------------------
RunInit ==
  /\ Udp!Init
  /\ TransportsInit
  /\ \/ about = "transports" /\ Init
     \/ about \in {"polls", "udp", "tcp", "once"} /\ Init /\ used = "udp"
     \/ about = "slow" /\ Slow!Init /\ used = "udp"

RunNext ==
  /\ UNCHANGED about
  /\ \/ /\ \/ about = "polls" /\ Next
           \/ about = "slow" /\ Slow!Next
        /\ UNCHANGED <<appVars, transportVars>>
     \/ /\ \/ about = "udp" /\ Udp!Next
           \/ about = "tcp" /\ Tcp!Next
           \/ about = "once" /\ Once!Next
        /\ UNCHANGED <<vars, transportVars>>
     \/ about = "transports" /\ TransportsNext /\ UNCHANGED <<vars, appVars>>

\* The fairness of Reactor, of Lifecycle, and of TcpTransport.
OfSlow == about = "slow"
OfPolls == about = "polls"
OfReactor == about \in {"slow", "polls"}
OfApp == about \in {"udp", "tcp", "once"}

ReactorFairness ==
  /\ WF_vars((OfSlow /\ Slow!Main) \/ (OfPolls /\ Main))
  /\ WF_vars((OfSlow /\ Slow!Stopping) \/ (OfPolls /\ Stopping))
  /\ \A o \in {"p1", "p2", "watch"} : WF_vars(OfReactor /\ o \in DOMAIN timer /\ expire(o))
  /\ \A w \in Workers :
       /\ WF_vars(OfReactor /\ take(w)) /\ WF_vars(OfReactor /\ Handler(w))
       /\ WF_vars(OfReactor /\ (OfSlow => worker[w].op # "p1") /\ worked(w))

AppFairness ==
  /\ WF_appVars(OfApp /\ Udp!StopStep)
  /\ WF_appVars((about = "udp" /\ (Udp!StrandRun \/ Udp!Completion("strand") \/ Udp!Closed))
                \/ (about = "tcp" /\ (Tcp!StrandRun \/ Tcp!Completion("strand") \/ Tcp!Closed)))
  /\ WF_appVars((about = "tcp" /\ Tcp!WorkerNext) \/ (about = "once" /\ Once!WorkerNext))
  /\ WF_appVars(OfApp /\ Udp!UaPosts)

RunSpec ==
  /\ RunInit /\ [][RunNext]_<<about, vars, appVars, transportVars>>
  /\ ReactorFairness /\ AppFairness /\ TransportsFairness

-----------------------------------------------------------------------------
(* "slow work does not stall the other strand": while the work of one     *)
(* poll may never end, the other poll works again and again until the      *)
(* reactor is stopped (choose_worker_count).                               *)
OtherStrandGoesOn ==
  []<>(\/ ~OfSlow \/ stopping
       \/ \E w \in Workers : worker[w].op = "p2" /\ worker[w].pc = "work")

(* When start() has failed or stop() has returned nothing is left behind,  *)
(* no object and no thread, with a transport that has no worker or with    *)
(* --once; and the poll state that tick_endpoint hands to its completion   *)
(* by reference is there when the completion runs.                         *)
RuntimeReleased == about # "tcp" => Udp!AllReleased /\ Udp!PollStateLives

(* What was asked of the runtime happens.  Slow work does not stall the    *)
(* other strand.  Where all work ends, a stop of the reactor ends.  A call *)
(* of ServerRuntime::stop returns, with a transport that has no worker.    *)
(* While the reactor runs a poll that is in flight ends, with both kinds   *)
(* of transport.                                                           *)
RuntimeGoesOn ==
  /\ OtherStrandGoesOn
  /\ []<>(OfPolls /\ stopping => main = "done")
  /\ about # "tcp" => Udp!StopEnds
  /\ Udp!PollsComplete
=============================================================================

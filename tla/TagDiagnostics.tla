--------------------------- MODULE TagDiagnostics ---------------------------
(***************************************************************************)
(* TagStore and the two subscribers of its changes: the historian and the  *)
(* diagnostics of the OPC UA server, which count the tags of each quality, *)
(* set gauges from the counts and copy them to nodes of the address space. *)
(*                                                                         *)
(* publish() stores the value under the store's lock and calls the         *)
(* handlers after releasing it, on the publishing thread; every handler    *)
(* takes locks of its own.  Each locked section is one step here.          *)
(*                                                                         *)
(* A publication is a tag, a quality and a serial number, which also       *)
(* stands for its server timestamp.                                        *)
(***************************************************************************)
EXTENDS Integers, Sequences, FiniteSets

CONSTANTS
  Tags,
  Threads,      \* threads that publish
  UaThreads,    \* those of them that run the OPC UA server
  Sweepers,     \* those of them that call mark_stale_before
  Writes,       \* for each thread, the tags it publishes
  MaxPublish    \* bound: publications of a behaviour

ASSUME TagsAssumption == IsFiniteSet(Tags)
ASSUME ThreadsAssumption ==
  /\ UaThreads \subseteq Threads
  /\ Sweepers \subseteq Threads
  /\ Writes \in [Threads -> SUBSET Tags]
ASSUME BoundAssumption == MaxPublish \in Nat

VARIABLES
  stage,        \* of ServerRuntime::start: "starting", "bound", "started"
  values,       \* TagStore::values_: the last publication of each tag
  serial,       \* publications so far
  subscribers,  \* TagStore::subscribers_
  thread,       \* what each thread is doing
  latest,       \* OpcUaServer::latest_quality_
  count,        \* good_count_, uncertain_count_, bad_count_
  last_error,   \* last_error_: the tag it names
  dirty,        \* diagnostics_dirty_
  gauge,        \* the tag_quality gauges
  pump,         \* the values write_diagnostics is about to write
  nodes,        \* the diagnostics nodes
  history       \* what the historian was given, for each tag

diagnostics == <<latest, count, last_error, dirty>>
vars == <<stage, values, serial, subscribers, thread, diagnostics, gauge, pump,
          nodes, history>>

Qualities == {"Good", "Uncertain", "Bad"}
NoQuality == "none"
NoTag == "no tag"
Subscribers == {"diagnostics", "historian"}
Zero == [q \in Qualities |-> 0]

Publications == [quality : Qualities, serial : Nat]
NoValue == [quality |-> NoQuality, serial |-> 0]
Snapshots == [count : [Qualities -> Nat], error : Tags \cup {NoTag}]
Cleared == [count |-> Zero, error |-> NoTag]
Idle ==
  [at |-> "idle", tag |-> NoTag, value |-> NoValue, handlers |-> {},
   changed |-> {}, seen |-> Zero]

TypeOK ==
  /\ stage \in {"starting", "bound", "started"}
  /\ values \in [Tags -> Publications \cup {NoValue}]
  /\ serial \in 0..MaxPublish
  /\ subscribers \subseteq Subscribers
  /\ thread \in [Threads ->
       [at : {"idle", "swept", "notify", "noted", "gauges"},
        tag : Tags \cup {NoTag}, value : Publications \cup {NoValue},
        handlers : SUBSET Subscribers,
        changed : SUBSET [tag : Tags, value : Publications],
        seen : [Qualities -> Nat]]]
  /\ latest \in [Tags -> Qualities \cup {NoQuality}]
  /\ count \in [Qualities -> Nat]
  /\ last_error \in Tags \cup {NoTag}
  /\ dirty \in BOOLEAN
  /\ gauge \in [Qualities -> Nat]
  /\ pump \in [writing : BOOLEAN, values : Snapshots]
  /\ nodes \in Snapshots
  /\ history \in [Tags -> Seq(Publications)]

\* start() connects the endpoints first; the tags of those that cannot be
\* reached are published Bad before the server exists.
Init ==
  /\ stage = "starting"
  /\ \E unreachable \in SUBSET Tags :
       values = [t \in Tags |->
         IF t \in unreachable THEN [quality |-> "Bad", serial |-> 0] ELSE NoValue]
  /\ serial = 0
  /\ subscribers = {}
  /\ thread = [p \in Threads |-> Idle]
  /\ latest = [t \in Tags |-> NoQuality]
  /\ count = Zero
  /\ last_error = NoTag
  /\ dirty = FALSE
  /\ gauge = Zero
  /\ pump = [writing |-> FALSE, values |-> Cleared]
  /\ nodes = Cleared
  /\ history = [t \in Tags |-> <<>>]

-----------------------------------------------------------------------------
(* Starting.  No other thread runs until bind_tags returns.                *)

Tally(of) == [q \in Qualities |-> Cardinality({t \in Tags : of[t] = q})]

bind_tags_no_backfill ==
  /\ stage = "starting"
  /\ stage' = "bound"
  /\ subscribers' = subscribers \cup {"diagnostics"}
  /\ dirty' = TRUE
  /\ latest' = [t \in Tags |-> NoQuality]
  /\ count' = Zero
  /\ last_error' = NoTag
  /\ UNCHANGED <<values, serial, thread, gauge, pump, nodes, history>>

\* Counters reset, subscription, one note for each value the store already
\* holds, and the event loop thread starts.
bind_tags ==
  /\ stage = "starting"
  /\ stage' = "bound"
  /\ subscribers' = subscribers \cup {"diagnostics"}
  /\ dirty' = TRUE
  /\ latest' = [t \in Tags |-> values[t].quality]
  /\ count' = Tally(latest')
  /\ LET bad == {t \in Tags : values[t].quality = "Bad"}
     IN IF bad = {} THEN last_error' = NoTag ELSE last_error' \in bad
  /\ gauge' = count'
  /\ UNCHANGED <<values, serial, thread, pump, nodes, history>>

subscribe_historian ==
  /\ stage = "bound"
  /\ stage' = "started"
  /\ subscribers' = subscribers \cup {"historian"}
  /\ UNCHANGED <<values, serial, thread, diagnostics, gauge, pump, nodes, history>>

-----------------------------------------------------------------------------
(* Publishing.                                                             *)

Running(p) == stage = "started" \/ (stage = "bound" /\ p \in UaThreads)

\* The thread calls the handlers it copied; with none left it goes on with
\* the values its sweep changed, or returns.
Notify(p, t, v, handlers, changed) ==
  thread' = [thread EXCEPT ![p] =
    IF handlers # {}
    THEN [Idle EXCEPT !.at = "notify", !.tag = t, !.value = v,
                      !.handlers = handlers, !.changed = changed]
    ELSE [Idle EXCEPT !.at = IF changed = {} THEN "idle" ELSE "swept",
                      !.changed = changed]]

publish(p, t, q) ==
  /\ thread[p].at = "idle" /\ Running(p) /\ t \in Writes[p]
  /\ serial < MaxPublish
  /\ serial' = serial + 1
  /\ values' = [values EXCEPT ![t] = [quality |-> q, serial |-> serial']]
  /\ Notify(p, t, values'[t], subscribers, {})
  /\ UNCHANGED <<stage, subscribers, diagnostics, gauge, pump, nodes, history>>

Older(cutoff) ==
  {t \in Tags : values[t].quality = "Good" /\ values[t].serial < cutoff}

\* The first locked section of mark_stale_before.
mark_stale_before(p, cutoff) ==
  /\ thread[p].at = "idle" /\ Running(p) /\ p \in Sweepers
  /\ Older(cutoff) # {}
  /\ values' = [t \in Tags |->
       IF t \in Older(cutoff) THEN [values[t] EXCEPT !.quality = "Uncertain"]
       ELSE values[t]]
  /\ thread' = [thread EXCEPT ![p] =
       [Idle EXCEPT !.at = "swept",
                    !.changed = {[tag |-> t, value |-> values'[t]] : t \in Older(cutoff)}]]
  /\ UNCHANGED <<stage, serial, subscribers, diagnostics, gauge, pump, nodes, history>>

\* The next changed value: the handlers are copied again.
sweep(p) ==
  /\ thread[p].at = "swept"
  /\ \E c \in thread[p].changed :
       Notify(p, c.tag, c.value, subscribers, thread[p].changed \ {c})
  /\ UNCHANGED <<stage, values, serial, subscribers, diagnostics, gauge, pump,
                 nodes, history>>

record_again(p) ==
  /\ thread[p].at = "notify" /\ "historian" \in thread[p].handlers
  /\ history' = [history EXCEPT ![thread[p].tag] = Append(@, thread[p].value)]
  /\ UNCHANGED <<stage, values, serial, subscribers, thread, diagnostics, gauge,
                 pump, nodes>>

\* ServerRuntime's handler: historian_->record.
record(p) ==
  /\ thread[p].at = "notify" /\ "historian" \in thread[p].handlers
  /\ history' = [history EXCEPT ![thread[p].tag] = Append(@, thread[p].value)]
  /\ Notify(p, thread[p].tag, thread[p].value, thread[p].handlers \ {"historian"},
            thread[p].changed)
  /\ UNCHANGED <<stage, values, serial, subscribers, diagnostics, gauge, pump, nodes>>

Counted(t, q) ==
  [x \in Qualities |-> count[x] + (IF x = q THEN 1 ELSE 0)
                                - (IF x = latest[t] THEN 1 ELSE 0)]

Noted(p) == [thread EXCEPT ![p].at = "noted"]

note_tag_quality_only_added(p) ==
  LET t == thread[p].tag
      q == thread[p].value.quality
  IN /\ thread[p].at = "notify" /\ "diagnostics" \in thread[p].handlers
     /\ count' = [count EXCEPT ![q] = @ + 1]
     /\ latest' = [latest EXCEPT ![t] = q]
     /\ last_error' = IF q = "Bad" THEN t ELSE last_error
     /\ dirty' = TRUE
     /\ thread' = Noted(p)
     /\ UNCHANGED <<stage, values, serial, subscribers, gauge, pump, nodes, history>>

note_tag_quality_changes_only(p) ==
  LET t == thread[p].tag
      q == thread[p].value.quality
  IN /\ thread[p].at = "notify" /\ "diagnostics" \in thread[p].handlers
     /\ count' = Counted(t, q)
     /\ latest' = [latest EXCEPT ![t] = q]
     /\ last_error' = IF q = "Bad" THEN t ELSE last_error
     /\ dirty' = (dirty \/ count' # count)
     /\ thread' = Noted(p)
     /\ UNCHANGED <<stage, values, serial, subscribers, gauge, pump, nodes, history>>

\* The locked section of the server's handler.
note_tag_quality(p) ==
  LET t == thread[p].tag
      q == thread[p].value.quality
  IN /\ thread[p].at = "notify" /\ "diagnostics" \in thread[p].handlers
     /\ count' = Counted(t, q)
     /\ latest' = [latest EXCEPT ![t] = q]
     /\ last_error' = IF q = "Bad" THEN t ELSE last_error
     /\ dirty' = TRUE
     /\ thread' = Noted(p)
     /\ UNCHANGED <<stage, values, serial, subscribers, gauge, pump, nodes, history>>

\* publish_quality_metrics takes the counters under the lock ...
read_counts(p) ==
  /\ thread[p].at = "noted"
  /\ thread' = [thread EXCEPT ![p].at = "gauges", ![p].seen = count]
  /\ UNCHANGED <<stage, values, serial, subscribers, diagnostics, gauge, pump,
                 nodes, history>>

\* ... and sets the gauges without it.
gauge_set(p) ==
  /\ thread[p].at = "gauges"
  /\ gauge' = thread[p].seen
  /\ Notify(p, thread[p].tag, thread[p].value, thread[p].handlers \ {"diagnostics"},
            thread[p].changed)
  /\ UNCHANGED <<stage, values, serial, subscribers, diagnostics, pump, nodes, history>>

-----------------------------------------------------------------------------
(* The event loop thread.                                                  *)

\* write_diagnostics copies what is dirty under the lock ...
take_diagnostics ==
  /\ stage # "starting" /\ ~pump.writing /\ dirty
  /\ pump' = [writing |-> TRUE, values |-> [count |-> count, error |-> last_error]]
  /\ dirty' = FALSE
  /\ UNCHANGED <<stage, values, serial, subscribers, thread, latest, count,
                 last_error, gauge, nodes, history>>

put_diagnostics_clearing_flag ==
  /\ pump.writing
  /\ nodes' = pump.values
  /\ pump' = [pump EXCEPT !.writing = FALSE]
  /\ dirty' = FALSE
  /\ UNCHANGED <<stage, values, serial, subscribers, thread, latest, count,
                 last_error, gauge, history>>

\* ... and writes the nodes, before the event loop serves the next request.
put_diagnostics ==
  /\ pump.writing
  /\ nodes' = pump.values
  /\ pump' = [pump EXCEPT !.writing = FALSE]
  /\ UNCHANGED <<stage, values, serial, subscribers, thread, diagnostics, gauge,
                 history>>

-----------------------------------------------------------------------------
Continue(p) ==
  sweep(p) \/ record(p) \/ note_tag_quality(p) \/ read_counts(p) \/ gauge_set(p)

Start == bind_tags \/ subscribe_historian
Pump == take_diagnostics \/ put_diagnostics

Next ==
  \/ Start
  \/ Pump
  \/ \E p \in Threads :
       \/ Continue(p)
       \/ \E t \in Tags, q \in Qualities : publish(p, t, q)
       \/ \E cutoff \in 1..(MaxPublish + 1) : mark_stale_before(p, cutoff)

Spec == Init /\ [][Next]_vars

\* start() runs to its end, a thread that notifies goes on, and the event loop
\* does not stop; nothing has to be published.
FairSpec ==
  /\ Spec
  /\ WF_vars(Start)
  /\ WF_vars(Pump)
  /\ \A p \in Threads : WF_vars(Continue(p))

-----------------------------------------------------------------------------
(* Properties.                                                             *)

\* Each counter that note_tag_quality keeps by adding and subtracting is the
\* number of tags whose last noted quality is that one, whatever threads
\* publish at the same time.
CountersAreTallies == count = Tally(latest)

\* What write_diagnostics put in the nodes is what the counters say, unless
\* the dirty flag is up or a write is on its way: no change is forgotten
\* between the copy and the writing of the nodes.
NodesCurrentUnlessDirty ==
  LET current == [count |-> count, error |-> last_error]
  IN IF pump.writing THEN dirty \/ pump.values = current
     ELSE dirty \/ nodes = current

Telling(t) == \E p \in Threads :
  \/ thread[p].at = "notify" /\ "diagnostics" \in thread[p].handlers /\ thread[p].tag = t
  \/ \E c \in thread[p].changed : c.tag = t

\* The threads that store values of the tag, and the tags with one of them.
Storers(t) == {p \in Threads : t \in Writes[p] \/ p \in Sweepers}
OwnTags == {t \in Tags : \A p, r \in Storers(t) : p = r}

\* For a tag that only one thread publishes and sweeps, whatever the others do
\* with theirs: unless a change of it is on its way to the counters, they count
\* the quality the store holds ("the counters reflect the current quality of
\* the last values of the TagStore").
CountersFollowStore ==
  stage # "starting" =>
    \A t \in OwnTags : Telling(t) \/ latest[t] = values[t].quality

\* One version of a tag was stored before another: it has the smaller serial,
\* or is the same publication before it went stale.
Before(a, b) ==
  \/ a.serial < b.serial
  \/ a.serial = b.serial /\ a.quality = "Good" /\ b.quality = "Uncertain"

\* The historian is given the values of such a tag in the order in which they
\* were stored, and no value twice.
HistoryInOrder ==
  \A t \in OwnTags : \A i, j \in DOMAIN history[t] :
    i < j => Before(history[t][i], history[t][j])

\* Once the tags stop changing, the nodes come to show the counters, and the
\* counters the store as far as one thread stores a tag, and stay so: publish,
\* notification, counters and the event loop together.
NodesReachStore ==
  <>[](/\ nodes.count = Tally(latest)
       /\ \A t \in OwnTags : latest[t] = values[t].quality)
=============================================================================

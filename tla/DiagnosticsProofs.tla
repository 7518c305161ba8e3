-------------------------- MODULE DiagnosticsProofs --------------------------
(***************************************************************************)
(* The diagnostics of the OPC UA server for any number of tags and of      *)
(* threads that publish.                                                   *)
(***************************************************************************)
EXTENDS TagDiagnostics, FiniteSetTheorems, TLAPS

\* The time SMT may take for a step.
USE SMTT(60)

\* A thread that calls handlers calls them for a value it published or swept.
Busy ==
  \A p \in Threads : thread[p].at \in {"notify", "noted", "gauges"} =>
    thread[p].tag \in Tags /\ thread[p].value \in Publications

IInv == TypeOK /\ Busy /\ CountersAreTallies

ThreadStates ==
  [at : {"idle", "swept", "notify", "noted", "gauges"},
   tag : Tags \cup {NoTag}, value : Publications \cup {NoValue},
   handlers : SUBSET Subscribers,
   changed : SUBSET [tag : Tags, value : Publications],
   seen : [Qualities -> Nat]]

-----------------------------------------------------------------------------
\* How one more tag of a quality changes the tally of a quality.
LEMMA TallyChange ==
  ASSUME NEW of \in [Tags -> Qualities \cup {NoQuality}], NEW t \in Tags,
         NEW q \in Qualities, NEW x \in Qualities,
         NEW of1, of1[t] = q, \A s \in Tags \ {t} : of1[s] = of[s]
  PROVE  Tally(of1)[x] =
           Tally(of)[x] + (IF x = q THEN 1 ELSE 0) - (IF x = of[t] THEN 1 ELSE 0)
<1> DEFINE S == {s \in Tags : of[s] = x}
           S1 == {s \in Tags : of1[s] = x}
<1>1. IsFiniteSet(S)
  BY TagsAssumption, FS_Subset, Zenon
<1>2. Cardinality(S) \in Nat
  BY <1>1, FS_CardinalityType, Zenon
<1>3. Tally(of)[x] = Cardinality(S) /\ Tally(of1)[x] = Cardinality(S1)
  BY Zenon DEF Tally
<1>4. CASE x = q
  <2>1. S1 = S \cup {t}
    BY <1>4, Zenon
  <2> HIDE DEF S, S1
  <2>2. Cardinality(S1) = IF t \in S THEN Cardinality(S) ELSE Cardinality(S) + 1
    BY <1>1, <2>1, FS_AddElement, Zenon
  <2> USE DEF S, S1
  <2> QED BY <1>2, <1>3, <1>4, <2>2
<1>5. CASE x # q
  <2>1. S1 = S \ {t}
    BY <1>5, Zenon
  <2> HIDE DEF S, S1
  <2>2. Cardinality(S1) = IF t \in S THEN Cardinality(S) - 1 ELSE Cardinality(S)
    BY <1>1, <2>1, FS_RemoveElement, Zenon
  <2> USE DEF S, S1
  <2> QED BY <1>2, <1>3, <1>5, <2>2
<1> QED BY <1>4, <1>5, Zenon

LEMMA TallyType ==
  ASSUME NEW of \in [Tags -> Qualities \cup {NoQuality}]
  PROVE  Tally(of) \in [Qualities -> Nat]
<1>1. ASSUME NEW x \in Qualities PROVE Cardinality({s \in Tags : of[s] = x}) \in Nat
  BY TagsAssumption, FS_Subset, FS_CardinalityType, Zenon
<1> QED BY <1>1, Zenon DEF Tally

\* The tally of tags none of which has been noted.
LEMMA TallyNone == Tally([t \in Tags |-> NoQuality]) = Zero
<1>1. ASSUME NEW x \in Qualities
      PROVE  {s \in Tags : [t \in Tags |-> NoQuality][s] = x} = {}
  BY Zenon DEF Qualities, NoQuality
<1> QED BY <1>1, FS_EmptySet, Zenon DEF Tally, Zero

\* Where a thread goes when it has handlers to call, or has none left.
LEMMA NotifyStep ==
  ASSUME TypeOK, Busy, NEW p \in Threads, NEW t \in Tags, NEW v \in Publications,
         NEW h \in SUBSET Subscribers,
         NEW c \in SUBSET [tag : Tags, value : Publications],
         Notify(p, t, v, h, c)
  PROVE  thread' \in [Threads -> ThreadStates] /\ Busy'
<1> DEFINE n == [Idle EXCEPT !.at = "notify", !.tag = t, !.value = v,
                             !.handlers = h, !.changed = c]
           r == [Idle EXCEPT !.at = IF c = {} THEN "idle" ELSE "swept", !.changed = c]
<1>1. /\ n \in ThreadStates /\ n.at = "notify" /\ n.tag = t /\ n.value = v
      /\ r \in ThreadStates /\ r.at \in {"idle", "swept"}
  BY Zenon DEF Idle, ThreadStates, Zero, Qualities
<1>2. thread \in [Threads -> ThreadStates]
  BY Zenon DEF TypeOK, ThreadStates
<1>3. thread' = [thread EXCEPT ![p] = IF h # {} THEN n ELSE r]
  BY Zenon DEF Notify
<1> HIDE DEF n, r
<1>4. thread' \in [Threads -> ThreadStates]
  BY <1>1, <1>2, <1>3, Zenon
<1>5. Busy'
  BY <1>1, <1>2, <1>3, Zenon DEF Busy
<1> QED BY <1>4, <1>5, Zenon

-----------------------------------------------------------------------------
LEMMA InitIInv == Init => IInv
<1> SUFFICES ASSUME Init PROVE IInv
  BY Zenon
<1>1. Idle \in ThreadStates /\ Idle.at = "idle"
  BY Zenon DEF Idle, ThreadStates, Zero, Qualities
<1>2. CountersAreTallies
  BY TallyNone, Zenon DEF Init, CountersAreTallies
<1>3. Busy
  BY <1>1, Zenon DEF Init, Busy
<1>4. thread \in [Threads -> ThreadStates]
  BY <1>1, Zenon DEF Init
<1>5. values \in [Tags -> Publications \cup {NoValue}]
  BY DEF Init, Publications, Qualities
<1>6. pump \in [writing : BOOLEAN, values : Snapshots] /\ nodes \in Snapshots
  BY Zenon DEF Init, Cleared, Snapshots, Zero, Qualities
<1>7. /\ latest \in [Tags -> Qualities \cup {NoQuality}]
      /\ count \in [Qualities -> Nat] /\ gauge \in [Qualities -> Nat]
      /\ history \in [Tags -> Seq(Publications)]
      /\ last_error \in Tags \cup {NoTag}
  BY DEF Init, Zero
<1>8. dirty \in BOOLEAN
  BY Zenon DEF Init
<1>9. serial \in 0..MaxPublish /\ subscribers \subseteq Subscribers
      /\ stage \in {"starting", "bound", "started"}
  BY BoundAssumption DEF Init
<1> QED BY <1>2, <1>3, <1>4, <1>5, <1>6, <1>7, <1>8, <1>9, Zenon DEF IInv, TypeOK, ThreadStates

\* An invariant step, from what may change: the threads and one other part.
LEMMA Parts ==
  ASSUME thread' \in [Threads -> ThreadStates], Busy',
         count' = Tally(latest'),
         latest' \in [Tags -> Qualities \cup {NoQuality}],
         last_error' \in Tags \cup {NoTag}, dirty' \in BOOLEAN,
         values' \in [Tags -> Publications \cup {NoValue}],
         serial' \in 0..MaxPublish, subscribers' \subseteq Subscribers,
         stage' \in {"starting", "bound", "started"},
         gauge' \in [Qualities -> Nat],
         pump' \in [writing : BOOLEAN, values : Snapshots], nodes' \in Snapshots,
         history' \in [Tags -> Seq(Publications)]
  PROVE  IInv'
<1>1. count' \in [Qualities -> Nat]
  BY TallyType, Zenon
<1> QED BY <1>1, Zenon DEF IInv, TypeOK, CountersAreTallies, ThreadStates

LEMMA StartIInv ==
  ASSUME IInv, Start
  PROVE  IInv'
<1> USE DEF IInv
<1>1. CASE bind_tags
  <2>1. latest' \in [Tags -> Qualities \cup {NoQuality}]
    BY <1>1 DEF bind_tags, TypeOK, Publications, NoValue
  <2>2. gauge' \in [Qualities -> Nat]
    BY <1>1, <2>1, TallyType, Zenon DEF bind_tags
  <2>3. last_error' \in Tags \cup {NoTag}
    BY <1>1, Zenon DEF bind_tags
  <2>4. thread' \in [Threads -> ThreadStates] /\ Busy'
    BY <1>1, Zenon DEF bind_tags, TypeOK, ThreadStates, Busy
  <2>5. dirty' \in BOOLEAN
    BY <1>1, Zenon DEF bind_tags
  <2>6. subscribers' \subseteq Subscribers /\ stage' \in {"starting", "bound", "started"}
    BY <1>1, Zenon DEF bind_tags, TypeOK, Subscribers
  <2> QED BY <1>1, <2>1, <2>2, <2>3, <2>4, <2>5, <2>6, Parts, Zenon DEF bind_tags, TypeOK
<1>2. CASE subscribe_historian
  <2>1. thread' \in [Threads -> ThreadStates] /\ Busy'
    BY <1>2, Zenon DEF subscribe_historian, TypeOK, ThreadStates, Busy
  <2>2. subscribers' \subseteq Subscribers /\ stage' \in {"starting", "bound", "started"}
    BY <1>2, Zenon DEF subscribe_historian, TypeOK, Subscribers
  <2>3. dirty' \in BOOLEAN
    BY <1>2, Zenon DEF subscribe_historian, TypeOK, diagnostics
  <2> QED BY <1>2, <2>1, <2>2, <2>3, Parts, Zenon
          DEF subscribe_historian, TypeOK, diagnostics, CountersAreTallies
<1> QED BY <1>1, <1>2, Zenon DEF Start

LEMMA PumpIInv ==
  ASSUME IInv, Pump
  PROVE  IInv'
<1> USE DEF IInv
<1>1. thread' \in [Threads -> ThreadStates] /\ Busy'
  BY Zenon DEF Pump, take_diagnostics, put_diagnostics, TypeOK, ThreadStates, Busy
<1>2. CASE take_diagnostics
  <2>1. [count |-> count, error |-> last_error] \in Snapshots
    BY Zenon DEF TypeOK, Snapshots
  <2>2. pump' \in [writing : BOOLEAN, values : Snapshots]
    BY <1>2, <2>1 DEF take_diagnostics
  <2>3. dirty' \in BOOLEAN
    BY <1>2, Zenon DEF take_diagnostics
  <2> QED BY <1>1, <1>2, <2>2, <2>3, Parts, Zenon DEF take_diagnostics, TypeOK, CountersAreTallies
<1>3. CASE put_diagnostics
  <2>1. pump' \in [writing : BOOLEAN, values : Snapshots] /\ nodes' \in Snapshots
    BY <1>3, Zenon DEF put_diagnostics, TypeOK
  <2>2. dirty' \in BOOLEAN
    BY <1>3, Zenon DEF put_diagnostics, TypeOK, diagnostics
  <2> QED BY <1>1, <1>3, <2>1, <2>2, Parts, Zenon
          DEF put_diagnostics, TypeOK, diagnostics, CountersAreTallies
<1> QED BY <1>2, <1>3, Zenon DEF Pump

LEMMA PublishIInv ==
  ASSUME IInv, NEW p \in Threads, NEW t \in Tags, NEW q \in Qualities, publish(p, t, q)
  PROVE  IInv'
<1> USE DEF IInv
<1>1. serial' \in 0..MaxPublish /\ serial' \in Nat
  BY BoundAssumption DEF publish, TypeOK
<1>2. [quality |-> q, serial |-> serial'] \in Publications
  BY <1>1, Zenon DEF Publications
<1>3. /\ values' \in [Tags -> Publications \cup {NoValue}]
      /\ values'[t] \in Publications
  BY <1>2, Zenon DEF publish, TypeOK
<1>4. thread' \in [Threads -> ThreadStates] /\ Busy'
  <2>1. Notify(p, t, values'[t], subscribers, {}) /\ subscribers \in SUBSET Subscribers
    BY Zenon DEF publish, TypeOK
  <2> QED BY <1>3, <2>1, NotifyStep, Zenon
<1>5. dirty' \in BOOLEAN
  BY Zenon DEF publish, TypeOK, diagnostics
<1> QED BY <1>1, <1>3, <1>4, <1>5, Parts, Zenon DEF publish, TypeOK, diagnostics, CountersAreTallies

LEMMA SweepIInv ==
  ASSUME IInv, NEW p \in Threads, NEW cutoff, mark_stale_before(p, cutoff)
  PROVE  IInv'
<1> USE DEF IInv
<1> DEFINE now == {[tag |-> t, value |-> values'[t]] : t \in Older(cutoff)}
           n == [Idle EXCEPT !.at = "swept", !.changed = now]
<1>1. \A t \in Older(cutoff) : t \in Tags /\ values[t] \in Publications
  BY DEF Older, TypeOK, NoValue, NoQuality
<1>2. \A t \in Older(cutoff) : [values[t] EXCEPT !.quality = "Uncertain"] \in Publications
  BY <1>1, Zenon DEF Publications, Qualities
<1>3. /\ values' \in [Tags -> Publications \cup {NoValue}]
      /\ \A t \in Older(cutoff) : values'[t] \in Publications
  BY <1>1, <1>2, Zenon DEF mark_stale_before, TypeOK
<1>4. now \subseteq [tag : Tags, value : Publications]
  BY <1>1, <1>3
<1>5. thread' = [thread EXCEPT ![p] = n]
  BY Zenon DEF mark_stale_before
<1> HIDE DEF now
<1>6. n \in ThreadStates /\ n.at = "swept"
  BY <1>4, Zenon DEF Idle, ThreadStates, Zero, Qualities
<1>7. thread \in [Threads -> ThreadStates]
  BY Zenon DEF TypeOK, ThreadStates
<1> HIDE DEF n
<1>8. thread' \in [Threads -> ThreadStates] /\ Busy'
  BY <1>5, <1>6, <1>7, Zenon DEF Busy
<1>9. dirty' \in BOOLEAN
  BY Zenon DEF mark_stale_before, TypeOK, diagnostics
<1> QED BY <1>3, <1>8, <1>9, Parts, Zenon
        DEF mark_stale_before, TypeOK, diagnostics, CountersAreTallies

LEMMA NoteIInv ==
  ASSUME IInv, NEW p \in Threads, note_tag_quality(p)
  PROVE  IInv'
<1> USE DEF IInv
<1> DEFINE t == thread[p].tag
           q == thread[p].value.quality
<1>1. t \in Tags /\ q \in Qualities
  BY Zenon DEF note_tag_quality, Busy, Publications
<1>2. latest' = [latest EXCEPT ![t] = q] /\ latest \in [Tags -> Qualities \cup {NoQuality}]
  BY Zenon DEF note_tag_quality, TypeOK
<1>3. count' = Tally(latest')
  <2>1. count' = [x \in Qualities |-> Tally(latest)[x] + (IF x = q THEN 1 ELSE 0)
                                                     - (IF x = latest[t] THEN 1 ELSE 0)]
    BY Zenon DEF note_tag_quality, Counted, CountersAreTallies
  <2>2. ASSUME NEW x \in Qualities PROVE count'[x] = Tally(latest')[x]
    <3>0. /\ latest'[t] = q /\ \A s \in Tags \ {t} : latest'[s] = latest[s]
          /\ latest \in [Tags -> Qualities \cup {NoQuality}]
      BY <1>1, <1>2, Zenon
    <3> HIDE DEF t, q
    <3>1. Tally(latest')[x] =
            Tally(latest)[x] + (IF x = q THEN 1 ELSE 0) - (IF x = latest[t] THEN 1 ELSE 0)
      BY <1>1, <3>0, TallyChange
    <3> QED BY <1>2, <2>1, <3>1, Zenon
  <2>3. Tally(latest') = [x \in Qualities |-> Tally(latest')[x]]
    BY Zenon DEF Tally
  <2> QED BY <2>1, <2>2, <2>3, Zenon
<1>4. thread' \in [Threads -> ThreadStates] /\ Busy'
  <2>1. thread' = [thread EXCEPT ![p].at = "noted"] /\ thread[p].at = "notify"
    BY Zenon DEF note_tag_quality, Noted
  <2>2. thread \in [Threads -> ThreadStates]
    BY Zenon DEF TypeOK, ThreadStates
  <2>3. thread' \in [Threads -> ThreadStates]
    BY <2>1, <2>2 DEF ThreadStates
  <2>4. \A r \in Threads :
          /\ thread'[r].tag = thread[r].tag
          /\ thread'[r].value = thread[r].value
          /\ thread'[r].at \in {"notify", "noted", "gauges"} =>
               thread[r].at \in {"notify", "noted", "gauges"}
    BY <2>1, <2>2, Zenon DEF ThreadStates
  <2>5. ASSUME NEW r \in Threads, thread'[r].at \in {"notify", "noted", "gauges"}
        PROVE  thread'[r].tag \in Tags /\ thread'[r].value \in Publications
    <3>1. thread[r].tag \in Tags /\ thread[r].value \in Publications
      BY <2>4, <2>5, Zenon DEF Busy
    <3> QED BY <2>4, <3>1, Zenon
  <2>6. Busy'
    BY <2>5, Zenon DEF Busy
  <2> QED BY <2>3, <2>6, Zenon
<1>5. dirty' \in BOOLEAN
  BY Zenon DEF note_tag_quality
<1>6. latest' \in [Tags -> Qualities \cup {NoQuality}] /\ last_error' \in Tags \cup {NoTag}
  BY <1>1, <1>2, Zenon DEF note_tag_quality, TypeOK
<1> QED BY <1>3, <1>4, <1>5, <1>6, Parts, Zenon DEF note_tag_quality, TypeOK

LEMMA ContinueIInv ==
  ASSUME IInv, NEW p \in Threads, Continue(p)
  PROVE  IInv'
<1> USE DEF IInv
<1>1. CASE note_tag_quality(p)
  BY <1>1, NoteIInv, Zenon
<1>2. thread[p] \in ThreadStates /\ thread \in [Threads -> ThreadStates]
  BY Zenon DEF TypeOK, ThreadStates
<1>3. CASE sweep(p)
  <2>1. PICK c \in thread[p].changed :
          Notify(p, c.tag, c.value, subscribers, thread[p].changed \ {c})
    BY <1>3, Zenon DEF sweep
  <2>2. /\ c.tag \in Tags /\ c.value \in Publications
        /\ thread[p].changed \ {c} \in SUBSET [tag : Tags, value : Publications]
        /\ subscribers \in SUBSET Subscribers
    BY <1>2, Zenon DEF ThreadStates, TypeOK
  <2>3. thread' \in [Threads -> ThreadStates] /\ Busy'
    BY <2>1, <2>2, NotifyStep, Zenon
  <2>4. dirty' \in BOOLEAN
    BY <1>3 DEF sweep, TypeOK, diagnostics
  <2> QED BY <1>3, <2>3, <2>4, Parts, Zenon DEF sweep, TypeOK, diagnostics, CountersAreTallies
<1>4. ASSUME thread[p].at \in {"notify", "gauges"}, NEW x
      PROVE  /\ thread[p].tag \in Tags /\ thread[p].value \in Publications
             /\ thread[p].handlers \ {x} \in SUBSET Subscribers
             /\ thread[p].changed \in SUBSET [tag : Tags, value : Publications]
             /\ thread[p].seen \in [Qualities -> Nat]
  BY <1>2, <1>4, Zenon DEF ThreadStates, Busy
<1>5. CASE record(p)
  <2>1. thread' \in [Threads -> ThreadStates] /\ Busy'
    BY <1>4, <1>5, NotifyStep, Zenon DEF record
  <2>2. history' \in [Tags -> Seq(Publications)]
    <3>1. /\ history' = [history EXCEPT ![thread[p].tag] = Append(@, thread[p].value)]
          /\ history \in [Tags -> Seq(Publications)]
          /\ thread[p].tag \in Tags /\ thread[p].value \in Publications
      BY <1>4, <1>5, Zenon DEF record, TypeOK
    <3>2. Append(history[thread[p].tag], thread[p].value) \in Seq(Publications)
      BY <3>1
    <3> QED BY <3>1, <3>2, Zenon
  <2>3. dirty' \in BOOLEAN
    BY <1>5, Zenon DEF record, TypeOK, diagnostics
  <2> QED BY <1>5, <2>1, <2>2, <2>3, Parts, Zenon DEF record, TypeOK, diagnostics, CountersAreTallies
<1>6. CASE gauge_set(p)
  <2>1. thread' \in [Threads -> ThreadStates] /\ Busy'
    BY <1>4, <1>6, NotifyStep, Zenon DEF gauge_set
  <2>2. gauge' \in [Qualities -> Nat]
    BY <1>4, <1>6, Zenon DEF gauge_set
  <2>3. dirty' \in BOOLEAN
    BY <1>6 DEF gauge_set, TypeOK, diagnostics
  <2> QED BY <1>6, <2>1, <2>2, <2>3, Parts, Zenon DEF gauge_set, TypeOK, diagnostics, CountersAreTallies
<1>7. CASE read_counts(p)
  <2>1. thread' = [thread EXCEPT ![p].at = "gauges", ![p].seen = count]
        /\ thread[p].at = "noted" /\ count \in [Qualities -> Nat]
    BY <1>7, Zenon DEF read_counts, TypeOK
  <2>2. thread' \in [Threads -> ThreadStates]
    BY <1>2, <2>1, Zenon DEF ThreadStates
  <2>3. \A r \in Threads :
          /\ thread'[r].tag = thread[r].tag
          /\ thread'[r].value = thread[r].value
          /\ thread'[r].at \in {"notify", "noted", "gauges"} =>
               thread[r].at \in {"notify", "noted", "gauges"}
    BY <1>2, <2>1, Zenon DEF ThreadStates
  <2>4. Busy'
    <3>1. ASSUME NEW r \in Threads, thread'[r].at \in {"notify", "noted", "gauges"}
          PROVE  thread'[r].tag \in Tags /\ thread'[r].value \in Publications
      <4>1. thread[r].tag \in Tags /\ thread[r].value \in Publications
        BY <2>3, <3>1, Zenon DEF Busy
      <4> QED BY <2>3, <4>1, Zenon
    <3> QED BY <3>1, Zenon DEF Busy
  <2>5. dirty' \in BOOLEAN
    BY <1>7, Zenon DEF read_counts, TypeOK, diagnostics
  <2> QED BY <1>7, <2>2, <2>4, <2>5, Parts, Zenon DEF read_counts, TypeOK, diagnostics, CountersAreTallies
<1> QED BY <1>1, <1>3, <1>5, <1>6, <1>7, Zenon DEF Continue

LEMMA NextIInv == IInv /\ [Next]_vars => IInv'
<1> SUFFICES ASSUME IInv, [Next]_vars PROVE IInv'
  BY Zenon
<1>1. CASE Next
  BY <1>1, StartIInv, PumpIInv, ContinueIInv, PublishIInv, SweepIInv, Zenon DEF Next
<1>2. CASE UNCHANGED vars
  BY <1>2, Zenon DEF vars, diagnostics, IInv, TypeOK, Busy, CountersAreTallies
<1> QED BY <1>1, <1>2, Zenon

\* The counters that note_tag_quality keeps by adding and subtracting are the
\* tally of the qualities it last noted: for any number of threads and tags.
THEOREM DiagnosticsTallies == Spec => []CountersAreTallies
BY InitIInv, NextIInv, PTL DEF Spec, IInv

\* The state of the store, the threads and the diagnostics keeps its type; in
\* particular no counter, an unsigned number in the code, goes below zero.
THEOREM DiagnosticsTypes == Spec => []TypeOK
BY InitIInv, NextIInv, PTL DEF Spec, IInv

-----------------------------------------------------------------------------
\* No change of the counters or of the last error is lost between the copy
\* write_diagnostics takes and the nodes it writes.
THEOREM DiagnosticsReachNodes == Spec => []NodesCurrentUnlessDirty
<1>1. Init => NodesCurrentUnlessDirty
  BY DEF Init, NodesCurrentUnlessDirty, Cleared
<1>2. ASSUME TypeOK, NodesCurrentUnlessDirty, [Next]_vars
      PROVE  NodesCurrentUnlessDirty'
  <2>1. CASE Pump
    BY <1>2, <2>1 DEF Pump, take_diagnostics, put_diagnostics, TypeOK, diagnostics,
                      NodesCurrentUnlessDirty
  <2>2. CASE bind_tags \/ \E p \in Threads : note_tag_quality(p)
    BY <2>2, Zenon DEF bind_tags, note_tag_quality, NodesCurrentUnlessDirty
  <2>3. CASE UNCHANGED <<diagnostics, pump, nodes>>
    BY <1>2, <2>3, Zenon DEF diagnostics, NodesCurrentUnlessDirty
  <2>4. ASSUME NEW p \in Threads,
               \/ sweep(p) \/ record(p) \/ read_counts(p) \/ gauge_set(p)
               \/ \E t \in Tags, q \in Qualities : publish(p, t, q)
               \/ \E cutoff \in 1..(MaxPublish + 1) : mark_stale_before(p, cutoff)
        PROVE  UNCHANGED <<diagnostics, pump, nodes>>
    <3>1. CASE sweep(p) \/ record(p) \/ read_counts(p)
      BY <3>1, Zenon DEF sweep, record, read_counts
    <3>2. CASE gauge_set(p) \/ \E t \in Tags, q \in Qualities : publish(p, t, q)
      BY <3>2, Zenon DEF gauge_set, publish
    <3>3. CASE \E cutoff \in 1..(MaxPublish + 1) : mark_stale_before(p, cutoff)
      BY <3>3, Zenon DEF mark_stale_before
    <3> QED BY <2>4, <3>1, <3>2, <3>3, Zenon
  <2>5. subscribe_historian \/ UNCHANGED vars => UNCHANGED <<diagnostics, pump, nodes>>
    BY Zenon DEF subscribe_historian, vars
  <2>6. \/ Pump
        \/ bind_tags \/ \E p \in Threads : note_tag_quality(p)
        \/ UNCHANGED <<diagnostics, pump, nodes>>
    BY <1>2, <2>4, <2>5, Zenon DEF Next, Start, Continue
  <2> QED BY <2>1, <2>2, <2>3, <2>6, Zenon
<1> QED BY <1>1, <1>2, DiagnosticsTypes, PTL DEF Spec

-----------------------------------------------------------------------------
(* Tags that one thread stores.                                            *)

\* What the thread knows of the tag: it may store it, and where nobody else may
\* the value is the one in the store.
Holds(p, t, v, store) == p \in Storers(t) /\ (t \in OwnTags => v = store[t])

OnWay(p, t) ==
  \/ thread[p].at = "notify" /\ "diagnostics" \in thread[p].handlers /\ thread[p].tag = t
  \/ \E c \in thread[p].changed : c.tag = t

Calling == {"notify", "noted", "gauges"}

\* A thread notifies of values that are still in the store if nobody else may
\* store them, and of everything it has to before it is idle.
Current ==
  /\ \A p \in Threads :
       /\ thread[p].at = "idle" => thread[p].changed = {}
       /\ thread[p].at # "idle" => stage # "starting"
       /\ thread[p].at \in Calling => Holds(p, thread[p].tag, thread[p].value, values)
       /\ \A c \in thread[p].changed : Holds(p, c.tag, c.value, values)
  /\ stage # "starting" => "diagnostics" \in subscribers
  /\ \A t \in OwnTags :
       \/ stage = "starting"
       \/ latest[t] = values[t].quality
       \/ \E p \in Threads : OnWay(p, t)

\* What Notify makes of the thread, and that it leaves the others alone.
LEMMA NotifyOthers ==
  ASSUME TypeOK, NEW p \in Threads, NEW t, NEW v, NEW h, NEW c, Notify(p, t, v, h, c)
  PROVE  /\ \A r \in Threads \ {p} : thread'[r] = thread[r]
         /\ thread'[p].changed = c
         /\ h = {} => thread'[p].at \in {"idle", "swept"} /\ (thread'[p].at = "idle" => c = {})
         /\ h # {} =>
              /\ thread'[p].at = "notify" /\ thread'[p].tag = t
              /\ thread'[p].value = v /\ thread'[p].handlers = h
<1> DEFINE n == [Idle EXCEPT !.at = "notify", !.tag = t, !.value = v,
                             !.handlers = h, !.changed = c]
           r == [Idle EXCEPT !.at = IF c = {} THEN "idle" ELSE "swept", !.changed = c]
<1>1. /\ n.at = "notify" /\ n.tag = t /\ n.value = v /\ n.handlers = h /\ n.changed = c
      /\ r.at \in {"idle", "swept"} /\ r.changed = c /\ (r.at = "idle" => c = {})
  BY Zenon DEF Idle
<1>2. thread' = [thread EXCEPT ![p] = IF h # {} THEN n ELSE r]
  BY Zenon DEF Notify
<1>3. thread = [x \in Threads |-> thread[x]]
  BY Zenon DEF TypeOK
<1> HIDE DEF n, r
<1> QED BY <1>1, <1>2, <1>3, Zenon

\* A step of one thread: what it has to see to for itself and its own tags.
LEMMA ThreadStep ==
  ASSUME Current, NEW p \in Threads,
         \A r \in Threads \ {p} : thread'[r] = thread[r],
         UNCHANGED <<stage, subscribers>>, stage # "starting",
         \A t \in Tags : values'[t] # values[t] => p \in Storers(t),
         thread'[p].at = "idle" => thread'[p].changed = {},
         thread'[p].at \in Calling => Holds(p, thread'[p].tag, thread'[p].value, values'),
         \A c \in thread'[p].changed : Holds(p, c.tag, c.value, values'),
         \A t \in OwnTags :
           \/ latest'[t] = values'[t].quality
           \/ OnWay(p, t)'
           \/ latest'[t] = latest[t] /\ values'[t] = values[t] /\ ~OnWay(p, t)
  PROVE  Current'
<1>1. ASSUME NEW r \in Threads, r # p, NEW t, NEW v, Holds(r, t, v, values)
      PROVE  Holds(r, t, v, values')
  BY <1>1, Zenon DEF Holds, OwnTags
<1>2. ASSUME NEW r \in Threads
      PROVE  /\ thread'[r].at = "idle" => thread'[r].changed = {}
             /\ thread'[r].at \in Calling => Holds(r, thread'[r].tag, thread'[r].value, values')
             /\ \A c \in thread'[r].changed : Holds(r, c.tag, c.value, values')
  <2>1. CASE r = p
    BY <2>1, Zenon
  <2>2. CASE r # p
    <3>1. thread'[r] = thread[r]
      BY <2>2, Zenon
    <3>2. thread[r].at \in Calling => Holds(r, thread[r].tag, thread[r].value, values')
      BY <1>1, <2>2, Zenon DEF Current
    <3>3. \A c \in thread[r].changed : Holds(r, c.tag, c.value, values')
      BY <1>1, <2>2, Zenon DEF Current
    <3>4. thread[r].at = "idle" => thread[r].changed = {}
      BY Zenon DEF Current
    <3> QED BY <3>1, <3>2, <3>3, <3>4, Zenon
  <2> QED BY <2>1, <2>2, Zenon
<1>3. ASSUME NEW t \in OwnTags
      PROVE  latest'[t] = values'[t].quality \/ \E r \in Threads : OnWay(r, t)'
  <2>1. CASE latest'[t] = latest[t] /\ values'[t] = values[t] /\ ~OnWay(p, t)
    <3>1. latest[t] = values[t].quality \/ \E r \in Threads \ {p} : OnWay(r, t)
      BY <2>1, Zenon DEF Current
    <3>2. \A r \in Threads \ {p} : OnWay(r, t) => OnWay(r, t)'
      BY DEF OnWay
    <3> QED BY <2>1, <3>1, <3>2, Zenon
  <2> QED BY <2>1, Zenon
<1>4. "diagnostics" \in subscribers' /\ stage' # "starting"
  BY Zenon DEF Current
<1> QED BY <1>2, <1>3, <1>4, Zenon DEF Current

LEMMA PublishCurrent ==
  ASSUME TypeOK, Current, NEW p \in Threads, NEW t \in Tags, NEW q \in Qualities,
         publish(p, t, q)
  PROVE  Current'
<1> DEFINE v == [quality |-> q, serial |-> serial']
<1>1. values' = [values EXCEPT ![t] = v] /\ values \in [Tags -> Publications \cup {NoValue}]
  BY Zenon DEF publish, TypeOK
<1>2. "diagnostics" \in subscribers /\ stage # "starting"
  BY Zenon DEF publish, Running, Current
<1>3. Notify(p, t, v, subscribers, {})
  <2>1. values'[t] = v
    BY <1>1, Zenon
  <2>2. Notify(p, t, values'[t], subscribers, {})
    BY Zenon DEF publish
  <2> HIDE DEF v, Notify
  <2> QED BY <2>1, <2>2, Zenon
<1>4. t \in Writes[p] /\ thread[p].at = "idle" /\ UNCHANGED <<stage, subscribers, latest>>
  BY Zenon DEF publish, diagnostics
<1> HIDE DEF v
<1>5. /\ \A r \in Threads \ {p} : thread'[r] = thread[r]
      /\ thread'[p].changed = {} /\ thread'[p].at = "notify" /\ thread'[p].tag = t
      /\ thread'[p].value = v /\ thread'[p].handlers = subscribers
  BY <1>2, <1>3, NotifyOthers
<1>6. \A s \in Tags : values'[s] = IF s = t THEN v ELSE values[s]
  BY <1>1, Zenon
<1>7. p \in Storers(t)
  BY <1>4, Zenon DEF Storers
<1>8. Holds(p, t, v, values')
  BY <1>6, <1>7, Zenon DEF Holds
<1>9. \A s \in Tags : ~OnWay(p, s)
  BY <1>4, Zenon DEF OnWay, Current
<1>10. OnWay(p, t)'
  BY <1>2, <1>5, Zenon DEF OnWay
<1>11. \A s \in OwnTags :
         \/ latest'[s] = values'[s].quality
         \/ OnWay(p, s)'
         \/ latest'[s] = latest[s] /\ values'[s] = values[s] /\ ~OnWay(p, s)
  <2> SUFFICES ASSUME NEW s \in OwnTags, s # t
               PROVE  latest'[s] = latest[s] /\ values'[s] = values[s] /\ ~OnWay(p, s)
    BY <1>10, Zenon
  <2> QED BY <1>4, <1>6, <1>9, Zenon DEF OwnTags
<1> QED BY <1>2, <1>4, <1>5, <1>6, <1>7, <1>8, <1>11, ThreadStep, Zenon

\* Tags of a sweep are stored and put on the way together.
LEMMA SweptCurrent ==
  ASSUME TypeOK, Current, NEW p \in Threads, NEW cutoff \in Nat,
         mark_stale_before(p, cutoff)
  PROVE  Current'
<1> DEFINE old == Older(cutoff)
           now == {[tag |-> t, value |-> values'[t]] : t \in old}
<1>1. /\ thread[p].at = "idle" /\ p \in Sweepers /\ stage # "starting" /\ old # {}
      /\ UNCHANGED <<stage, subscribers, latest>>
  BY Zenon DEF mark_stale_before, Running, diagnostics
<1>2. \A t \in Tags : t \notin old => values'[t] = values[t]
  BY Zenon DEF mark_stale_before
<1>3. thread' = [thread EXCEPT ![p] = [Idle EXCEPT !.at = "swept", !.changed = now]]
  BY Zenon DEF mark_stale_before
<1>4. thread = [x \in Threads |-> thread[x]]
  BY Zenon DEF TypeOK
<1> HIDE DEF now
<1>5. /\ \A r \in Threads \ {p} : thread'[r] = thread[r]
      /\ thread'[p].at = "swept" /\ thread'[p].changed = now
  BY <1>3, <1>4, Zenon DEF Idle
<1> USE DEF now
<1>6. \A t \in Tags : p \in Storers(t)
  BY <1>1, Zenon DEF Storers
<1>7. \A c \in now : Holds(p, c.tag, c.value, values')
  BY <1>6 DEF Holds, Older
<1>8. \A t \in Tags : ~OnWay(p, t)
  BY <1>1, Zenon DEF OnWay, Current
<1>9. ASSUME NEW t \in old PROVE OnWay(p, t)'
  <2>1. [tag |-> t, value |-> values'[t]] \in thread'[p].changed
    BY <1>5, Zenon
  <2> QED BY <2>1, Zenon DEF OnWay
<1> HIDE DEF now, old
<1>10. \A t \in OwnTags :
         \/ latest'[t] = values'[t].quality
         \/ OnWay(p, t)'
         \/ latest'[t] = latest[t] /\ values'[t] = values[t] /\ ~OnWay(p, t)
  BY <1>1, <1>2, <1>8, <1>9 DEF OwnTags
<1>11. thread'[p].at \notin Calling /\ thread'[p].at # "idle"
  BY <1>5 DEF Calling
<1> QED BY <1>1, <1>5, <1>6, <1>7, <1>10, <1>11, ThreadStep, Zenon

\* A step of a thread between its stores: it calls on for the value it is at,
\* or takes one of those it changed, and forgets none.
LEMMA CallStep ==
  ASSUME Current, NEW p \in Threads, thread[p].at # "idle",
         \A r \in Threads \ {p} : thread'[r] = thread[r],
         UNCHANGED <<stage, subscribers, values>>,
         thread'[p].at = "idle" => thread'[p].changed = {},
         thread'[p].changed \subseteq thread[p].changed,
         \/ thread'[p].at \notin Calling
         \/ /\ thread[p].at \in Calling
            /\ thread'[p].tag = thread[p].tag /\ thread'[p].value = thread[p].value
         \/ \E c \in thread[p].changed :
              thread'[p].tag = c.tag /\ thread'[p].value = c.value,
         \A t \in OwnTags :
           \/ latest'[t] = values[t].quality
           \/ latest'[t] = latest[t] /\ (OnWay(p, t) => OnWay(p, t)')
  PROVE  Current'
<1>1. stage # "starting"
  BY Zenon DEF Current
<1>2. thread'[p].at \in Calling => Holds(p, thread'[p].tag, thread'[p].value, values')
  BY Zenon DEF Current
<1>3. \A c \in thread'[p].changed : Holds(p, c.tag, c.value, values')
  BY Zenon DEF Current
<1>4. \A t \in OwnTags :
        \/ latest'[t] = values'[t].quality
        \/ OnWay(p, t)'
        \/ latest'[t] = latest[t] /\ values'[t] = values[t] /\ ~OnWay(p, t)
  OBVIOUS
<1> QED BY <1>1, <1>2, <1>3, <1>4, ThreadStep, Zenon

\* Calling the next handler, or going on with the rest of the sweep.
LEMMA CalledCurrent ==
  ASSUME TypeOK, Current, NEW p \in Threads, thread[p].at \in Calling, NEW h,
         Notify(p, thread[p].tag, thread[p].value, h, thread[p].changed),
         thread[p].at = "notify" /\ "diagnostics" \in thread[p].handlers => "diagnostics" \in h,
         UNCHANGED <<stage, subscribers, values, latest>>
  PROVE  Current'
<1>1. /\ \A r \in Threads \ {p} : thread'[r] = thread[r]
      /\ thread'[p].changed = thread[p].changed
      /\ h = {} => thread'[p].at \in {"idle", "swept"}
                   /\ (thread'[p].at = "idle" => thread[p].changed = {})
      /\ h # {} =>
           /\ thread'[p].at = "notify" /\ thread'[p].tag = thread[p].tag
           /\ thread'[p].value = thread[p].value /\ thread'[p].handlers = h
  BY NotifyOthers, Zenon
<1>2. thread[p].at # "idle"
  BY Zenon DEF Calling
<1>3. thread'[p].at = "idle" => thread'[p].changed = {}
  BY <1>1, Zenon
<1>4. \/ thread'[p].at \notin Calling
      \/ thread'[p].tag = thread[p].tag /\ thread'[p].value = thread[p].value
  BY <1>1, Zenon DEF Calling
<1>5. \A t \in OwnTags : OnWay(p, t) => OnWay(p, t)'
  BY <1>1, Zenon DEF OnWay
<1> QED BY <1>1, <1>2, <1>3, <1>4, <1>5, CallStep

LEMMA NoteCurrent ==
  ASSUME IInv, Current, NEW p \in Threads, note_tag_quality(p)
  PROVE  Current'
<1> DEFINE t == thread[p].tag
<1>1. /\ thread[p].at = "notify" /\ UNCHANGED <<stage, subscribers, values>>
      /\ latest' = [latest EXCEPT ![t] = thread[p].value.quality]
      /\ thread' = [thread EXCEPT ![p].at = "noted"]
  BY Zenon DEF note_tag_quality, Noted
<1>2. thread \in [Threads -> ThreadStates] /\ latest = [s \in Tags |-> latest[s]]
  BY Zenon DEF IInv, TypeOK, ThreadStates
<1>3. /\ \A r \in Threads \ {p} : thread'[r] = thread[r]
      /\ thread'[p].at = "noted" /\ thread'[p].changed = thread[p].changed
      /\ thread'[p].tag = t /\ thread'[p].value = thread[p].value
  BY <1>1, <1>2, Zenon DEF ThreadStates
<1>4. t \in OwnTags => thread[p].value = values[t]
  BY <1>1, Zenon DEF Current, Holds, Calling
<1>5. \A s \in Tags : latest'[s] = IF s = t THEN thread[p].value.quality ELSE latest[s]
  BY <1>1, <1>2, Zenon
<1>6. \A s \in Tags : s # t /\ OnWay(p, s) => OnWay(p, s)'
  BY <1>3, Zenon DEF OnWay
<1>7. \A s \in OwnTags : s \in Tags
  BY Zenon DEF OwnTags
<1>8. thread[p].at \in Calling /\ thread[p].at # "idle"
  BY <1>1, Zenon DEF Calling
<1> HIDE DEF t
<1>9. \A s \in OwnTags :
        \/ latest'[s] = values[s].quality
        \/ latest'[s] = latest[s] /\ (OnWay(p, s) => OnWay(p, s)')
  BY <1>4, <1>5, <1>6, <1>7
<1> QED BY <1>1, <1>3, <1>8, <1>9, CallStep, Zenon DEF t

LEMMA CountCurrent ==
  ASSUME TypeOK, Current, NEW p \in Threads, read_counts(p)
  PROVE  Current'
<1>1. /\ thread[p].at = "noted" /\ UNCHANGED <<stage, subscribers, values, latest>>
      /\ thread' = [thread EXCEPT ![p].at = "gauges", ![p].seen = count]
  BY Zenon DEF read_counts, diagnostics
<1>2. thread \in [Threads -> ThreadStates]
  BY DEF TypeOK, ThreadStates
<1>3. /\ \A r \in Threads \ {p} : thread'[r] = thread[r]
      /\ thread'[p].at = "gauges" /\ thread'[p].changed = thread[p].changed
      /\ thread'[p].tag = thread[p].tag /\ thread'[p].value = thread[p].value
  BY <1>1, <1>2 DEF ThreadStates
<1>4. thread[p].at \in Calling /\ thread[p].at # "idle"
  BY <1>1, Zenon DEF Calling
<1>5. \A s \in OwnTags : OnWay(p, s) => OnWay(p, s)'
  BY <1>1, <1>3, Zenon DEF OnWay
<1> QED BY <1>1, <1>3, <1>4, <1>5, CallStep, Zenon

\* The next value of a sweep is told to the diagnostics, which subscribed first.
LEMMA SweepingCurrent ==
  ASSUME TypeOK, Current, NEW p \in Threads, sweep(p)
  PROVE  Current'
<1>1. thread[p].at = "swept" /\ UNCHANGED <<stage, subscribers, values, latest>>
  BY Zenon DEF sweep, diagnostics
<1>2. "diagnostics" \in subscribers
  BY <1>1, Zenon DEF Current
<1>3. PICK c \in thread[p].changed :
        Notify(p, c.tag, c.value, subscribers, thread[p].changed \ {c})
  BY Zenon DEF sweep
<1>4. /\ \A r \in Threads \ {p} : thread'[r] = thread[r]
      /\ thread'[p].changed = thread[p].changed \ {c}
      /\ thread'[p].at = "notify" /\ thread'[p].tag = c.tag
      /\ thread'[p].value = c.value /\ thread'[p].handlers = subscribers
  BY <1>2, <1>3, NotifyOthers
<1>5. \A s \in OwnTags : OnWay(p, s) => OnWay(p, s)'
  BY <1>1, <1>2, <1>4, Zenon DEF OnWay
<1> QED BY <1>1, <1>4, <1>5, CallStep, Zenon

\* A start counts what the store holds; nothing else is on its way then.
LEMMA StartCurrent ==
  ASSUME TypeOK, Current, Start
  PROVE  Current'
<1>1. CASE bind_tags
  <2>1. /\ stage = "starting" /\ stage' # "starting" /\ "diagnostics" \in subscribers'
        /\ latest' = [t \in Tags |-> values[t].quality] /\ UNCHANGED <<values, thread>>
    BY <1>1, Zenon DEF bind_tags
  <2>2. \A t \in OwnTags : latest'[t] = values'[t].quality
    BY <2>1, Zenon DEF OwnTags
  <2> QED BY <2>1, <2>2, Zenon DEF Current, Holds
<1>2. CASE subscribe_historian
  <2>1. /\ stage # "starting" /\ stage' # "starting" /\ subscribers \subseteq subscribers'
        /\ UNCHANGED <<values, thread, latest>>
    BY <1>2, Zenon DEF subscribe_historian, diagnostics
  <2> QED BY <2>1 DEF Current, Holds, OnWay
<1> QED BY <1>1, <1>2, Zenon DEF Start

LEMMA NextCurrent ==
  ASSUME IInv, Current, [Next]_vars
  PROVE  Current'
<1> TypeOK
  BY Zenon DEF IInv
<1>1. ASSUME NEW p \in Threads, Continue(p) PROVE Current'
  <2>1. CASE record(p)
    <3>1. /\ thread[p].at \in Calling /\ UNCHANGED <<stage, subscribers, values, latest>>
          /\ Notify(p, thread[p].tag, thread[p].value, thread[p].handlers \ {"historian"},
                    thread[p].changed)
      BY <2>1, Zenon DEF record, diagnostics, Calling
    <3> QED BY <3>1, CalledCurrent, Zenon
  <2>2. CASE gauge_set(p)
    <3>1. /\ thread[p].at = "gauges" /\ UNCHANGED <<stage, subscribers, values, latest>>
          /\ Notify(p, thread[p].tag, thread[p].value, thread[p].handlers \ {"diagnostics"},
                    thread[p].changed)
      BY <2>2, Zenon DEF gauge_set, diagnostics
    <3>2. thread[p].at \in Calling
      BY <3>1, Zenon DEF Calling
    <3> QED BY <3>1, <3>2, CalledCurrent, Zenon
  <2> QED BY <1>1, <2>1, <2>2, SweepingCurrent, NoteCurrent, CountCurrent, Zenon DEF Continue
<1>2. ASSUME NEW p \in Threads, NEW cutoff \in 1..(MaxPublish + 1),
             mark_stale_before(p, cutoff)
      PROVE  Current'
  <2>1. cutoff \in Nat
    BY BoundAssumption
  <2> QED BY <1>2, <2>1, SweptCurrent
<1>3. CASE Pump \/ UNCHANGED vars
  <2>1. UNCHANGED <<stage, subscribers, values, thread, latest>>
    BY <1>3, Zenon DEF Pump, take_diagnostics, put_diagnostics, vars, diagnostics
  <2> QED BY <2>1 DEF Current, Holds, OnWay
<1> QED BY <1>1, <1>2, <1>3, StartCurrent, PublishCurrent, Zenon DEF Next

LEMMA InitCurrent == Init => Current
<1> SUFFICES ASSUME Init PROVE Current
  BY Zenon
<1>1. stage = "starting" /\ \A p \in Threads : thread[p] = Idle
  BY Zenon DEF Init
<1>2. Idle.at = "idle" /\ Idle.changed = {}
  BY Zenon DEF Idle
<1>3. "idle" \notin Calling
  BY Zenon DEF Calling
<1> QED BY <1>1, <1>2, <1>3, Zenon DEF Current

\* Whatever the other threads publish and sweep: unless a change of it is still
\* on its way, a tag that one thread stores is counted with the quality the
\* store holds ("the counters reflect the current quality of the last values").
THEOREM CountersTrackStore == Spec => []CountersFollowStore
<1>1. Current => CountersFollowStore
  BY Zenon DEF Current, CountersFollowStore, OnWay, Telling
<1>2. IInv /\ Current /\ [Next]_vars => Current'
  BY NextCurrent, Zenon
<1> QED BY <1>1, <1>2, InitIInv, NextIInv, InitCurrent, PTL DEF Spec

-----------------------------------------------------------------------------
(* The order of the history.                                               *)

\* The thread has a value of the tag that the historian may still be given.
Owes(p, t) ==
  \/ thread[p].at \in Calling /\ "historian" \in thread[p].handlers /\ thread[p].tag = t
  \/ \E c \in thread[p].changed : c.tag = t

\* A thread owes one value of a tag at most.
OweOnce(p) ==
  /\ \A c, d \in thread[p].changed : c.tag = d.tag => c = d
  /\ thread[p].at \in Calling => \A c \in thread[p].changed : c.tag # thread[p].tag

\* What the historian has of a tag that one thread stores was stored before the
\* value in the store; that value itself it has only when nobody owes it.
Recorded ==
  /\ \A t \in Tags : values[t].serial <= serial
  /\ \A p \in Threads : OweOnce(p)
  /\ \A t \in OwnTags : \A i \in DOMAIN history[t] :
       \/ Before(history[t][i], values[t])
       \/ history[t][i] = values[t] /\ \A p \in Threads : ~Owes(p, t)
  /\ HistoryInOrder

Versions == Publications \cup {NoValue}

LEMMA BeforeTransitive ==
  ASSUME NEW a \in Versions, NEW b \in Versions, NEW c \in Versions,
         Before(a, b), Before(b, c)
  PROVE  Before(a, c)
<1>1. a.serial \in Nat /\ b.serial \in Nat /\ c.serial \in Nat
  BY DEF Versions, Publications, NoValue
<1> QED BY <1>1 DEF Before

\* A step of one thread that records nothing: it stores newer versions, and owes
\* no other value than before.
LEMMA OwedStep ==
  ASSUME TypeOK, TypeOK', Recorded, NEW p \in Threads,
         \A r \in Threads \ {p} : thread'[r] = thread[r],
         history' = history,
         \A t \in Tags : values'[t].serial <= serial',
         OweOnce(p)',
         \A t \in OwnTags :
           \/ values'[t] = values[t] /\ (Owes(p, t)' => Owes(p, t))
           \/ Before(values[t], values'[t])
  PROVE  Recorded'
<1>1. ASSUME NEW r \in Threads PROVE OweOnce(r)'
  <2>1. CASE r = p
    BY <2>1, Zenon
  <2>2. CASE r # p
    BY <2>2, Zenon DEF Recorded, OweOnce
  <2> QED BY <2>1, <2>2, Zenon
<1>2. ASSUME NEW t \in OwnTags, NEW i \in DOMAIN history[t]
      PROVE  \/ Before(history[t][i], values'[t])
             \/ history[t][i] = values'[t] /\ \A r \in Threads : ~Owes(r, t)'
  <2>1. t \in Tags
    BY Zenon DEF OwnTags
  <2>2. values[t] \in Versions /\ values'[t] \in Versions /\ history[t][i] \in Versions
    <3>1. history[t] \in Seq(Publications)
      BY <2>1, Zenon DEF TypeOK
    <3>2. history[t][i] \in Publications
      BY <3>1
    <3> QED BY <2>1, <3>2 DEF TypeOK, Versions
  <2>3. \/ Before(history[t][i], values[t])
        \/ history[t][i] = values[t] /\ \A r \in Threads : ~Owes(r, t)
    BY Zenon DEF Recorded
  <2>4. CASE Before(values[t], values'[t])
    BY <2>2, <2>3, <2>4, BeforeTransitive, Zenon
  <2>5. CASE values'[t] = values[t] /\ (Owes(p, t)' => Owes(p, t))
    <3>1. \A r \in Threads \ {p} : Owes(r, t)' => Owes(r, t)
      BY Zenon DEF Owes
    <3> QED BY <2>3, <2>5, <3>1, Zenon
  <2> QED BY <2>4, <2>5, Zenon
<1>3. HistoryInOrder'
  BY DEF Recorded, HistoryInOrder
<1> QED BY <1>1, <1>2, <1>3, Zenon DEF Recorded

\* Versions of a tag grow with every store.
LEMMA PublishRecorded ==
  ASSUME TypeOK, TypeOK', Current, Recorded, NEW p \in Threads, NEW t \in Tags,
         NEW q \in Qualities, publish(p, t, q)
  PROVE  Recorded'
<1> DEFINE v == [quality |-> q, serial |-> serial']
<1>1. values' = [values EXCEPT ![t] = v] /\ values \in [Tags -> Publications \cup {NoValue}]
  BY Zenon DEF publish, TypeOK
<1>2. serial' = serial + 1 /\ serial \in Nat /\ history' = history
  BY BoundAssumption DEF publish, TypeOK
<1>3. Notify(p, t, v, subscribers, {})
  BY <1>1, Zenon DEF publish
<1>4. v.serial = serial + 1
  BY <1>2, Zenon
<1>5. \A s \in Tags : values[s].serial \in Nat /\ values[s].serial <= serial
  BY <1>1 DEF Recorded, Publications, NoValue
<1> HIDE DEF v
<1>6. /\ \A r \in Threads \ {p} : thread'[r] = thread[r]
      /\ thread'[p].changed = {}
      /\ subscribers = {} => thread'[p].at \in {"idle", "swept"}
      /\ subscribers # {} => thread'[p].at = "notify" /\ thread'[p].tag = t
  BY <1>3, NotifyOthers
<1>7. \A s \in Tags : values'[s] = IF s = t THEN v ELSE values[s]
  BY <1>1, Zenon
<1>8. \A s \in Tags : values'[s].serial <= serial'
  BY <1>2, <1>4, <1>5, <1>7
<1>9. OweOnce(p)'
  BY <1>6, Zenon DEF OweOnce
<1>10. Before(values[t], values'[t])
  BY <1>2, <1>4, <1>5, <1>7 DEF Before
<1>11. \A s \in Tags : s # t => ~Owes(p, s)'
  BY <1>6, Zenon DEF Owes, Calling
<1>12. \A s \in OwnTags :
         \/ values'[s] = values[s] /\ (Owes(p, s)' => Owes(p, s))
         \/ Before(values[s], values'[s])
  BY <1>7, <1>10, <1>11, Zenon DEF OwnTags
<1> QED BY <1>2, <1>6, <1>8, <1>9, <1>12, OwedStep, Zenon

LEMMA SweptRecorded ==
  ASSUME TypeOK, TypeOK', Recorded, NEW p \in Threads, NEW cutoff \in Nat,
         mark_stale_before(p, cutoff)
  PROVE  Recorded'
<1> DEFINE old == Older(cutoff)
           now == {[tag |-> t, value |-> values'[t]] : t \in old}
<1>1. thread' = [thread EXCEPT ![p] = [Idle EXCEPT !.at = "swept", !.changed = now]]
  BY Zenon DEF mark_stale_before
<1>2. thread = [x \in Threads |-> thread[x]] /\ UNCHANGED <<serial, history>>
  BY Zenon DEF TypeOK, mark_stale_before
<1>3. /\ \A t \in Tags : t \notin old => values'[t] = values[t]
      /\ \A t \in old : /\ values'[t] = [values[t] EXCEPT !.quality = "Uncertain"]
                        /\ values[t].quality = "Good" /\ t \in Tags
  BY Zenon DEF mark_stale_before, Older
<1>4. \A t \in old : values'[t].serial = values[t].serial /\ values'[t].quality = "Uncertain"
  <2> SUFFICES ASSUME NEW t \in old
               PROVE  values'[t].serial = values[t].serial /\ values'[t].quality = "Uncertain"
    BY Zenon
  <2>1. values[t] \in Publications \cup {NoValue} /\ values[t].quality = "Good"
    BY <1>3, Zenon DEF TypeOK
  <2>2. NoValue.quality # "Good"
    BY Zenon DEF NoValue, NoQuality
  <2>3. values[t] \in Publications
    BY <2>1, <2>2, Zenon
  <2> QED BY <1>3, <2>3, Zenon DEF Publications
<1> HIDE DEF now
<1>5. /\ \A r \in Threads \ {p} : thread'[r] = thread[r]
      /\ thread'[p].at = "swept" /\ thread'[p].changed = now
  BY <1>1, <1>2, Zenon DEF Idle
<1>6. \A c, d \in now : c.tag = d.tag => c = d
  BY DEF now
<1>7. \A c \in now : c.tag \in old
  BY DEF now
<1> HIDE DEF old
<1>8. \A t \in Tags : values'[t].serial = values[t].serial
  BY <1>3, <1>4, Zenon
<1>9. \A t \in Tags : values'[t].serial <= serial'
  BY <1>2, <1>8, Zenon DEF Recorded
<1>10. OweOnce(p)'
  BY <1>5, <1>6, Zenon DEF OweOnce, Calling
<1>11. \A t \in old : Before(values[t], values'[t])
  BY <1>3, <1>4, Zenon DEF Before
<1>12. \A t \in Tags : t \notin old => ~Owes(p, t)'
  BY <1>5, <1>7, Zenon DEF Owes, Calling
<1>13. \A t \in OwnTags :
         \/ values'[t] = values[t] /\ (Owes(p, t)' => Owes(p, t))
         \/ Before(values[t], values'[t])
  BY <1>3, <1>11, <1>12, Zenon DEF OwnTags
<1> QED BY <1>2, <1>5, <1>9, <1>10, <1>13, OwedStep

\* Between its stores a thread owes less and less.
LEMMA CallRecorded ==
  ASSUME TypeOK, TypeOK', Recorded, NEW p \in Threads,
         sweep(p) \/ note_tag_quality(p) \/ read_counts(p) \/ gauge_set(p)
  PROVE  Recorded'
<1> SUFFICES /\ \A r \in Threads \ {p} : thread'[r] = thread[r]
             /\ UNCHANGED <<values, serial, history>>
             /\ OweOnce(p)' /\ \A t \in OwnTags : Owes(p, t)' => Owes(p, t)
  BY OwedStep, Zenon DEF Recorded
<1>1. OweOnce(p)
  BY Zenon DEF Recorded
<1>2. thread \in [Threads -> ThreadStates]
  BY DEF TypeOK, ThreadStates
<1>3. CASE sweep(p)
  <2>1. thread[p].at = "swept" /\ UNCHANGED <<values, serial, history>>
    BY <1>3, Zenon DEF sweep
  <2>2. PICK c \in thread[p].changed :
          Notify(p, c.tag, c.value, subscribers, thread[p].changed \ {c})
    BY <1>3, Zenon DEF sweep
  <2>3. /\ \A r \in Threads \ {p} : thread'[r] = thread[r]
        /\ thread'[p].changed = thread[p].changed \ {c}
        /\ thread'[p].at \in Calling => thread'[p].tag = c.tag
    BY <2>2, NotifyOthers DEF Calling
  <2>4. OweOnce(p)'
    BY <1>1, <2>3, Zenon DEF OweOnce
  <2>5. \A t \in OwnTags : Owes(p, t)' => Owes(p, t)
    BY <2>3 DEF Owes
  <2> QED BY <2>1, <2>3, <2>4, <2>5, Zenon
<1>4. CASE gauge_set(p)
  <2>1. /\ thread[p].at = "gauges" /\ UNCHANGED <<values, serial, history>>
        /\ Notify(p, thread[p].tag, thread[p].value, thread[p].handlers \ {"diagnostics"},
                  thread[p].changed)
    BY <1>4, Zenon DEF gauge_set
  <2>2. /\ \A r \in Threads \ {p} : thread'[r] = thread[r]
        /\ thread'[p].changed = thread[p].changed
        /\ thread'[p].at \in Calling =>
             /\ thread'[p].tag = thread[p].tag
             /\ thread'[p].handlers = thread[p].handlers \ {"diagnostics"}
    BY <2>1, NotifyOthers DEF Calling
  <2>3. thread[p].at \in Calling
    BY <2>1, Zenon DEF Calling
  <2>4. OweOnce(p)'
    BY <1>1, <2>2, <2>3, Zenon DEF OweOnce
  <2>5. \A t \in OwnTags : Owes(p, t)' => Owes(p, t)
    BY <2>2, <2>3 DEF Owes
  <2> QED BY <2>1, <2>2, <2>4, <2>5, Zenon
<1>5. CASE note_tag_quality(p) \/ read_counts(p)
  <2>1. /\ thread[p].at \in Calling /\ UNCHANGED <<values, serial, history>>
        /\ \/ thread' = [thread EXCEPT ![p].at = "noted"]
           \/ thread' = [thread EXCEPT ![p].at = "gauges", ![p].seen = count]
    BY <1>5, Zenon DEF note_tag_quality, read_counts, Noted, Calling
  <2>2. /\ \A r \in Threads \ {p} : thread'[r] = thread[r]
        /\ thread'[p].changed = thread[p].changed /\ thread'[p].tag = thread[p].tag
        /\ thread'[p].handlers = thread[p].handlers
    BY <1>2, <2>1 DEF ThreadStates
  <2>3. OweOnce(p)'
    BY <1>1, <2>1, <2>2, Zenon DEF OweOnce
  <2>4. \A t \in OwnTags : Owes(p, t)' => Owes(p, t)
    BY <2>1, <2>2, Zenon DEF Owes
  <2> QED BY <2>1, <2>2, <2>3, <2>4, Zenon
<1> QED BY <1>3, <1>4, <1>5, Zenon

\* The historian is given the value in the store, which it did not have.
LEMMA RecordRecorded ==
  ASSUME TypeOK, TypeOK', Busy, Current, Recorded, NEW p \in Threads, record(p)
  PROVE  Recorded'
<1> DEFINE t == thread[p].tag
           v == thread[p].value
           h == thread[p].handlers \ {"historian"}
<1>1. /\ thread[p].at = "notify" /\ "historian" \in thread[p].handlers
      /\ history' = [history EXCEPT ![t] = Append(history[t], v)]
      /\ Notify(p, t, v, h, thread[p].changed) /\ UNCHANGED <<values, serial>>
  BY Zenon DEF record
<1>2. thread[p].at \in Calling
  BY <1>1, Zenon DEF Calling
<1>3. t \in Tags /\ v \in Publications /\ Holds(p, t, v, values) /\ OweOnce(p)
  BY <1>1, <1>2, Zenon DEF Busy, Current, Recorded
<1>4. /\ \A r \in Threads \ {p} : thread'[r] = thread[r]
      /\ thread'[p].changed = thread[p].changed
      /\ thread'[p].at \in Calling => thread'[p].tag = t /\ thread'[p].handlers = h
  BY <1>1, NotifyOthers DEF Calling
<1>5. Owes(p, t) /\ \A c \in thread[p].changed : c.tag # t
  BY <1>1, <1>2, <1>3, Zenon DEF Owes, OweOnce
<1> HIDE DEF t, v
<1>6. ASSUME NEW r \in Threads PROVE OweOnce(r)'
  <2>1. CASE r = p
    BY <1>2, <1>3, <1>4, <2>1, Zenon DEF OweOnce, t
  <2>2. CASE r # p
    BY <1>4, <2>2 DEF Recorded, OweOnce
  <2> QED BY <2>1, <2>2
<1>7. ASSUME NEW s \in OwnTags, NEW r \in Threads, Owes(r, s)'
      PROVE  Owes(r, s) /\ s # t
  <2>1. CASE r = p
    BY <1>2, <1>4, <1>5, <1>7, <2>1 DEF Owes, t
  <2>2. CASE r # p
    <3>1. Owes(r, s)
      BY <1>4, <1>7, <2>2 DEF Owes
    <3>2. r \in Storers(s)
      BY <3>1, Zenon DEF Owes, Current, Holds
    <3>3. s # t
      BY <1>3, <2>2, <3>2, Zenon DEF Holds, OwnTags
    <3> QED BY <3>1, <3>3, Zenon
  <2> QED BY <2>1, <2>2, Zenon
<1>8. history[t] \in Seq(Publications) /\ history = [s \in Tags |-> history[s]]
  BY <1>3 DEF TypeOK
<1>9. /\ \A s \in Tags : s # t => history'[s] = history[s]
      /\ history'[t] = Append(history[t], v)
  BY <1>1, <1>3, <1>8, Zenon
<1>10. /\ DOMAIN history'[t] = 1..(Len(history[t]) + 1)
       /\ DOMAIN history[t] = 1..Len(history[t]) /\ Len(history[t]) \in Nat
       /\ \A i \in 1..Len(history[t]) : history'[t][i] = history[t][i]
       /\ history'[t][Len(history[t]) + 1] = v
  BY <1>3, <1>8, <1>9
<1>11. t \in OwnTags => v = values[t] /\ \A i \in DOMAIN history[t] : Before(history[t][i], v)
  BY <1>3, <1>5, Zenon DEF Holds, Recorded
<1>12. ASSUME NEW s \in OwnTags, NEW i \in DOMAIN history'[s]
       PROVE  \/ Before(history'[s][i], values'[s])
              \/ history'[s][i] = values'[s] /\ \A r \in Threads : ~Owes(r, s)'
  <2>1. CASE s = t
    BY <1>1, <1>7, <1>10, <1>11, <2>1
  <2>2. CASE s # t
    <3>1. history'[s] = history[s] /\ values'[s] = values[s]
      BY <1>1, <1>9, <2>2 DEF OwnTags
    <3>2. \/ Before(history[s][i], values[s])
          \/ history[s][i] = values[s] /\ \A r \in Threads : ~Owes(r, s)
      BY <3>1, Zenon DEF Recorded
    <3> QED BY <1>7, <3>1, <3>2, Zenon
  <2> QED BY <2>1, <2>2, Zenon
<1>13. HistoryInOrder'
  <2> SUFFICES ASSUME NEW s \in OwnTags, NEW i \in DOMAIN history'[s],
                      NEW j \in DOMAIN history'[s], i < j
               PROVE  Before(history'[s][i], history'[s][j])
    BY DEF HistoryInOrder
  <2>1. CASE s = t
    <3>1. \A k, l \in DOMAIN history[t] : k < l => Before(history[t][k], history[t][l])
      BY <2>1, Zenon DEF Recorded, HistoryInOrder
    <3>2. i \in 1..Len(history[t]) /\ (j \in 1..Len(history[t]) \/ j = Len(history[t]) + 1)
      BY <1>10, <2>1
    <3> QED BY <1>10, <1>11, <2>1, <3>1, <3>2
  <2>2. CASE s # t
    <3>1. history'[s] = history[s]
      BY <1>9, <2>2, Zenon DEF OwnTags
    <3> QED BY <3>1, Zenon DEF Recorded, HistoryInOrder
  <2> QED BY <2>1, <2>2, Zenon
<1>14. \A s \in Tags : values'[s].serial <= serial'
  BY <1>1 DEF Recorded
<1> QED BY <1>6, <1>12, <1>13, <1>14, Zenon DEF Recorded

LEMMA InitRecorded == Init => Recorded
<1> SUFFICES ASSUME Init PROVE Recorded
  BY Zenon
<1>1. \A p \in Threads : thread[p] = Idle
  BY Zenon DEF Init
<1>2. Idle.at = "idle" /\ Idle.changed = {}
  BY Zenon DEF Idle
<1>3. \A p \in Threads : OweOnce(p)
  BY <1>1, <1>2, Zenon DEF OweOnce, Calling
<1>4. \A t \in Tags : history[t] = <<>> /\ values[t].serial = 0 /\ serial = 0
  BY DEF Init, NoValue
<1>5. \A t \in OwnTags : t \in Tags
  BY Zenon DEF OwnTags
<1>6. DOMAIN <<>> = {}
  OBVIOUS
<1> QED BY <1>3, <1>4, <1>5, <1>6 DEF Recorded, HistoryInOrder

LEMMA NextRecorded ==
  ASSUME IInv, IInv', Current, Recorded, [Next]_vars
  PROVE  Recorded'
<1> TypeOK /\ TypeOK' /\ Busy
  BY Zenon DEF IInv
<1>1. ASSUME NEW p \in Threads, NEW cutoff \in 1..(MaxPublish + 1),
             mark_stale_before(p, cutoff)
      PROVE  Recorded'
  <2>1. cutoff \in Nat
    BY BoundAssumption
  <2> QED BY <1>1, <2>1, SweptRecorded, Zenon
<1>2. CASE Start \/ Pump \/ UNCHANGED vars
  <2>1. UNCHANGED <<serial, values, thread, history>>
    BY <1>2 DEF Start, bind_tags, subscribe_historian, Pump, take_diagnostics,
                put_diagnostics, vars
  <2> QED BY <2>1 DEF Recorded, OweOnce, Owes, HistoryInOrder
<1> QED BY <1>1, <1>2, PublishRecorded, CallRecorded, RecordRecorded, Zenon DEF Next, Continue

\* The historian is given the values of a tag that one thread stores in the
\* order in which they were stored, and no value twice, however its publishes
\* and sweeps interleave with those of the other threads.
THEOREM HistoryFollowsStore == Spec => []HistoryInOrder
<1>1. IInv /\ Current /\ [Next]_vars => Current'
  BY NextCurrent, Zenon
<1>2. IInv /\ IInv' /\ Current /\ Recorded /\ [Next]_vars => Recorded'
  BY NextRecorded, Zenon
<1>3. Recorded => HistoryInOrder
  BY Zenon DEF Recorded
<1> QED BY <1>1, <1>2, <1>3, InitIInv, NextIInv, InitCurrent, InitRecorded, PTL DEF Spec
=============================================================================

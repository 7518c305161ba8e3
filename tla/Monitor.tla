------------------------------ MODULE Monitor ------------------------------
(***************************************************************************)
(* opc-monitor: the process that reads commands from its standard input    *)
(* and keeps one OPC UA session with subscriptions for Engineering Studio  *)
(* (tools/opc-monitor/main.cpp and monitor_client.cpp).                    *)
(*                                                                         *)
(* Threads.  The main thread reads lines and pushes commands; the worker   *)
(* takes all of them at once, handles them in order and then runs the      *)
(* client once.  The client is used by the worker only.                    *)
(*                                                                         *)
(* The OPC UA server and the open62541 client are external: a session that *)
(* can end at any time, with the subscriptions and monitored items made in *)
(* it, and the contexts of the data change callbacks, which are pointers   *)
(* to Item objects and live as long as the UA_Client.                      *)
(***************************************************************************)
EXTENDS Integers, Sequences, SequencesExt, FiniteSets

CONSTANTS
  Commands,            \* the command objects that may be read
  MaxLines, MaxFaults  \* bounds on the lines read and on failing calls

VARIABLES
  lines, input_closed, commands,      \* the main thread and the queue
  worker,        \* [at, pending, handled]; crashed: an exception left it
  client,        \* the fields of MonitorClient::Impl
  items,         \* subscription key -> [node, object, id]; id 0: not monitored
  contexts,      \* callback contexts of the UA_Client: objects by item id
  session,       \* the server's session: [alive, subs, monitored]
  made,          \* ids given out so far, by the server or to objects
  told,          \* the last "connection" event
  faults

vars == <<lines, input_closed, commands, worker, client, items, contexts,
          session, made, told, faults>>

inputVars == <<lines, input_closed, commands>>

NoItems == [k \in {} |-> 0]
NoSession == [alive |-> FALSE, subs |-> {}, monitored |-> {}]

Init ==
  /\ lines = 0 /\ input_closed = FALSE /\ commands = <<>>
  /\ worker = [at |-> "wait", pending |-> <<>>, handled |-> 0]
  /\ client = [connected |-> FALSE, want_connected |-> FALSE, endpoint |-> FALSE,
               profile |-> "plain", sub |-> 0, delay |-> FALSE]
  /\ items = NoItems /\ contexts = {} /\ session = NoSession
  /\ made = 0 /\ told = "nothing" /\ faults = 0

-----------------------------------------------------------------------------
(* The main thread.                                                        *)

\* A line that is a JSON text with, if an object, a string or no "command".
ReadLine(c) ==
  /\ ~input_closed /\ lines < MaxLines
  /\ lines' = lines + 1
  /\ commands' = Append(commands, c)
  /\ input_closed' = (c.command = "shutdown")
  /\ UNCHANGED <<worker, client, items, contexts, session, made, told, faults>>

EndOfInput ==
  /\ ~input_closed /\ input_closed' = TRUE
  /\ UNCHANGED <<lines, commands, worker, client, items, contexts, session, made,
                 told, faults>>

-----------------------------------------------------------------------------
(* The client.  A call to the server fails when the session is gone and,   *)
(* up to MaxFaults times, for reasons of the server's own.                 *)

Works == UNCHANGED faults
Fails == faults < MaxFaults /\ faults' = faults + 1

Unmonitored(its) == [k \in DOMAIN its |-> [its[k] EXCEPT !.id = 0]]

\* The fields after close().
Closed == [client EXCEPT !.want_connected = FALSE, !.connected = FALSE, !.sub = 0]

\* The connection cannot be made: no channel certificate, half an identity,
\* an unreadable one, or the server refuses.
EstablishFails(c, its) ==
  /\ IF c.profile = "half" THEN Works ELSE Fails
  /\ client' = [c EXCEPT !.connected = FALSE, !.delay = TRUE]
  /\ told' = "disconnected"
  /\ items' = its /\ contexts' = {} /\ session' = NoSession
  /\ UNCHANGED made

\* Connected: the server accepts a new subscription (sub) and the items mon of
\* those of the last connection; what it refuses is reported, not tried again.
Established(c, its, sub, mon) ==
  /\ c.profile # "half"
  /\ (sub => its # NoItems) /\ (~sub => mon = {})
  /\ IF mon = DOMAIN its THEN Works ELSE Fails
  /\ LET id(k) == made + 2 + Cardinality({j \in mon : its[j].object < its[k].object})
     IN items' = [k \in DOMAIN its |-> IF k \in mon THEN [its[k] EXCEPT !.id = id(k)] ELSE its[k]]
  /\ contexts' = {[id |-> items'[k].id, object |-> items'[k].object] : k \in mon}
  /\ client' = [c EXCEPT !.connected = TRUE, !.delay = FALSE, !.sub = IF sub THEN made + 1 ELSE @]
  /\ session' = [alive |-> TRUE, subs |-> IF sub THEN {made + 1} ELSE {},
                 monitored |-> {items'[k].id : k \in mon}]
  /\ told' = "connected"
  /\ made' = made + 1 + Cardinality(mon)

establish(c, its) ==
  \/ EstablishFails(c, its)
  \/ \E sub \in BOOLEAN, mon \in SUBSET DOMAIN its : Established(c, its, sub, mon)

-----------------------------------------------------------------------------
(* The commands.                                                           *)

Is(names) ==
  /\ worker.at = "busy" /\ worker.pending # <<>>
  /\ Head(worker.pending).command \in names

\* The command at the head of the batch is done.  A shutdown drops the rest
\* of the batch.
Done ==
  LET c == Head(worker.pending) IN
  /\ worker' = [worker EXCEPT !.handled = @ + 1,
                  !.pending = IF c.command = "shutdown" THEN <<>> ELSE Tail(@),
                  !.at = IF c.command = "shutdown" THEN "ending" ELSE @]
  /\ UNCHANGED inputVars

\* An error event; nothing changes.
Refused ==
  /\ Done
  /\ UNCHANGED <<client, items, contexts, session, made, told, faults>>

connect ==
  /\ Is({"connect"})
  /\ LET c == Head(worker.pending)
         closed == [Closed EXCEPT !.endpoint = TRUE]
     IN \/ ~c.endpoint /\ Refused
        \/ /\ c.endpoint /\ c.profile # "null"
           /\ establish([closed EXCEPT !.profile = c.profile, !.want_connected = TRUE],
                        Unmonitored(items))
           /\ Done
        \/ \* command.value() of a null throws; nothing catches it in the worker
           /\ c.endpoint /\ c.profile = "null"
           /\ client' = closed
           /\ items' = Unmonitored(items) /\ contexts' = {} /\ session' = NoSession
           /\ worker' = [worker EXCEPT !.at = "crashed"]
           /\ UNCHANGED <<inputVars, made, told, faults>>

\* Browsing changes nothing here of it.
browse ==
  /\ Is({"browse"})
  /\ Refused

\* The server gives a subscription, if there is none, and a monitored item
\* whose context is the new Item object.
Subscribed(c) ==
  /\ session.alive /\ Works
  /\ LET sub == IF client.sub = 0 THEN made + 1 ELSE client.sub IN
     /\ client' = [client EXCEPT !.sub = sub]
     /\ session' = [session EXCEPT !.subs = @ \cup {sub}, !.monitored = @ \cup {made + 2}]
  /\ items' = [k \in DOMAIN items \cup {c.key} |->
                 IF k = c.key THEN [id |-> made + 2, object |-> made + 3] ELSE items[k]]
  /\ contexts' = contexts \cup {[id |-> made + 2, object |-> made + 3]}
  /\ made' = made + 3
  /\ UNCHANGED told

\* The server refuses the subscription, or grants it and refuses the item.
SubscribeFails ==
  /\ IF session.alive THEN Fails ELSE Works
  /\ \/ UNCHANGED <<client, session, made>>
     \/ /\ session.alive /\ client.sub = 0
        /\ client' = [client EXCEPT !.sub = made + 1]
        /\ session' = [session EXCEPT !.subs = @ \cup {made + 1}]
        /\ made' = made + 1
  /\ UNCHANGED <<items, contexts, told>>

subscribe ==
  /\ Is({"subscribe"})
  /\ LET c == Head(worker.pending) IN
     \/ (~client.connected \/ c.key \in DOMAIN items) /\ Refused
     \/ /\ client.connected /\ c.key \notin DOMAIN items
        /\ \/ Subscribed(c) /\ Done
           \/ SubscribeFails /\ Done

\* A mutant: the item is only forgotten, not deleted on the server.
Unsubscribed_kept(k) ==
  /\ items' = [j \in DOMAIN items \ {k} |-> items[j]]
  /\ Works
  /\ UNCHANGED <<client, contexts, session, made, told>>

\* The item is deleted on the server first, so that no callback can name it.
\* With the last item the subscription goes too, whatever the server says.
Unsubscribed(k) ==
  LET on == client.connected /\ items[k].id # 0
      last == DOMAIN items = {k} /\ client.connected /\ client.sub # 0
  IN /\ on => session.alive
     /\ items' = [j \in DOMAIN items \ {k} |-> items[j]]
     /\ contexts' = IF on THEN {x \in contexts : x.id # items[k].id} ELSE contexts
     /\ client' = IF last THEN [client EXCEPT !.sub = 0] ELSE client
     /\ \/ /\ Works
           /\ session' = [session EXCEPT
                            !.monitored = IF on THEN @ \ {items[k].id} ELSE @,
                            !.subs = IF last THEN @ \ {client.sub} ELSE @]
        \/ /\ last /\ session.alive /\ Fails
           /\ session' = [session EXCEPT !.monitored = @ \ {items[k].id}]
     /\ UNCHANGED <<made, told>>

unsubscribe ==
  /\ Is({"unsubscribe"})
  /\ LET k == Head(worker.pending).key IN
     \/ k \notin DOMAIN items /\ Refused
     \/ k \in DOMAIN items /\ Unsubscribed(k) /\ Done
     \/ /\ k \in DOMAIN items /\ client.connected /\ items[k].id # 0
        /\ session.alive => Fails
        /\ ~session.alive => Works
        /\ Done
        /\ UNCHANGED <<client, items, contexts, session, made, told>>

close ==
  /\ Is({"disconnect", "shutdown"})
  /\ client' = Closed
  /\ items' = Unmonitored(items)
  /\ contexts' = IF client.connected THEN {} ELSE contexts
  /\ session' = NoSession
  /\ told' = IF client.endpoint THEN "disconnected" ELSE told
  /\ Done
  /\ UNCHANGED <<made, faults>>

dispatch ==
  \/ connect \/ browse \/ subscribe \/ unsubscribe \/ close
  \/ Is({"other"}) /\ Refused

-----------------------------------------------------------------------------
(* The worker: take the queue, handle it, run the client once.             *)

\* The wait ends with input or after 20 ms.
Take ==
  /\ worker.at = "wait"
  /\ worker' = [worker EXCEPT !.pending = commands,
                  !.at = IF input_closed /\ commands = <<>> THEN "ending" ELSE "busy"]
  /\ commands' = <<>>
  /\ UNCHANGED <<lines, input_closed, client, items, contexts, session, made, told,
                 faults>>

Iterated ==
  /\ worker.at = "busy" /\ worker.pending = <<>>
  /\ worker' = [worker EXCEPT !.at = "wait"]
  /\ UNCHANGED inputVars

\* The session is found lost: the ids of the old session are forgotten.
Lost ==
  /\ client.connected /\ ~session.alive
  /\ client' = [client EXCEPT !.connected = FALSE, !.sub = 0, !.delay = TRUE]
  /\ items' = Unmonitored(items)
  /\ told' = "disconnected"
  /\ UNCHANGED <<contexts, session, made, faults>>

\* A mutant: a client without items does not reconnect.
Reconnecting_for_items ==
  ~client.connected /\ client.want_connected /\ ~client.delay /\ items # NoItems

Reconnecting ==
  ~client.connected /\ client.want_connected /\ ~client.delay

tick ==
  /\ Iterated
  /\ \/ Lost
     \/ Reconnecting /\ establish(client, items)
     \/ /\ IF client.connected THEN session.alive ELSE ~Reconnecting
        /\ UNCHANGED <<client, items, contexts, session, made, told, faults>>

End ==
  /\ worker.at = "ending"
  /\ worker' = [worker EXCEPT !.at = "done"]
  /\ client' = Closed
  /\ items' = Unmonitored(items)
  /\ contexts' = {} /\ session' = NoSession
  /\ UNCHANGED <<inputVars, made, told, faults>>

\* kReconnectDelay passes.
TimePasses ==
  /\ client.delay
  /\ client' = [client EXCEPT !.delay = FALSE]
  /\ UNCHANGED <<inputVars, worker, items, contexts, session, made, told, faults>>

\* The server restarts, or the network fails.
SessionLost ==
  /\ session.alive /\ Fails
  /\ session' = NoSession
  /\ UNCHANGED <<inputVars, worker, client, items, contexts, made, told>>

Worker == Take \/ dispatch \/ tick \/ End

Next ==
  \/ \E c \in Commands : ReadLine(c)
  \/ EndOfInput \/ Worker \/ TimePasses \/ SessionLost

Spec == Init /\ [][Next]_vars

\* Both loops run; the clock moves on.
LiveSpec == Spec /\ WF_vars(Worker) /\ WF_vars(TimePasses)

-----------------------------------------------------------------------------
(* A data change callback never gets a pointer to a destroyed Item: while  *)
(* the client runs, every context it holds is an Item of the map, under    *)
(* the id it was created with (create_monitored_item, unsubscribe).        *)
NoDangling ==
  client.connected =>
    \A x \in contexts : \E k \in DOMAIN items :
      items[k].object = x.object /\ items[k].id = x.id

(* What the client believes is monitored is what the server monitors, in   *)
(* the subscription the client knows, through reconnects, refused items    *)
(* and failed deletions.                                                   *)
ItemsAreServed ==
  client.connected /\ session.alive =>
    /\ session.monitored = {items[k].id : k \in DOMAIN items} \ {0}
    /\ session.monitored # {} => client.sub \in session.subs

(* Between commands the last "connection" event Studio saw says whether    *)
(* the client is connected.                                                *)
StatusTold ==
  worker.at \in {"wait", "busy"} => (told = "connected" <=> client.connected)

(* The worker leaves only after it has handled every command that was read *)
(* (the done flag and the shutdown of main.cpp).                           *)
NoCommandLost == worker.at = "done" => worker.handled = lines

(* A client that is to be connected, with a whole profile, reconnects once *)
(* the server lets it.                                                     *)
Wanted == client.want_connected /\ client.profile = "plain"
Reconnects == []<>(Wanted => client.connected \/ worker.at \in {"done", "crashed"})

(* The process ends after its input has ended.                             *)
Exits == []<>(input_closed => worker.at \in {"done", "crashed"})
=============================================================================

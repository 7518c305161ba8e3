------------------------------ MODULE UaServer ------------------------------
(***************************************************************************)
(* The life of OpcUaServer (Src/adapters/opc_ua_server.cpp): start, the    *)
(* diagnostics nodes, bind_tags with its folders and variables, the event  *)
(* loop, stop, and the hooks that count sessions.  open62541 is external:  *)
(* an address space that accepts a node under an existing parent, may fail *)
(* at any call, and calls the access-control callbacks of its config.      *)
(*                                                                         *)
(* The main thread runs start, bind_tags and stop; the pump thread runs    *)
(* the event loop, hence the callbacks.  Between two library calls of the  *)
(* main thread the pump may run, but only after bind_tags started it.      *)
(***************************************************************************)
EXTENDS Integers, FiniteSets, Sequences

CONSTANTS
    Projects,      \* the sequences of tag ids that bind_tags may be given
    NodePath,      \* nodePath of each tag, split at '/'; <<>> when it has none
    Sessions,      \* session node ids the library may issue
    Numeric,       \* those whose identifier is numeric
    MaxStarts,     \* bound: calls of start()
    MaxFailures    \* bound: library calls that fail

Objects == 85                       \* UA_NS0ID_OBJECTSFOLDER
FirstId == 1000
NoNodes == [i \in {} |-> i]

VARIABLES
    server,        \* server_: "none", or "up" once UA_Server_new returned
    nodes,         \* address space of that server: numeric id -> node
    folder_ids,    \* folder_ids_
    tag_node_ids,  \* tag_node_ids_
    next_id,       \* next_numeric_id_
    todo,          \* leaves the running start or bind_tags still has to add
    phase,         \* main thread: "idle", "starting", "binding", "stopping"
    pump,          \* pump_thread_ is joinable and runs
    callback,      \* accessControl.activateSession: "orig" or "hook"
    hooked,        \* g_session_hooks has an entry for the server
    activating,    \* sessions whose callback was entered, its entry not yet looked up
    sessions,      \* sessions the library holds active
    vetted,        \* sessions that the original activateSession accepted
    active,        \* active_sessions_: a set of keys
    gauge,         \* the ua_sessions gauge
    starts,        \* calls of start() so far
    failedStarts,  \* calls of start() that failed in add_diagnostics
    failures       \* failing library calls so far

space == <<server, nodes, folder_ids, tag_node_ids, next_id, todo>>
hooks == <<callback, hooked, activating, sessions, vetted, active, gauge>>
vars == <<space, hooks, phase, pump, starts, failedStarts, failures>>

------------------------------------------------------------------------------
(* The keys of sessions, and the leaves of the address space.               *)

\* session_key: the numeric identifier, or one key for every id of that type.
SessionKey(s) == IF s \in Numeric THEN s ELSE "guid"

DiagnosticLeaves ==
    [i \in 1..5 |->
        [tag |-> "none",
         path |-> <<"OPC_SERVER", "Diagnostics",
                    <<"State", "GoodCount", "UncertainCount", "BadCount", "LastError">>[i]>>]]

TagLeaves(tags) ==
    LET bound == SelectSeq(tags, LAMBDA t : NodePath[t] # <<>>)
    IN  [i \in 1..Len(bound) |-> [tag |-> bound[i], path |-> NodePath[bound[i]]]]

Prefix(path, k) == SubSeq(path, 1, k)

\* The folders of a path, all its prefixes but the whole, that folder_ids_ lacks.
MissingFolders(path) ==
    {k \in 1..(Len(path) - 1) : Prefix(path, k) \notin DOMAIN folder_ids}

ParentId(path, k) == IF k = 1 THEN Objects ELSE folder_ids[Prefix(path, k - 1)]

\* UA_Server_addObjectNode / addVariableNode: the parent must exist, the id be new.
Accepts(id, parent) ==
    /\ parent = Objects \/ parent \in DOMAIN nodes
    /\ id \notin DOMAIN nodes

WithEntry(f, k, v) == [x \in DOMAIN f \cup {k} |-> IF x = k THEN v ELSE f[x]]

------------------------------------------------------------------------------
Init ==
    /\ server = "none"
    /\ nodes = NoNodes
    /\ folder_ids = NoNodes
    /\ tag_node_ids = NoNodes
    /\ next_id = FirstId
    /\ todo = <<>>
    /\ phase = "idle"
    /\ pump = FALSE
    /\ callback = "orig"
    /\ hooked = FALSE
    /\ activating = {}
    /\ sessions = {}
    /\ vetted = {}
    /\ active = {}
    /\ gauge = 0
    /\ starts = 0
    /\ failedStarts = 0
    /\ failures = 0

SpendId == next_id' = next_id + 1

LibraryFails == failures < MaxFailures /\ failures' = failures + 1

\* start() up to add_diagnostics: the server is configured, hooked and started.
Start ==
    /\ phase = "idle"
    /\ server = "none"
    /\ starts < MaxStarts
    /\ starts' = starts + 1
    /\ server' = "up"
    /\ nodes' = NoNodes
    /\ callback' = "hook"
    /\ hooked' = TRUE
    /\ gauge' = 0
    /\ todo' = DiagnosticLeaves
    /\ phase' = "starting"
    /\ UNCHANGED <<folder_ids, tag_node_ids, next_id, pump, activating, sessions, vetted, active,
                   failedStarts, failures>>

\* start() returning early: certificates, trust lists, policies, identities or
\* run_startup failed, and the new server is deleted with its hooks.
StartRefused ==
    /\ phase = "idle"
    /\ server = "none"
    /\ starts < MaxStarts
    /\ starts' = starts + 1
    /\ LibraryFails
    /\ gauge' \in {gauge, 0}
    /\ UNCHANGED <<space, phase, pump, callback, hooked, activating, sessions, vetted, active,
                   failedStarts>>

\* ensure_path creating the first folder its map does not hold.
AddFolder ==
    /\ todo # <<>>
    /\ MissingFolders(Head(todo).path) # {}
    /\ LET path == Head(todo).path
           k    == CHOOSE n \in MissingFolders(path) : \A m \in MissingFolders(path) : n <= m
       IN  /\ Accepts(next_id, ParentId(path, k))
           /\ nodes' = WithEntry(nodes, next_id, [parent |-> ParentId(path, k), name |-> path[k]])
           /\ folder_ids' = WithEntry(folder_ids, Prefix(path, k), next_id)
    /\ SpendId
    /\ UNCHANGED <<server, tag_node_ids, todo, hooks, phase, pump, starts, failedStarts, failures>>

\* add of add_diagnostics, and add_variable, which returns early for a known tag.
AddVariable ==
    /\ todo # <<>>
    /\ Len(Head(todo).path) >= 2
    /\ LET leaf == Head(todo)
           path == leaf.path
       IN  /\ MissingFolders(path) = {}
           /\ \/ /\ leaf.tag \in DOMAIN tag_node_ids
                 /\ UNCHANGED <<nodes, tag_node_ids, next_id>>
              \/ /\ leaf.tag \notin DOMAIN tag_node_ids
                 /\ Accepts(next_id, ParentId(path, Len(path)))
                 /\ nodes' = WithEntry(nodes, next_id, [parent |-> ParentId(path, Len(path)),
                                                        name |-> path[Len(path)]])
                 /\ tag_node_ids' = IF leaf.tag = "none" THEN tag_node_ids
                                    ELSE WithEntry(tag_node_ids, leaf.tag, next_id)
                 /\ SpendId
    /\ todo' = Tail(todo)
    /\ UNCHANGED <<server, folder_ids, hooks, phase, pump, starts, failedStarts, failures>>

\* A path too short for ensure_path, or a node that the library refuses, because
\* its parent is not there or for reasons of its own, which spends the id.
Refused ==
    LET path == Head(todo).path
        k    == IF MissingFolders(path) = {} THEN Len(path)
                ELSE CHOOSE n \in MissingFolders(path) : \A m \in MissingFolders(path) : n <= m
    IN  \/ Len(path) < 2 /\ UNCHANGED <<next_id, failures>>
        \/ /\ Len(path) >= 2
           /\ k < Len(path) \/ Head(todo).tag \notin DOMAIN tag_node_ids
           /\ \/ ~Accepts(next_id, ParentId(path, k)) /\ UNCHANGED failures
              \/ LibraryFails
           /\ SpendId

\* On an error start() deletes the server and keeps folder_ids_; bind_tags()
\* only returns.
AddRefused ==
    /\ todo # <<>>
    /\ Refused
    /\ todo' = <<>>
    /\ phase' = "idle"
    /\ \/ /\ phase = "starting"
          /\ server' = "none"
          /\ nodes' = NoNodes
          /\ callback' = "orig"
          /\ hooked' = FALSE
          /\ failedStarts' = failedStarts + 1
       \/ /\ phase = "binding"
          /\ UNCHANGED <<server, nodes, callback, hooked, failedStarts>>
    /\ UNCHANGED <<folder_ids, tag_node_ids, pump, activating, sessions, vetted, active, gauge, starts>>

Started ==
    /\ phase = "starting"
    /\ todo = <<>>
    /\ phase' = "idle"
    /\ UNCHANGED <<space, hooks, pump, starts, failedStarts, failures>>

Bind ==
    /\ phase = "idle"
    /\ server = "up"
    /\ ~pump
    /\ \E tags \in Projects : todo' = TagLeaves(tags)
    /\ phase' = "binding"
    /\ UNCHANGED <<server, nodes, folder_ids, tag_node_ids, next_id, hooks, pump, starts, failedStarts,
                   failures>>

\* The end of bind_tags: subscription and backfill (TagDiagnostics), serve_async.
Bound ==
    /\ phase = "binding"
    /\ todo = <<>>
    /\ phase' = "idle"
    /\ pump' = TRUE
    /\ UNCHANGED <<space, hooks, starts, failedStarts, failures>>

\* Mutated form: the pump is told to stop but not joined.
StopUnjoined ==
    /\ phase = "idle"
    /\ server = "up"
    /\ pump
    /\ pump' = FALSE
    /\ phase' = "stopping"
    /\ UNCHANGED <<space, hooks, starts, failedStarts, failures>>

\* stop(): pump_running_ = false; the pump leaves its loop and is joined, which
\* waits for the callback it may be in.
StopJoin ==
    /\ phase = "idle"
    /\ server = "up"
    /\ pump
    /\ activating = {}
    /\ pump' = FALSE
    /\ phase' = "stopping"
    /\ UNCHANGED <<space, hooks, starts, failedStarts, failures>>

StopUnpumped ==
    /\ phase = "idle"
    /\ server = "up"
    /\ ~pump
    /\ phase' = "stopping"
    /\ UNCHANGED <<space, hooks, pump, starts, failedStarts, failures>>

\* Mutated form: folder_ids_ survives the server it describes.
StopKeepsFolders ==
    /\ phase = "stopping"
    /\ server' = "none"
    /\ nodes' = NoNodes
    /\ tag_node_ids' = NoNodes
    /\ callback' = "orig"
    /\ hooked' = FALSE
    /\ sessions' = {}
    /\ vetted' = {}
    /\ active' = {}
    /\ gauge' = 0
    /\ phase' = "idle"
    /\ UNCHANGED <<folder_ids, next_id, todo, pump, activating, starts, failedStarts, failures>>

\* uninstall_session_hooks under its mutex, then shutdown, which closes every
\* session through the restored callback, and the clearing of the maps.
Stop ==
    /\ phase = "stopping"
    /\ server' = "none"
    /\ nodes' = NoNodes
    /\ folder_ids' = NoNodes
    /\ tag_node_ids' = NoNodes
    /\ callback' = "orig"
    /\ hooked' = FALSE
    /\ sessions' = {}
    /\ vetted' = {}
    /\ active' = {}
    /\ gauge' = 0
    /\ phase' = "idle"
    /\ UNCHANGED <<next_id, todo, pump, activating, starts, failedStarts, failures>>

------------------------------------------------------------------------------
(* The event loop: ActivateSession, again for an active session too, and    *)
(* CloseSession or a session timeout.                                       *)

ActivateEnters(s) ==
    /\ pump
    /\ activating = {}
    /\ callback = "hook"
    /\ activating' = {s}
    /\ UNCHANGED <<space, phase, pump, callback, hooked, sessions, vetted, active, gauge, starts,
                   failedStarts, failures>>

\* activate_session_hook: the original decides; without an entry nothing does
\* and the session is accepted.
ActivateHook(s) ==
    /\ s \in activating
    /\ activating' = {}
    /\ \/ /\ sessions' = sessions \cup {s}
          /\ vetted' = IF hooked THEN vetted \cup {s} ELSE vetted
          /\ active' = IF hooked THEN active \cup {SessionKey(s)} ELSE active
          /\ gauge' = IF hooked THEN Cardinality(active') ELSE gauge
       \/ /\ hooked                      \* the original refuses
          /\ UNCHANGED <<sessions, vetted, active, gauge>>
    /\ UNCHANGED <<space, phase, pump, callback, hooked, starts, failedStarts, failures>>

\* close_session_hook, for a session that was activated or not.
CloseSession(s) ==
    /\ pump
    /\ activating = {}
    /\ callback = "hook"
    /\ hooked
    /\ sessions' = sessions \ {s}
    /\ vetted' = vetted \ {s}
    /\ active' = active \ {SessionKey(s)}
    /\ gauge' = Cardinality(active')
    /\ UNCHANGED <<space, phase, pump, callback, hooked, activating, starts, failedStarts,
                   failures>>

MainNext ==
    \/ Start \/ StartRefused \/ AddFolder \/ AddVariable \/ AddRefused \/ Started
    \/ Bind \/ Bound \/ StopJoin \/ StopUnpumped \/ Stop

Next ==
    \/ MainNext
    \/ \E s \in Sessions : ActivateEnters(s) \/ ActivateHook(s) \/ CloseSession(s)

Spec == Init /\ [][Next]_vars

------------------------------------------------------------------------------
(* Properties.                                                              *)

\* The folders of a path form, in the live server, the chain from Objects that
\* its parts name.
ChainStands(path) ==
    \A k \in 1..(Len(path) - 1) :
        /\ Prefix(path, k) \in DOMAIN folder_ids
        /\ folder_ids[Prefix(path, k)] \in DOMAIN nodes
        /\ nodes[folder_ids[Prefix(path, k)]] = [parent |-> ParentId(path, k), name |-> path[k]]

\* A bound tag is the variable its nodePath names, in the running server,
\* whatever failed starts, failed binds and restarts came before: a client that
\* browses the path reads that tag (ensure_path, add_variable, stop).
TagsAtTheirPath ==
    \A t \in DOMAIN tag_node_ids :
        LET path == NodePath[t] IN
        /\ ChainStands(path)
        /\ tag_node_ids[t] \in DOMAIN nodes
        /\ nodes[tag_node_ids[t]] = [parent |-> ParentId(path, Len(path)), name |-> path[Len(path)]]

\* Unless a start failed in add_diagnostics, which keeps folder_ids_, every
\* folder the map knows is a folder of the running server: a restart builds its
\* address space anew instead of hanging nodes below folders of a deleted server.
FoldersAreLive ==
    failedStarts = 0 => \A p \in DOMAIN folder_ids : folder_ids[p] \in DOMAIN nodes

\* No session becomes active without the verdict of the original
\* activateSession: the hooks are gone only when no thread can still be on its
\* way into them ("Restore AccessControl callbacks before erase").
NoUncheckedSession == sessions \subseteq vetted

\* "ua_sessions | gauge | active sessions": the gauge is the number of sessions
\* that are active (DOCs/adr/0008-observability.md).
GaugeCountsSessions == gauge = Cardinality(sessions)

\* The gauge ua_sessions is never above the number of active sessions, and
\* counts every one of them whose id is numeric: a closed session does not stay
\* in it, whatever activations and closes came before.  The others share one key
\* and count as one at most.
GaugeCountsNumeric ==
    Cardinality(sessions \cap Numeric) <= gauge /\ gauge <= Cardinality(sessions)

==============================================================================

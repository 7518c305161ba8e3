------------------------------- MODULE OpcMap -------------------------------
(***************************************************************************)
(* An engineer edits a project file and runs opc-map on it                 *)
(* (tools/opc-map/main.cpp): validate, doctor (project/doctor.cpp), the    *)
(* drafts of import-csv (project/import_csv.cpp) and migrate-legacy        *)
(* (project/migrate_legacy.cpp), and the node set of gen-nodeset           *)
(* (project/gen_nodeset.cpp); the server loads the same file               *)
(* (app/server_runtime.cpp).                                               *)
(*                                                                         *)
(* A node path is the sequence of its segments between slashes: "A//B" is  *)
(* <<"A", "", "B">> and "" is <<"">>.                                      *)
(***************************************************************************)
EXTENDS ProjectLoad, FiniteSetsExt

CONSTANTS
  Files,          \* the files the engineer starts from
  Edited(_),      \* the files one edit away from a file
  MaxEdits,       \* edits in a row
  Sheets,         \* register maps for import-csv: [rows, options]
  LegacyConfigs   \* configurations for migrate-legacy

VARIABLES
  file,      \* the project file
  edits,     \* edits made to it
  cmd,       \* the last command on it, "none" after an edit
  code,      \* the exit code of that command
  report     \* what it printed: the set of one report, or empty

vars == <<file, edits, cmd, code, report>>

-----------------------------------------------------------------------------
(* doctor.                                                                 *)

Span(tag) == [start |-> tag.address, end |-> tag.address + Max({1, regs_for(tag)})]
Overlap(a, b) == a.start < b.end /\ b.start < a.end

InArea(tags, area) == {t \in DOMAIN tags : tags[t].area = area}

check_overlaps(tags, area) ==
  {pair \in InArea(tags, area) \X InArea(tags, area) :
     pair[1] < pair[2] /\ Overlap(Span(tags[pair[1]]), Span(tags[pair[2]]))}

\* std::sort of fewer than 17 elements is stable in this library.
SortedSpans(tags, area) ==
  LET before(t, u) == \/ tags[t].address < tags[u].address
                      \/ tags[t].address = tags[u].address /\ t < u
  IN SetToSortSeq(InArea(tags, area), before)

\* Mutated form: touching spans count as a gap.
check_holes_touching(tags, area) ==
  LET s == SortedSpans(tags, area) IN
    {<<s[i], s[i + 1]>> : i \in {k \in 1..(Len(s) - 1) :
       tags[s[k + 1]].address - Span(tags[s[k]]).end \in 0..8}}

check_holes(tags, area) ==
  LET s == SortedSpans(tags, area) IN
    {<<s[i], s[i + 1]>> : i \in {k \in 1..(Len(s) - 1) :
       tags[s[k + 1]].address - Span(tags[s[k]]).end \in 1..8}}

unpolled(project) ==
  {<<d, t>> \in UNION {{d} \X DOMAIN project.devices[d].tags : d \in DOMAIN project.devices} :
     LET device_id == project.devices[d].id
         tag == project.devices[d].tags[t]
     IN /\ tag.group = ""
        /\ \A g \in Range(project.poll_groups) :
             g.device_id = device_id => tag.name \notin Range(g.tag_names)}

\* Registers of the block under each tag, added up.
covered(tags, block) ==
  LET end == block.start + block.count
      share(t) == Max({0, Min({Span(tags[t]).end, end}) - Max({tags[t].address, block.start})})
  IN MapThenSumSet(share, InArea(tags, block.area))

sparse(project, group) ==
  {b \in DOMAIN group.blocks :
     \E d \in device(project, group.device_id) :
       /\ group.blocks[b].count >= 8
       /\ covered(d.tags, group.blocks[b]) * 2 < group.blocks[b].count}

\* The warnings that rest on one field (short periods, large blocks) are left out.
doctor(project) ==
  [unpolled |-> unpolled(project),
   overlaps |-> [d \in DOMAIN project.devices |->
                   [a \in Areas |-> check_overlaps(project.devices[d].tags, a)]],
   holes |-> [d \in DOMAIN project.devices |->
                [a \in Areas |-> check_holes(project.devices[d].tags, a)]],
   sparse |-> [g \in DOMAIN project.poll_groups |-> sparse(project, project.poll_groups[g])]]

-----------------------------------------------------------------------------
(* Drafts.  An exception gives no draft: the empty set.                    *)

Draft(endpoint_id, devices, groups) ==
  [schemaVersion |-> {1}, name |-> "draft", addressBase |-> {0},
   endpoints |-> <<[id |-> endpoint_id, host |-> "127.0.0.1", port |-> {502},
                    transport |-> "tcp", connectTimeoutMs |-> {3000},
                    responseTimeoutMs |-> {1000}]>>,
   deviceProfiles |-> <<>>, devices |-> devices, pollGroups |-> groups]

\* A row holds trimmed fields; "parses" says that its numbers and its boolean do.
tag_json_from_row(row, options) ==
  [name |-> row.name, nodePath |-> IF row.nodePath = <<"">> THEN <<"Plant", row.name>>
                                                          ELSE row.nodePath,
   area |-> row.area, address |-> {row.address}, type |-> row.type,
   quantity |-> row.quantity, byteOrder |-> {row.byteOrder} \ {""},
   writable |-> row.writable,
   group |-> IF row.group = "" THEN options.group ELSE row.group]

RowAccepted(row) ==
  /\ row.name # ""
  /\ row.area \in Areas
  /\ row.type \in TagTypes
  /\ row.byteOrder \in Orders16 \cup Orders32 \cup {""}
  /\ row.parses

CsvDraft(rows, options, names) ==
  Draft(options.endpoint_id,
        <<[id |-> options.device_id, endpointId |-> options.endpoint_id,
           unitId |-> {options.unit_id}, profileId |-> "",
           tags |-> [r \in DOMAIN rows |-> tag_json_from_row(rows[r], options)]]>>,
        <<[id |-> options.group, periodMs |-> {1000}, priority |-> "normal",
           deviceId |-> options.device_id, blocks |-> <<>>, tagNames |-> names]>>)

tag_names(rows) == [r \in DOMAIN rows |-> rows[r].name]

import_csv_text(rows, options) ==
  IF \/ options.unit_id \notin 0..255 \/ options.device_id = "" \/ options.endpoint_id = ""
     \/ rows = <<>>
     \/ \E r \in DOMAIN rows : ~RowAccepted(rows[r])
     \/ \E r, q \in DOMAIN rows : r < q /\ rows[r].name = rows[q].name
  THEN {}
  ELSE {CsvDraft(rows, options, tag_names(rows))}

map_legacy_type(type) ==
  CASE type = "float" -> "float32"
    [] type \in {"word", "uint_16", "none"} -> "uint16"
    [] OTHER -> type

map_legacy_byte_order(raw, type) ==
  LET narrow == type \in Types16 IN
    CASE raw \in {"01234567", "0123"} -> IF narrow THEN "AB" ELSE "ABCD"
      [] raw \in {"01325476", "1032"} -> IF narrow THEN "BA" ELSE "CDAB"
      [] OTHER -> IF narrow THEN "AB" ELSE IF type \in Types32 THEN "ABCD" ELSE ""

migrated_tag(node, api) ==
  LET type == map_legacy_type(api.type)
      name == IF api.name = "" THEN node.key \o ".reg" \o ToString(Only(api.offset, 0))
                               ELSE api.name
  IN [name |-> name, nodePath |-> <<"Plant", node.key, name>>, area |-> "holding",
      address |-> {node.shift + Only(api.offset, 0)}, type |-> type, quantity |-> {},
      byteOrder |-> {map_legacy_byte_order(api.byteorder, type)}, writable |-> FALSE,
      group |-> node.key \o "-migrated"]

\* Nodes and offsets come in the order of their keys; std::stoi throws on a key
\* that is no number.
migrate_legacy_nodes(nodes) ==
  IF \E n \in DOMAIN nodes : \E a \in DOMAIN nodes[n].API : nodes[n].API[a].offset = {}
  THEN {}
  ELSE {Draft("legacy-endpoint-1",
          [n \in DOMAIN nodes |->
             [id |-> nodes[n].key, endpointId |-> "legacy-endpoint-1", unitId |-> {nodes[n].id},
              profileId |-> "",
              tags |-> [a \in DOMAIN nodes[n].API |-> migrated_tag(nodes[n], nodes[n].API[a])]]],
          [n \in DOMAIN nodes |->
             [id |-> nodes[n].key \o "-migrated", periodMs |-> {500}, priority |-> "normal",
              deviceId |-> nodes[n].key,
              blocks |-> <<[area |-> "holding", start |-> {nodes[n].shift},
                            count |-> {Max({1, nodes[n].registers})}]>>,
              tagNames |-> <<>>]])}

-----------------------------------------------------------------------------
(* The node set, and the tree that the server builds from the same paths.  *)

split_path(path) == SelectSeq(path, LAMBDA part : part # "")

resolved_node_path(tag) ==
  LET parts == split_path(tag.node_path) IN
    CASE Len(parts) >= 2 -> tag.node_path
      [] Len(parts) = 1 -> <<"Plant", parts[1]>>
      [] OTHER -> <<"Plant", tag.name>>

FoldersOf(path) == {SubSeq(split_path(path), 1, n) : n \in 1..(Len(split_path(path)) - 1)}

generate_nodeset(project) ==
  LET tags == Range(AllTags(project)) IN
    [folders |-> UNION {FoldersOf(resolved_node_path(t)) : t \in tags},
     variables |-> {[path |-> resolved_node_path(t), type |-> t.type, writable |-> t.writable] :
                      t \in tags}]

\* OpcUaServer::bind_tags stops at a path without a folder, and skips tags
\* without a path.
Binds(project) ==
  \A t \in Range(AllTags(project)) : t.node_path # <<"">> => Len(split_path(t.node_path)) >= 2

Served(project) ==
  LET tags == {t \in Range(AllTags(project)) : t.node_path # <<"">>} IN
    [folders |-> UNION {FoldersOf(t.node_path) : t \in tags},
     variables |-> {[path |-> split_path(t.node_path), type |-> t.type, writable |-> t.writable] :
                      t \in tags}]

-----------------------------------------------------------------------------
(* The commands.                                                           *)

Loaded == load_json_text(file)
Project == Loaded.project

Outcome(command, exit, result) ==
  /\ cmd' = command
  /\ code' = exit
  /\ report' = result
  /\ UNCHANGED <<file, edits>>

Edit ==
  /\ edits < MaxEdits
  /\ file' \in Edited(file)
  /\ edits' = edits + 1
  /\ cmd' = "none"
  /\ code' = 0
  /\ report' = {}

Fails == IF Loaded.ok THEN 0 ELSE 1

cmd_validate == Outcome("validate", Fails, {})

\* Every finding of doctor is a warning: its own exit code is 0.
cmd_doctor == Outcome("doctor", Fails, IF Loaded.ok THEN {doctor(Project)} ELSE {})

cmd_gen_nodeset ==
  Outcome("gen-nodeset", Fails, IF Loaded.ok THEN {generate_nodeset(Project)} ELSE {})

\* The draft is written before it is loaded for the exit code.
WriteDraft(command, draft) ==
  /\ edits < MaxEdits
  /\ cmd' = command
  /\ report' = {}
  /\ IF draft = {} THEN code' = 2 /\ UNCHANGED <<file, edits>>
     ELSE /\ file' \in draft
          /\ edits' = edits + 1
          /\ code' = IF load_json_text(file').ok THEN 0 ELSE 1

cmd_import_csv ==
  \E sheet \in Sheets : WriteDraft("import-csv", import_csv_text(sheet.rows, sheet.options))

cmd_migrate_legacy ==
  \E nodes \in LegacyConfigs : WriteDraft("migrate-legacy", migrate_legacy_nodes(nodes))

\* load_project_or_error and start() of the server.
Serve == Outcome("serve", IF Loaded.ok /\ Binds(Project) THEN 0 ELSE 1, {})

Init ==
  /\ file \in Files
  /\ edits = 0
  /\ cmd = "none"
  /\ code = 0
  /\ report = {}

Next ==
  \/ Edit
  \/ cmd_validate
  \/ cmd_doctor
  \/ cmd_gen_nodeset
  \/ cmd_import_csv
  \/ cmd_migrate_legacy
  \/ Serve

Spec == Init /\ [][Next]_vars

-----------------------------------------------------------------------------
(* Properties.                                                             *)

\* In a project that validate accepts every poll group belongs to exactly one
\* endpoint and reads tags of its own device only, every tag name leads to one
\* binding, no blocking poll stops at an unknown name, and the unit id survives
\* its cast (validate, RuntimeIndex::build, groups_for_endpoint,
\* collect_group_tags, poll_group).
AcceptedIsRunnable ==
  cmd = "validate" /\ code = 0 =>
  LET project == Project
      index == build(project)
      polling(g) == {e \in DOMAIN project.endpoints :
                       g \in Range(groups_for_endpoint(project, project.endpoints[e].id))}
  IN /\ \A g \in Range(project.poll_groups) :
          /\ Cardinality(polling(g)) = 1
          /\ poll_group_found(index, g)
          /\ \A i \in collect_group_tags(index, g) : index[i].device_id = g.device_id
     /\ \A i \in DOMAIN index :
          /\ find_by_name(index, index[i].tag.name) = {i}
          /\ \E d \in device(project, index[i].device_id) : d.unit_id = index[i].unit_id

\* The tags of the first profile in the file that a device names.
FileProfile(d) ==
  LET found == {p \in DOMAIN file.deviceProfiles :
                  file.deviceProfiles[p].id = file.devices[d].profileId}
  IN IF found = {} THEN <<>> ELSE file.deviceProfiles[Min(found)].tags

\* The definition in the file that counts for a tag of a device: its last one in
\* the device, or else the one in the profile.
Definition(d, name) ==
  IF name \in Names(file.devices[d].tags) THEN Overlay(file.devices[d].tags, name)
                                          ELSE Overlay(FileProfile(d), name)

\* In an accepted project a device has the tags of its profile and its own ones,
\* each name once and as its definition says; the address and the quantity that
\* are asked for are those of the definition cut to 16 bits, whatever addressBase
\* says.  A device may repeat a name only if the profile has it too: the last
\* definition replaces the others and nothing is reported
\* (expand_device_profiles, parse_tag, poll_tag).
InstanceWins ==
  cmd = "validate" /\ code = 0 =>
    LET project == Project IN \A d \in DOMAIN file.devices :
      LET own == file.devices[d].tags
          profile == FileProfile(d)
          bound == project.devices[d].tags
      IN /\ Names(bound) = Names(own) \cup Names(profile)
         /\ Len(bound) = Cardinality(Names(bound))
         /\ \A b \in Range(bound) : LET def == Definition(d, b.name) IN
              /\ b = parse_tag(def)
              /\ poll_request(b).addr = Only(def.address, 0) % 65536
              /\ \A q \in def.quantity : poll_request(b).qty = q % 65536
         /\ \A t, u \in DOMAIN own :
              t < u /\ own[t].name = own[u].name => own[t].name \in Names(profile)

Registers(tag) == tag.address..(tag.address + regs_for(tag) - 1)

\* doctor reports two tags of a device exactly when they share a register, and
\* where no tags overlap it reports a gap exactly between neighbours with one to
\* eight unused registers between them (check_overlaps, check_holes).
DoctorExact ==
  \A r \in report : cmd = "doctor" => LET project == Project IN
    \A d \in DOMAIN project.devices : \A a \in Areas :
      LET tags == project.devices[d].tags
          pairs == InArea(tags, a) \X InArea(tags, a)
          between(p) == (tags[p[1]].address + regs_for(tags[p[1]]))..(tags[p[2]].address - 1)
          used == UNION {Registers(tags[t]) : t \in InArea(tags, a)}
      IN /\ r.overlaps[d][a] =
              {p \in pairs : p[1] < p[2] /\ Registers(tags[p[1]]) \cap Registers(tags[p[2]]) # {}}
         /\ r.overlaps[d][a] = {} =>
              r.holes[d][a] =
                {p \in pairs : Cardinality(between(p)) \in 1..8 /\ between(p) \cap used = {}}

\* Of a tag without a group of its own doctor says that no poll group refers to
\* it exactly when the server does not poll it, unless a group of the device has
\* no tagNames: that group polls the tag in spite of the finding.  Of a tag with a
\* group doctor never says so, though that group may poll other tags only
\* (doctor, collect_group_tags).
UnpolledFinding ==
  \A r \in report : cmd = "doctor" =>
    LET project == Project
        index == build(project)
        polled == {index[i].tag.name : i \in Polled(project)}
    IN \A d \in DOMAIN project.devices : \A t \in DOMAIN project.devices[d].tags :
         LET tag == project.devices[d].tags[t]
             reported == <<d, t>> \in r.unpolled
             unnamed == \E g \in Range(project.poll_groups) :
                          g.device_id = project.devices[d].id /\ g.tag_names = <<>>
         IN IF tag.group = "" THEN tag.name \in polled <=> (~reported \/ unnamed)
                              ELSE ~reported

\* Where the server starts, gen-nodeset describes the tree that it builds, the
\* same folders and the same variables with the same types and access, and
\* besides it a variable Plant/<name> for each tag without a path, which the
\* server does not have.  Empty segments of a path stay in the ids of the node
\* set.  With a path of one segment, which gen-nodeset puts under Plant, the
\* server does not start (generate_nodeset, OpcUaServer::bind_tags).
NodesetIsServed ==
  \A r \in report : cmd = "gen-nodeset" /\ Binds(Project) =>
    LET pathless == {t \in Range(AllTags(Project)) : t.node_path = <<"">>}
        added == {[path |-> <<"Plant", t.name>>, type |-> t.type, writable |-> t.writable] :
                    t \in pathless}
    IN /\ r.folders = Served(Project).folders \cup {<<"Plant">> : t \in pathless}
       /\ {[v EXCEPT !.path = split_path(@)] : v \in r.variables}
            = Served(Project).variables \cup added

\* A draft that opc-map reports as good is a project whose every tag is polled
\* (import_csv_text, migrate_legacy_nodes).
DraftIsPolled ==
  cmd \in {"import-csv", "migrate-legacy"} /\ code = 0
    => Polled(Project) = DOMAIN build(Project)
=============================================================================

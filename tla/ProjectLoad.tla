---------------------------- MODULE ProjectLoad ----------------------------
(***************************************************************************)
(* From a *.modbusproj.json file to the bindings the server polls:         *)
(* parse_project, expand_device_profiles and load_json_text                *)
(* (project/load.cpp), the JSON schema, validate (project/validate.cpp),   *)
(* RuntimeIndex (core/runtime_index.cpp) and the tags of a poll group      *)
(* (core/dispatcher.cpp).                                                  *)
(*                                                                         *)
(* A file is a record of its lists.  An integer field, and byteOrder, is   *)
(* the set of its value: empty when the field is missing or of another     *)
(* type.  A string that is missing or of another type is "", and an        *)
(* unknown enum value is any other string.  An item that is no object is   *)
(* an error of the parse and of the schema, and is left out.  Texts that   *)
(* only people read (descriptions, units, names of profiles) are left out. *)
(***************************************************************************)
EXTENDS Integers, Sequences, FiniteSets, SequencesExt

CONSTANT IntSize     \* 2^32, the number of values of an int

ASSUME IntSizeAssumption == IntSize \in Nat /\ IntSize % 2 = 0 /\ IntSize > 131072

Areas == {"holding", "input", "coil", "discrete"}
Types16 == {"uint16", "int16"}
Types32 == {"uint32", "int32", "float32"}
TagTypes == Types16 \cup Types32 \cup {"bool", "float64"}
Orders16 == {"AB", "BA"}
Orders32 == {"ABCD", "CDAB", "BADC", "DCBA"}
Priorities == {"fast", "normal", "slow"}
Transports == {"tcp", "udp"}

Only(field, default) == IF field = {} THEN default ELSE CHOOSE v \in field : TRUE
Report(bad, what) == IF bad THEN {what} ELSE {}
Oneof(value, table, fallback) == IF value \in table THEN value ELSE fallback

\* json::get<int> of a wider number.
AsInt(n) == ((n + IntSize \div 2) % IntSize) - IntSize \div 2
Integer(field, default) == IF field = {} THEN default ELSE AsInt(Only(field, 0))
\* static_cast<std::uint8_t>, static_cast<std::uint16_t>
AsByte(n) == n % 256
AsWord(n) == n % 65536

-----------------------------------------------------------------------------
(* Parsing.                                                                *)

parse_tag(j) ==
  [name |-> j.name, node_path |-> j.nodePath,
   area |-> Oneof(j.area, Areas, "holding"),
   address |-> Integer(j.address, 0),
   type |-> Oneof(j.type, TagTypes, "uint16"),
   quantity |-> {AsInt(q) : q \in j.quantity},
   byte_order |-> Only(j.byteOrder, ""),
   writable |-> j.writable, group |-> j.group]

tag_errors(j) ==
  Report(j.name = "", "name") \cup Report(j.area \notin Areas, "area")
    \cup Report(j.address = {}, "address") \cup Report(j.type \notin TagTypes, "type")

InPortRange(field) == Only(field, 0) \in 1..65535

parse_endpoint(j) ==
  [id |-> j.id, host |-> j.host,
   port |-> IF InPortRange(j.port) THEN Only(j.port, 0) ELSE 502,
   transport |-> Oneof(j.transport, Transports, "tcp"),
   connect_timeout_ms |-> Integer(j.connectTimeoutMs, 3000),
   response_timeout_ms |-> Integer(j.responseTimeoutMs, 1000)]

endpoint_errors(j) ==
  Report(j.id = "", "id") \cup Report(j.host = "", "host")
    \cup Report(~InPortRange(j.port), "port")
    \cup Report(j.transport \notin Transports, "transport")

parse_block(j) ==
  [area |-> Oneof(j.area, Areas, "holding"),
   start |-> Integer(j.start, 0), count |-> Integer(j.count, 1)]

block_errors(j) ==
  Report(j.area \notin Areas, "block area") \cup Report(j.start = {}, "start")
    \cup Report(j.count = {}, "count")

parse_device(j) ==
  [id |-> j.id, endpoint_id |-> j.endpointId, unit_id |-> Integer(j.unitId, 1),
   profile_id |-> j.profileId, tags |-> [t \in DOMAIN j.tags |-> parse_tag(j.tags[t])]]

device_errors(j) ==
  Report(j.id = "", "id") \cup Report(j.endpointId = "", "endpointId")
    \cup Report(j.unitId = {}, "unitId")
    \cup UNION {tag_errors(j.tags[t]) : t \in DOMAIN j.tags}

parse_group(j) ==
  [id |-> j.id, period_ms |-> Integer(j.periodMs, 1000),
   priority |-> Oneof(j.priority, Priorities, "normal"), device_id |-> j.deviceId,
   blocks |-> [b \in DOMAIN j.blocks |-> parse_block(j.blocks[b])],
   tag_names |-> j.tagNames]

group_errors(j) ==
  Report(j.id = "", "id") \cup Report(j.periodMs = {}, "periodMs")
    \cup Report(j.priority \notin Priorities, "priority")
    \cup Report(j.deviceId = "", "deviceId")
    \cup UNION {block_errors(j.blocks[b]) : b \in DOMAIN j.blocks}

parse_project(root) ==
  [schema_version |-> Integer(root.schemaVersion, 1),
   address_base |-> Integer(root.addressBase, 0),
   endpoints |-> [e \in DOMAIN root.endpoints |-> parse_endpoint(root.endpoints[e])],
   device_profiles |->
     [p \in DOMAIN root.deviceProfiles |->
        [id |-> root.deviceProfiles[p].id,
         tags |-> [t \in DOMAIN root.deviceProfiles[p].tags |->
                     parse_tag(root.deviceProfiles[p].tags[t])]]],
   devices |-> [d \in DOMAIN root.devices |-> parse_device(root.devices[d])],
   poll_groups |-> [g \in DOMAIN root.pollGroups |-> parse_group(root.pollGroups[g])]]

parse_errors(root) ==
  Report(root.schemaVersion = {}, "schemaVersion") \cup Report(root.name = "", "name")
    \cup Report(Integer(root.addressBase, 0) \notin {0, 1}, "addressBase")
    \cup Report(root.endpoints = <<>>, "endpoints")
    \cup Report(root.devices = <<>>, "devices")
    \cup Report(root.pollGroups = <<>>, "pollGroups")
    \cup UNION {endpoint_errors(root.endpoints[e]) : e \in DOMAIN root.endpoints}
    \cup UNION {Report(root.deviceProfiles[p].id = "", "id")
                  \cup UNION {tag_errors(root.deviceProfiles[p].tags[t]) :
                                t \in DOMAIN root.deviceProfiles[p].tags} :
                  p \in DOMAIN root.deviceProfiles}
    \cup UNION {device_errors(root.devices[d]) : d \in DOMAIN root.devices}
    \cup UNION {group_errors(root.pollGroups[g]) : g \in DOMAIN root.pollGroups}

-----------------------------------------------------------------------------
(* The JSON schema, which sees the file and not the parsed project.        *)

AtLeast(field, min) == \A n \in field : n >= min

tag_schema(j) ==
  Report(j.name = "", "name") \cup Report(j.area \notin Areas, "area")
    \cup Report(j.address = {} \/ ~AtLeast(j.address, 0), "address")
    \cup Report(j.type \notin TagTypes, "type")
    \cup Report(~AtLeast(j.quantity, 1), "quantity")
    \cup Report(~(j.byteOrder \subseteq Orders16 \cup Orders32), "byteOrder")

endpoint_schema(j) ==
  endpoint_errors(j)
    \cup Report(~AtLeast(j.connectTimeoutMs, 1), "connectTimeoutMs")
    \cup Report(~AtLeast(j.responseTimeoutMs, 1), "responseTimeoutMs")

device_schema(j) ==
  Report(j.id = "", "id") \cup Report(j.endpointId = "", "endpointId")
    \cup Report(Only(j.unitId, -1) \notin 0..255, "unitId")
    \cup UNION {tag_schema(j.tags[t]) : t \in DOMAIN j.tags}

block_schema(j) ==
  Report(j.area \notin Areas, "block area") \cup Report(Only(j.start, -1) < 0, "start")
    \cup Report(Only(j.count, 0) \notin 1..125, "count")

group_schema(j) ==
  Report(j.id = "", "id") \cup Report(Only(j.periodMs, 0) < 10, "periodMs")
    \cup Report(j.priority \notin Priorities, "priority")
    \cup Report(j.deviceId = "", "deviceId")
    \cup UNION {block_schema(j.blocks[b]) : b \in DOMAIN j.blocks}

append_json_schema_diagnostics(root) ==
  Report(Only(root.schemaVersion, 0) < 1, "schemaVersion")
    \cup Report(root.name = "", "name")
    \cup Report(~(root.addressBase \subseteq {0, 1}), "addressBase")
    \cup Report(root.endpoints = <<>> \/ root.devices = <<>> \/ root.pollGroups = <<>>,
                "minItems")
    \cup UNION {endpoint_schema(root.endpoints[e]) : e \in DOMAIN root.endpoints}
    \cup UNION {Report(root.deviceProfiles[p].id = "", "id")
                  \cup UNION {tag_schema(root.deviceProfiles[p].tags[t]) :
                                t \in DOMAIN root.deviceProfiles[p].tags} :
                  p \in DOMAIN root.deviceProfiles}
    \cup UNION {device_schema(root.devices[d]) : d \in DOMAIN root.devices}
    \cup UNION {group_schema(root.pollGroups[g]) : g \in DOMAIN root.pollGroups}

-----------------------------------------------------------------------------
(* Profiles.                                                               *)

Names(tags) == {tags[t].name : t \in DOMAIN tags}

\* The map keeps the last tag of a name.
Overlay(tags, name) ==
  tags[CHOOSE t \in DOMAIN tags : /\ tags[t].name = name
                                  /\ \A u \in DOMAIN tags : tags[u].name = name => u <= t]

merged(profile, tags) ==
  [p \in DOMAIN profile |->
     IF profile[p].name \in Names(tags) \ {""} THEN Overlay(tags, profile[p].name)
                                               ELSE profile[p]]
    \o SelectSeq(tags, LAMBDA t : t.name \notin Names(profile) \ {""})

\* by_id.emplace keeps the first profile of an id.
ProfileTags(project, id) ==
  LET ps == project.device_profiles
      found == {p \in DOMAIN ps : ps[p].id = id /\ id # ""}
  IN IF found = {} THEN <<>> ELSE ps[CHOOSE p \in found : \A q \in found : p <= q].tags

expand_device_profiles(project) ==
  [project EXCEPT !.devices =
     [d \in DOMAIN project.devices |->
        LET device == project.devices[d]
            profile == ProfileTags(project, device.profile_id)
        IN IF profile = <<>> THEN device
                             ELSE [device EXCEPT !.tags = merged(profile, device.tags)]]]

-----------------------------------------------------------------------------
(* Semantic checks of the expanded project.                                *)

valid_byte_order(order, type) ==
  IF order = "" THEN type \in Types16 \cup {"bool"}
  ELSE /\ order \in Orders16 \cup Orders32
       /\ type \in Types16 => order \in Orders16
       /\ type \in Types32 \cup {"float64"} => order \in Orders32

Repeated(items) ==
  \E i, k \in DOMAIN items : i < k /\ items[i].id = items[k].id /\ items[i].id # ""
Ids(items) == {items[i].id : i \in DOMAIN items} \ {""}

AllTags(project) == FlattenSeq([d \in DOMAIN project.devices |-> project.devices[d].tags])

\* Mutated form: names are compared within a device only.
repeated_names_inside(project) ==
  \E d \in DOMAIN project.devices : LET tags == project.devices[d].tags IN
    \E t, u \in DOMAIN tags : t < u /\ tags[t].name = tags[u].name /\ tags[t].name # ""

repeated_names(project) ==
  LET tags == AllTags(project) IN
    \E t, u \in DOMAIN tags : t < u /\ tags[t].name = tags[u].name /\ tags[t].name # ""

validate_tag(tag) ==
  Report(tag.address < 0, "address")
    \cup Report(~valid_byte_order(tag.byte_order, tag.type), "byteOrder")
    \cup Report(\E q \in tag.quantity : q < 1, "quantity")
    \cup Report(tag.writable /\ tag.area \in {"input", "discrete"}, "writable")

\* RuntimeIndex::device and devices_by_id: the first device of an id.
device(project, id) ==
  LET found == {d \in DOMAIN project.devices : project.devices[d].id = id} IN
    {project.devices[d] : d \in {f \in found : \A e \in found : f <= e}}

validate_group(project, group) ==
  Report(group.period_ms < 10, "periodMs")
    \cup Report(group.device_id # "" /\ group.device_id \notin Ids(project.devices), "deviceId")
    \cup Report(\E b \in DOMAIN group.blocks : group.blocks[b].start < 0, "start")
    \cup Report(\E b \in DOMAIN group.blocks : group.blocks[b].count \notin 1..125, "count")
    \cup Report(\E n \in DOMAIN group.tag_names :
                  \E d \in device(project, group.device_id) :
                    group.device_id # "" /\ group.tag_names[n] \notin Names(d.tags), "tagNames")

validate(project) ==
  Report(project.schema_version < 1, "schemaVersion")
    \cup Report(Repeated(project.endpoints), "duplicate endpoint")
    \cup UNION {Report(e.id # "" /\ (e.connect_timeout_ms < 1 \/ e.response_timeout_ms < 1),
                       "timeouts") : e \in Range(project.endpoints)}
    \cup Report(Repeated(project.devices), "duplicate device")
    \cup UNION {Report(d.endpoint_id # "" /\ d.endpoint_id \notin Ids(project.endpoints),
                       "endpointId")
                  \cup Report(d.profile_id # "" /\ d.profile_id \notin Ids(project.device_profiles),
                              "profileId")
                  \cup Report(d.unit_id \notin 0..255, "unitId") : d \in Range(project.devices)}
    \cup Report(repeated_names(project), "duplicate tag")
    \cup UNION {validate_tag(t) : t \in Range(AllTags(project))}
    \cup Report(Repeated(project.poll_groups), "duplicate group")
    \cup UNION {validate_group(project, g) : g \in Range(project.poll_groups)}

validate_warnings(project) ==
  Report(\E g \in Range(project.poll_groups) : g.blocks = <<>> /\ g.tag_names = <<>>,
         "empty group")
    \cup Report(\E t \in Range(AllTags(project)) :
                  t.group # "" /\ t.group \notin Ids(project.poll_groups), "unknown group")

load_json_text(root) ==
  LET project == expand_device_profiles(parse_project(root)) IN
    [ok |-> parse_errors(root) \cup append_json_schema_diagnostics(root)
              \cup validate(project) = {},
     project |-> project, warnings |-> validate_warnings(project)]

-----------------------------------------------------------------------------
(* The bindings the server works with (core/runtime_index.cpp), the tags   *)
(* each poll group reads (core/dispatcher.cpp) and the report over the     *)
(* TagStore (core/runtime_doctor.cpp).                                     *)

\* Tag ids are positions: 1, 2, ...
build(project) ==
  LET of(d) == [t \in DOMAIN d.tags |->
                  [device_id |-> d.id, endpoint_id |-> d.endpoint_id,
                   unit_id |-> AsByte(d.unit_id), tag |-> d.tags[t]]]
  IN FlattenSeq([i \in DOMAIN project.devices |-> of(project.devices[i])])

\* by_name_.emplace keeps the first binding of a name.
find_by_name(index, name) ==
  LET found == {i \in DOMAIN index : index[i].tag.name = name} IN
    {i \in found : \A k \in found : i <= k}

groups_for_endpoint(project, endpoint_id) ==
  SelectSeq(project.poll_groups,
            LAMBDA g : \E d \in device(project, g.device_id) : d.endpoint_id = endpoint_id)

regs_for(tag) ==
  IF tag.quantity # {} THEN Only(tag.quantity, 0)
  ELSE CASE tag.type \in Types32 -> 2 [] tag.type = "float64" -> 4 [] OTHER -> 1

\* The registers that poll_tag asks for.  addressBase has no part in it.
poll_request(tag) == [addr |-> AsWord(tag.address), qty |-> AsWord(regs_for(tag))]

InBlock(tag, block) ==
  /\ tag.area = block.area
  /\ tag.address >= block.start
  /\ tag.address + regs_for(tag) <= block.start + block.count

\* The tags of a group that has no tagNames: ids of the index, in its order.
UnnamedTags(index, group) ==
  LET of == {i \in DOMAIN index : index[i].device_id = group.device_id}
      bound == {i \in of : index[i].tag.group \in {"", group.id}}
  IN IF bound # {} THEN bound
     ELSE {i \in of : \E b \in DOMAIN group.blocks : InBlock(index[i].tag, group.blocks[b])}

collect_group_tags(index, group) ==
  IF group.tag_names # <<>>
  THEN UNION {find_by_name(index, n) : n \in Range(group.tag_names)}
  ELSE UnnamedTags(index, group)

\* The blocking poll_group gives up on a name it does not find.
poll_group_found(index, group) ==
  \A n \in Range(group.tag_names) : find_by_name(index, n) # {}

Polled(project) ==
  LET index == build(project) IN
    UNION {UNION {collect_group_tags(index, g) :
                    g \in Range(groups_for_endpoint(project, e.id))} :
             e \in Range(project.endpoints)}

\* store maps the ids of published tags to their quality.
runtime_doctor(index, store) ==
  {[tag |-> index[i].tag.name,
    severity |-> IF i \in DOMAIN store /\ store[i] = "Uncertain" THEN "Warning" ELSE "Error"] :
     i \in {k \in DOMAIN index : k \in DOMAIN store => store[k] # "Good"}}
=============================================================================

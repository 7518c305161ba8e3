----------------------------- MODULE MCProject ------------------------------
(***************************************************************************)
(* The project, as a file and as it runs.  Small project files of three    *)
(* kinds (the name of a file tells its kind) and the edits an engineer     *)
(* makes to them, one field at a time, each followed by any command of     *)
(* opc-map; and the blocking poll of a project that validate accepts.  An  *)
(* int has 2^20 values.                                                    *)
(***************************************************************************)
EXTENDS OpcMap, PollOnce

T(name, address) ==
  [name |-> name, nodePath |-> <<"Plant", name>>, area |-> "holding", address |-> {address},
   type |-> "uint16", quantity |-> {}, byteOrder |-> {}, writable |-> FALSE, group |-> ""]
E(id) ==
  [id |-> id, host |-> "10.0.0.1", port |-> {502}, transport |-> "tcp",
   connectTimeoutMs |-> {}, responseTimeoutMs |-> {}]
D(id, endpoint, profile, tags) ==
  [id |-> id, endpointId |-> endpoint, unitId |-> {1}, profileId |-> profile, tags |-> tags]
G(id, dev, names, blocks) ==
  [id |-> id, periodMs |-> {100}, priority |-> "normal", deviceId |-> dev, blocks |-> blocks,
   tagNames |-> names]
B(start, count) == [area |-> "holding", start |-> {start}, count |-> {count}]
F(name, endpoints, profiles, devices, groups) ==
  [schemaVersion |-> {1}, name |-> name, addressBase |-> {}, endpoints |-> endpoints,
   deviceProfiles |-> profiles, devices |-> devices, pollGroups |-> groups]

\* Two devices on two endpoints; the first has a profile and one tag of its own.
TwoDevices ==
  F("references", <<E("E1"), E("E2")>>, <<[id |-> "P", tags |-> <<T("a", 0), T("b", 1)>>]>>,
    <<D("D1", "E1", "P", <<T("b", 4)>>), D("D2", "E2", "", <<T("c", 0)>>)>>,
    <<G("G1", "D1", <<"a", "b">>, <<>>), G("G2", "D2", <<>>, <<B(0, 8)>>)>>)

\* A device with three tags and one group.
ThreeTags(name) ==
  F(name, <<E("E1")>>, <<>>, <<D("D1", "E1", "", <<T("a", 0), T("b", 1), T("c", 2)>>)>>,
    <<G("G1", "D1", <<"a", "b">>, <<>>)>>)

\* A file with nothing in it.
Empty == F("", <<>>, <<>>, <<>>, <<>>)

-----------------------------------------------------------------------------
(* Edits that touch references, names and ranges.                          *)

TagRefs(t) ==
  {[t EXCEPT !.name = n] : n \in {"a", "b", "c", ""}}
    \cup {[t EXCEPT !.address = a] : a \in {{}, {-1}, {65536}, {IntSize}}}
    \cup {[t EXCEPT !.type = y] : y \in {"float32", "float64", "?"}}
    \cup {[t EXCEPT !.byteOrder = o] : o \in {{"AB"}, {"ABCD"}, {""}}}
    \cup {[t EXCEPT !.group = g] : g \in {"G1", "G9"}}
    \cup {[t EXCEPT !.area = "input"], [t EXCEPT !.writable = TRUE], [t EXCEPT !.quantity = {0}]}

TagLists(tags) ==
  UNION {{[tags EXCEPT ![t] = u] : u \in TagRefs(tags[t])} : t \in DOMAIN tags}
    \cup {Append(tags, T("a", 9)), Append(tags, T("d", 9)), <<>>}

DeviceRefs(d) ==
  {[d EXCEPT !.id = i] : i \in {"D1", "D2", ""}}
    \cup {[d EXCEPT !.endpointId = e] : e \in {"E1", "E2", "E9"}}
    \cup {[d EXCEPT !.unitId = u] : u \in {{}, {0}, {255}, {256}, {-1}, {IntSize + 1}}}
    \cup {[d EXCEPT !.profileId = p] : p \in {"P", "Q", ""}}
    \cup {[d EXCEPT !.tags = ts] : ts \in TagLists(d.tags)}

GroupRefs(g) ==
  {[g EXCEPT !.id = i] : i \in {"G1", ""}}
    \cup {[g EXCEPT !.deviceId = i] : i \in {"D1", "D2", "D9"}}
    \cup {[g EXCEPT !.periodMs = p] : p \in {{}, {9}, {IntSize + 1}}}
    \cup {[g EXCEPT !.tagNames = n] : n \in {<<>>, <<"c">>, <<"a", "c">>, <<"d", "d">>}}
    \cup {[g EXCEPT !.blocks = b] : b \in {<<>>, <<B(4, 1)>>, <<B(0, 126)>>, <<B(-1, 4)>>}}

Other(f) ==
  {[f EXCEPT !.endpoints[2].id = i] : i \in {"E1", ""}}
    \cup {[f EXCEPT !.endpoints[1].port = p] : p \in {{0}, {65536}}}
    \cup {[f EXCEPT !.endpoints[1].responseTimeoutMs = {0}], [f EXCEPT !.endpoints = <<>>],
          [f EXCEPT !.schemaVersion = {0}], [f EXCEPT !.name = ""]}
    \cup {[f EXCEPT !.addressBase = {b}] : b \in {1, 2}}
    \cup {[f EXCEPT !.deviceProfiles[1].id = i] : i \in {"Q", ""}}
    \cup {[f EXCEPT !.deviceProfiles[1].tags = ts] :
            ts \in {<<>>, <<T("a", 0), T("a", 1)>>, <<T("a", 0), T("c", 7)>>}}
    \cup {[f EXCEPT !.deviceProfiles = Append(@, [id |-> "P", tags |-> <<T("e", 3)>>])]}

References(f) ==
  UNION {{[f EXCEPT !.devices[d] = x] : x \in DeviceRefs(f.devices[d])} : d \in DOMAIN f.devices}
    \cup UNION {{[f EXCEPT !.pollGroups[g] = x] : x \in GroupRefs(f.pollGroups[g])} :
                  g \in DOMAIN f.pollGroups}
    \cup IF Len(f.endpoints) = 2 /\ Len(f.deviceProfiles) = 1 THEN Other(f) ELSE {}

-----------------------------------------------------------------------------
(* Three tags anywhere in two areas, for doctor.                           *)

Placed(t) ==
  {[t EXCEPT !.address = {a}, !.type = y] : a \in {0, 1, 2, 4, 11}, y \in {"uint16", "float32"}}
    \cup {[t EXCEPT !.quantity = {3}], [t EXCEPT !.area = "coil"], [t EXCEPT !.byteOrder = {"ABCD"}]}
Placements(f) ==
  UNION {{[f EXCEPT !.devices[1].tags[t] = u] : u \in Placed(f.devices[1].tags[t])} :
           t \in DOMAIN f.devices[1].tags}
Float(t) == [t EXCEPT !.byteOrder = {"ABCD"}, !.type = "float32"]
PlacementFiles ==
  {[ThreeTags("registers") EXCEPT !.devices[1].tags[3] = u] : u \in Placed(T("c", 2))}
    \cup {[ThreeTags("registers") EXCEPT !.devices[1].tags =
             <<Float(T("a", 0)), Float(T("b", 2)), T("c", 5)>>]}

-----------------------------------------------------------------------------
(* Drafts and node sets.                                                   *)

Paths(t) ==
  {[t EXCEPT !.nodePath = p] :
     p \in {<<"Plant", "a">>, <<"Line", "Pump", "b">>, <<"Line", "b">>, <<"c">>, <<"">>,
            <<"", "Plant", "a">>, <<"Plant", "", "b">>, <<"Plant", "c", "">>}}
    \cup {[t EXCEPT !.writable = TRUE]}
PathEdits(f) ==
  UNION {{[f EXCEPT !.devices[1].tags[t] = u] : u \in Paths(f.devices[1].tags[t])} :
           t \in DOMAIN f.devices[1].tags}

Options(group, unit) ==
  [device_id |-> "D1", endpoint_id |-> "E1", unit_id |-> unit, group |-> group]
Row(name, type, order, group) ==
  [name |-> name, nodePath |-> <<"">>, area |-> "holding", address |-> 0, type |-> type,
   byteOrder |-> order, writable |-> FALSE, quantity |-> {}, group |-> group, parses |-> TRUE]
Rows ==
  {Row(n, y, o, g) : n \in {"a", "b"}, y \in {"uint16", "float32"}, o \in {"", "AB", "ABCD"},
                     g \in {"", "fast"}}
    \cup {[Row("b", "bool", "", "") EXCEPT !.area = "input", !.writable = TRUE],
          [Row("b", "bool", "", "") EXCEPT !.parses = FALSE], Row("", "bool", "", "")}
SomeSheets ==
  {[rows |-> r, options |-> Options("csv", 1)] : r \in {<<>>} \cup {<<x>> : x \in Rows}}
    \cup {[rows |-> <<x, y>>, options |-> Options("csv", 1)] :
            x \in {z \in Rows : z.name = "a" /\ z.type = "uint16"}, y \in Rows}
    \cup {[rows |-> <<Row("a", "bool", "", "")>>, options |-> o] :
            o \in {Options("", 1), Options("csv", 256)}}

Api(offset, type, order, name) ==
  [offset |-> offset, type |-> type, byteorder |-> order, name |-> name]
Apis ==
  {Api({1}, y, o, n) : y \in {"float", "word", "none", "int32", "float64", "lint"},
                       o \in {"", "0123", "1032"}, n \in {"", "a"}}
    \cup {Api({}, "word", "", "a")}
Node(key, api, registers) ==
  [key |-> key, id |-> 1, shift |-> 10, registers |-> registers, API |-> api]
SomeConfigs ==
  {<<>>} \cup {<<Node("N1", <<a>>, r)>> : a \in Apis, r \in {0, 8, 200}}
    \cup {<<Node("N1", <<Api({0}, "word", "", "a")>>, 8), Node("N2", <<a>>, 8)>> : a \in Apis}
    \cup {<<Node("N1", <<a, Api({3}, "float", "", "")>>, 8)>> : a \in Apis}

-----------------------------------------------------------------------------
(* The files and their edits.  A draft is edited no further.               *)

Large == [ThreeTags("large") EXCEPT !.devices[1].tags[3].quantity = {65537}]

SomeFiles == {Empty, TwoDevices, ThreeTags("paths"), Large} \cup PlacementFiles
SomeEdits(f) ==
  CASE f.name = "references" -> References(f)
    [] f.name = "registers" -> Placements(f)
    [] f.name = "paths" -> PathEdits(f)
    [] OTHER -> {}

-----------------------------------------------------------------------------
(* The project that is polled: two endpoints.  The first has a fast group  *)
(* with a coil and a register and a slow group; the second a register of   *)
(* its own and a tag that no group reads.                                  *)

Tag(name, area, address, writable, group) ==
  [name |-> name, node_path |-> <<"Plant", name>>, area |-> area, address |-> address,
   type |-> "bool", quantity |-> {}, byte_order |-> "", writable |-> writable, group |-> group]
Device(id, endpoint, tags) ==
  [id |-> id, endpoint_id |-> endpoint, unit_id |-> 1, tags |-> tags]
PollGroup(id, period, dev, names) ==
  [id |-> id, period_ms |-> period, device_id |-> dev, tag_names |-> names, blocks |-> <<>>]

Plant ==
  [endpoints |-> <<[id |-> "E1"], [id |-> "E2"]>>,
   devices |->
     <<Device("D1", "E1", <<Tag("a", "coil", 0, TRUE, "fast"), Tag("b", "holding", 4, FALSE, "fast"),
                            Tag("c", "holding", 8, FALSE, "slow")>>),
       Device("D2", "E2", <<Tag("d", "holding", 0, TRUE, ""), Tag("u", "input", 9, FALSE, "other")>>)>>,
   poll_groups |-> <<PollGroup("fast", 1, "D1", <<>>), PollGroup("slow", 2, "D1", <<>>),
                     PollGroup("own", 1, "D2", <<"d">>)>>]

-----------------------------------------------------------------------------
VARIABLE about     \* what the behaviour is about: "file" or "once"

Resting == connected = [e \in EndpointIds |-> TRUE]

RunInit ==
  /\ about \in {"file", "once"}
  /\ Init
  /\ about = "once" => file = Empty
  /\ OnceInit
  /\ about = "file" => Resting /\ file # Empty

\* A draft replaces a file whatever it holds: from files of one kind only.  No
\* step looks at the last command: from a new file is enough.
FileNext ==
  /\ cmd \in {"none", "import-csv", "migrate-legacy"}
  /\ IF file.name = "paths" THEN Next
     ELSE Edit \/ cmd_validate \/ cmd_doctor \/ cmd_gen_nodeset \/ Serve

RunNext ==
  \/ about = "file" /\ FileNext /\ UNCHANGED <<about, onceVars>>
  \/ about = "once" /\ OnceNext /\ UNCHANGED <<about, vars>>

RunSpec == RunInit /\ [][RunNext]_<<about, vars, onceVars>>

-----------------------------------------------------------------------------
(* In a project that validate accepts every group has one endpoint and     *)
(* reads its own device, every name leads to one binding, each tag is as   *)
(* its device defines it last, or else its profile, and its address and    *)
(* quantity are cut to 16 bits, whatever addressBase says.                 *)
LoadSound == AcceptedIsRunnable /\ InstanceWins

(* How what opc-map says of a project compares with the server that loads  *)
(* it: the overlaps and gaps that doctor reports are there, its finding    *)
(* that a tag is not polled is right but for groups without tagNames, the  *)
(* tree of gen-nodeset is the served one and what it makes up for tags     *)
(* without a path, and every tag of a draft that is called good is polled. *)
ToolsAgree == DoctorExact /\ UnpolledFinding /\ NodesetIsServed /\ DraftIsPolled

(* After a pass of poll_once every group that was due was polled and its   *)
(* tags are fresh or not Good, the result tells of every failure, the      *)
(* runtime doctor reports the state of the field, and no group waits       *)
(* longer than its period and what the clock was set back.                 *)
PassHonest == DueIsFresh /\ ErrorReported /\ DoctorHonest /\ PeriodKept
=============================================================================

-------------------------------- MODULE Cli --------------------------------
(***************************************************************************)
(* parse_cli of app/cli_options.cpp: the command line of OPC_SERVER is     *)
(* read from left to right; an option that takes a value takes the next    *)
(* argument whatever it is; what is wrong is collected.                    *)
(***************************************************************************)
EXTENDS Integers, Sequences, SequencesExt, FiniteSets

CONSTANTS
  Flags,         \* options without a value, as --once
  PathOptions,   \* options of which the last value counts, as --project
  ListOptions,   \* options that add a value, as --ua-trust
  EnumOptions,   \* options with a fixed set of values, as --log-level
  EnumValues,    \* those values
  Users,         \* arguments of the form user:pass with a user
  Number,        \* argument -> the int std::stoi gives; it throws for others
  Arguments,     \* the arguments that may be written
  MaxArguments

IntOptions == {"--period-ms", "--historian-capacity"}
UserOption == "--ua-user"
ValueOptions == PathOptions \cup ListOptions \cup EnumOptions \cup IntOptions \cup {UserOption}

VARIABLES argv, i, opts

vars == <<argv, i, opts>>

Unset == "unset"

Init ==
  /\ argv \in SeqOf(Arguments, MaxArguments)
  /\ i = 1
  /\ opts = [flags |-> {},
             paths |-> [o \in PathOptions \cup EnumOptions |-> Unset],
             lists |-> [o \in ListOptions \cup {UserOption} |-> <<>>],
             period |-> 1000, capacity |-> 4096,
             errors |-> <<>>, done |-> FALSE]

Parsing == ~opts.done /\ i <= Len(argv)
Failed(why) == [opts EXCEPT !.errors = Append(@, why)]

parse_flag ==
  /\ Parsing /\ argv[i] \in Flags
  /\ opts' = [opts EXCEPT !.flags = @ \cup {argv[i]}]
  /\ i' = i + 1

\* The last argument wants a value: the loop ends.
missing_value ==
  /\ Parsing /\ argv[i] \in ValueOptions /\ i = Len(argv)
  /\ opts' = Failed("missing value")
  /\ i' = Len(argv) + 1

\* parse_log_level and parse_metrics_export.
parse_enum(v) == v \in EnumValues

\* What an option does with its value v.
Set(o, v) ==
  CASE o \in PathOptions -> [opts EXCEPT !.paths[o] = v]
    [] o \in ListOptions -> [opts EXCEPT !.lists[o] = Append(@, v)]
    [] o \in EnumOptions -> IF parse_enum(v) THEN [opts EXCEPT !.paths[o] = v]
                            ELSE Failed("invalid value")
    [] o = UserOption -> IF v \in Users THEN [opts EXCEPT !.lists[o] = Append(@, v)]
                         ELSE Failed("invalid value")
    [] o = "--period-ms" -> IF v \in DOMAIN Number THEN [opts EXCEPT !.period = Number[v]]
                            ELSE Failed("invalid value")
    [] o = "--historian-capacity" ->
         IF v \in DOMAIN Number /\ Number[v] >= 1 THEN [opts EXCEPT !.capacity = Number[v]]
         ELSE Failed("invalid value")

parse_value ==
  /\ Parsing /\ argv[i] \in ValueOptions /\ i < Len(argv)
  /\ opts' = Set(argv[i], argv[i + 1])
  /\ i' = i + 2

unknown_argument ==
  /\ Parsing /\ argv[i] \notin Flags \cup ValueOptions
  /\ opts' = Failed("unknown argument")
  /\ i' = i + 1

\* After the loop: the period is checked, whoever set it.
finish ==
  /\ ~opts.done /\ i > Len(argv)
  /\ opts' = [IF opts.period < 10 THEN Failed("period") ELSE opts EXCEPT !.done = TRUE]
  /\ UNCHANGED i

Next ==
  /\ parse_flag \/ missing_value \/ parse_value \/ unknown_argument \/ finish
  /\ UNCHANGED argv

Spec == Init /\ [][Next]_vars

-----------------------------------------------------------------------------
(* The reference: which arguments are values follows from the arguments    *)
(* alone, and each option is looked up among the others.                   *)

IsValue ==
  LET v[k \in 1..Len(argv)] == k > 1 /\ ~v[k - 1] /\ argv[k - 1] \in ValueOptions IN v

\* The positions of the options o that have a value.
At(o) == {k \in 1..(Len(argv) - 1) : argv[k] = o /\ ~IsValue[k]}

Valid(o, v) ==
  CASE o \in EnumOptions -> v \in EnumValues
    [] o = UserOption -> v \in Users
    [] o = "--period-ms" -> v \in DOMAIN Number
    [] o = "--historian-capacity" -> v \in DOMAIN Number /\ Number[v] >= 1
    [] OTHER -> TRUE

Given(o) == {k \in At(o) : Valid(o, argv[k + 1])}

LastValue(o, default) == IF Given(o) = {} THEN default ELSE argv[Max(Given(o)) + 1]

LastNumber(o, default) == IF Given(o) = {} THEN default ELSE Number[argv[Max(Given(o)) + 1]]

(* The options mean what was written: flags are set wherever they stand,   *)
(* the last valid value counts, lists keep their order, and no value is    *)
(* mistaken for an option or an option for a value of another.             *)
OptionsAsWritten ==
  opts.done =>
    LET value == IsValue IN
    /\ opts.flags = {argv[k] : k \in {j \in 1..Len(argv) : argv[j] \in Flags /\ ~value[j]}}
    /\ \A o \in DOMAIN opts.paths : opts.paths[o] = LastValue(o, Unset)
    /\ \A o \in DOMAIN opts.lists :
         opts.lists[o] = [k \in 1..Cardinality(Given(o)) |->
                            argv[SetToSortSeq(Given(o), <)[k] + 1]]
    /\ opts.period = LastNumber("--period-ms", 1000)
    /\ opts.capacity = LastNumber("--historian-capacity", 4096)

(* One error for each thing that is wrong, and none otherwise: main starts *)
(* the server only for a command line that is right throughout.            *)
ErrorsExact ==
  opts.done =>
    LET value == IsValue
        option(k) == argv[k] \in ValueOptions /\ ~value[k]
    IN Len(opts.errors) =
         Cardinality({k \in 1..Len(argv) :
           ~value[k] /\ argv[k] \notin Flags /\
             (option(k) => k = Len(argv) \/ ~Valid(argv[k], argv[k + 1]))})
         + (IF LastNumber("--period-ms", 1000) < 10 THEN 1 ELSE 0)
=============================================================================

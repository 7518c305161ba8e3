------------------------------ MODULE MCUaSide ------------------------------
(***************************************************************************)
(* The OPC UA side of the program, and its beginning.  A behaviour is one  *)
(* of:                                                                     *)
(*  - "writes": the queue of client writes of one endpoint, MCWriteQueue;  *)
(*  - "server": two projects that share folders with each other and with   *)
(*    the diagnostics, one tag without a path, one whose path is too short;*)
(*  - "startup", "plain": every opcua object of a project and up to        *)
(*    MaxFlags flags, in builds with and without encryption.  The library  *)
(*    offers each policy with both secured modes, and the open endpoint;   *)
(*  - "cli": command lines of up to four arguments, with one or two        *)
(*    options of each kind.  "50x" is 50 for std::stoi;                    *)
(*  - "monitor": opc-monitor, with the good and the bad forms of its       *)
(*    commands.                                                            *)
(* What a behaviour is not about rests in its initial state.               *)
(***************************************************************************)
EXTENDS MCWriteQueue, FiniteSetsExt

CONSTANTS
  Sessions, Numeric,   \* session ids the library issues, and those that are numeric
  MaxFlags

VARIABLES
  about,
  server, nodes, folder_ids, tag_node_ids, next_id, todo, phase, pump, callback, hooked,   \* of UaServer
  activating, sessions, vetted, active, gauge, starts, failedStarts, failures,
  stage, opts, file, opcua, pki, ua_server, entry, exit,               \* of Startup
  argv, i, parsed,                                                     \* of Cli
  lines, input_closed, commands, worker, client, items, contexts,      \* of Monitor
  session, made, told, faults

serverVars == <<server, nodes, folder_ids, tag_node_ids, next_id, todo, phase, pump, callback, hooked,
                activating, sessions, vetted, active, gauge, starts, failedStarts, failures>>
startupVars == <<stage, opts, file, opcua, pki, ua_server, entry, exit>>
cliVars == <<argv, i, parsed>>
monitorVars == <<lines, input_closed, commands, worker, client, items, contexts,
                 session, made, told, faults>>

MCProjects == {<<"t1", "t2", "t3", "t4">>, <<"t2", "t5">>}
MCNodePath ==
  [t1 |-> <<"Plant", "Pump", "Speed">>, t2 |-> <<"Line", "Pump", "Speed">>,
   t3 |-> <<"OPC_SERVER", "Level">>, t4 |-> <<>>, t5 |-> <<"Speed">>]

Server == INSTANCE UaServer WITH
            Projects <- MCProjects, NodePath <- MCNodePath, MaxStarts <- 3, MaxFailures <- 2

-----------------------------------------------------------------------------
Files ==
  LET objects(modes, consents) ==
        [mode : modes, users : BOOLEAN, certificate : BOOLEAN, anonymous : {"absent", "yes", "no"},
         none_password : consents, none_certificate : consents]
  IN objects({"None"}, BOOLEAN) \cup objects({"Sign", "SignAndEncrypt"}, {FALSE})
StartFlags ==
  {"errors", "--help", "--no-opcua", "--once", "--runtime-doctor", "--ua-strict-certs",
   "--ua-accept-untrusted", "--ua-user", "--ua-deny-anonymous", "--ua-allow-anonymous",
   "--ua-allow-none-password", "--ua-allow-certificate-identity", "--ua-allow-none-certificate"}
CommandLines == UNION {kSubset(n, StartFlags) : n \in 0..MaxFlags}
DefaultEndpoints ==
  <<[mode |-> "None", policy |-> "None"],
    [mode |-> "Sign", policy |-> "Aes128Sha256RsaOaep"],
    [mode |-> "SignAndEncrypt", policy |-> "Aes128Sha256RsaOaep"],
    [mode |-> "Sign", policy |-> "Basic256Sha256"],
    [mode |-> "SignAndEncrypt", policy |-> "Basic256Sha256"]>>

Encrypting == INSTANCE Startup WITH encryption_built <- TRUE, server <- ua_server, hooks <- entry
Plain == INSTANCE Startup WITH encryption_built <- FALSE, server <- ua_server, hooks <- entry

-----------------------------------------------------------------------------
Flags == {"--once", "--help"}
PathOptions == {"--project"}
ListOptions == {"--ua-trust"}
EnumOptions == {"--log-level"}
EnumValues == {"warn"}
Users == {"u:p"}
Number == [a \in {"0", "50x"} |-> IF a = "0" THEN 0 ELSE 50]
Arguments ==
  {"--once", "--project", "--ua-trust", "--log-level", "--ua-user", "--period-ms",
   "--historian-capacity", "warn", "u:p", "0", "50x"}

CommandLine == INSTANCE Cli WITH MaxArguments <- 4, opts <- parsed

-----------------------------------------------------------------------------
Command(name) ==
  [command |-> name, endpoint |-> TRUE, profile |-> "plain", key |-> "k1"]

\* Studio sends null for a path that is not given.
Commands ==
  {Command(n) : n \in {"connect", "browse", "disconnect", "shutdown", "other"}}
  \cup {[Command("connect") EXCEPT !.endpoint = FALSE]}
  \cup {[Command("connect") EXCEPT !.profile = p] : p \in {"half", "null"}}
  \cup {[Command(n) EXCEPT !.key = k] : n \in {"subscribe", "unsubscribe"}, k \in {"k1", "k2"}}

Mon == INSTANCE Monitor WITH MaxLines <- 3, MaxFaults <- 2

-----------------------------------------------------------------------------
NotStarted == opts = {} /\ file = (CHOOSE f \in Files : TRUE) /\ Encrypting!Init
NoArguments == argv = <<>> /\ CommandLine!Init

RunInit ==
  /\ Init /\ Server!Init /\ Mon!Init
  /\ about = "writes" \/ ~bound
  /\ \/ about \in {"writes", "server", "monitor"} /\ NotStarted /\ NoArguments
     \/ about = "startup" /\ Encrypting!Init /\ NoArguments
     \/ about = "plain" /\ Encrypting!Init /\ Cardinality(opts) <= 1 /\ NoArguments
     \/ about = "cli" /\ NotStarted /\ CommandLine!Init

RunNext ==
  /\ UNCHANGED about
  /\ \/ about = "writes" /\ Next /\ UNCHANGED <<serverVars, startupVars, cliVars, monitorVars>>
     \/ about = "server" /\ Server!Next /\ UNCHANGED <<vars, startupVars, cliVars, monitorVars>>
     \/ /\ \/ about = "startup" /\ Encrypting!Next
           \/ about = "plain" /\ Plain!Next
        /\ UNCHANGED <<vars, serverVars, cliVars, monitorVars>>
     \/ about = "cli" /\ CommandLine!Next /\ UNCHANGED <<vars, serverVars, startupVars, monitorVars>>
     \/ about = "monitor" /\ Mon!Next /\ UNCHANGED <<vars, serverVars, startupVars, cliVars>>

\* The fairness of WriteQueue and of Monitor.
RunSpec ==
  /\ RunInit /\ [][RunNext]_<<about, vars, serverVars, startupVars, cliVars, monitorVars>>
  /\ WF_vars(about = "writes" /\ bind_transport) /\ WF_vars(about = "writes" /\ FlushStep)
  /\ WF_monitorVars(about = "monitor" /\ Mon!Worker)
  /\ WF_monitorVars(Mon!TimePasses)

-----------------------------------------------------------------------------
(* A bound tag is the variable its nodePath names in the running server,   *)
(* and unless a start failed in add_diagnostics the map of folders knows   *)
(* only folders of that server, whatever failed starts, failed binds and   *)
(* restarts came before.                                                   *)
AddressSpaceTrue == Server!TagsAtTheirPath /\ Server!FoldersAreLive

(* No session becomes active without the verdict of the original           *)
(* activateSession; and the gauge counts every active session with a       *)
(* numeric id and never more than are active, whatever races with the      *)
(* installing and the restoring of the hooks.                              *)
SessionsVetted == Server!NoUncheckedSession /\ Server!GaugeCountsNumeric

(* "ua_sessions | gauge | active sessions" (DOCs/adr/0008-observability.md,*)
(* line 30): the gauge is the number of active sessions, whatever the      *)
(* library uses for session ids (session_key).                             *)
GaugeCountsSessions == Server!GaugeCountsSessions

(* The options mean what was written on the command line, with one error   *)
(* for each thing that is wrong.  A server listens only with the           *)
(* endpoints, the kinds of session and the trust that the project and the  *)
(* command line ask for together, in a build with encryption and in one    *)
(* without; and whichever step of its start fails, nothing stays behind.   *)
ServedAsAsked ==
  /\ CommandLine!OptionsAsWritten /\ CommandLine!ErrorsExact
  /\ IF about = "plain" THEN Plain!EndpointsAsAsked ELSE Encrypting!EndpointsAsAsked
  /\ Encrypting!TokensAsAsked /\ Encrypting!NoneNeedsConsent
  /\ Encrypting!CertificatesChecked /\ Encrypting!LeavesNothing

(* opc-monitor: no callback gets a pointer to a destroyed Item, what the   *)
(* client believes is monitored is what the server monitors, Studio was    *)
(* told last whether it is connected, and the worker leaves only after     *)
(* every command that was read.                                            *)
MonitorAgrees == Mon!NoDangling /\ Mon!ItemsAreServed /\ Mon!StatusTold /\ Mon!NoCommandLost

(* A client that is to be connected reconnects once the server lets it,    *)
(* and opc-monitor ends after its input has ended.                         *)
MonitorGoesOn == Mon!Reconnects /\ Mon!Exits
=============================================================================

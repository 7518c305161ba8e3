------------------------------ MODULE Startup ------------------------------
(***************************************************************************)
(* From the command line and the project to a listening OPC UA server:     *)
(* main.cpp, Application::init and run (app/application.cpp), the opcua    *)
(* part of project/load.cpp, OpcUaServer::start with its helpers           *)
(* (adapters/opc_ua_server.cpp) and the certificates of ua_pki.cpp.        *)
(*                                                                         *)
(* Each stage may fail; which ones do depends on files and libraries and   *)
(* is free here.  The exit code is -1 while the program runs.              *)
(***************************************************************************)
EXTENDS Integers, Sequences, SequencesExt, FiniteSets

CONSTANTS
  CommandLines,      \* sets of the flags given
  Files,             \* opcua objects of projects, see Init
  DefaultEndpoints,  \* what setDefaultWithSecurityPolicies creates
  encryption_built   \* whether open62541 has UA_ENABLE_ENCRYPTION

VARIABLES
  stage,
  opts,       \* the flags given
  file,       \* the opcua object of the project file
  opcua,      \* project.opcua in force
  pki,        \* OpcUaSecurityOptions: [trust, accept_untrusted]
  server,     \* server_ and its configuration
  hooks,      \* whether g_session_hooks has an entry for it
  exit

vars == <<stage, opts, file, opcua, pki, server, hooks, exit>>

Unset == "unset"
NoServer == [open |-> FALSE, endpoints |-> <<>>, channel |-> Unset, session |-> Unset,
             access |-> {}, none_password |-> FALSE]

Init ==
  /\ stage = "init"
  /\ opts \in CommandLines
  /\ file \in Files
  /\ opcua = file
  /\ pki = [trust |-> "none", accept_untrusted |-> FALSE]
  /\ server = NoServer /\ hooks = FALSE
  /\ exit = -1

On(flag) == flag \in opts

Leave(code) ==
  /\ stage' = "exited" /\ exit' = code
  /\ UNCHANGED <<opts, file, opcua, pki>>

Go(next) == stage' = next /\ UNCHANGED <<opts, file, exit>>

-----------------------------------------------------------------------------
(* Application::init.                                                      *)

\* init returned false: main asks for the reason once more.
init_fails ==
  /\ stage \in {"init", "resources"}
  /\ Leave(IF On("--help") \/ On("--version") THEN 0 ELSE 2)
  /\ UNCHANGED <<server, hooks>>

\* load: the anonymous default follows the identities unless it is given.
parse_identity(f) ==
  [f EXCEPT !.anonymous = IF @ # "absent" THEN @
                          ELSE IF f.users \/ f.certificate THEN "no" ELSE "yes"]

load ==
  /\ stage = "init"
  /\ opts \cap {"errors", "--help", "--version"} = {}
  /\ opcua' = parse_identity(file)
  /\ Go("overlay")
  /\ UNCHANGED <<pki, server, hooks>>

OverlayFlags == {"--ua-user", "--ua-deny-anonymous", "--ua-allow-anonymous", "--ua-allow-none-password",
                 "--ua-allow-certificate-identity", "--ua-allow-none-certificate"}

\* The command line's word on anonymous sessions; allow is applied last.
AnonymousAfter ==
  IF On("--ua-allow-anonymous") THEN "yes"
  ELSE IF On("--ua-deny-anonymous") THEN "no"
  ELSE IF \/ On("--ua-user") /\ ~opcua.users
          \/ On("--ua-allow-certificate-identity") /\ ~opcua.certificate
  THEN "no" ELSE opcua.anonymous

overlay ==
  /\ stage = "overlay"
  /\ opcua' = IF opts \cap OverlayFlags = {} THEN opcua
              ELSE [opcua EXCEPT !.users = @ \/ On("--ua-user"),
                                 !.anonymous = AnonymousAfter,
                                 !.none_password = @ \/ On("--ua-allow-none-password"),
                                 !.certificate = @ \/ On("--ua-allow-certificate-identity"),
                                 !.none_certificate = @ \/ On("--ua-allow-none-certificate")]
  /\ Go("resources")
  /\ UNCHANGED <<pki, server, hooks>>

Secure == opcua.mode # "None"

\* Strict certificates win; without a channel to secure all are accepted.
accept_untrusted ==
  IF On("--ua-strict-certs") THEN FALSE
  ELSE IF Secure THEN On("--ua-accept-untrusted") ELSE TRUE

\* The frame log and the historian are open; the server's options are chosen.
init_opcua ==
  /\ stage = "resources" /\ ~On("--no-opcua")
  /\ \E trust \in {"none", "readable", "unreadable"} :
       pki' = [trust |-> trust, accept_untrusted |-> accept_untrusted]
  /\ Go("start")
  /\ UNCHANGED <<opcua, server, hooks>>

init_plain ==
  /\ stage = "resources" /\ On("--no-opcua")
  /\ Go("running")
  /\ UNCHANGED <<opcua, pki, server, hooks>>

-----------------------------------------------------------------------------
(* OpcUaServer::start, called by ServerRuntime::start.                     *)

Requested == [mode |-> opcua.mode, policy |-> "Basic256Sha256"]

\* Compacts the array in place: the endpoints kept move to the front.
keep_security_endpoints(eps) ==
  LET step(a, k) ==
        IF a.eps[k] = Requested
        THEN [eps |-> [a.eps EXCEPT ![a.write + 1] = a.eps[k]], write |-> a.write + 1]
        ELSE a
      end == FoldLeft(step, [eps |-> eps, write |-> 0], [k \in 1..Len(eps) |-> k])
  IN SubSeq(end.eps, 1, end.write)

new_server ==
  /\ stage = "start"
  /\ Secure => encryption_built
  /\ server' = [server EXCEPT !.open = TRUE]
  /\ Go("configure")
  /\ UNCHANGED <<opcua, pki, hooks>>

configure_minimal ==
  /\ stage = "configure" /\ ~Secure
  /\ server' = [server EXCEPT !.endpoints = <<[mode |-> "None", policy |-> "None"]>>,
                              !.session = "default", !.channel = "default"]
  /\ Go("session")
  /\ UNCHANGED <<opcua, pki, hooks>>

\* The certificate is read or made; the policies, then only what was asked.
configure_encrypted ==
  /\ stage = "configure" /\ Secure
  /\ pki.trust # "unreadable"
  /\ keep_security_endpoints(DefaultEndpoints) # <<>>
  /\ LET verify == IF pki.accept_untrusted THEN "AcceptAll" ELSE "Trustlist" IN
     server' = [server EXCEPT !.endpoints = keep_security_endpoints(DefaultEndpoints),
                              !.session = verify, !.channel = verify]
  /\ Go("session")
  /\ UNCHANGED <<opcua, pki, hooks>>

\* The verification of user certificates; "fails" where the call does.
SessionPki ==
  CASE ~opcua.certificate -> Unset
    [] opcua.certificate /\ ~encryption_built -> "fails"
    [] opcua.certificate /\ encryption_built /\ ~Secure ->
         IF ~opcua.none_certificate THEN "fails"
         ELSE IF pki.accept_untrusted THEN "AcceptAll"
         ELSE IF pki.trust = "readable" THEN "Trustlist" ELSE "fails"
    [] opcua.certificate /\ encryption_built /\ Secure ->
         IF ~pki.accept_untrusted /\ pki.trust = "none" THEN "fails" ELSE server.session

configure_session_pki_for_identity ==
  /\ stage = "session"
  /\ SessionPki # "fails"
  /\ server' = [server EXCEPT !.session = SessionPki]
  /\ Go("identity")
  /\ UNCHANGED <<opcua, pki, hooks>>

Customized == opcua.users \/ opcua.anonymous = "no" \/ opcua.certificate
PlainPassword == opcua.users /\ ~Secure

\* What UA_AccessControl_default is given.
TokenPolicies ==
  (IF opcua.anonymous = "yes" THEN {"anonymous"} ELSE {}) \cup
  (IF opcua.users THEN {"username"} ELSE {}) \cup
  (IF opcua.certificate THEN {"certificate"} ELSE {})

\* The token policies of the server; then install_session_hooks.
apply_identity_access_control ==
  /\ stage = "identity"
  /\ Customized => /\ PlainPassword => opcua.none_password
                   /\ opcua.certificate => server.session # Unset
  /\ server' = [server EXCEPT
       !.access = IF Customized THEN TokenPolicies ELSE {"library"},
       !.none_password = Customized /\ PlainPassword]
  /\ hooks' = TRUE
  /\ Go("startup")
  /\ UNCHANGED <<opcua, pki>>

\* UA_Server_run_startup, then the diagnostics nodes: start returns.
run_startup ==
  /\ stage = "startup"
  /\ Go("bind")
  /\ UNCHANGED <<opcua, pki, server, hooks>>

bind_tags ==
  /\ stage = "bind"
  /\ Go("running")
  /\ UNCHANGED <<opcua, pki, server, hooks>>

\* OpcUaServer::stop.
stop ==
  /\ server' = NoServer
  /\ hooks' = IF server.open THEN FALSE ELSE hooks

\* start returns an error before the hooks are installed: the server, if there
\* is one, is deleted, and the stop() of ServerRuntime finds none.
start_refused ==
  /\ stage \in {"start", "configure", "session", "identity"}
  /\ server' = NoServer /\ UNCHANGED hooks
  /\ Leave(1)

\* Mutated form: the hooks stay installed.
startup_fails_keeping_hooks ==
  /\ stage = "startup"
  /\ server' = NoServer /\ UNCHANGED hooks
  /\ Leave(1)

\* run_startup or add_diagnostics fails: the hooks are uninstalled first.
startup_fails ==
  /\ stage = "startup"
  /\ server' = NoServer /\ hooks' = FALSE
  /\ Leave(1)

\* bind_tags fails: ServerRuntime stops the server that runs.
bind_fails ==
  /\ stage = "bind"
  /\ stop
  /\ Leave(1)

-----------------------------------------------------------------------------
(* Application::run once the runtime has started.                          *)

run_once ==
  /\ stage = "running" /\ On("--once")
  /\ stop
  /\ \E errors \in BOOLEAN : Leave(IF On("--runtime-doctor") /\ errors THEN 1 ELSE 0)

\* The reactor could not start, or ran until a signal.
run_reactor ==
  /\ stage = "running" /\ ~On("--once")
  /\ stop
  /\ \E started \in BOOLEAN : Leave(IF started THEN 0 ELSE 1)

Next ==
  \/ init_fails \/ load \/ overlay \/ init_opcua \/ init_plain
  \/ new_server \/ configure_minimal \/ configure_encrypted
  \/ configure_session_pki_for_identity \/ apply_identity_access_control
  \/ run_startup \/ bind_tags \/ start_refused \/ startup_fails \/ bind_fails
  \/ run_once \/ run_reactor

Spec == Init /\ [][Next]_vars

-----------------------------------------------------------------------------
(* What was asked for, from the file and the command line alone.           *)

Listening == stage \in {"bind", "running"} /\ server.open

AskedUsers == file.users \/ On("--ua-user")
AskedCertificate == file.certificate \/ On("--ua-allow-certificate-identity")
AddsFirst == \/ On("--ua-user") /\ ~file.users
             \/ On("--ua-allow-certificate-identity") /\ ~file.certificate

AskedAnonymous ==
  CASE On("--ua-allow-anonymous") -> TRUE
    [] ~On("--ua-allow-anonymous") /\ On("--ua-deny-anonymous") -> FALSE
    [] OTHER -> ~AddsFirst /\ IF file.anonymous = "absent" THEN ~AskedUsers /\ ~AskedCertificate
                              ELSE file.anonymous = "yes"

(* A listening server offers exactly the kinds of session that the project *)
(* and the command line ask for together: anonymous ones by default only   *)
(* where nobody configured an identity.                                    *)
TokensAsAsked ==
  Listening =>
    server.access = IF AskedUsers \/ AskedCertificate \/ ~AskedAnonymous
                    THEN {t \in {"anonymous", "username", "certificate"} :
                            CASE t = "anonymous" -> AskedAnonymous
                              [] t = "username" -> AskedUsers
                              [] t = "certificate" -> AskedCertificate}
                    ELSE {"library"}

(* No endpoint but those of the mode asked for: a server asked to sign or  *)
(* encrypt never falls back, whatever the build and the policies allow.    *)
EndpointsAsAsked ==
  Listening =>
    LET wanted(e) == e = [mode |-> file.mode, policy |-> "Basic256Sha256"] IN
    /\ server.endpoints # <<>>
    /\ file.mode = "None" => server.endpoints = <<[mode |-> "None", policy |-> "None"]>>
    /\ file.mode # "None" => encryption_built /\ server.endpoints = SelectSeq(DefaultEndpoints, wanted)

(* Passwords and user certificates travel over an open channel only with   *)
(* the consent that the project or the command line gives.                 *)
NoneNeedsConsent ==
  Listening /\ file.mode = "None" =>
    /\ "username" \in server.access => file.none_password \/ On("--ua-allow-none-password")
    /\ "certificate" \in server.access => file.none_certificate \/ On("--ua-allow-none-certificate")

(* On a secured channel every certificate is accepted only where the       *)
(* command line asks for it, and never with --ua-strict-certs; otherwise   *)
(* only trusted ones are.  User certificates are checked the same way, and *)
(* not at all where they are no identity.  On an open channel only         *)
(* --ua-strict-certs has them checked against --ua-trust: without it all   *)
(* are accepted, whatever list is given.                                   *)
CertificatesChecked ==
  Listening =>
    /\ file.mode # "None" =>
         server.channel = IF On("--ua-accept-untrusted") /\ ~On("--ua-strict-certs")
                          THEN "AcceptAll" ELSE "Trustlist"
    /\ server.session = IF ~AskedCertificate THEN Unset
                        ELSE IF file.mode # "None" THEN server.channel
                        ELSE IF On("--ua-strict-certs") THEN "Trustlist" ELSE "AcceptAll"
    /\ server.session = "Trustlist" => pki.trust = "readable"

(* Whichever step of start fails, the table of session hooks has no entry  *)
(* for a server that is gone, and no server outlives the program's run.    *)
LeavesNothing ==
  /\ hooks => server.open
  /\ stage = "exited" => ~server.open
=============================================================================

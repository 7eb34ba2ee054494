------------------------------ MODULE FeishuSetup ------------------------------
(***************************************************************************)
(* The connection of an organisation with its Feishu application:          *)
(* feishu-config, feishu-client and feishu-auto-config of backend/src/     *)
(* feishu, and FeishuConfigTab of the frontend.                            *)
(*   The tab saves an application with its secret; the services that talk  *)
(* to Feishu take a client from a cache that a save clears and that lives  *)
(* for five minutes; the tab's wizard lets the backend configure the       *)
(* application in three steps.  The steps of the wizard can be walked in   *)
(* any order, so each button of it is enabled whenever the wizard is open. *)
(*   The test of the connection, the scopes and the logs, which only show  *)
(* something, and the token of the webhooks are left out.                  *)
(***************************************************************************)
EXTENDS Naturals, FiniteSets

CONSTANTS
  Consoles,        \* open tabs
  Apps,            \* applications in Feishu; each has a secret of its own
  Callers,         \* calls of getClient
  MaxSaves,        \* bound: saves
  MaxSetupErrors,  \* bound: queries and requests that fail
  NoSetup, NoClient, NoCaller, NoSave, NoAuto

VARIABLES
  setup,      \* the row of feishu_configs, or NoSetup
  client,     \* the client in the cache, or NoClient
  caller,     \* [Callers -> the row that was read, or NoCaller]
  console,    \* [Consoles -> what the tab shows]
  save,       \* [Consoles -> the save in flight, or NoSave]
  auto,       \* [Consoles -> the automatic configuration in flight, or NoAuto]
  configured, \* [Apps -> steps that Feishu has carried out]
  saves, setupErrors

setupVars == <<setup, client, caller, console, save, auto, configured, saves, setupErrors>>

\* What an empty field for the secret is sent as.
Unchanged == "(unchanged)"
Steps == <<"webhook", "events", "contacts_range">>
Setup == [app : Apps, secret : Apps \cup {Unchanged}, enabled : BOOLEAN]

\* History: stale where a save was written after the row was read.
SetupRead == [of : Setup, stale : BOOLEAN]
Console == [mode : {"loading", "wizard", "dashboard"}, hasSecret : BOOLEAN,
            succeeded : Apps \cup {NoSetup}]
Save == [at : {"find", "write", "clear"}, dto : Setup, found : BOOLEAN]
AutoRun == [step : 1 .. 3, app : Apps \cup {NoSetup}, failed : BOOLEAN, changed : BOOLEAN]

ASSUME SetupAssumption ==
  MaxSaves \in Nat /\ MaxSetupErrors \in Nat /\ NoSave \notin Save

SetupTypeOK ==
  /\ setup \in Setup \cup {NoSetup}
  /\ client \in SetupRead \cup {NoClient}
  /\ caller \in [Callers -> SetupRead \cup {NoCaller}]
  /\ console \in [Consoles -> Console]
  /\ save \in [Consoles -> Save \cup {NoSave}]
  /\ auto \in [Consoles -> AutoRun \cup {NoAuto}]
  /\ configured \in [Apps -> SUBSET {"webhook", "events", "contacts_range"}]
  /\ saves \in 0 .. MaxSaves /\ setupErrors \in 0 .. MaxSetupErrors

SetupInit ==
  /\ setup = NoSetup /\ client = NoClient
  /\ caller = [c \in Callers |-> NoCaller]
  /\ console = [p \in Consoles |->
       [mode |-> "loading", hasSecret |-> FALSE, succeeded |-> NoSetup]]
  /\ save = [p \in Consoles |-> NoSave]
  /\ auto = [p \in Consoles |-> NoAuto]
  /\ configured = [a \in Apps |-> {}]
  /\ saves = 0 /\ setupErrors = 0

SetupFails ==
  /\ setupErrors < MaxSetupErrors
  /\ setupErrors' = setupErrors + 1

-----------------------------------------------------------------------------
(* feishu-client.service.ts                                                 *)

\* getClient finds nothing in the cache and reads the row, if that is enabled.
ReadSetup(c) ==
  /\ client = NoClient /\ caller[c] = NoCaller
  /\ setup # NoSetup /\ setup.enabled
  /\ caller' = [caller EXCEPT ![c] = [of |-> setup, stale |-> FALSE]]
  /\ UNCHANGED <<setup, client, console, save, auto, configured, saves, setupErrors>>

CacheClient(c) ==
  /\ caller[c] # NoCaller
  /\ client' = caller[c]
  /\ caller' = [caller EXCEPT ![c] = NoCaller]
  /\ UNCHANGED <<setup, console, save, auto, configured, saves, setupErrors>>

\* CACHE_TTL_MS have passed: the next call reads again.
ClientExpires ==
  /\ client # NoClient
  /\ client' = NoClient
  /\ UNCHANGED <<setup, caller, console, save, auto, configured, saves, setupErrors>>

-----------------------------------------------------------------------------
(* FeishuConfigTab and the configuration                                    *)

\* loadConfig, when the tab is opened: without a row the tab starts with the wizard.
LoadConfig(p) ==
  /\ console[p].mode = "loading"
  /\ console' = [console EXCEPT ![p] =
       IF setup = NoSetup THEN [@ EXCEPT !.mode = "wizard"]
       ELSE [@ EXCEPT !.mode = "dashboard", !.hasSecret = TRUE]]
  /\ UNCHANGED <<setup, client, caller, save, auto, configured, saves, setupErrors>>

LoadConfigFails(p) ==
  /\ console[p].mode = "loading" /\ SetupFails
  /\ console' = [console EXCEPT ![p].mode = "wizard"]
  /\ UNCHANGED <<setup, client, caller, save, auto, configured, saves>>

SwitchToWizard(p) ==
  /\ console[p].mode = "dashboard"
  /\ console' = [console EXCEPT ![p].mode = "wizard"]
  /\ UNCHANGED <<setup, client, caller, save, auto, configured, saves, setupErrors>>

FinishWizard(p) ==
  /\ console[p].mode = "wizard"
  /\ console' = [console EXCEPT ![p].mode = "dashboard"]
  /\ UNCHANGED <<setup, client, caller, save, auto, configured, saves, setupErrors>>

\* Another page and back, when no call is in flight: the tab is mounted again.
LeaveConsole(p) ==
  /\ console[p].mode # "loading" /\ save[p] = NoSave /\ auto[p] = NoAuto
  /\ console' = [console EXCEPT ![p] =
       [mode |-> "loading", hasSecret |-> FALSE, succeeded |-> NoSetup]]
  /\ UNCHANGED <<setup, client, caller, save, auto, configured, saves, setupErrors>>

\* saveManualConfig: the secret may stay empty when one is known to be stored.
SaveManualConfig(p, a, secret, enabled) ==
  /\ console[p].mode = "wizard" /\ save[p] = NoSave /\ saves < MaxSaves
  /\ secret = a \/ (secret = Unchanged /\ console[p].hasSecret)
  /\ save' = [save EXCEPT ![p] =
       [at |-> "find", dto |-> [app |-> a, secret |-> secret, enabled |-> enabled], found |-> FALSE]]
  /\ saves' = saves + 1
  /\ UNCHANGED <<setup, client, caller, console, auto, configured, setupErrors>>

SaveAt(p, at) == save[p] # NoSave /\ save[p].at = at

\* saveConfig: findOne
FindSetup(p) ==
  /\ SaveAt(p, "find")
  /\ save' = [save EXCEPT ![p].at = "write", ![p].found = setup # NoSetup]
  /\ UNCHANGED <<setup, client, caller, console, auto, configured, saves, setupErrors>>

\* Clients and configurations that were read before go on with what they have read.
Outdated(read) == [of |-> read.of, stale |-> TRUE]

\* saveConfig: save
WriteSetup(p) ==
  /\ SaveAt(p, "write")
  /\ save[p].found \/ setup = NoSetup
  /\ setup' = save[p].dto
  /\ caller' = [c \in Callers |-> IF caller[c] = NoCaller THEN NoCaller ELSE Outdated(caller[c])]
  /\ auto' = [q \in Consoles |->
       IF auto[q] = NoAuto THEN NoAuto ELSE [auto[q] EXCEPT !.changed = TRUE]]
  /\ save' = [save EXCEPT ![p].at = "clear"]
  /\ UNCHANGED <<client, console, configured, saves, setupErrors>>

\* A second first save meets the unique tenantId.
SetupTaken(p) ==
  /\ SaveAt(p, "write")
  /\ ~save[p].found /\ setup # NoSetup
  /\ save' = [save EXCEPT ![p] = NoSave]
  /\ UNCHANGED <<setup, client, caller, console, auto, configured, saves, setupErrors>>

\* Defect: the cache is left alone.
CacheLeft == client

ClearCache == NoClient

\* saveConfig clears the cache and answers; the answer does not tell of a secret.
SaveAnswered(p) ==
  /\ SaveAt(p, "clear")
  /\ client' = ClearCache
  /\ console' = [console EXCEPT ![p].hasSecret = FALSE]
  /\ save' = [save EXCEPT ![p] = NoSave]
  /\ UNCHANGED <<setup, caller, auto, configured, saves, setupErrors>>

SaveSetupFails(p) ==
  /\ SaveAt(p, "find") \/ SaveAt(p, "write")
  /\ SetupFails
  /\ save' = [save EXCEPT ![p] = NoSave]
  /\ UNCHANGED <<setup, client, caller, console, auto, configured, saves>>

-----------------------------------------------------------------------------
(* feishu-auto-config.service.ts                                            *)

\* runAutoConfig
RunAutoConfig(p) ==
  /\ console[p].mode = "wizard" /\ auto[p] = NoAuto
  /\ console' = [console EXCEPT ![p].succeeded = NoSetup]
  /\ auto' = [auto EXCEPT ![p] = [step |-> 1, app |-> NoSetup, failed |-> FALSE, changed |-> FALSE]]
  /\ UNCHANGED <<setup, client, caller, save, configured, saves, setupErrors>>

\* The steps' results after a step that went well or not; after the last one the tab shows
\* them.  History: succeeded is the application that was green throughout.
AutoStepDone(p, ok) ==
  LET failed == auto[p].failed \/ ~ok IN
  IF auto[p].step < 3
  THEN /\ auto' = [auto EXCEPT ![p].step = @ + 1, ![p].app = NoSetup, ![p].failed = failed]
       /\ UNCHANGED console
  ELSE /\ auto' = [auto EXCEPT ![p] = NoAuto]
       /\ console' = [console EXCEPT ![p].succeeded =
            IF failed \/ auto[p].changed THEN NoSetup ELSE setup.app]

\* Feishu knows the application by its secret.
HasToken == setup # NoSetup /\ setup.secret = setup.app

\* getTokenAndAppId: every step reads the row again.
GetToken(p) ==
  /\ auto[p] # NoAuto /\ auto[p].app = NoSetup
  /\ HasToken
  /\ auto' = [auto EXCEPT ![p].app = setup.app]
  /\ UNCHANGED <<setup, client, caller, console, save, configured, saves, setupErrors>>

NoToken(p) ==
  /\ auto[p] # NoAuto /\ auto[p].app = NoSetup
  /\ ~HasToken
  /\ AutoStepDone(p, FALSE)
  /\ UNCHANGED <<setup, client, caller, save, configured, saves, setupErrors>>

\* configureWebhook, configureEventSubscriptions, configureContactsRange
Configure(p) ==
  /\ auto[p] # NoAuto /\ auto[p].app # NoSetup
  /\ configured' = [configured EXCEPT ![auto[p].app] = @ \cup {Steps[auto[p].step]}]
  /\ AutoStepDone(p, TRUE)
  /\ UNCHANGED <<setup, client, caller, save, saves, setupErrors>>

\* Defect: a step that Feishu refuses counts as done.
RefusalCounts == TRUE

RefusalCounted == FALSE

\* Feishu refuses the step: the next one is tried nevertheless.
ConfigureFails(p) ==
  /\ auto[p] # NoAuto /\ auto[p].app # NoSetup
  /\ SetupFails
  /\ AutoStepDone(p, RefusalCounted)
  /\ UNCHANGED <<setup, client, caller, save, configured, saves>>

ConsoleSteps(p) ==
  \/ LoadConfig(p) \/ LoadConfigFails(p) \/ SwitchToWizard(p) \/ FinishWizard(p) \/ LeaveConsole(p)
  \/ \E a \in Apps, s \in Apps \cup {Unchanged}, e \in BOOLEAN : SaveManualConfig(p, a, s, e)
  \/ FindSetup(p) \/ WriteSetup(p) \/ SetupTaken(p) \/ SaveAnswered(p) \/ SaveSetupFails(p)
  \/ RunAutoConfig(p) \/ GetToken(p) \/ NoToken(p) \/ Configure(p) \/ ConfigureFails(p)

SetupNext ==
  \/ \E c \in Callers : ReadSetup(c) \/ CacheClient(c)
  \/ ClientExpires
  \/ \E p \in Consoles : ConsoleSteps(p)

SetupSpec == SetupInit /\ [][SetupNext]_setupVars

-----------------------------------------------------------------------------
(* Properties                                                               *)

\* The client that the services share belongs to the row as it is now, and to an enabled
\* one, unless it was made from a row that a save overtook, or a save is about to clear it.
ClientIsCurrent ==
  client # NoClient =>
    \/ client.stale
    \/ \E p \in Consoles : SaveAt(p, "clear")
    \/ setup # NoSetup /\ setup.enabled /\ client.of = setup

\* Three green steps mean that one application has carried out all three, when no save
\* came in between.
GreenIsConfigured ==
  \A p \in Consoles :
    console[p].succeeded # NoSetup => Cardinality(configured[console[p].succeeded]) = 3

\* What an administrator sets up is what the backend works with: the client is the one of
\* the row, and an application that is shown as configured is.
SetupTakesEffect == ClientIsCurrent /\ GreenIsConfigured

=============================================================================

-------------------------------- MODULE Startup --------------------------------
(***************************************************************************)
(* Starting the workbench server: the operator's doctor command            *)
(* (saleswiki_runtime/__main__.py) and the start itself                    *)
(* (integrations/workbench/server.py, main and build_app_from_settings),   *)
(* on one machine whose vault people edit.                                 *)
(*                                                                         *)
(* The contracts under schemas/ load; the vault the server falls back on   *)
(* when none is configured is the one shipped with the code.               *)
(***************************************************************************)
EXTENDS RuntimeConfig

CONSTANTS
  Setups,    \* configuration, environment and machine the operator may be on
  Vaults,    \* what the configured vault may hold
  MaxEdits   \* bound on edits of the vault

VARIABLES
  setup,     \* the one of this behaviour
  vault,     \* the configured vault
  verdict,   \* what doctor said of setup and vault as they are
  server,    \* the workbench server
  vaultEdits

startVars == <<setup, vault, verdict, server, vaultEdits>>

ShippedVault == {"demo", "unmarked"}
Loopback == {"127.0.0.1", "::1", "localhost"}

NothingDone == verdict = "none" /\ server = "down" /\ vaultEdits = 0
StartInit == setup \in Setups /\ vault \in Vaults /\ NothingDone

--------------------------------------------------------------------------------
FixtureActive(s) ==
  \/ \E a \in s.adapters : a.enabled /\ a.identity = "fixture"
  \/ s.workbench.enabled /\ s.workbench.identity = "fixture"

FaultyDoctorClean(s) ==
  /\ s.root # "" /\ vault # NoVault
  /\ FixtureActive(s) => GuardPasses(vault, setup.override)
  /\ s.runtime # "" /\ setup.writable
  /\ \A a \in s.adapters : a.enabled => MissingSecrets(a, setup.present) = {}

\* _doctor finds nothing wrong.
DoctorClean(s) ==
  /\ s.root # "" /\ vault # NoVault
  /\ FixtureActive(s) => GuardPasses(vault, setup.override)
  /\ s.workbench.enabled /\ s.workbench.identity = "fixture" => ResolvesActor(setup.actor)
  /\ s.runtime # "" /\ setup.writable
  /\ \A a \in s.adapters : a.enabled => MissingSecrets(a, setup.present) = {}

\* The doctor command: exit codes 0, 1 and 2.
Doctor ==
  LET settings == Loaded(setup.option \/ setup.variable, setup.file, setup.rc, ~setup.option)
  IN  /\ verdict' = IF settings = {} THEN "invalid"
                    ELSE IF \A s \in settings : DoctorClean(s) THEN "clean" ELSE "failed"
      /\ UNCHANGED <<setup, vault, server, vaultEdits>>

\* _validate_origin, once more for each origin the configuration accepted.
ValidOrigin(o) ==
  /\ o.scheme \in {"http", "https"} /\ o.host # ""
  /\ ~o.userinfo /\ o.path \in {"", "/"} /\ ~o.query /\ ~o.fragment
  /\ o.port = NoPort \/ o.port \in Ports

IsLoopbackHost(host) == host \in Loopback

\* build_app_from_settings raises nothing.
BuildsApp(s) ==
  LET served == IF s.root = "" THEN ShippedVault ELSE vault
  IN  /\ s.workbench.enabled
      /\ s.profile = "demo" /\ s.workbench.identity = "fixture"
      /\ s.workbench.transport = "stdio"
      /\ IsLoopbackHost(s.workbench.host)
      /\ GuardPasses(served, setup.override) /\ IsDemoVault(served)
      /\ ResolvesActor(setup.actor)
      /\ \A o \in s.workbench.origins : ValidOrigin(o)

StartServer ==
  LET settings == Loaded(setup.option \/ setup.variable, setup.file, setup.rc, FALSE)
  IN  /\ server = "down"
      /\ server' = IF settings # {} /\ \A s \in settings : BuildsApp(s)
                   THEN "serving" ELSE "refused"
      /\ UNCHANGED <<setup, vault, verdict, vaultEdits>>

\* People edit the vault: what doctor said and what start refused is of the past.
EditVault ==
  /\ vaultEdits < MaxEdits
  /\ vault' \in Vaults \ {vault}
  /\ verdict' = "none"
  /\ server' = IF server = "refused" THEN "down" ELSE server
  /\ vaultEdits' = vaultEdits + 1
  /\ UNCHANGED setup

StartNext == Doctor \/ StartServer \/ EditVault

StartSpec == StartInit /\ [][StartNext]_startVars

--------------------------------------------------------------------------------
\* Three places check one configuration (config.py:307-349, __main__.py:40-80,
\* server.py:1046-1090).  An operator whom doctor tells that all is well can
\* start an enabled workbench with fixture identity; doctor does not look at the
\* bind address, and honours the override that the server does not.
DoctorPredictsStart ==
  verdict = "clean" /\ server = "refused" =>
    \A s \in Loaded(setup.option \/ setup.variable, setup.file, setup.rc, TRUE) :
      \/ ~s.workbench.enabled \/ s.workbench.identity # "fixture"
      \/ ~IsLoopbackHost(s.workbench.host)
      \/ setup.override
================================================================================

----------------------------- MODULE RuntimeConfig -----------------------------
(***************************************************************************)
(* The runtime configuration (saleswiki_runtime/config.py), the demo-vault *)
(* guard (vault_guard.py) and the fixture identity (identity.py), as       *)
(* operators over what they tell apart.                                    *)
(*                                                                         *)
(* A configuration file is the record of its fields, a missing key being   *)
(* its default.  Wrong is a value of a type TOML allows and the code does  *)
(* not.  A vault is the set of the markers of its cards.  Numbers are      *)
(* whole; a reference to a secret is the name of an environment variable.  *)
(***************************************************************************)
EXTENDS Integers, FiniteSets

CONSTANTS
  Wrong,     \* a value of the wrong type
  NoFile,    \* a path where there is no configuration file, or one not TOML
  NoVault,   \* a vault root that is not a directory
  EnvNames,  \* names that an environment variable may have
  Fixtures   \* the actors of the fixture identity provider

Profiles == {"demo", "pilot", "production"}
NoPort == -1
Ports == 1 .. 65535

IsString(v) == v # Wrong
IsBoolean(v) == v \in BOOLEAN
IsBetween(v, low, high) == v # Wrong /\ v \in low .. high
EnvRef(v) == v = "" \/ v \in EnvNames

\* _origin
ExactOrigin(o) ==
  /\ o.scheme \in {"http", "https"} /\ o.host # ""
  /\ ~o.userinfo /\ o.path \in {"", "/"} /\ ~o.query /\ ~o.fragment
  /\ o.port = NoPort \/ o.port \in Ports

\* _parse_adapter accepts this entry of chat.adapters.
AdapterAccepted(a) ==
  /\ IsString(a.provider) /\ a.provider # ""
  /\ IsBoolean(a.enabled)
  /\ a.poll # Wrong /\ a.poll > 0
  /\ IsString(a.identity) /\ IsString(a.conversation) /\ IsString(a.dm)
  /\ EnvRef(a.url) /\ EnvRef(a.user) /\ EnvRef(a.password) /\ EnvRef(a.token)
  /\ a.enabled /\ a.provider = "rocketchat" =>
       /\ a.url # "" /\ a.user # "" /\ a.password # ""
       /\ (a.conversation = "") # (a.dm = "")

FaultyWorkbenchAccepted(profile, w) ==
  /\ IsBoolean(w.enabled) /\ IsBoolean(w.switching)
  /\ IsBetween(w.port, 1, 65535) /\ IsBetween(w.timeout, 1, 30) /\ IsBetween(w.slots, 1, 8)
  /\ IsString(w.identity) /\ w.transport = "stdio" /\ IsString(w.host)
  /\ w.switching => profile = "demo" /\ w.identity = "fixture"
  /\ \A o \in w.origins : ExactOrigin(o)

\* The [workbench] table.
WorkbenchAccepted(profile, w) ==
  /\ IsBoolean(w.enabled) /\ IsBoolean(w.switching)
  /\ IsBetween(w.port, 1, 65535) /\ IsBetween(w.timeout, 1, 30) /\ IsBetween(w.slots, 1, 8)
  /\ IsString(w.identity) /\ w.transport = "stdio" /\ IsString(w.host)
  /\ w.enabled /\ profile # "demo" => w.identity # "fixture"
  /\ w.switching => profile = "demo" /\ w.identity = "fixture"
  /\ \A o \in w.origins : ExactOrigin(o)

\* parse_runtime_settings: the settings of an accepted file are its fields.
Parsed(file) ==
  IF /\ file # NoFile
     /\ file.version = 1 /\ file.profile \in Profiles
     /\ IsString(file.root) /\ IsString(file.runtime)
     /\ \A f \in file.features : IsBoolean(f)
     /\ IsString(file.trigger) /\ file.trigger # ""
     /\ \A a \in file.adapters : a # Wrong /\ AdapterAccepted(a)
     /\ file.profile # "demo" =>
          \A a \in file.adapters : a.enabled => a.identity # "fixture"
     /\ WorkbenchAccepted(file.profile, file.workbench)
  THEN {file} ELSE {}

DisabledWorkbench ==
  [enabled |-> FALSE, host |-> "127.0.0.1", port |-> 8787, identity |-> "fixture",
   transport |-> "stdio", origins |-> {}, timeout |-> 15, slots |-> 4, switching |-> FALSE]

\* _legacy_settings: what the RC_* variables say, if they suffice.
LegacySettings(rc) ==
  IF rc.url /\ rc.user /\ rc.pass /\ rc.channel # rc.dm /\ rc.poll # Wrong /\ rc.poll > 0
  THEN {[version |-> 1, profile |-> "demo", root |-> rc.root, runtime |-> rc.runtime,
         features |-> {FALSE}, trigger |-> "?", workbench |-> DisabledWorkbench,
         adapters |-> {[provider |-> "rocketchat", enabled |-> TRUE, identity |-> "fixture",
                        conversation |-> IF rc.channel THEN "channel" ELSE "",
                        dm |-> IF rc.dm THEN "user" ELSE "", poll |-> rc.poll,
                        url |-> "RC_URL", user |-> "RC_USER", password |-> "RC_PASS",
                        token |-> ""]}]}
  ELSE {}

\* load_runtime_settings
Loaded(selected, file, rc, allowLegacy) ==
  IF selected THEN Parsed(file) ELSE IF allowLegacy THEN LegacySettings(rc) ELSE {}

--------------------------------------------------------------------------------
\* is_demo_vault: no card is marked real or cannot be read, and one is marked demo.
IsDemoVault(vault) ==
  /\ vault # NoVault
  /\ vault \cap {"real", "unreadable"} = {} /\ "demo" \in vault

\* require_demo_vault
GuardPasses(vault, override) == override \/ IsDemoVault(vault)

\* FixtureIdentityProvider.resolve
ResolvesActor(actor) == actor \in Fixtures

\* AdapterSettings.missing_secret_refs
MissingSecrets(a, present) == ({a.url, a.user, a.password, a.token} \ {""}) \ present
================================================================================

------------------------------ MODULE MCWorkbench -------------------------------
(***************************************************************************)
(* Instances for TLC of what concerns the workbench: its pages, sessions   *)
(* and slots, one exchange in detail, the form of a quality review, and    *)
(* the start of the server.  They share nothing, so a behaviour is about   *)
(* one of them, which subject names.                                       *)
(***************************************************************************)
EXTENDS Workbench, WorkbenchWire, ReviewForm, Startup

CONSTANTS Subjects, t1, t2, ann, rep

VARIABLE subject

--------------------------------------------------------------------------------
(***************************************************************************)
(* Configurations: one that is good, the values its fields may have        *)
(* instead, and the machines it may be on.                                 *)
(***************************************************************************)
GoodOrigin == [scheme |-> "http", host |-> "localhost", userinfo |-> FALSE, path |-> "",
               query |-> FALSE, fragment |-> FALSE, port |-> 5173]
Origins == {GoodOrigin, [GoodOrigin EXCEPT !.path = "/app"], [GoodOrigin EXCEPT !.port = 0],
            [GoodOrigin EXCEPT !.path = "/", !.port = NoPort]}

GoodBench == [enabled |-> TRUE, host |-> "127.0.0.1", port |-> 8787, identity |-> "fixture",
              transport |-> "stdio", origins |-> {}, timeout |-> 15, slots |-> 4,
              switching |-> TRUE]
Benches ==
  {GoodBench, [GoodBench EXCEPT !.enabled = FALSE], [GoodBench EXCEPT !.switching = FALSE],
   [GoodBench EXCEPT !.identity = "oidc", !.switching = FALSE],
   [GoodBench EXCEPT !.host = "0.0.0.0"], [GoodBench EXCEPT !.transport = "http"],
   [GoodBench EXCEPT !.port = 0], [GoodBench EXCEPT !.slots = 9],
   [GoodBench EXCEPT !.timeout = Wrong]}
    \cup {[GoodBench EXCEPT !.origins = {o}] : o \in Origins}

Chat == [provider |-> "rocketchat", enabled |-> TRUE, identity |-> "fixture", conversation |-> "c",
         dm |-> "", poll |-> 2, url |-> "URL", user |-> "USER", password |-> "PASS", token |-> ""]
Adapters == {{}, {Chat}, {[Chat EXCEPT !.dm = "d"]}, {[Chat EXCEPT !.enabled = FALSE, !.url = ""]},
             {Chat, [Chat EXCEPT !.identity = "oidc"]}, {Wrong}, {[Chat EXCEPT !.poll = 0]}}

GoodFile == [version |-> 1, profile |-> "demo", root |-> "vault", runtime |-> "runtime",
             features |-> {TRUE, FALSE}, trigger |-> "?", adapters |-> {}, workbench |-> GoodBench]
BadFiles == {NoFile, [GoodFile EXCEPT !.version = 2], [GoodFile EXCEPT !.trigger = ""],
             [GoodFile EXCEPT !.features = {Wrong}], [GoodFile EXCEPT !.root = Wrong]}
ConfigFiles ==
  BadFiles \cup
  {[GoodFile EXCEPT !.profile = p, !.adapters = a, !.workbench = w, !.root = r, !.runtime = d] :
     p \in Profiles, a \in Adapters, w \in Benches, r \in {"", "vault"}, d \in {"", "runtime"}}

Rc == [url |-> TRUE, user |-> TRUE, pass |-> TRUE, channel |-> TRUE, dm |-> FALSE, poll |-> 2,
       root |-> "vault", runtime |-> "runtime"]
Rcs == {Rc, [Rc EXCEPT !.user = FALSE], [Rc EXCEPT !.dm = TRUE], [Rc EXCEPT !.poll = Wrong]}

Machine == [option |-> TRUE, variable |-> FALSE, file |-> GoodFile, rc |-> Rc, present |-> EnvNames,
            override |-> FALSE, actor |-> "known", writable |-> TRUE]
AllSetups ==
  {[Machine EXCEPT !.file = f, !.override = o, !.actor = a] :
     f \in ConfigFiles, o \in BOOLEAN, a \in {"known", "unknown"}}
  \cup {[Machine EXCEPT !.option = FALSE, !.variable = v, !.rc = r, !.present = s, !.writable = w] :
     v \in BOOLEAN, r \in Rcs, s \in {EnvNames, {"URL", "USER"}}, w \in BOOLEAN}

AllVaults == {NoVault, {}, {"demo", "unmarked"}, {"demo", "real"}}

--------------------------------------------------------------------------------
FirstAsk == Request("my-day", TRUE, TRUE, Plain(0), Plain(0), "approve")

benchVars == <<subject, wbVars, wireVars, formVars, startVars>>

\* What a behaviour is not about begins in one way.
BenchInit ==
  /\ subject \in Subjects
  /\ WbInit /\ (subject # "pages" => cookie = NoCookie)
  /\ FormInit /\ (subject # "form" => active = FALSE)
  /\ IF subject = "start" THEN StartInit ELSE setup = Machine /\ vault = {} /\ NothingDone
  /\ IF subject = "wire" THEN WireInit ELSE ask = FirstAsk /\ listed = FALSE /\ JustSent

BenchNext ==
  \/ subject = "pages" /\ WbNext /\ UNCHANGED <<subject, wireVars, formVars, startVars>>
  \/ subject = "wire" /\ WireNext /\ UNCHANGED <<subject, wbVars, formVars, startVars>>
  \/ subject = "form" /\ FormNext /\ UNCHANGED <<subject, wbVars, wireVars, startVars>>
  \/ subject = "start" /\ StartNext /\ UNCHANGED <<subject, wbVars, wireVars, formVars>>

BenchSpec == BenchInit /\ [][BenchNext]_benchVars /\ WbFairness
================================================================================

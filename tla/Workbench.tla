------------------------------- MODULE Workbench -------------------------------
(***************************************************************************)
(* The workbench in use: the pages of one browser (App.jsx and the clients *)
(* of graphClient.js), the handler threads of the workbench server         *)
(* (server.py), its sessions (sessions.py) and the MCP process it starts   *)
(* for every request that needs the gateway.                               *)
(*                                                                         *)
(* What is asked and answered is the matter of WorkbenchWire; here an      *)
(* answer is the person it was made for.  Of the panes, graph stands for   *)
(* those that are read again at a switch of person whatever the role,      *)
(* queue is read for reviewers only, and search, the matches of what was   *)
(* typed, is read when the text changes and at no other time: a switch of  *)
(* person leaves it as it is.  A fetch that an effect has begun may wait   *)
(* in the browser before it is sent.                                       *)
(***************************************************************************)
EXTENDS Integers, FiniteSets

CONSTANTS
  Tabs,        \* pages that are open
  Personas,    \* fixture persons
  Reviewers,   \* those who may review
  Default,     \* the person the server was started for
  Nobody,      \* no person known, or nothing shown
  MaxSessions, \* bound on sessions made
  Ended,       \* what is left of a session that has ended
  SlotCount,   \* max_concurrent_requests
  MaxRequests, \* bound on requests under way
  MaxClicks,   \* bound on what people do
  MaxMishaps   \* bound on answers lost and sessions ended

ASSUME WorkbenchAssumption ==
  /\ Reviewers \subseteq Personas /\ Default \in Personas
  /\ Nobody \notin Tabs \cup Personas \cup {Ended} /\ Ended \notin Personas
  /\ SlotCount \in Nat \ {0} /\ MaxRequests \in Nat /\ MaxSessions \in Nat \ {0}
  /\ MaxClicks \in Nat /\ MaxMishaps \in Nat

VARIABLES
  sessions,    \* the person of each live session; Nobody before it is created
  req,         \* the requests
  slots,       \* requests that hold a slot
  kids,        \* requests that have an MCP process
  cookie,      \* the browser's cookie
  label,       \* the person each page shows
  shown,       \* the person for whom each pane of it was read
  wanted,      \* fetches each page has begun and not sent
  latest,      \* the request whose answer each page waits for, by pane
  fooled,      \* pages that may be mistaken about the session's person
  clicks, mishaps   \* counters

serverVars == <<sessions, slots, kids>>
pageVars == <<cookie, label, shown, wanted, latest>>
counters == <<clicks, mishaps>>
wbVars == <<serverVars, req, pageVars, fooled, counters>>

Calls == 1 .. MaxRequests
Panes == {"graph", "queue", "search"}
Kinds == Panes \cup {"session", "switch", "decide"}
NoRequest == 0
Cookies == 1 .. MaxSessions
NoCookie == 0

Free == [tab |-> Nobody, kind |-> "graph", person |-> Nobody, cookie |-> NoCookie,
         at |-> "over", actor |-> Nobody, answer |-> "taken", moved |-> FALSE]

Exchanges ==
  [tab : Tabs \cup {Nobody}, kind : Kinds, person : Personas \cup {Nobody},
   cookie : Cookies \cup {NoCookie}, at : {"sent", "running", "failing", "over"},
   actor : Personas \cup {Nobody}, answer : {"none", "ok", "error", "taken"},
   moved : BOOLEAN]

WbTypeOK ==
  /\ sessions \in [Cookies -> Personas \cup {Nobody, Ended}]
  /\ req \in [Calls -> Exchanges]
  /\ slots \in SUBSET Calls /\ kids \in SUBSET Calls
  /\ cookie \in Cookies \cup {NoCookie}
  /\ label \in [Tabs -> Personas \cup {Nobody}]
  /\ shown \in [Tabs -> [Panes -> Personas \cup {Nobody}]]
  /\ wanted \in [Tabs -> SUBSET (Panes \cup {"session"})]
  /\ latest \in [Tabs -> [Kinds -> Calls \cup {NoRequest}]]
  /\ fooled \in SUBSET Tabs
  /\ clicks \in 0 .. MaxClicks /\ mishaps \in 0 .. MaxMishaps

\* The panes that a switch of person reads again, where the person has them.
OfPerson(p) == {"graph"} \cup (IF p \in Reviewers THEN {"queue"} ELSE {})

\* What the page has was read for the person it shows; nothing is searched for.
ReadFor(p) == [pane \in Panes |-> IF pane \in OfPerson(p) THEN p ELSE Nobody]

\* The pages of one session are open and loaded, or the browser comes anew.
WbInit ==
  /\ req = [r \in Calls |-> Free]
  /\ slots = {} /\ kids = {}
  /\ wanted = [t \in Tabs |-> {}]
  /\ latest = [t \in Tabs |-> [k \in Kinds |-> NoRequest]]
  /\ cookie \in {NoCookie, 1}
  /\ \E p \in Personas \cup {Nobody} :
       /\ p = Nobody <=> cookie = NoCookie
       /\ sessions = [c \in Cookies |-> IF c = cookie THEN p ELSE Nobody]
       /\ label = [t \in Tabs |-> p]
       /\ shown = [t \in Tabs |-> ReadFor(p)]
  /\ fooled = {}
  /\ clicks = 0 /\ mishaps = 0

Live(c) == c \in Cookies /\ sessions[c] \in Personas

FaultyWho(c) == Default

\* DemoSessionStore.resolve: an unknown or lapsed session is the default person's.
Who(c) == IF Live(c) THEN sessions[c] ELSE Default

UnderWay(t) == {r \in Calls : req[r].tab = t /\ req[r].answer # "taken"}

\* A request that the server is through with and for which no page waits is gone.
Rest(q) == IF q.at = "over" /\ q.answer = "taken" THEN Free ELSE q

--------------------------------------------------------------------------------
(***************************************************************************)
(* The page.                                                               *)
(***************************************************************************)
\* fetch with the cookie the browser has.
Send(t, kind, person) ==
  LET free == {r \in Calls : req[r] = Free}
      r == CHOOSE r \in free : TRUE
      moving == t \in fooled \/ \E s \in UnderWay(t) : req[s].kind = "switch"
  IN  /\ free # {}
      /\ req' = [req EXCEPT ![r] =
                   [Free EXCEPT !.tab = t, !.kind = kind, !.person = person,
                                !.cookie = cookie, !.at = "sent", !.answer = "none",
                                !.moved = kind = "decide" /\ moving]]
      /\ latest' = [latest EXCEPT ![t][kind] = r]
      /\ UNCHANGED <<serverVars, cookie>>

Click == clicks < MaxClicks /\ clicks' = clicks + 1 /\ UNCHANGED mishaps

FaultyBegun(t, person) == IF person \in Reviewers THEN {"queue"} ELSE {}

\* The effects that run again when the person on the page has become another:
\* reloadKey, dailyReloadKey, reviewReloadKey and canReview changed.
Begun(t, person) == OfPerson(person)

Blank(t, panes) ==
  shown' = [shown EXCEPT ![t] = [p \in Panes |-> IF p \in panes THEN Nobody ELSE @[p]]]

\* An effect that runs again shows that it loads.
Begin(t, panes) == wanted' = [wanted EXCEPT ![t] = @ \cup panes] /\ Blank(t, panes)

\* The page waits for the answers to these requests no longer.
Settle(t, rs) ==
  /\ req' = [r \in Calls |-> IF r \in rs THEN Rest([req[r] EXCEPT !.answer = "taken"]) ELSE req[r]]
  /\ latest' = [latest EXCEPT ![t] = [k \in Kinds |-> IF @[k] \in rs THEN NoRequest ELSE @[k]]]

Awaited(t, panes) == {latest[t][p] : p \in panes}

\* The page is opened, or reloaded: it knows nothing.
Open(t) ==
  /\ Click
  /\ label' = [label EXCEPT ![t] = Nobody]
  /\ wanted' = [wanted EXCEPT ![t] = {"session", "graph"}]
  /\ shown' = [shown EXCEPT ![t] = [p \in Panes |-> Nobody]]
  /\ Settle(t, UnderWay(t))
  /\ fooled' = fooled \ {t}
  /\ UNCHANGED <<serverVars, cookie>>

\* The matches of a search stay until the next one is sent.
Fetch(t) ==
  /\ \E kind \in wanted[t] :
       /\ Send(t, kind, Nobody)
       /\ wanted' = [wanted EXCEPT ![t] = @ \ {kind}]
       /\ Blank(t, {kind} \cap {"search"})
  /\ UNCHANGED <<label, fooled, counters>>

\* The graph is tried again; or another account is opened, which also empties the
\* search (retryState, changeAccount).
Navigate(t) ==
  /\ label[t] # Nobody
  /\ Click
  /\ \E emptied \in {{}, {"search"}} :
       /\ wanted' = [wanted EXCEPT ![t] = (@ \ emptied) \cup {"graph"}]
       /\ Blank(t, {"graph"} \cup emptied) /\ Settle(t, Awaited(t, {"graph"} \cup emptied))
  /\ UNCHANGED <<serverVars, cookie, label, fooled>>

\* The text of the search is another: it will be sent, or is too short to be.
Seek(t) ==
  /\ Click
  /\ \/ /\ wanted' = [wanted EXCEPT ![t] = @ \cup {"search"}]
        /\ UNCHANGED shown
     \/ /\ wanted' = [wanted EXCEPT ![t] = @ \ {"search"}]
        /\ Blank(t, {"search"})
  /\ Settle(t, Awaited(t, {"search"}))
  /\ UNCHANGED <<serverVars, cookie, label, fooled>>

\* changePersona, up to its call of the server; nothing stops a second one.
Switch(t) ==
  /\ label[t] # Nobody
  /\ Click
  /\ \E p \in Personas \ {label[t]} : Send(t, "switch", p)
  /\ UNCHANGED <<label, shown, wanted, fooled>>

\* A decision on the queue shown; the buttons wait for the answer.
Decide(t) ==
  /\ label[t] \in Reviewers /\ shown[t]["queue"] # Nobody
  /\ latest[t]["decide"] = NoRequest
  /\ Click
  /\ Send(t, "decide", label[t])
  /\ UNCHANGED <<label, shown, wanted, fooled>>

\* A person is shown, by the answer to getSession or to switchPersona.
Greet(t, r) ==
  LET begun == Begun(t, req[r].actor) \ (IF req[r].kind = "session" THEN {"graph"} ELSE {})
  IN  /\ label' = [label EXCEPT ![t] = req[r].actor]
      /\ Begin(t, begun)
      /\ Settle(t, {r} \cup Awaited(t, begun \cup {"queue"}))

\* The answer to request r reaches the page that waits for it.
Deliver(r) ==
  LET q == req[r]
      t == q.tab
  IN  /\ q.answer \in {"ok", "error"}
      /\ cookie' = IF q.kind \in {"session", "switch"} /\ q.answer = "ok" THEN q.cookie ELSE cookie
      /\ fooled' = IF Who(cookie') # Who(cookie) THEN fooled \cup (Tabs \ {t}) ELSE fooled
      /\ \/ q.answer = "ok" /\ q.kind \in {"session", "switch"} /\ Greet(t, r)
         \/ /\ q.answer = "ok" /\ q.kind \in Panes
            /\ shown' = [shown EXCEPT ![t][q.kind] = q.actor]
            /\ Settle(t, {r}) /\ UNCHANGED <<label, wanted>>
         \/ /\ q.answer = "ok" /\ q.kind = "decide"
            /\ LET again == Begun(t, label[t]) \cap {"queue"}
               IN  Begin(t, again) /\ Settle(t, {r} \cup Awaited(t, again))
            /\ UNCHANGED label
         \/ q.answer = "error" /\ Settle(t, {r}) /\ UNCHANGED <<label, shown, wanted>>
      /\ UNCHANGED <<serverVars, counters>>

--------------------------------------------------------------------------------
(***************************************************************************)
(* The server.                                                             *)
(***************************************************************************)
\* An answer for which nobody waits is dropped.
Answered(q, at, answer) ==
  Rest([q EXCEPT !.at = at, !.answer = IF @ = "taken" THEN @ ELSE answer])
InServer == UNCHANGED <<pageVars, counters>>

\* Calls that have not been given a person, and decide, when sessions change.
Moved == [r \in Calls |-> IF req[r].at = "sent" /\ req[r].kind = "decide"
                             THEN [req[r] EXCEPT !.moved = TRUE] ELSE req[r]]

\* Session ids are drawn at random: any that was never used does.
Unused(c) == sessions[c] = Nobody /\ \A d \in 1 .. c - 1 : sessions[d] # Nobody

\* GET session: the live session of the cookie, or a new one.
Session(r) ==
  /\ req[r].at = "sent" /\ req[r].kind = "session"
  /\ \E c \in IF Live(req[r].cookie) THEN {req[r].cookie}
              ELSE {c \in Cookies : Unused(c)} :
       /\ sessions' = [sessions EXCEPT ![c] = Who(req[r].cookie)]
       /\ req' = [req EXCEPT ![r] =
                    Answered([@ EXCEPT !.cookie = c, !.actor = Who(req[r].cookie)], "over", "ok")]
  /\ UNCHANGED <<slots, kids, fooled>> /\ InServer

\* POST demo-persona: the person of a live session becomes another.  The other
\* pages are not told; nor is the page that asked, when it was reloaded since, and
\* when it has a second switch under way it may be told of the two in the wrong
\* order (sole: neither is the case).
Persona(r) ==
  LET q == req[r]
      sole == /\ latest[q.tab]["switch"] = r
              /\ \A s \in UnderWay(q.tab) \ {r} : req[s].kind # "switch"
  IN  /\ q.at = "sent" /\ q.kind = "switch"
      /\ IF Live(q.cookie)
         THEN /\ sessions' = [sessions EXCEPT ![q.cookie] = q.person]
              /\ req' = [Moved EXCEPT ![r] = Answered([q EXCEPT !.actor = q.person], "over", "ok")]
              /\ fooled' = fooled \cup (IF sole THEN Tabs \ {q.tab} ELSE Tabs)
         ELSE /\ req' = [req EXCEPT ![r] = Answered(q, "over", "error")]
              /\ UNCHANGED <<sessions, fooled>>
      /\ UNCHANGED <<slots, kids>> /\ InServer

Guarded == Panes \cup {"decide"}

\* The slot is taken or the request turned down; then the session says who asks,
\* and an MCP process is started for that person.
Admit(r) ==
  /\ req[r].at = "sent" /\ req[r].kind \in Guarded
  /\ IF Cardinality(slots) < SlotCount
     THEN /\ slots' = slots \cup {r} /\ kids' = kids \cup {r}
          /\ req' = [req EXCEPT ![r].at = "running", ![r].actor = Who(req[r].cookie)]
     ELSE /\ req' = [req EXCEPT ![r] = Answered(@, "over", "error")]
          /\ UNCHANGED <<slots, kids>>
  /\ UNCHANGED <<sessions, fooled>> /\ InServer

\* The reply is valid: the slot is given back, then 200 is answered.
Return(r) ==
  /\ req[r].at = "running"
  /\ slots' = slots \ {r} /\ kids' = kids \ {r}
  /\ req' = [req EXCEPT ![r] = Answered(@, "over", "ok")]
  /\ UNCHANGED <<sessions, fooled>> /\ InServer

FaultyTimeout(r) ==
  /\ req[r].at = "running"
  /\ req' = [req EXCEPT ![r] = Answered(@, "failing", "error")]
  /\ UNCHANGED <<sessions, slots, kids, fooled>> /\ InServer

\* The process fails, its reply is invalid, or its time is up: it is gone, 502 is
\* answered, and only then the slot given back.
Timeout(r) ==
  /\ req[r].at = "running"
  /\ kids' = kids \ {r}
  /\ req' = [req EXCEPT ![r] = Answered(@, "failing", "error")]
  /\ UNCHANGED <<sessions, slots, fooled>> /\ InServer

FaultyRelease(r) ==
  /\ req[r].at = "failing"
  /\ req' = [req EXCEPT ![r] = Rest([@ EXCEPT !.at = "over"])]
  /\ UNCHANGED <<sessions, slots, kids, fooled>> /\ InServer

Release(r) ==
  /\ req[r].at = "failing"
  /\ slots' = slots \ {r}
  /\ req' = [req EXCEPT ![r] = Rest([@ EXCEPT !.at = "over"])]
  /\ UNCHANGED <<sessions, kids, fooled>> /\ InServer

--------------------------------------------------------------------------------
(***************************************************************************)
(* Failures.                                                               *)
(***************************************************************************)
\* The connection breaks: before the server has read the request, or after.  The
\* page is told of an error; a switch that landed all the same fools it.
Lose(r) ==
  LET q == req[r]
  IN  /\ q.answer \in {"none", "ok"} /\ mishaps < MaxMishaps
      /\ mishaps' = mishaps + 1
      /\ latest' = IF latest[q.tab][q.kind] = r
                   THEN [latest EXCEPT ![q.tab][q.kind] = NoRequest] ELSE latest
      /\ \E at \in IF q.at = "sent" THEN {"sent", "over"} ELSE {q.at} :
           req' = [req EXCEPT ![r] = Rest([@ EXCEPT !.answer = "taken", !.at = at])]
      /\ fooled' = IF q.kind = "switch" /\ q.answer = "ok" THEN fooled \cup {q.tab} ELSE fooled
      /\ UNCHANGED <<serverVars, cookie, label, shown, wanted, clicks>>

\* A session is older than its time to live, or the server was started again.
Lapse ==
  /\ mishaps < MaxMishaps
  /\ mishaps' = mishaps + 1
  /\ \E c \in Cookies :
       /\ Live(c)
       /\ sessions' = [sessions EXCEPT ![c] = Ended]
  /\ req' = Moved
  /\ fooled' = Tabs
  /\ UNCHANGED <<slots, kids, pageVars, clicks>>

Serve(r) == Session(r) \/ Persona(r) \/ Admit(r) \/ Return(r) \/ Release(r)

WbNext ==
  \/ \E t \in Tabs : Open(t) \/ Fetch(t) \/ Navigate(t) \/ Seek(t) \/ Switch(t) \/ Decide(t)
  \/ \E r \in Calls : Serve(r) \/ Timeout(r) \/ Deliver(r) \/ Lose(r)
  \/ Lapse

\* A handler thread goes on; a call of the gateway ends when its time is up, if
\* not before (asyncio.wait_for).  Nothing is assumed of people, of the network
\* or of the MCP processes.
WbFairness == \A r \in Calls : WF_wbVars(Return(r) \/ Timeout(r)) /\ WF_wbVars(Release(r))

WbSpec == WbInit /\ [][WbNext]_wbVars /\ WbFairness

--------------------------------------------------------------------------------
\* However requests fail, at most max_concurrent_requests MCP processes run, each
\* for a request that holds a slot (request_slots, server.py:661-673).
ProcessesBounded == kids \subseteq slots /\ Cardinality(kids) <= SlotCount

\* A slot always comes back, also from a process that hangs or replies nonsense.
SlotsComeBack == \A r \in Calls : r \in slots ~> r \notin slots

\* A page that waits for nothing names the person of its session, and the panes
\* that it displays and that a switch of person reads again were read for that
\* person - however persons are switched while panes load, requests overtake one
\* another, fail or are turned down.  Left out are the matches of a search, which
\* stay those of an earlier person (their effect depends on the text alone), and
\* the pages that may be mistaken about the person: the session was changed by
\* another page, or ended; the page was reloaded while its switch was under way, or
\* lost the answer; it sent a second switch before the first was answered
\* (changePersona, which nothing stops).
QuietTabIsHonest ==
  \A t \in Tabs :
    label[t] # Nobody /\ UnderWay(t) = {} /\ wanted[t] = {} /\ t \notin fooled =>
      /\ label[t] = Who(cookie)
      /\ \A p \in OfPerson(label[t]) : shown[t][p] \in {label[t], Nobody}

\* A decision is recorded in the name the page showed when it was sent, unless its
\* session was changed, or being changed, by then (_actor_and_invoker).
DecidersAreNamed ==
  \A r \in Calls :
       req[r].kind = "decide" /\ req[r].at = "running" => req[r].actor = req[r].person \/ req[r].moved
====

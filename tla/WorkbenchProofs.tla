---------------------------- MODULE WorkbenchProofs ----------------------------
(***************************************************************************)
(* Theorems of the workbench: of Workbench, for any number of pages,       *)
(* persons, sessions, slots and requests; and of ReviewForm, Startup and   *)
(* WorkbenchWire, for all their inputs: the two validators of a review     *)
(* agree, doctor predicts the start, and a request is refused only for     *)
(* the reasons named.                                                      *)
(***************************************************************************)
EXTENDS Workbench, WorkbenchWire, ReviewForm, Startup, FiniteSetTheorems, TLAPS

Waited(r) == req[r].answer # "taken"

Reading == Panes \cup {"session"}

\* Requests for what depends on the person.
Personal == {"graph", "queue", "session"}

\* A process runs for a request that runs, and the request holds a slot.
SlotInv ==
  /\ kids \subseteq slots /\ Cardinality(slots) <= SlotCount
  /\ \A r \in kids : req[r].at = "running"

\* A request that is not over, or that a page waits for, is of a page; the server
\* answers it once, and runs a process for some kinds only.
TabInv ==
  \A r \in Calls :
    /\ req[r].at # "over" \/ Waited(r) => req[r].tab \in Tabs
    /\ req[r].at \in {"sent", "running"} => req[r].answer \in {"none", "taken"}
    /\ req[r].at \in {"running", "failing"} => req[r].kind \in Guarded
    /\ req[r].at = "sent" /\ req[r].kind = "switch" => req[r].person \in Personas

\* A page waits for its latest requests; of those that read, for no other, and for
\* none that it has yet to send.
LatestOf(t) ==
  /\ \A k \in Kinds :
       latest[t][k] # NoRequest =>
         /\ req[latest[t][k]].tab = t /\ req[latest[t][k]].kind = k
         /\ Waited(latest[t][k])
  /\ \A r \in Calls :
       req[r].tab = t /\ Waited(r) /\ req[r].kind \in Reading => latest[t][req[r].kind] = r
  /\ \A k \in Reading : k \in wanted[t] => latest[t][k] = NoRequest

\* Until a page knows who is asking it shows nobody and switches nobody.
SessionOf(t) ==
  "session" \in wanted[t] \/ latest[t]["session"] # NoRequest =>
    /\ label[t] = Nobody
    /\ \A r \in Calls : req[r].tab = t /\ Waited(r) => req[r].kind # "switch"

\* Decisions go out for the person that will be found in the session, or know of
\* the change.
NameInv ==
  \A r \in Calls :
    req[r].kind = "decide" /\ ~req[r].moved =>
      /\ req[r].at = "sent" => Who(req[r].cookie) = req[r].person
      /\ req[r].at = "running" => req[r].actor = req[r].person

\* A person who is to be shown is the one of the session.
GreetInv ==
  \A r \in Calls :
    /\ req[r].kind \in {"session", "switch"} /\ req[r].answer = "ok" /\ req[r].tab \notin fooled
    => req[r].actor = Who(req[r].cookie)

\* The page has been told of every change of its session.
Calm(t) ==
  /\ t \notin fooled
  /\ \A r \in Calls : req[r].tab = t /\ req[r].answer = "ok" => req[r].kind # "switch"

Current(t) ==
  /\ label[t] # Nobody => label[t] = Who(cookie)
  /\ \A p \in OfPerson(label[t]) : shown[t][p] \in {Who(cookie), Nobody}
  /\ \A r \in Calls :
       req[r].tab = t /\ Waited(r) /\ req[r].kind \in Personal =>
         /\ Who(req[r].cookie) = Who(cookie)
         /\ req[r].at = "running" \/ req[r].answer = "ok" => req[r].actor = Who(cookie)

TabOf(t) == LatestOf(t) /\ SessionOf(t) /\ (Calm(t) => Current(t))

WbInv ==
  /\ WbTypeOK /\ SlotInv /\ TabInv /\ NameInv /\ GreetInv
  /\ \A t \in Tabs : TabOf(t)

--------------------------------------------------------------------------------
(***************************************************************************)
(* What the operators shared by the actions do.                            *)
(***************************************************************************)
LEMMA FreeIsRequest == Free \in Exchanges
  BY DEF Free, Exchanges, Kinds, Panes

\* Sending takes a request that is free.
Posted(r, t, kind, person) ==
  /\ req[r] = Free
  /\ req' \in [Calls -> Exchanges]
  /\ \A s \in Calls : s # r => req'[s] = req[s]
  /\ req'[r].tab = t /\ req'[r].kind = kind /\ req'[r].person = person
  /\ req'[r].cookie = cookie /\ req'[r].at = "sent" /\ req'[r].answer = "none"
  /\ kind = "decide" /\ ~req'[r].moved =>
       /\ t \notin fooled
       /\ \A s \in Calls : req[s].tab = t /\ Waited(s) => req[s].kind # "switch"
  /\ latest' \in [Tabs -> [Kinds -> Calls \cup {NoRequest}]]
  /\ \A u \in Tabs, k \in Kinds :
       latest'[u][k] = IF u = t /\ k = kind THEN r ELSE latest[u][k]

LEMMA SendIs ==
  ASSUME WbTypeOK, NEW t \in Tabs, NEW kind \in Kinds, NEW person \in Personas \cup {Nobody},
         Send(t, kind, person)
  PROVE  \E r \in Calls : Posted(r, t, kind, person)
<1> DEFINE free == {r \in Calls : req[r] = Free}
           r == CHOOSE r \in free : TRUE
           moving == t \in fooled \/ \E s \in UnderWay(t) : req[s].kind = "switch"
           new == [Free EXCEPT !.tab = t, !.kind = kind, !.person = person, !.cookie = cookie,
                               !.at = "sent", !.answer = "none", !.moved = kind = "decide" /\ moving]
<1>1. free # {} /\ req' = [req EXCEPT ![r] = new] /\ latest' = [latest EXCEPT ![t][kind] = r]
  BY DEF Send
<1>2. r \in Calls /\ req[r] = Free
  BY <1>1
<1> HIDE DEF r
<1>3. cookie \in Cookies \cup {NoCookie}
  BY DEF WbTypeOK
<1>4. (kind = "decide" /\ moving) \in BOOLEAN
  OBVIOUS
<1>m. moving <=> t \in fooled \/ \E s \in Calls : req[s].tab = t /\ Waited(s) /\ req[s].kind = "switch"
  BY DEF UnderWay, Waited
<1> HIDE DEF moving
<1>5. /\ new \in Exchanges
      /\ new.tab = t /\ new.kind = kind /\ new.person = person /\ new.cookie = cookie
      /\ new.at = "sent" /\ new.answer = "none"
      /\ new.moved = (kind = "decide" /\ moving)
  BY <1>3, <1>4 DEF Free, Exchanges
<1> HIDE DEF new
<1>6. /\ req' \in [Calls -> Exchanges] /\ req'[r] = new
      /\ \A s \in Calls : s # r => req'[s] = req[s]
  BY <1>1, <1>2, <1>5 DEF WbTypeOK
<1>7. /\ latest' \in [Tabs -> [Kinds -> Calls \cup {NoRequest}]]
      /\ \A u \in Tabs, k \in Kinds :
           latest'[u][k] = IF u = t /\ k = kind THEN r ELSE latest[u][k]
  BY <1>1, <1>2 DEF WbTypeOK
<1>8. kind = "decide" /\ ~req'[r].moved =>
       /\ t \notin fooled
       /\ \A s \in Calls : req[s].tab = t /\ Waited(s) => req[s].kind # "switch"
  BY <1>5, <1>6, <1>m
<1> QED
  BY <1>2, <1>5, <1>6, <1>7, <1>8 DEF Posted

\* A page gives up requests: they are answered, as far as it is concerned.
Settled(t, rs) ==
  /\ req' \in [Calls -> Exchanges]
  /\ \A s \in Calls :
       /\ s \notin rs => req'[s] = req[s]
       /\ s \in rs =>
            /\ req'[s].answer = "taken"
            /\ \/ req'[s] = Free /\ req[s].at \in {"sent", "over"}
               \/ /\ req'[s].tab = req[s].tab /\ req'[s].kind = req[s].kind
                  /\ req'[s].person = req[s].person /\ req'[s].cookie = req[s].cookie
                  /\ req'[s].at = req[s].at /\ req'[s].actor = req[s].actor
                  /\ req'[s].moved = req[s].moved
  /\ latest' \in [Tabs -> [Kinds -> Calls \cup {NoRequest}]]
  /\ \A u \in Tabs, k \in Kinds :
       latest'[u][k] = IF u = t /\ latest[t][k] \in rs THEN NoRequest ELSE latest[u][k]

LEMMA SettleIs ==
  ASSUME WbTypeOK, NEW t \in Tabs, NEW rs, Settle(t, rs)
  PROVE  Settled(t, rs)
<1> DEFINE given(s) == Rest([req[s] EXCEPT !.answer = "taken"])
<1>1. \A s \in Calls :
        /\ given(s) \in Exchanges /\ given(s).answer = "taken"
        /\ \/ given(s) = Free /\ req[s].at = "over"
           \/ /\ given(s).tab = req[s].tab /\ given(s).kind = req[s].kind
              /\ given(s).person = req[s].person /\ given(s).cookie = req[s].cookie
              /\ given(s).at = req[s].at /\ given(s).actor = req[s].actor
              /\ given(s).moved = req[s].moved
  <2> SUFFICES ASSUME NEW s \in Calls
               PROVE  /\ given(s) \in Exchanges /\ given(s).answer = "taken"
                      /\ \/ given(s) = Free /\ req[s].at = "over"
                         \/ /\ given(s).tab = req[s].tab /\ given(s).kind = req[s].kind
                            /\ given(s).person = req[s].person /\ given(s).cookie = req[s].cookie
                            /\ given(s).at = req[s].at /\ given(s).actor = req[s].actor
                            /\ given(s).moved = req[s].moved
    OBVIOUS
  <2>1. req[s] \in Exchanges
    BY DEF WbTypeOK
  <2>2. CASE req[s].at = "over"
    <3>1. given(s) = Free
      BY <2>1, <2>2 DEF Rest, Exchanges
    <3> QED
      BY <2>2, <3>1, FreeIsRequest DEF Free
  <2>3. CASE req[s].at # "over"
    <3>1. given(s) = [req[s] EXCEPT !.answer = "taken"]
      BY <2>1, <2>3 DEF Rest, Exchanges
    <3> HIDE DEF given
    <3> QED
      BY <2>1, <3>1 DEF Exchanges
  <2> QED
    BY <2>2, <2>3
<1>2. req' = [s \in Calls |-> IF s \in rs THEN given(s) ELSE req[s]]
  BY DEF Settle
<1>3. latest' = [latest EXCEPT ![t] = [k \in Kinds |-> IF @[k] \in rs THEN NoRequest ELSE @[k]]]
  BY DEF Settle
<1> HIDE DEF given
<1>4. req' \in [Calls -> Exchanges]
  BY <1>1, <1>2 DEF WbTypeOK
<1>5. /\ latest' \in [Tabs -> [Kinds -> Calls \cup {NoRequest}]]
      /\ \A u \in Tabs, k \in Kinds :
           latest'[u][k] = IF u = t /\ latest[t][k] \in rs THEN NoRequest ELSE latest[u][k]
  BY <1>3 DEF WbTypeOK
<1> QED
  BY <1>1, <1>2, <1>4, <1>5 DEF Settled

LEMMA SettledLatest ==
  ASSUME WbTypeOK, NEW t \in Tabs, NEW rs, Settled(t, rs), NEW u \in Tabs \ {t}
  PROVE  latest'[u] = latest[u]
<1>1. latest[u] \in [Kinds -> Calls \cup {NoRequest}] /\ latest'[u] \in [Kinds -> Calls \cup {NoRequest}]
  BY DEF WbTypeOK, Settled
<1>2. \A k \in Kinds : latest'[u][k] = latest[u][k]
  BY DEF Settled
<1> QED
  BY <1>1, <1>2

LEMMA SettledTab ==
  ASSUME NEW t \in Tabs, NEW rs, Settled(t, rs), NEW r \in Calls
  PROVE  req'[r] = req[r] \/ (r \in rs /\ req'[r].tab \in {req[r].tab, Nobody})
<1>1. Free.tab = Nobody
  BY DEF Free
<1> QED
  BY <1>1 DEF Settled

\* What a page gives up concerns no other page, and not the server.
LEMMA SettledKeeps ==
  ASSUME WbInv, NEW t \in Tabs, NEW rs, Settled(t, rs), UNCHANGED serverVars,
         \A u \in fooled \ fooled' : \A r \in Calls : req[r].tab = u /\ Waited(r) => r \in rs
  PROVE  SlotInv' /\ TabInv' /\ NameInv' /\ GreetInv'
<1> USE DEF WbInv, serverVars
<1>1. \A c : Who(c)' = Who(c)
  BY DEF Who, Live
<1>2. SlotInv'
  BY DEF SlotInv, Settled, WbTypeOK, Free
<1>3. TabInv'
  BY DEF TabInv, Settled, Waited, Free
<1>4. NameInv'
  BY <1>1 DEF NameInv, Settled, Free
<1>5. GreetInv'
  BY <1>1 DEF GreetInv, Settled, Waited
<1> QED
  BY <1>2, <1>3, <1>4, <1>5

\* A step that is a matter of page t, or that tells the others of what it changes,
\* leaves the others as they are.
OnlyPage(t) ==
  /\ \A r \in Calls :
       \/ req'[r] = req[r]
       \/ req[r].tab \in {t, Nobody} /\ req'[r].tab \in {t, Nobody}
  /\ \A u \in Tabs \ {t} :
       /\ latest'[u] = latest[u] /\ wanted'[u] = wanted[u]
       /\ label'[u] = label[u] /\ shown'[u] = shown[u]
       /\ u \in fooled => u \in fooled'
       /\ u \notin fooled' => Who(cookie)' = Who(cookie)

LEMMA OtherPages ==
  ASSUME WbInv, NEW t \in Tabs, OnlyPage(t), UNCHANGED sessions
  PROVE  \A u \in Tabs \ {t} : TabOf(u)'
<1> SUFFICES ASSUME NEW u \in Tabs, u # t
             PROVE  TabOf(u)'
  OBVIOUS
<1>1. TabOf(u)
  BY DEF WbInv
<1>2. \A c : Who(c)' = Who(c)
  BY DEF Who, Live
<1>3. \A r \in Calls : req[r].tab = u \/ req'[r].tab = u => req'[r] = req[r]
  BY WorkbenchAssumption DEF WorkbenchAssumption, OnlyPage
<1>4. /\ latest'[u] = latest[u] /\ wanted'[u] = wanted[u]
      /\ label'[u] = label[u] /\ shown'[u] = shown[u]
      /\ u \in fooled => u \in fooled'
      /\ u \notin fooled' => Who(cookie)' = Who(cookie)
  BY DEF OnlyPage
<1>5. LatestOf(u)'
  <2>1. ASSUME NEW k \in Kinds, latest[u][k] # NoRequest
        PROVE  req'[latest[u][k]] = req[latest[u][k]]
    <3>1. latest[u][k] \in Calls
      BY <2>1 DEF WbInv, WbTypeOK
    <3> QED
      BY <1>1, <1>3, <2>1, <3>1 DEF TabOf, LatestOf
  <2> QED
    BY <1>1, <1>3, <1>4, <2>1 DEF TabOf, LatestOf, Waited
<1>6. SessionOf(u)'
  BY <1>1, <1>3, <1>4 DEF TabOf, SessionOf, Waited
<1>7. Calm(u)' => Current(u)'
  <2> SUFFICES ASSUME Calm(u)' PROVE Current(u)'
    OBVIOUS
  <2>1. Calm(u) /\ Who(cookie)' = Who(cookie)
    BY <1>3, <1>4 DEF Calm
  <2> QED
    BY <1>1, <1>2, <1>3, <1>4, <2>1 DEF TabOf, Current, Waited
<1> QED
  BY <1>5, <1>6, <1>7 DEF TabOf

--------------------------------------------------------------------------------
(***************************************************************************)
(* The page.                                                               *)
(***************************************************************************)
LEMMA ClickCounts == ASSUME WbTypeOK, Click PROVE clicks' \in 0 .. MaxClicks /\ mishaps' \in 0 .. MaxMishaps
  BY WorkbenchAssumption DEF WorkbenchAssumption, WbTypeOK, Click

LEMMA OpenKeeps ==
  ASSUME WbInv, NEW t \in Tabs, Open(t)
  PROVE  WbInv'
<1> USE DEF WbInv
<1>1. /\ Settled(t, UnderWay(t)) /\ UNCHANGED serverVars /\ cookie' = cookie
      /\ label' = [label EXCEPT ![t] = Nobody]
      /\ wanted' = [wanted EXCEPT ![t] = {"session", "graph"}]
      /\ shown' = [shown EXCEPT ![t] = [p \in Panes |-> Nobody]]
      /\ fooled' = fooled \ {t} /\ Click
  BY SettleIs DEF Open
<1>2. \A r \in Calls : r \in UnderWay(t) <=> req[r].tab = t /\ Waited(r)
  BY DEF UnderWay, Waited
<1>3. WbTypeOK'
  <2>1. wanted' \in [Tabs -> SUBSET (Panes \cup {"session"})] /\ label' \in [Tabs -> Personas \cup {Nobody}]
        /\ shown' \in [Tabs -> [Panes -> Personas \cup {Nobody}]]
    BY <1>1 DEF WbTypeOK, Kinds, Panes
  <2> QED
    BY <1>1, <2>1, ClickCounts DEF Settled, WbTypeOK, serverVars
<1>4. SlotInv' /\ TabInv' /\ NameInv' /\ GreetInv'
  BY <1>1, <1>2, SettledKeeps
<1>5. OnlyPage(t)
  <2>1. \A c : Who(c)' = Who(c)
    BY <1>1 DEF Who, Live, serverVars
  <2>2. \A r \in Calls : req'[r] = req[r] \/ (req[r].tab = t /\ req'[r].tab \in {t, Nobody})
    BY <1>1, <1>2, SettledTab
  <2>3. \A u \in Tabs \ {t} : latest'[u] = latest[u]
    BY <1>1, SettledLatest
  <2> QED
    BY <1>1, <2>1, <2>2, <2>3 DEF OnlyPage, WbTypeOK
<1>6. TabOf(t)'
  <2>1. \A r \in Calls : Waited(r)' => req'[r] = req[r] /\ req[r].tab # t
    BY <1>1, <1>2 DEF Settled, Waited
  <2>2. ASSUME NEW k \in Kinds
        PROVE  latest'[t][k] = NoRequest
    <3>1. latest[t][k] \in Calls \cup {NoRequest}
      BY DEF WbTypeOK
    <3>2. latest[t][k] # NoRequest => latest[t][k] \in UnderWay(t)
      BY <1>2, <3>1 DEF TabOf, LatestOf
    <3> QED
      BY <1>1, <3>2 DEF Settled
  <2>3. label'[t] = Nobody /\ \A p \in Panes : shown'[t][p] = Nobody
    BY <1>1 DEF WbTypeOK
  <2>4. LatestOf(t)'
    BY <2>1, <2>2 DEF LatestOf, Reading, Kinds
  <2>5. SessionOf(t)' /\ Current(t)'
    BY <2>1, <2>3 DEF SessionOf, Current, OfPerson, Panes
  <2> QED
    BY <2>4, <2>5 DEF TabOf
<1> QED
  BY <1>1, <1>3, <1>4, <1>5, <1>6, OtherPages DEF serverVars

\* A page sends what it has begun to read, or, when it knows who is asking, a
\* switch, or a decision in the name it shows.
LEMMA SentKeeps ==
  ASSUME WbInv, NEW t \in Tabs, NEW kind \in Kinds, NEW person, NEW r \in Calls,
         Posted(r, t, kind, person),
         UNCHANGED <<serverVars, cookie, label, fooled>>,
         NEW read \in [Panes -> Personas \cup {Nobody}], shown' = [shown EXCEPT ![t] = read],
         \A p \in Panes : read[p] \in {shown[t][p], Nobody},
         \/ kind \in wanted[t] /\ wanted' = [wanted EXCEPT ![t] = @ \ {kind}]
         \/ kind \notin Reading /\ label[t] # Nobody /\ wanted' = wanted,
         kind = "decide" => person = label[t],
         kind = "switch" => person \in Personas,
         clicks' \in 0 .. MaxClicks, mishaps' \in 0 .. MaxMishaps
  PROVE  WbInv'
<1> USE DEF WbInv
<1>1. \A c : Who(c)' = Who(c)
  BY DEF Who, Live, serverVars
<1>2. req[r].at = "over" /\ ~Waited(r) /\ req[r].tab = Nobody
  BY DEF Posted, Waited, Free
<1>3. WbTypeOK'
  <2>1. /\ wanted' \in [Tabs -> SUBSET (Panes \cup {"session"})]
        /\ shown' \in [Tabs -> [Panes -> Personas \cup {Nobody}]]
    BY DEF WbTypeOK
  <2> QED
    BY <2>1 DEF Posted, WbTypeOK, serverVars
<1>4. SlotInv'
  <2>1. kids' = kids /\ slots' = slots
    BY DEF serverVars
  <2>2. \A s \in kids : s \in Calls /\ s # r
    BY <1>2 DEF SlotInv, WbTypeOK
  <2> QED
    BY <2>1, <2>2 DEF SlotInv, Posted
<1>5. TabInv'
  BY DEF TabInv, Posted, Waited
<1>6. GreetInv'
  BY <1>1 DEF GreetInv, Posted
<1>7. NameInv'
  <2>1. ASSUME kind = "decide", ~req'[r].moved
        PROVE  Who(cookie) = person
    <3>1. Calm(t)
      BY <2>1 DEF Posted, Calm, Waited
    <3>2. kind \notin wanted[t]
      BY <2>1 DEF WbTypeOK, Panes
    <3> QED
      BY <2>1, <3>1, <3>2 DEF TabOf, Current
  <2> QED
    BY <1>1, <2>1 DEF NameInv, Posted
<1>8. OnlyPage(t)
  <2>1. \A u \in Tabs \ {t} : latest'[u] = latest[u]
    <3> SUFFICES ASSUME NEW u \in Tabs \ {t} PROVE latest'[u] = latest[u]
      OBVIOUS
    <3>1. /\ latest[u] \in [Kinds -> Calls \cup {NoRequest}]
          /\ latest'[u] \in [Kinds -> Calls \cup {NoRequest}]
      BY DEF WbTypeOK, Posted
    <3>2. \A k \in Kinds : latest'[u][k] = latest[u][k]
      BY DEF Posted
    <3> QED
      BY <3>1, <3>2
  <2>2. \A s \in Calls :
          req'[s] = req[s] \/ (req[s].tab \in {t, Nobody} /\ req'[s].tab \in {t, Nobody})
    BY <1>2 DEF Posted
  <2>3. \A u \in Tabs \ {t} : wanted'[u] = wanted[u] /\ shown'[u] = shown[u]
    BY DEF WbTypeOK
  <2> QED
    BY <1>1, <2>1, <2>2, <2>3 DEF OnlyPage
<1>9. TabOf(t)'
  <2>1. TabOf(t)
    OBVIOUS
  <2>2. LatestOf(t)'
    <3>1. ASSUME NEW k \in Kinds, latest'[t][k] # NoRequest
          PROVE  /\ req'[latest'[t][k]].tab = t /\ req'[latest'[t][k]].kind = k
                 /\ req'[latest'[t][k]].answer # "taken"
      <4>1. CASE k = kind
        BY <4>1 DEF Posted
      <4>2. CASE k # kind
        <5>1. latest'[t][k] = latest[t][k] /\ latest[t][k] \in Calls
          BY <3>1, <4>2 DEF Posted, WbTypeOK
        <5>2. /\ req[latest[t][k]].tab = t /\ req[latest[t][k]].kind = k
              /\ req[latest[t][k]].answer # "taken"
          BY <2>1, <3>1, <5>1 DEF TabOf, LatestOf, Waited
        <5>3. latest[t][k] # r
          BY <1>2, <5>2 DEF Waited
        <5> QED
          BY <5>1, <5>2, <5>3 DEF Posted
      <4> QED
        BY <4>1, <4>2
    <3>2. ASSUME NEW s \in Calls, req'[s].tab = t, req'[s].answer # "taken", req'[s].kind \in Reading
          PROVE  latest'[t][req'[s].kind] = s
      <4>1. CASE s = r
        BY <4>1 DEF Posted
      <4>2. CASE s # r
        <5>1. req'[s] = req[s] /\ latest[t][req[s].kind] = s /\ req[s].kind \in Kinds
          BY <2>1, <3>2, <4>2 DEF Posted, TabOf, LatestOf, Waited, WbTypeOK, Exchanges
        <5>2. req[s].kind # kind
          BY <2>1, <3>2, <5>1 DEF TabOf, LatestOf, NoRequest, Calls
        <5> QED
          BY <5>1, <5>2 DEF Posted
      <4> QED
        BY <4>1, <4>2
    <3>3. ASSUME NEW k \in Reading, k \in wanted'[t]
          PROVE  latest'[t][k] = NoRequest
      <4>1. k \in wanted[t] /\ k # kind /\ k \in Kinds
        BY <3>3 DEF WbTypeOK, Reading, Kinds
      <4> QED
        BY <2>1, <4>1 DEF Posted, TabOf, LatestOf
    <3> QED
      BY <3>1, <3>2, <3>3 DEF LatestOf, Waited
  <2>3. SessionOf(t)'
    <3> SUFFICES ASSUME "session" \in wanted'[t] \/ latest'[t]["session"] # NoRequest
                 PROVE  /\ label[t] = Nobody
                        /\ \A s \in Calls : req'[s].tab = t /\ Waited(s)' => req'[s].kind # "switch"
      BY DEF SessionOf
    <3>1. "session" \in Kinds /\ "session" \in Reading
      BY DEF Kinds, Reading
    <3>2. "session" \in wanted[t] \/ latest[t]["session"] # NoRequest
      <4>1. CASE kind = "session"
        BY <3>1, <4>1
      <4>2. CASE kind # "session"
        <5>1. latest'[t]["session"] = latest[t]["session"]
          BY <3>1, <4>2 DEF Posted
        <5>2. "session" \in wanted'[t] => "session" \in wanted[t]
          BY DEF WbTypeOK
        <5> QED
          BY <5>1, <5>2
      <4> QED
        BY <4>1, <4>2
    <3>3. label[t] = Nobody /\ \A s \in Calls : req[s].tab = t /\ Waited(s) => req[s].kind # "switch"
      BY <2>1, <3>2 DEF TabOf, SessionOf
    <3>4. kind # "switch"
      BY <3>3 DEF WbTypeOK, Panes
    <3> QED
      BY <3>3, <3>4 DEF Posted, Waited
  <2>4. Calm(t)' => Current(t)'
    <3> SUFFICES ASSUME Calm(t)' PROVE Current(t)'
      OBVIOUS
    <3>1. Calm(t)
      BY <1>2 DEF Calm, Posted, Waited
    <3>2. Current(t) /\ shown'[t] = read /\ OfPerson(label[t]) \subseteq Panes
      BY <2>1, <3>1 DEF TabOf, OfPerson, Panes, WbTypeOK
    <3>3. ASSUME NEW s \in Calls, req'[s].tab = t, Waited(s)', req'[s].kind \in Personal
          PROVE  /\ Who(req'[s].cookie) = Who(cookie)
                 /\ req'[s].at = "running" \/ req'[s].answer = "ok" => req'[s].actor = Who(cookie)
      BY <3>2, <3>3 DEF Current, Posted, Waited
    <3>4. \A p \in OfPerson(label[t]) : shown'[t][p] \in {Who(cookie), Nobody}
      BY <3>2 DEF Current
    <3> QED
      BY <1>1, <3>2, <3>3, <3>4 DEF Current
  <2> QED
    BY <2>2, <2>3, <2>4 DEF TabOf
<1> QED
  BY <1>3, <1>4, <1>5, <1>6, <1>7, <1>8, <1>9, OtherPages DEF serverVars

LEMMA FetchKeeps ==
  ASSUME WbInv, NEW t \in Tabs, Fetch(t)
  PROVE  WbInv'
<1>1. PICK kind \in wanted[t] :
        /\ Send(t, kind, Nobody) /\ wanted' = [wanted EXCEPT ![t] = @ \ {kind}]
        /\ Blank(t, {kind} \cap {"search"})
  BY DEF Fetch
<1>2. kind \in Kinds /\ kind # "decide" /\ kind # "switch"
  BY DEF WbInv, WbTypeOK, Kinds, Panes
<1>3. PICK r \in Calls : Posted(r, t, kind, Nobody)
  BY <1>1, <1>2, SendIs DEF WbInv
<1>4. clicks' \in 0 .. MaxClicks /\ mishaps' \in 0 .. MaxMishaps
  BY DEF Fetch, counters, WbInv, WbTypeOK
<1>5. UNCHANGED <<serverVars, cookie, label, fooled>>
  BY <1>1 DEF Fetch, Send
<1> DEFINE read == [p \in Panes |-> IF p \in {kind} \cap {"search"} THEN Nobody ELSE shown[t][p]]
<1>6. /\ read \in [Panes -> Personas \cup {Nobody}] /\ shown' = [shown EXCEPT ![t] = read]
      /\ \A p \in Panes : read[p] \in {shown[t][p], Nobody}
  BY <1>1 DEF Blank, WbInv, WbTypeOK
<1> HIDE DEF read
<1> QED
  BY <1>1, <1>2, <1>3, <1>4, <1>5, <1>6, SentKeeps

LEMMA SwitchKeeps ==
  ASSUME WbInv, NEW t \in Tabs, Switch(t)
  PROVE  WbInv'
<1>1. PICK p \in Personas : Send(t, "switch", p)
  BY DEF Switch
<1>2. "switch" \in Kinds /\ "switch" \notin Reading
  BY DEF Kinds, Reading, Panes
<1>3. PICK r \in Calls : Posted(r, t, "switch", p)
  BY <1>1, <1>2, SendIs DEF WbInv
<1>4. clicks' \in 0 .. MaxClicks /\ mishaps' \in 0 .. MaxMishaps
  BY ClickCounts DEF Switch, WbInv
<1>5. UNCHANGED <<serverVars, cookie, label, wanted, fooled>> /\ label[t] # Nobody
  BY <1>1 DEF Switch, Send
<1>6. shown[t] \in [Panes -> Personas \cup {Nobody}] /\ shown' = [shown EXCEPT ![t] = shown[t]]
  BY DEF Switch, WbInv, WbTypeOK
<1> QED
  BY <1>2, <1>3, <1>4, <1>5, <1>6, SentKeeps

LEMMA DecideKeeps ==
  ASSUME WbInv, NEW t \in Tabs, Decide(t)
  PROVE  WbInv'
<1>1. Send(t, "decide", label[t]) /\ label[t] \in Personas
  BY WorkbenchAssumption DEF Decide, WorkbenchAssumption
<1>2. "decide" \in Kinds /\ "decide" \notin Reading /\ label[t] # Nobody
  BY <1>1, WorkbenchAssumption DEF Kinds, Reading, Panes, WorkbenchAssumption
<1>3. PICK r \in Calls : Posted(r, t, "decide", label[t])
  BY <1>1, <1>2, SendIs DEF WbInv
<1>4. clicks' \in 0 .. MaxClicks /\ mishaps' \in 0 .. MaxMishaps
  BY ClickCounts DEF Decide, WbInv
<1>5. UNCHANGED <<serverVars, cookie, label, wanted, fooled>>
  BY <1>1 DEF Decide, Send
<1>6. shown[t] \in [Panes -> Personas \cup {Nobody}] /\ shown' = [shown EXCEPT ![t] = shown[t]]
  BY DEF Decide, WbInv, WbTypeOK
<1> QED
  BY <1>2, <1>3, <1>4, <1>5, <1>6, SentKeeps

\* What a page waits for is its own.
LEMMA AwaitedIs ==
  ASSUME WbInv, NEW t \in Tabs, NEW panes \in SUBSET Kinds, NEW r \in Calls, r \in Awaited(t, panes)
  PROVE  req[r].tab = t /\ req[r].kind \in panes /\ Waited(r)
<1>1. PICK p \in panes : r = latest[t][p]
  BY DEF Awaited
<1>2. r # NoRequest
  BY DEF Calls, NoRequest
<1> QED
  BY <1>1, <1>2 DEF WbInv, TabOf, LatestOf

\* A page gives up requests of its own and some that it has yet to send, and begins
\* to read panes for which it waits no longer.
PageStep(t, rs, unsent, now, read) ==
  /\ Settled(t, rs) /\ UNCHANGED serverVars
  /\ \A s \in Calls : s \in rs => req[s].tab = t
  /\ cookie' \in Cookies \cup {NoCookie}
  /\ fooled \subseteq fooled' /\ fooled' \subseteq Tabs
  /\ \A u \in Tabs \ {t} : u \notin fooled' => Who(cookie)' = Who(cookie)
  /\ unsent \in SUBSET (Panes \cup {"session"}) /\ wanted' = [wanted EXCEPT ![t] = unsent]
  /\ \A k \in unsent : k \in wanted[t] \/ (k \in Panes /\ latest[t][k] \in rs)
  /\ now \in Personas \cup {Nobody} /\ label' = [label EXCEPT ![t] = now]
  /\ \/ now = label[t]
     \/ "session" \notin wanted[t] /\ latest[t]["session"] \in rs \cup {NoRequest}
  /\ read \in [Panes -> Personas \cup {Nobody}] /\ shown' = [shown EXCEPT ![t] = read]
  /\ clicks' \in 0 .. MaxClicks /\ mishaps' \in 0 .. MaxMishaps
  /\ Calm(t)' => Current(t)'

LEMMA PageKeeps ==
  ASSUME WbInv, NEW t \in Tabs, NEW rs, NEW unsent, NEW now, NEW read,
         PageStep(t, rs, unsent, now, read)
  PROVE  WbInv'
<1> USE DEF WbInv, PageStep
<1>1. WbTypeOK'
  <2>1. /\ wanted' \in [Tabs -> SUBSET (Panes \cup {"session"})]
        /\ label' \in [Tabs -> Personas \cup {Nobody}]
        /\ shown' \in [Tabs -> [Panes -> Personas \cup {Nobody}]]
    BY DEF WbTypeOK
  <2> QED
    BY <2>1 DEF Settled, WbTypeOK, serverVars
<1>2. SlotInv' /\ TabInv' /\ NameInv' /\ GreetInv'
  BY SettledKeeps
<1>3. OnlyPage(t)
  <2>1. \A r \in Calls : req'[r] = req[r] \/ (req[r].tab \in {t, Nobody} /\ req'[r].tab \in {t, Nobody})
    BY SettledTab
  <2>2. \A u \in Tabs \ {t} : latest'[u] = latest[u]
    BY SettledLatest
  <2>3. \A u \in Tabs \ {t} : wanted'[u] = wanted[u] /\ label'[u] = label[u] /\ shown'[u] = shown[u]
    BY DEF WbTypeOK
  <2> QED
    BY <2>1, <2>2, <2>3 DEF OnlyPage
<1>4. TabOf(t)
  OBVIOUS
<1>5. \A r \in Calls : Waited(r)' => req'[r] = req[r] /\ r \notin rs
  BY DEF Settled, Waited
<1>6. LatestOf(t)'
  <2>1. ASSUME NEW k \in Kinds, latest'[t][k] # NoRequest
        PROVE  /\ req'[latest'[t][k]].tab = t /\ req'[latest'[t][k]].kind = k
               /\ req'[latest'[t][k]].answer # "taken"
    <3>1. latest'[t][k] = latest[t][k] /\ latest[t][k] \notin rs /\ latest[t][k] \in Calls
      BY <2>1 DEF Settled, WbTypeOK
    <3> QED
      BY <1>4, <2>1, <3>1 DEF Settled, TabOf, LatestOf, Waited
  <2>2. ASSUME NEW r \in Calls, req'[r].tab = t, Waited(r)', req'[r].kind \in Reading
        PROVE  latest'[t][req'[r].kind] = r
    <3>1. req'[r] = req[r] /\ r \notin rs /\ req[r].kind \in Kinds
      BY <1>5, <2>2 DEF WbTypeOK, Exchanges
    <3>2. latest[t][req[r].kind] = r
      BY <1>4, <2>2, <3>1 DEF TabOf, LatestOf, Waited
    <3> QED
      BY <3>1, <3>2 DEF Settled
  <2>3. ASSUME NEW k \in Reading, k \in wanted'[t]
        PROVE  latest'[t][k] = NoRequest
    <3>1. k \in Kinds /\ k \in unsent
      BY <2>3 DEF WbTypeOK, Reading, Kinds
    <3> QED
      BY <1>4, <3>1 DEF Settled, TabOf, LatestOf
  <2> QED
    BY <2>1, <2>2, <2>3 DEF LatestOf, Waited
<1>7. SessionOf(t)'
  <2>1. "session" \in Kinds /\ "session" \notin Panes
    BY DEF Kinds, Panes
  <2>2. /\ wanted'[t] = unsent /\ label'[t] = now
        /\ latest'[t]["session"] = IF latest[t]["session"] \in rs THEN NoRequest ELSE latest[t]["session"]
    BY <2>1 DEF WbTypeOK, Settled
  <2> QED
    BY <1>4, <1>5, <2>1, <2>2 DEF TabOf, SessionOf, Waited
<1> QED
  BY <1>1, <1>2, <1>3, <1>6, <1>7, OtherPages DEF TabOf, serverVars

\* What a page shows stays right when it gives up requests and reads no pane but
\* from an answer that it waited for.
LEMMA CurrentStays ==
  ASSUME WbInv, NEW t \in Tabs, NEW rs, Settled(t, rs), UNCHANGED <<serverVars, cookie, label>>,
         fooled \subseteq fooled',
         \/ t \in fooled'
         \/ \A s \in Calls : s \in rs => req[s].kind # "switch" \/ req[s].answer # "ok",
         \A p \in Panes \ {"search"} :
           \/ shown'[t][p] \in {shown[t][p], Nobody}
           \/ \E s \in Calls :
                /\ req[s].tab = t /\ req[s].kind \in Personal /\ req[s].answer = "ok"
                /\ shown'[t][p] = req[s].actor
  PROVE  Calm(t)' => Current(t)'
<1> SUFFICES ASSUME Calm(t)' PROVE Current(t)'
  OBVIOUS
<1>1. \A c : Who(c)' = Who(c)
  BY DEF Who, Live, serverVars
<1>2. \A s \in Calls : s \notin rs => req'[s] = req[s]
  BY DEF Settled
<1>3. Calm(t)
  <2>1. t \notin fooled'
    BY DEF Calm
  <2>2. ASSUME NEW s \in Calls, req[s].tab = t, req[s].answer = "ok"
        PROVE  req[s].kind # "switch"
    BY <1>2, <2>1, <2>2 DEF Calm
  <2> QED
    BY <2>1, <2>2 DEF Calm
<1>4. Current(t)
  BY <1>3 DEF WbInv, TabOf
<1>5. \A r \in Calls : Waited(r)' => req'[r] = req[r]
  BY <1>2 DEF Settled, Waited
<1>6. \A s \in Calls :
        req[s].tab = t /\ req[s].kind \in Personal /\ req[s].answer = "ok" => req[s].actor = Who(cookie)
  BY <1>4 DEF Current, Waited
<1>7. OfPerson(label[t]) \subseteq Panes \ {"search"}
  BY DEF OfPerson, Panes
<1>8. \A p \in OfPerson(label[t]) : shown'[t][p] \in {Who(cookie), Nobody}
  BY <1>4, <1>6, <1>7 DEF Current
<1> QED
  BY <1>1, <1>4, <1>5, <1>8 DEF Current, Waited

\* A person moves about: the page gives up panes, and reads some of them again.
LEMMA MoveKeeps ==
  ASSUME WbInv, NEW t \in Tabs, NEW panes \in SUBSET Panes, NEW blank \in SUBSET panes,
         NEW unsent \in SUBSET (wanted[t] \cup panes), wanted' = [wanted EXCEPT ![t] = unsent],
         Blank(t, blank), Settle(t, Awaited(t, panes)), Click,
         UNCHANGED <<serverVars, cookie, label, fooled>>
  PROVE  WbInv'
<1> USE DEF WbInv
<1> DEFINE rs == Awaited(t, panes)
           read == [p \in Panes |-> IF p \in blank THEN Nobody ELSE shown[t][p]]
<1>1. Settled(t, rs)
  BY SettleIs
<1>2. shown' = [shown EXCEPT ![t] = read] /\ read \in [Panes -> Personas \cup {Nobody}]
  BY DEF Blank, WbTypeOK
<1>3. panes \in SUBSET Kinds /\ "switch" \notin panes
  BY DEF Panes, Kinds
<1>u. /\ unsent \in SUBSET (Panes \cup {"session"})
      /\ \A k \in unsent : k \in wanted[t] \/ (k \in Panes /\ latest[t][k] \in rs)
  BY DEF WbTypeOK, Awaited
<1>4. \A s \in Calls : s \in rs => req[s].tab = t /\ req[s].kind # "switch"
  BY <1>3, AwaitedIs
<1>9. \A s \in Calls : s \in rs => req[s].tab = t
  BY <1>4
<1> HIDE DEF rs
<1>5. \A p \in Panes : shown'[t][p] \in {shown[t][p], Nobody}
  BY <1>2 DEF WbTypeOK
<1> HIDE DEF read
<1>6. Calm(t)' => Current(t)'
  BY <1>1, <1>4, <1>5, CurrentStays
<1>7. clicks' \in 0 .. MaxClicks /\ mishaps' \in 0 .. MaxMishaps
  BY ClickCounts
<1>8. /\ \A u \in Tabs : Who(cookie)' = Who(cookie)
      /\ fooled' \subseteq Tabs /\ fooled \subseteq fooled' /\ cookie' \in Cookies \cup {NoCookie}
      /\ label' = [label EXCEPT ![t] = label[t]] /\ label[t] \in Personas \cup {Nobody}
  BY DEF Who, Live, serverVars, WbTypeOK
<1> HIDE DEF WbInv
<1> QED
  <2>1. PageStep(t, rs, unsent, label[t], read)
    BY <1>1, <1>2, <1>u, <1>6, <1>7, <1>8, <1>9 DEF PageStep
  <2> QED
    BY <2>1, PageKeeps

LEMMA NavigateKeeps ==
  ASSUME WbInv, NEW t \in Tabs, Navigate(t)
  PROVE  WbInv'
<1>1. PICK emptied \in {{}, {"search"}} :
        /\ wanted' = [wanted EXCEPT ![t] = (@ \ emptied) \cup {"graph"}]
        /\ Blank(t, {"graph"} \cup emptied) /\ Settle(t, Awaited(t, {"graph"} \cup emptied))
  BY DEF Navigate
<1>2. Click /\ UNCHANGED <<serverVars, cookie, label, fooled>>
  BY DEF Navigate
<1> DEFINE panes == {"graph"} \cup emptied
           unsent == (wanted[t] \ emptied) \cup {"graph"}
<1>3. /\ panes \in SUBSET Panes /\ panes \in SUBSET panes
      /\ unsent \in SUBSET (wanted[t] \cup panes) /\ wanted' = [wanted EXCEPT ![t] = unsent]
  BY <1>1 DEF Panes
<1> HIDE DEF unsent
<1> QED
  BY <1>1, <1>2, <1>3, MoveKeeps

LEMMA SeekKeeps ==
  ASSUME WbInv, NEW t \in Tabs, Seek(t)
  PROVE  WbInv'
<1>1. Click /\ Settle(t, Awaited(t, {"search"})) /\ UNCHANGED <<serverVars, cookie, label, fooled>>
  BY DEF Seek
<1> DEFINE panes == {"search"}
           more == wanted[t] \cup {"search"}
           less == wanted[t] \ {"search"}
<1>2. panes \in SUBSET Panes /\ {} \in SUBSET panes /\ panes \in SUBSET panes
  BY DEF Panes
<1>3. CASE wanted' = [wanted EXCEPT ![t] = @ \cup {"search"}] /\ UNCHANGED shown
  <2>1. more \in SUBSET (wanted[t] \cup panes) /\ wanted' = [wanted EXCEPT ![t] = more]
    BY <1>3
  <2>2. Blank(t, {})
    BY <1>3 DEF Blank, WbInv, WbTypeOK
  <2> HIDE DEF more
  <2> QED
    BY <1>1, <1>2, <2>1, <2>2, MoveKeeps
<1>4. CASE wanted' = [wanted EXCEPT ![t] = @ \ {"search"}] /\ Blank(t, {"search"})
  <2>1. less \in SUBSET (wanted[t] \cup panes) /\ wanted' = [wanted EXCEPT ![t] = less]
    BY <1>4
  <2> HIDE DEF less
  <2> QED
    BY <1>1, <1>2, <1>4, <2>1, MoveKeeps
<1> QED
  BY <1>3, <1>4 DEF Seek

\* The person a page is to show is that of the cookie it comes with.
LEMMA GreetKeeps ==
  ASSUME WbInv, NEW r \in Calls, NEW t \in Tabs, req[r].tab = t,
         req[r].answer = "ok", req[r].kind \in {"session", "switch"},
         Greet(t, r), UNCHANGED <<serverVars, counters>>,
         cookie' = req[r].cookie, fooled \subseteq fooled', fooled' \subseteq Tabs,
         \A u \in Tabs \ {t} : u \notin fooled' => Who(cookie)' = Who(cookie)
  PROVE  WbInv'
<1> USE DEF WbInv
<1> DEFINE actor == req[r].actor
           begun == Begun(t, actor) \ (IF req[r].kind = "session" THEN {"graph"} ELSE {})
           rs == {r} \cup Awaited(t, begun \cup {"queue"})
           read == [p \in Panes |-> IF p \in begun THEN Nobody ELSE shown[t][p]]
<1>1. /\ Settled(t, rs) /\ label' = [label EXCEPT ![t] = actor]
      /\ shown' = [shown EXCEPT ![t] = read]
  BY SettleIs DEF Greet, Begin, Blank
<1>b. wanted' = [wanted EXCEPT ![t] = @ \cup begun]
  BY DEF Greet, Begin
<1>2. begun \in SUBSET Panes /\ begun \cup {"queue"} \in SUBSET Kinds /\ "queue" \in Panes
  BY DEF Begun, OfPerson, Panes, Kinds
<1> DEFINE unsent == wanted[t] \cup begun
<1>u. /\ unsent \in SUBSET (Panes \cup {"session"}) /\ wanted' = [wanted EXCEPT ![t] = unsent]
      /\ \A k \in unsent : k \in wanted[t] \/ (k \in Panes /\ latest[t][k] \in rs)
  BY <1>b, <1>2 DEF WbTypeOK, Awaited
<1>3. actor \in Personas \cup {Nobody} /\ req[r].cookie \in Cookies \cup {NoCookie}
  BY DEF WbTypeOK, Exchanges
<1>4. /\ OfPerson(label'[t]) \subseteq begun \cup (IF req[r].kind = "session" THEN {"graph"} ELSE {})
      /\ OfPerson(label'[t]) \subseteq Panes
  <2>1. label'[t] = actor
    BY <1>1 DEF WbTypeOK
  <2> QED
    BY <2>1 DEF OfPerson, Begun, Panes
<1>5. r \in rs /\ \A k \in begun \cup {"queue"} : latest[t][k] \in rs
  BY DEF Awaited
<1>6. \A s \in Calls : s \in rs => req[s].tab = t
  BY <1>2, AwaitedIs
<1>7. read \in [Panes -> Personas \cup {Nobody}] /\ \A p \in Panes : p \in begun => read[p] = Nobody
  BY DEF WbTypeOK
<1>7b. \A p \in Panes : p \notin begun => read[p] = shown[t][p]
  OBVIOUS
<1>8. "session" \in Kinds /\ "session" \in Reading /\ "session" \notin Panes /\ Waited(r) /\ r # NoRequest
  BY DEF Kinds, Reading, Panes, Waited, Calls, NoRequest
<1>t. TabOf(t)
  OBVIOUS
<1> HIDE DEF rs, read, begun, unsent
<1>9. "session" \notin wanted[t] /\ latest[t]["session"] \in rs \cup {NoRequest}
  <2>1. CASE req[r].kind = "session"
    <3>1. latest[t]["session"] = r
      BY <1>8, <1>t, <2>1 DEF TabOf, LatestOf
    <3> QED
      BY <1>5, <1>8, <1>t, <3>1 DEF TabOf, LatestOf
  <2>2. CASE req[r].kind = "switch"
    BY <1>8, <1>t, <2>2 DEF TabOf, SessionOf
  <2> QED
    BY <2>1, <2>2
<1>10. ASSUME Calm(t)'
       PROVE  Current(t)'
  <2>1. t \notin fooled /\ Who(req[r].cookie) = actor
    BY <1>10 DEF Calm, GreetInv
  <2>2. \A c : Who(c)' = Who(c)
    BY DEF Who, Live, serverVars
  <2>3. Who(cookie)' = actor
    BY <2>1, <2>2 DEF Who, Live, serverVars
  <2>4. \A s \in Calls : Waited(s)' => req'[s] = req[s] /\ s \notin rs
    BY <1>1 DEF Settled, Waited
  <2>5. label'[t] = actor /\ shown'[t] = read
    BY <1>1 DEF WbTypeOK
  <2>6. CASE req[r].kind = "session"
    <3>1. latest[t]["session"] # NoRequest
      BY <1>8, <1>t, <2>6 DEF TabOf, LatestOf
    <3>2. Calm(t)
      BY <1>t, <2>1, <3>1 DEF TabOf, SessionOf, Calm, Waited
    <3>3. Current(t)
      BY <1>t, <3>2 DEF TabOf
    <3>4. Who(cookie) = actor
      BY <1>8, <2>1, <2>6, <3>3 DEF Current, Personal
    <3>5. "graph" \in Panes /\ "graph" \in OfPerson(label[t])
      BY DEF OfPerson, Panes
    <3>6. \A p \in OfPerson(label'[t]) : shown'[t][p] \in {actor, Nobody}
      BY <1>2, <1>4, <1>7, <1>7b, <2>5, <3>3, <3>4, <3>5 DEF Current
    <3> QED
      BY <2>2, <2>3, <2>4, <2>5, <3>3, <3>4, <3>6 DEF Current, Waited
  <2>7. CASE req[r].kind = "switch"
    <3>1. begun = Begun(t, actor) /\ "graph" \in begun
      BY <2>7 DEF begun, Begun, OfPerson
    <3>2. \A p \in OfPerson(label'[t]) : shown'[t][p] = Nobody
      BY <1>2, <1>4, <1>7, <2>5, <2>7
    <3>3. ASSUME NEW s \in Calls, req'[s].tab = t, Waited(s)', req'[s].kind \in Personal
          PROVE  FALSE
      <4>1. req'[s] = req[s] /\ s \notin rs /\ Waited(s) /\ req[s].kind \in Reading
        BY <2>4, <3>3 DEF Waited, Personal, Reading, Panes
      <4>2. latest[t][req[s].kind] = s
        BY <1>t, <3>3, <4>1 DEF TabOf, LatestOf
      <4>3. req[s].kind = "session"
        BY <1>5, <3>1, <3>3, <4>1, <4>2 DEF Personal
      <4> QED
        BY <1>8, <1>t, <2>7, <4>2, <4>3 DEF TabOf, SessionOf, Calls, NoRequest
    <3> QED
      BY <2>3, <2>5, <3>2, <3>3 DEF Current
  <2> QED
    BY <2>6, <2>7
<1>11. clicks' \in 0 .. MaxClicks /\ mishaps' \in 0 .. MaxMishaps
  BY DEF counters, WbTypeOK
<1>12. UNCHANGED serverVars /\ cookie' \in Cookies \cup {NoCookie}
  BY <1>3
<1>13. \/ actor = label[t]
       \/ "session" \notin wanted[t] /\ latest[t]["session"] \in rs \cup {NoRequest}
  BY <1>9
<1> HIDE DEF WbInv, actor
<1> QED
  <2>1. PageStep(t, rs, unsent, actor, read)
    BY <1>1, <1>u, <1>3, <1>6, <1>7, <1>10, <1>11, <1>12, <1>13 DEF PageStep
  <2> QED
    BY <2>1, PageKeeps

LEMMA DeliverKeeps ==
  ASSUME WbInv, NEW r \in Calls, Deliver(r)
  PROVE  WbInv'
<1> USE DEF WbInv
<1> DEFINE q == req[r]
<1>1. PICK t \in Tabs : t = q.tab
  BY DEF Deliver, Waited, TabInv
<1>2. /\ UNCHANGED <<serverVars, counters>>
      /\ cookie' = IF q.kind \in {"session", "switch"} /\ q.answer = "ok" THEN q.cookie ELSE cookie
      /\ fooled' = IF Who(cookie') # Who(cookie) THEN fooled \cup (Tabs \ {t}) ELSE fooled
  BY <1>1 DEF Deliver
<1>3. /\ \/ q.answer = "ok" /\ q.kind \in {"session", "switch"} /\ Greet(t, r)
         \/ /\ q.answer = "ok" /\ q.kind \in Panes
            /\ shown' = [shown EXCEPT ![t][q.kind] = q.actor]
            /\ Settle(t, {r}) /\ UNCHANGED <<label, wanted>>
         \/ /\ q.answer = "ok" /\ q.kind = "decide"
            /\ LET again == Begun(t, label[t]) \cap {"queue"}
               IN  Begin(t, again) /\ Settle(t, {r} \cup Awaited(t, again))
            /\ UNCHANGED label
         \/ q.answer = "error" /\ Settle(t, {r}) /\ UNCHANGED <<label, shown, wanted>>
  BY <1>1 DEF Deliver
<1>4. fooled \subseteq fooled' /\ fooled' \subseteq Tabs /\ cookie' \in Cookies \cup {NoCookie}
  BY <1>2 DEF WbTypeOK, Exchanges
<1>5. \A u \in Tabs \ {t} : u \notin fooled' => Who(cookie)' = Who(cookie)
  BY <1>2 DEF Who, Live, serverVars
<1>6. clicks' \in 0 .. MaxClicks /\ mishaps' \in 0 .. MaxMishaps
  BY <1>2 DEF counters, WbTypeOK
<1>t. label[t] \in Personas \cup {Nobody} /\ shown[t] \in [Panes -> Personas \cup {Nobody}]
  BY <1>1 DEF WbTypeOK
<1>u. UNCHANGED label => label' = [label EXCEPT ![t] = label[t]]
  BY <1>1 DEF WbTypeOK
<1>7. CASE q.answer = "ok" /\ q.kind \in {"session", "switch"} /\ Greet(t, r)
  BY <1>1, <1>2, <1>4, <1>5, <1>7, GreetKeeps
<1>8. CASE /\ q.answer = "ok" /\ q.kind \in Panes
           /\ shown' = [shown EXCEPT ![t][q.kind] = q.actor]
           /\ Settle(t, {r}) /\ UNCHANGED <<label, wanted>>
  <2> DEFINE read == [shown[t] EXCEPT ![q.kind] = q.actor]
  <2>1. /\ Settled(t, {r}) /\ cookie' = cookie /\ q.kind # "switch"
        /\ q.kind # "search" => q.kind \in Personal
    BY <1>1, <1>2, <1>8, SettleIs DEF Panes, Personal
  <2>2. q.actor \in Personas \cup {Nobody}
    BY DEF WbTypeOK, Exchanges
  <2>3. read \in [Panes -> Personas \cup {Nobody}] /\ shown' = [shown EXCEPT ![t] = read]
    BY <1>1, <1>8, <1>t, <2>2 DEF WbTypeOK
  <2>4. \A p \in Panes :
          shown'[t][p] = shown[t][p] \/ (p = q.kind /\ shown'[t][p] = q.actor)
    BY <1>1, <1>8 DEF WbTypeOK
  <2>5. Calm(t)' => Current(t)'
    BY <1>1, <1>2, <1>4, <1>8, <2>1, <2>4, CurrentStays
  <2>6. wanted' = [wanted EXCEPT ![t] = wanted[t]]
    BY <1>1, <1>8 DEF WbTypeOK
  <2> HIDE DEF read
  <2>7. label' = [label EXCEPT ![t] = label[t]] /\ \A s \in Calls : s \in {r} => req[s].tab = t
    BY <1>1, <1>8, <1>u
  <2>n. wanted[t] \in SUBSET (Panes \cup {"session"})
    BY <1>1 DEF WbTypeOK
  <2> HIDE DEF WbInv
  <2>p. PageStep(t, {r}, wanted[t], label[t], read)
    BY <1>2, <1>4, <1>5, <1>6, <1>t, <2>1, <2>3, <2>5, <2>6, <2>7, <2>n DEF PageStep
  <2> QED
    BY <1>1, <2>p, PageKeeps
<1>9. CASE /\ q.answer = "ok" /\ q.kind = "decide"
           /\ LET again == Begun(t, label[t]) \cap {"queue"}
              IN  Begin(t, again) /\ Settle(t, {r} \cup Awaited(t, again))
           /\ UNCHANGED label
  <2> DEFINE again == Begun(t, label[t]) \cap {"queue"}
             rs == {r} \cup Awaited(t, again)
             unsent == wanted[t] \cup again
             read == [p \in Panes |-> IF p \in again THEN Nobody ELSE shown[t][p]]
  <2>1. Settled(t, rs) /\ cookie' = cookie
    BY <1>1, <1>2, <1>9, SettleIs
  <2>2. again \in SUBSET Panes /\ again \in SUBSET Kinds /\ "switch" \notin again
    BY DEF Begun, OfPerson, Panes, Kinds
  <2>3. \A s \in Calls : s \in rs => req[s].tab = t /\ req[s].kind # "switch"
    BY <1>1, <1>9, <2>2, AwaitedIs
  <2>4. /\ unsent \in SUBSET (Panes \cup {"session"}) /\ wanted' = [wanted EXCEPT ![t] = unsent]
        /\ \A k \in unsent : k \in wanted[t] \/ (k \in Panes /\ latest[t][k] \in rs)
    BY <1>1, <1>9, <2>2 DEF Begin, Awaited, WbTypeOK
  <2>5. read \in [Panes -> Personas \cup {Nobody}] /\ shown' = [shown EXCEPT ![t] = read]
    BY <1>1, <1>9, <1>t DEF Begin, Blank
  <2>6. \A p \in Panes : shown'[t][p] \in {shown[t][p], Nobody}
    BY <1>1, <2>5 DEF WbTypeOK
  <2> HIDE DEF rs, read, again, unsent
  <2>7. Calm(t)' => Current(t)'
    BY <1>1, <1>2, <1>4, <1>9, <2>1, <2>3, <2>6, CurrentStays
  <2>8. label' = [label EXCEPT ![t] = label[t]] /\ \A s \in Calls : s \in rs => req[s].tab = t
    BY <1>9, <1>u, <2>3
  <2> HIDE DEF WbInv
  <2>p. PageStep(t, rs, unsent, label[t], read)
    BY <1>2, <1>4, <1>5, <1>6, <1>t, <2>1, <2>2, <2>4, <2>5, <2>7, <2>8 DEF PageStep
  <2> QED
    BY <1>1, <2>p, PageKeeps
<1>10. CASE q.answer = "error" /\ Settle(t, {r}) /\ UNCHANGED <<label, shown, wanted>>
  <2>1. Settled(t, {r}) /\ cookie' = cookie
    BY <1>1, <1>2, <1>10, SettleIs
  <2>2. Calm(t)' => Current(t)'
    BY <1>1, <1>2, <1>4, <1>10, <2>1, CurrentStays
  <2>3. /\ wanted' = [wanted EXCEPT ![t] = wanted[t]]
        /\ shown' = [shown EXCEPT ![t] = shown[t]]
    BY <1>1, <1>10 DEF WbTypeOK
  <2>4. label' = [label EXCEPT ![t] = label[t]] /\ \A s \in Calls : s \in {r} => req[s].tab = t
    BY <1>1, <1>10, <1>u
  <2>n. wanted[t] \in SUBSET (Panes \cup {"session"})
    BY <1>1 DEF WbTypeOK
  <2> HIDE DEF WbInv
  <2>p. PageStep(t, {r}, wanted[t], label[t], shown[t])
    BY <1>2, <1>4, <1>5, <1>6, <1>t, <2>1, <2>2, <2>3, <2>4, <2>n DEF PageStep
  <2> QED
    BY <1>1, <2>p, PageKeeps
<1> QED
  BY <1>3, <1>7, <1>8, <1>9, <1>10

LEMMA LoseKeeps ==
  ASSUME WbInv, NEW r \in Calls, Lose(r)
  PROVE  WbInv'
<1> USE DEF WbInv
<1> DEFINE q == req[r]
<1>1. PICK t \in Tabs : t = q.tab
  BY DEF Lose, Waited, TabInv
<1>2. PICK how \in {"sent", "running", "failing", "over"} :
        /\ how = q.at \/ (q.at = "sent" /\ how = "over")
        /\ req' = [req EXCEPT ![r] = Rest([@ EXCEPT !.answer = "taken", !.at = how])]
  BY DEF Lose, WbTypeOK, Exchanges
<1>3. /\ UNCHANGED <<serverVars, cookie, label, shown, wanted, clicks>>
      /\ mishaps < MaxMishaps /\ mishaps' = mishaps + 1
      /\ latest' = IF latest[t][q.kind] = r
                   THEN [latest EXCEPT ![t][q.kind] = NoRequest] ELSE latest
      /\ fooled' = IF q.kind = "switch" /\ q.answer = "ok" THEN fooled \cup {t} ELSE fooled
      /\ Waited(r)
  BY <1>1 DEF Lose, Waited
<1>4. q \in Exchanges /\ q.kind \in Kinds
  BY DEF WbTypeOK, Exchanges
<1>5. Settled(t, {r})
  <2> DEFINE given == [q EXCEPT !.answer = "taken", !.at = how]
  <2>1. /\ given \in Exchanges /\ given.answer = "taken" /\ given.at = how
        /\ given.tab = q.tab /\ given.kind = q.kind /\ given.person = q.person
        /\ given.cookie = q.cookie /\ given.actor = q.actor /\ given.moved = q.moved
    BY <1>4 DEF Exchanges
  <2> HIDE DEF given
  <2>2. /\ req' \in [Calls -> Exchanges] /\ req'[r] = Rest(given)
        /\ \A s \in Calls : s # r => req'[s] = req[s]
    BY <1>2, <2>1, FreeIsRequest DEF WbTypeOK, Rest, given
  <2>3. /\ req'[r].answer = "taken"
        /\ \/ req'[r] = Free /\ q.at \in {"sent", "over"}
           \/ /\ req'[r].tab = q.tab /\ req'[r].kind = q.kind
              /\ req'[r].person = q.person /\ req'[r].cookie = q.cookie
              /\ req'[r].at = q.at /\ req'[r].actor = q.actor /\ req'[r].moved = q.moved
    <3>1. CASE how = "over"
      BY <1>2, <2>1, <2>2, <3>1 DEF Rest, Free
    <3>2. CASE how # "over"
      BY <1>2, <2>1, <2>2, <3>2 DEF Rest
    <3> QED
      BY <3>1, <3>2
  <2>4. latest' \in [Tabs -> [Kinds -> Calls \cup {NoRequest}]]
    BY <1>1, <1>3, <1>4 DEF WbTypeOK
  <2>5. ASSUME NEW u \in Tabs, NEW k \in Kinds
        PROVE  latest'[u][k] = IF u = t /\ latest[t][k] \in {r} THEN NoRequest ELSE latest[u][k]
    <3>1. latest[t][k] = r => k = q.kind
      BY DEF TabOf, LatestOf, Calls, NoRequest
    <3> QED
      BY <1>1, <1>3, <1>4, <3>1 DEF WbTypeOK
  <2> QED
    BY <2>2, <2>3, <2>4, <2>5 DEF Settled
<1>6. /\ fooled \subseteq fooled' /\ fooled' \subseteq Tabs /\ cookie' \in Cookies \cup {NoCookie}
      /\ \A u \in Tabs \ {t} : u \notin fooled' => Who(cookie)' = Who(cookie)
  BY <1>3 DEF WbTypeOK, Who, Live, serverVars
<1>7. clicks' \in 0 .. MaxClicks /\ mishaps' \in 0 .. MaxMishaps
  BY <1>3, WorkbenchAssumption DEF WbTypeOK, WorkbenchAssumption
<1>8. /\ wanted' = [wanted EXCEPT ![t] = wanted[t]]
      /\ shown' = [shown EXCEPT ![t] = shown[t]] /\ label' = [label EXCEPT ![t] = label[t]]
      /\ label[t] \in Personas \cup {Nobody} /\ shown[t] \in [Panes -> Personas \cup {Nobody}]
  BY <1>3 DEF WbTypeOK
<1>9. /\ \/ t \in fooled'
         \/ \A s \in Calls : s \in {r} => req[s].kind # "switch" \/ req[s].answer # "ok"
      /\ \A p \in Panes : shown'[t][p] \in {shown[t][p], Nobody}
  BY <1>3
<1>10. Calm(t)' => Current(t)'
  BY <1>3, <1>5, <1>6, <1>9, CurrentStays
<1>11. /\ wanted[t] \in SUBSET (Panes \cup {"session"})
       /\ \A s \in Calls : s \in {r} => req[s].tab = t
  BY <1>1 DEF WbTypeOK
<1> HIDE DEF WbInv
<1> QED
  <2>1. PageStep(t, {r}, wanted[t], label[t], shown[t])
    BY <1>3, <1>5, <1>6, <1>7, <1>8, <1>10, <1>11 DEF PageStep
  <2> QED
    BY <2>1, PageKeeps

--------------------------------------------------------------------------------
(***************************************************************************)
(* The server.                                                             *)
(***************************************************************************)
\* The server goes on with requests: it makes none, changes of none that is waited
\* for what it is, and gives none up.
Served ==
  /\ req' \in [Calls -> Exchanges]
  /\ \A s \in Calls :
       /\ Waited(s)' <=> Waited(s)
       /\ Waited(s)' \/ req'[s].at # "over" =>
            /\ req'[s].tab = req[s].tab /\ req'[s].kind = req[s].kind
            /\ req'[s].person = req[s].person
            /\ req'[s].at = "sent" => req[s].at = "sent" /\ req'[s].answer = req[s].answer
            /\ req'[s].at # "over" => req[s].at # "over"

LEMMA ServerKeeps ==
  ASSUME WbInv, Served, InServer, fooled \subseteq fooled', fooled' \subseteq Tabs,
         sessions' \in [Cookies -> Personas \cup {Nobody, Ended}],
         slots' \subseteq Calls, SlotInv', NameInv', GreetInv',
         \A s \in Calls :
           /\ req'[s].at = "running" => req'[s].answer \in {"none", "taken"}
           /\ req'[s].at \in {"running", "failing"} => req'[s].kind \in Guarded,
         \A u \in Tabs : Calm(u)' => Current(u)'
  PROVE  WbInv'
<1> USE DEF WbInv
<1>1. WbTypeOK'
  BY DEF Served, InServer, pageVars, counters, WbTypeOK, SlotInv
<1>2. TabInv'
  BY DEF TabInv, Served, Waited
<1>3. ASSUME NEW u \in Tabs
      PROVE  TabOf(u)'
  <2>1. TabOf(u) /\ UNCHANGED <<latest, wanted, label>>
    BY DEF InServer, pageVars
  <2>2. \A s \in Calls : Waited(s)' => Waited(s) /\ req'[s].tab = req[s].tab /\ req'[s].kind = req[s].kind
    BY DEF Served
  <2>3. LatestOf(u)'
    <3>1. ASSUME NEW k \in Kinds, latest[u][k] # NoRequest
          PROVE  /\ req'[latest[u][k]].tab = u /\ req'[latest[u][k]].kind = k
                 /\ req'[latest[u][k]].answer # "taken"
      <4>1. latest[u][k] \in Calls
        BY <3>1 DEF WbTypeOK
      <4> QED
        BY <2>1, <3>1, <4>1 DEF TabOf, LatestOf, Served, Waited
    <3>2. ASSUME NEW s \in Calls, req'[s].tab = u, Waited(s)', req'[s].kind \in Reading
          PROVE  latest[u][req'[s].kind] = s
      BY <2>1, <2>2, <3>2 DEF TabOf, LatestOf
    <3> QED
      BY <2>1, <3>1, <3>2 DEF TabOf, LatestOf, Waited
  <2>4. SessionOf(u)'
    BY <2>1, <2>2 DEF TabOf, SessionOf
  <2> QED
    BY <2>3, <2>4 DEF TabOf
<1> QED
  BY <1>1, <1>2, <1>3

\* A handler thread goes on with its request, which is q then.
Advanced(r, q) ==
  /\ q \in Exchanges
  /\ Waited(r) <=> q.answer # "taken"
  /\ q.at # "sent"
  /\ req[r].kind = "switch" => req[r].answer # "ok" /\ q.answer # "ok"
  /\ Waited(r) \/ q.at # "over" =>
       /\ q.tab = req[r].tab /\ q.kind = req[r].kind /\ q.person = req[r].person
       /\ Who(q.cookie) = Who(req[r].cookie)
       /\ q.at # "over" => req[r].at # "over" /\ q.kind \in Guarded
  /\ q.at = "running" =>
       /\ req[r].at = "sent" /\ q.answer \in {"none", "taken"}
       /\ q.moved = req[r].moved
       /\ q.actor = Who(req[r].cookie)
  /\ q.answer = "ok" =>
       \/ q.actor = Who(req[r].cookie)
       \/ q.kind \in Guarded /\ q.actor = req[r].actor /\ (req[r].at = "running" \/ req[r].answer = "ok")

LEMMA AdvanceKeeps ==
  ASSUME WbInv, NEW r \in Calls, NEW q, Advanced(r, q), req' = [req EXCEPT ![r] = q],
         InServer, UNCHANGED fooled, \A c : Who(c)' = Who(c),
         sessions' \in [Cookies -> Personas \cup {Nobody, Ended}],
         slots' \subseteq Calls, SlotInv'
  PROVE  WbInv'
<1> USE DEF WbInv
<1>1. req'[r] = q /\ \A s \in Calls : s # r => req'[s] = req[s]
  BY DEF WbTypeOK
<1>2. req' \in [Calls -> Exchanges]
  BY DEF WbTypeOK, Advanced
<1>3. Served
  BY <1>1, <1>2 DEF Served, Advanced, Waited
<1>4. NameInv'
  <2>1. "decide" \in Guarded
    BY DEF Guarded
  <2>2. ASSUME q.kind = "decide", ~q.moved, q.at = "running"
        PROVE  q.actor = q.person
    BY <2>2 DEF Advanced, NameInv
  <2>3. q.at # "sent"
    BY DEF Advanced
  <2> QED
    BY <1>1, <2>2, <2>3 DEF NameInv
<1>5. GreetInv'
  <2>1. ASSUME q.kind \in {"session", "switch"}, q.answer = "ok", q.tab \notin fooled
        PROVE  q.actor = Who(q.cookie)
    BY <2>1 DEF Advanced, Guarded, Panes
  <2> QED
    BY <1>1, <2>1 DEF GreetInv
<1>6. \A s \in Calls :
        /\ req'[s].at = "running" => req'[s].answer \in {"none", "taken"}
        /\ req'[s].at \in {"running", "failing"} => req'[s].kind \in Guarded
  BY <1>1 DEF TabInv, Advanced
<1>7. ASSUME NEW u \in Tabs, Calm(u)'
      PROVE  Current(u)'
  <2>1. Calm(u)
    <3>1. ASSUME NEW s \in Calls, req[s].tab = u, req[s].answer = "ok"
          PROVE  req[s].kind # "switch"
      BY <1>1, <1>7, <3>1 DEF Calm, Advanced
    <3> QED
      BY <1>7, <3>1 DEF Calm
  <2>2. Current(u) /\ UNCHANGED <<label, shown, cookie>>
    BY <2>1 DEF TabOf, InServer, pageVars
  <2>3. ASSUME NEW s \in Calls, req'[s].tab = u, Waited(s)', req'[s].kind \in Personal
        PROVE  /\ Who(req'[s].cookie) = Who(cookie)
               /\ req'[s].at = "running" \/ req'[s].answer = "ok" => req'[s].actor = Who(cookie)
    <3>1. CASE s # r
      BY <1>1, <2>2, <2>3, <3>1 DEF Current, Waited
    <3>2. CASE s = r
      <4>1. /\ Waited(r) /\ req[r].tab = u /\ req[r].kind \in Personal
            /\ Who(q.cookie) = Who(req[r].cookie)
        BY <1>1, <2>3, <3>2 DEF Advanced, Waited
      <4>2. /\ Who(req[r].cookie) = Who(cookie)
            /\ req[r].at = "running" \/ req[r].answer = "ok" => req[r].actor = Who(cookie)
        BY <2>2, <4>1 DEF Current
      <4> QED
        BY <1>1, <3>2, <4>1, <4>2 DEF Advanced
    <3> QED
      BY <3>1, <3>2
  <2> QED
    BY <2>2, <2>3 DEF Current
<1> QED
  BY <1>2, <1>3, <1>4, <1>5, <1>6, <1>7, ServerKeeps DEF WbTypeOK

\* What Answered and Rest leave of a request.
LEMMA AnsweredIs ==
  ASSUME NEW q \in Exchanges, NEW how \in {"running", "failing", "over"}, NEW answer \in {"ok", "error"}
  PROVE  LET a == Answered(q, how, answer)
         IN  /\ a \in Exchanges /\ a.at = how
             /\ a.answer = IF q.answer = "taken" THEN "taken" ELSE answer
             /\ q.answer # "taken" \/ how # "over" =>
                  /\ a.tab = q.tab /\ a.kind = q.kind /\ a.person = q.person
                  /\ a.cookie = q.cookie /\ a.actor = q.actor /\ a.moved = q.moved
<1> DEFINE given == [q EXCEPT !.at = how, !.answer = IF @ = "taken" THEN @ ELSE answer]
<1>1. /\ given \in Exchanges /\ given.at = how
      /\ given.answer = IF q.answer = "taken" THEN "taken" ELSE answer
      /\ given.tab = q.tab /\ given.kind = q.kind /\ given.person = q.person
      /\ given.cookie = q.cookie /\ given.actor = q.actor /\ given.moved = q.moved
  BY DEF Exchanges
<1>2. Answered(q, how, answer) = Rest(given)
  BY DEF Answered
<1> HIDE DEF given
<1>3. CASE given.at = "over" /\ given.answer = "taken"
  <2>1. Answered(q, how, answer) = Free
    BY <1>2, <1>3 DEF Rest
  <2>2. Free.at = "over" /\ Free.answer = "taken"
    BY DEF Free
  <2>3. how = "over" /\ q.answer = "taken"
    BY <1>1, <1>3
  <2> QED
    BY <2>1, <2>2, <2>3, FreeIsRequest
<1>4. CASE ~(given.at = "over" /\ given.answer = "taken")
  <2>1. Answered(q, how, answer) = given
    BY <1>2, <1>4 DEF Rest
  <2> QED
    BY <1>1, <1>4, <2>1
<1> QED
  BY <1>3, <1>4

LEMMA SessionKeeps ==
  ASSUME WbInv, NEW r \in Calls, Session(r)
  PROVE  WbInv'
<1> USE DEF WbInv
<1>1. PICK c \in Cookies :
        /\ IF Live(req[r].cookie) THEN c = req[r].cookie ELSE Unused(c)
        /\ sessions' = [sessions EXCEPT ![c] = Who(req[r].cookie)]
        /\ req' = [req EXCEPT ![r] =
                     Answered([@ EXCEPT !.cookie = c, !.actor = Who(req[r].cookie)], "over", "ok")]
  BY DEF Session, Live
<1>2. Who(req[r].cookie) \in Personas /\ Default \in Personas
  BY WorkbenchAssumption DEF WorkbenchAssumption, Who, Live
<1>3. ASSUME NEW d
      PROVE  Who(d)' = Who(d)
  <2>1. CASE d # c \/ d \notin Cookies
    BY <1>1, <2>1 DEF Who, Live, WbTypeOK
  <2>2. CASE d = c
    <3>1. Who(c)' = Who(req[r].cookie)
      BY <1>1, <1>2 DEF Who, Live, WbTypeOK
    <3>2. Who(c) = Who(req[r].cookie)
      BY <1>1, WorkbenchAssumption DEF Who, Live, Unused, WorkbenchAssumption
    <3> QED
      BY <2>2, <3>1, <3>2
  <2> QED
    BY <2>1, <2>2
<1>4. Who(c) = Who(req[r].cookie)
  <2>1. Who(c)' = Who(req[r].cookie)
    BY <1>1, <1>2 DEF Who, Live, WbTypeOK
  <2> QED
    BY <1>3, <2>1
<1> DEFINE q1 == [req[r] EXCEPT !.cookie = c, !.actor = Who(req[r].cookie)]
           q == Answered(q1, "over", "ok")
<1>5. /\ q1 \in Exchanges /\ q1.answer = req[r].answer
      /\ q1.tab = req[r].tab /\ q1.kind = req[r].kind /\ q1.person = req[r].person
      /\ q1.cookie = c /\ q1.actor = Who(req[r].cookie)
  <2>1. req[r] \in Exchanges /\ c \in Cookies /\ Who(req[r].cookie) \in Personas
    BY <1>2 DEF WbTypeOK
  <2> HIDE DEF WbInv
  <2> QED
    BY <2>1 DEF Exchanges
<1>6. req' = [req EXCEPT ![r] = q]
  BY <1>1
<1>7. req[r].at = "sent" /\ req[r].kind = "session"
  BY DEF Session
<1> HIDE DEF q1
<1>8. Advanced(r, q)
  BY <1>4, <1>5, <1>7, AnsweredIs DEF Advanced, Waited
<1> HIDE DEF q
<1>9. UNCHANGED <<slots, kids, fooled>> /\ InServer
  BY DEF Session
<1>10. sessions' \in [Cookies -> Personas \cup {Nobody, Ended}] /\ slots' \subseteq Calls
  BY <1>1, <1>2, <1>9 DEF WbTypeOK
<1>11. SlotInv'
  BY <1>6, <1>7, <1>9 DEF SlotInv, WbTypeOK
<1> QED
  BY <1>3, <1>6, <1>8, <1>9, <1>10, <1>11, AdvanceKeeps

LEMMA AdmitKeeps ==
  ASSUME WbInv, NEW r \in Calls, Admit(r)
  PROVE  WbInv'
<1> USE DEF WbInv
<1>1. /\ req[r].at = "sent" /\ req[r].kind \in Guarded
      /\ UNCHANGED <<sessions, fooled>> /\ InServer
  BY DEF Admit
<1>2. /\ \A c : Who(c)' = Who(c)
      /\ sessions' \in [Cookies -> Personas \cup {Nobody, Ended}]
      /\ Who(req[r].cookie) \in Personas
  BY <1>1, WorkbenchAssumption DEF Who, Live, WbTypeOK, WorkbenchAssumption
<1>3. req[r] \in Exchanges /\ req[r].kind # "switch" /\ r \notin kids
      /\ req[r].answer \in {"none", "taken"}
  BY <1>1 DEF WbTypeOK, Guarded, Panes, SlotInv, TabInv
<1>4. CASE Cardinality(slots) < SlotCount
  <2> DEFINE q == [req[r] EXCEPT !.at = "running", !.actor = Who(req[r].cookie)]
  <2>1. /\ slots' = slots \cup {r} /\ kids' = kids \cup {r}
        /\ req' = [req EXCEPT ![r] = q]
    BY <1>4 DEF Admit
  <2>2. /\ q \in Exchanges /\ q.at = "running" /\ q.actor = Who(req[r].cookie)
        /\ q.answer = req[r].answer /\ q.tab = req[r].tab /\ q.kind = req[r].kind
        /\ q.person = req[r].person /\ q.cookie = req[r].cookie /\ q.moved = req[r].moved
    BY <1>2, <1>3 DEF Exchanges
  <2> HIDE DEF q
  <2>3. Advanced(r, q)
    BY <1>1, <1>3, <2>2 DEF Advanced, Waited
  <2>4. slots' \subseteq Calls
    BY <2>1 DEF WbTypeOK
  <2>5. Cardinality(slots') <= SlotCount
    <3>1. IsFiniteSet(Calls)
      BY FS_Interval, WorkbenchAssumption DEF Calls, WorkbenchAssumption
    <3>2. IsFiniteSet(slots)
      BY <3>1, FS_Subset DEF WbTypeOK
    <3>3. Cardinality(slots) \in Nat /\ SlotCount \in Nat
      BY <3>2, FS_CardinalityType, WorkbenchAssumption DEF WorkbenchAssumption
    <3>4. Cardinality(slots \cup {r}) = IF r \in slots THEN Cardinality(slots) ELSE Cardinality(slots) + 1
      BY <3>2, FS_AddElement
    <3> QED
      BY <1>4, <2>1, <3>3, <3>4
  <2>6. SlotInv'
    BY <2>1, <2>2, <2>5 DEF SlotInv, WbTypeOK
  <2> QED
    BY <1>1, <1>2, <2>1, <2>3, <2>4, <2>6, AdvanceKeeps
<1>5. CASE ~(Cardinality(slots) < SlotCount)
  <2> DEFINE q == Answered(req[r], "over", "error")
  <2>1. req' = [req EXCEPT ![r] = q] /\ UNCHANGED <<slots, kids>>
    BY <1>5 DEF Admit
  <2>2. Advanced(r, q)
    BY <1>1, <1>3, AnsweredIs DEF Advanced, Waited
  <2> HIDE DEF q
  <2>3. slots' \subseteq Calls /\ SlotInv'
    BY <1>3, <2>1 DEF WbTypeOK, SlotInv
  <2> QED
    BY <1>1, <1>2, <2>1, <2>2, <2>3, AdvanceKeeps
<1> QED
  BY <1>4, <1>5

\* Slots are given back.
LEMMA FewerSlots ==
  ASSUME WbInv, NEW left \in SUBSET slots
  PROVE  Cardinality(left) <= SlotCount
<1>1. IsFiniteSet(Calls)
  BY FS_Interval, WorkbenchAssumption DEF Calls, WorkbenchAssumption
<1>2. IsFiniteSet(slots)
  BY <1>1, FS_Subset DEF WbInv, WbTypeOK
<1>3. IsFiniteSet(left) /\ Cardinality(left) <= Cardinality(slots)
  BY <1>2, FS_Subset
<1>4. Cardinality(left) \in Nat /\ Cardinality(slots) \in Nat /\ SlotCount \in Nat
  BY <1>2, <1>3, FS_CardinalityType, WorkbenchAssumption DEF WorkbenchAssumption
<1> QED
  BY <1>3, <1>4 DEF WbInv, SlotInv

\* A call of the gateway that ends, and the slot that comes back.
LEMMA EndKeeps ==
  ASSUME WbInv, NEW r \in Calls, Return(r) \/ Timeout(r) \/ Release(r)
  PROVE  WbInv'
<1> USE DEF WbInv
<1>1. UNCHANGED <<sessions, fooled>> /\ InServer
  BY DEF Return, Timeout, Release
<1>2. /\ \A c : Who(c)' = Who(c)
      /\ sessions' \in [Cookies -> Personas \cup {Nobody, Ended}]
  BY <1>1 DEF Who, Live, WbTypeOK
<1>3. req[r] \in Exchanges
  BY DEF WbTypeOK
<1>4. CASE Return(r)
  <2> DEFINE q == Answered(req[r], "over", "ok")
  <2>1. /\ req[r].at = "running" /\ req' = [req EXCEPT ![r] = q]
        /\ slots' = slots \ {r} /\ kids' = kids \ {r}
    BY <1>4 DEF Return
  <2>2. req[r].kind \in Guarded /\ req[r].kind # "switch"
    BY <2>1 DEF TabInv, Guarded, Panes
  <2>3. Advanced(r, q)
    BY <1>3, <2>1, <2>2, AnsweredIs DEF Advanced, Waited
  <2> HIDE DEF q
  <2>4. slots' \subseteq Calls /\ SlotInv'
    BY <2>1, FewerSlots DEF WbTypeOK, SlotInv
  <2> QED
    BY <1>1, <1>2, <2>1, <2>3, <2>4, AdvanceKeeps
<1>5. CASE Timeout(r)
  <2> DEFINE q == Answered(req[r], "failing", "error")
  <2>1. /\ req[r].at = "running" /\ req' = [req EXCEPT ![r] = q]
        /\ slots' = slots /\ kids' = kids \ {r}
    BY <1>5 DEF Timeout
  <2>2. req[r].kind \in Guarded /\ req[r].kind # "switch"
    BY <2>1 DEF TabInv, Guarded, Panes
  <2>3. Advanced(r, q)
    BY <1>3, <2>1, <2>2, AnsweredIs DEF Advanced, Waited
  <2> HIDE DEF q
  <2>4. slots' \subseteq Calls /\ SlotInv'
    BY <2>1 DEF WbTypeOK, SlotInv
  <2> QED
    BY <1>1, <1>2, <2>1, <2>3, <2>4, AdvanceKeeps
<1>6. CASE Release(r)
  <2> DEFINE given == [req[r] EXCEPT !.at = "over"]
             q == Rest(given)
  <2>1. /\ req[r].at = "failing" /\ req' = [req EXCEPT ![r] = q]
        /\ slots' = slots \ {r} /\ kids' = kids
    BY <1>6 DEF Release
  <2>2. req[r].kind \in Guarded /\ req[r].kind # "switch" /\ r \notin kids
    BY <2>1 DEF TabInv, SlotInv, Guarded, Panes
  <2>3. /\ given \in Exchanges /\ given.at = "over" /\ given.answer = req[r].answer
        /\ given.tab = req[r].tab /\ given.kind = req[r].kind /\ given.person = req[r].person
        /\ given.cookie = req[r].cookie /\ given.actor = req[r].actor
    BY <1>3 DEF Exchanges
  <2> HIDE DEF given
  <2>4. Free.at = "over" /\ Free.answer = "taken"
    BY DEF Free
  <2>5. Advanced(r, q)
    <3>1. CASE req[r].answer = "taken"
      <4>1. q = Free
        BY <2>3, <3>1 DEF Rest
      <4> QED
        BY <2>2, <2>4, <3>1, <4>1, FreeIsRequest DEF Advanced, Waited
    <3>2. CASE req[r].answer # "taken"
      <4>1. q = given
        BY <2>3, <3>2 DEF Rest
      <4> QED
        BY <2>2, <2>3, <3>2, <4>1 DEF Advanced, Waited
    <3> QED
      BY <3>1, <3>2
  <2> HIDE DEF q
  <2>6. slots' \subseteq Calls /\ SlotInv'
    BY <2>1, <2>2, FewerSlots DEF WbTypeOK, SlotInv
  <2> QED
    BY <1>1, <1>2, <2>1, <2>5, <2>6, AdvanceKeeps
<1> QED
  BY <1>4, <1>5, <1>6

\* Decisions that have not reached the server are told that a session changed.
LEMMA MovedIs ==
  ASSUME WbTypeOK, NEW s \in Calls
  PROVE  /\ Moved[s] \in Exchanges
         /\ Moved[s].tab = req[s].tab /\ Moved[s].kind = req[s].kind
         /\ Moved[s].person = req[s].person /\ Moved[s].cookie = req[s].cookie
         /\ Moved[s].at = req[s].at /\ Moved[s].actor = req[s].actor
         /\ Moved[s].answer = req[s].answer
         /\ IF req[s].at = "sent" /\ req[s].kind = "decide" THEN Moved[s].moved
            ELSE Moved[s].moved = req[s].moved
<1>1. req[s] \in Exchanges
  BY DEF WbTypeOK
<1>2. Moved[s] = IF req[s].at = "sent" /\ req[s].kind = "decide" THEN [req[s] EXCEPT !.moved = TRUE] ELSE req[s]
  BY DEF Moved
<1>3. /\ [req[s] EXCEPT !.moved = TRUE] \in Exchanges /\ [req[s] EXCEPT !.moved = TRUE].moved
      /\ [req[s] EXCEPT !.moved = TRUE].tab = req[s].tab /\ [req[s] EXCEPT !.moved = TRUE].kind = req[s].kind
      /\ [req[s] EXCEPT !.moved = TRUE].person = req[s].person
      /\ [req[s] EXCEPT !.moved = TRUE].cookie = req[s].cookie
      /\ [req[s] EXCEPT !.moved = TRUE].at = req[s].at
      /\ [req[s] EXCEPT !.moved = TRUE].actor = req[s].actor
      /\ [req[s] EXCEPT !.moved = TRUE].answer = req[s].answer
  BY <1>1 DEF Exchanges
<1> QED
  BY <1>1, <1>2, <1>3

LEMMA LapseKeeps ==
  ASSUME WbInv, Lapse
  PROVE  WbInv'
<1> USE DEF WbInv
<1>1. /\ mishaps < MaxMishaps /\ mishaps' = mishaps + 1 /\ req' = Moved /\ fooled' = Tabs
      /\ UNCHANGED <<slots, kids, pageVars, clicks>>
  BY DEF Lapse
<1>2. sessions' \in [Cookies -> Personas \cup {Nobody, Ended}]
  BY DEF Lapse, WbTypeOK
<1>3. mishaps' \in 0 .. MaxMishaps
  BY <1>1, WorkbenchAssumption DEF WbTypeOK, WorkbenchAssumption
<1>4. req' \in [Calls -> Exchanges]
  BY <1>1, MovedIs DEF Moved
<1>5. \A s \in Calls :
        /\ req'[s].tab = req[s].tab /\ req'[s].kind = req[s].kind /\ req'[s].person = req[s].person
        /\ req'[s].at = req[s].at /\ req'[s].answer = req[s].answer /\ req'[s].actor = req[s].actor
        /\ IF req[s].at = "sent" /\ req[s].kind = "decide" THEN req'[s].moved ELSE req'[s].moved = req[s].moved
  BY <1>1, MovedIs
<1>6. WbTypeOK'
  BY <1>1, <1>2, <1>3, <1>4 DEF WbTypeOK, pageVars
<1>7. SlotInv' /\ TabInv'
  <2>1. kids \subseteq Calls
    BY DEF WbTypeOK, SlotInv
  <2>2. SlotInv'
    BY <1>1, <1>5, <2>1 DEF SlotInv
  <2>3. TabInv'
    BY <1>5 DEF TabInv, Waited
  <2> QED
    BY <2>2, <2>3
<1>8. NameInv'
  BY <1>5 DEF NameInv
<1>9. GreetInv'
  BY <1>1, <1>5 DEF GreetInv, TabInv, Waited
<1>10. ASSUME NEW u \in Tabs
       PROVE  TabOf(u)'
  <2>1. TabOf(u) /\ UNCHANGED <<latest, wanted, label>> /\ latest[u] \in [Kinds -> Calls \cup {NoRequest}]
    BY <1>1 DEF pageVars, WbTypeOK
  <2>2. LatestOf(u)'
    BY <1>5, <2>1 DEF TabOf, LatestOf, Waited
  <2>3. SessionOf(u)'
    BY <1>5, <2>1 DEF TabOf, SessionOf, Waited
  <2> QED
    BY <1>1, <2>2, <2>3 DEF TabOf, Calm
<1> QED
  BY <1>6, <1>7, <1>8, <1>9, <1>10

\* A switch that lands: whoever is not told of it is fooled, and who is told has an
\* answer to come that names the person.
LEMMA PersonaKeeps ==
  ASSUME WbInv, NEW r \in Calls, Persona(r)
  PROVE  WbInv'
<1> USE DEF WbInv
<1> DEFINE q0 == req[r]
           sole == /\ latest[q0.tab]["switch"] = r
                   /\ \A s \in UnderWay(q0.tab) \ {r} : req[s].kind # "switch"
<1>1. /\ q0.at = "sent" /\ q0.kind = "switch"
      /\ UNCHANGED <<slots, kids>> /\ InServer
  BY DEF Persona
<1>2. /\ q0 \in Exchanges /\ q0.tab \in Tabs /\ q0.person \in Personas
      /\ q0.answer \in {"none", "taken"} /\ r \notin kids
  BY <1>1 DEF WbTypeOK, TabInv, SlotInv
<1>3. CASE ~Live(q0.cookie)
  <2> DEFINE q == Answered(req[r], "over", "error")
  <2>1. req' = [req EXCEPT ![r] = q] /\ UNCHANGED <<sessions, fooled>>
    BY <1>3 DEF Persona
  <2>2. Advanced(r, q)
    BY <1>1, <1>2, AnsweredIs DEF Advanced, Waited
  <2> HIDE DEF q
  <2>3. /\ slots' \subseteq Calls /\ SlotInv'
        /\ sessions' \in [Cookies -> Personas \cup {Nobody, Ended}]
        /\ \A c : Who(c)' = Who(c)
    BY <1>1, <1>2, <2>1 DEF WbTypeOK, SlotInv, Who, Live
  <2> QED
    BY <1>1, <2>1, <2>2, <2>3, AdvanceKeeps
<1>4. CASE Live(q0.cookie)
  <2> DEFINE q1 == [q0 EXCEPT !.actor = q0.person]
             q == Answered(q1, "over", "ok")
  <2>1. /\ sessions' = [sessions EXCEPT ![q0.cookie] = q0.person]
        /\ req' = [Moved EXCEPT ![r] = q]
        /\ fooled' = fooled \cup (IF sole THEN Tabs \ {q0.tab} ELSE Tabs)
    BY <1>4 DEF Persona
  <2>2. /\ q1 \in Exchanges /\ q1.answer = q0.answer /\ q1.tab = q0.tab /\ q1.kind = q0.kind
        /\ q1.person = q0.person /\ q1.cookie = q0.cookie /\ q1.actor = q0.person
    BY <1>2 DEF Exchanges
  <2> HIDE DEF q1
  <2>3. /\ q \in Exchanges /\ q.at = "over"
        /\ q.answer = IF q0.answer = "taken" THEN "taken" ELSE "ok"
        /\ q0.answer # "taken" =>
             /\ q.tab = q0.tab /\ q.kind = "switch" /\ q.person = q0.person
             /\ q.cookie = q0.cookie /\ q.actor = q0.person
    BY <1>1, <2>2, AnsweredIs
  <2> HIDE DEF q
  <2>4. /\ req'[r] = q /\ \A s \in Calls : s # r => req'[s] = Moved[s]
        /\ req' \in [Calls -> Exchanges]
    BY <2>1, <2>3, MovedIs DEF Moved
  <2>5. \A s \in Calls : s # r =>
          /\ req'[s].tab = req[s].tab /\ req'[s].kind = req[s].kind /\ req'[s].person = req[s].person
          /\ req'[s].at = req[s].at /\ req'[s].answer = req[s].answer /\ req'[s].actor = req[s].actor
          /\ IF req[s].at = "sent" /\ req[s].kind = "decide" THEN req'[s].moved
             ELSE req'[s].moved = req[s].moved
    BY <2>4, MovedIs
  <2>6. Served
    BY <1>1, <2>3, <2>4, <2>5 DEF Served, Waited
  <2>7. sole =>
          /\ Waited(r)
          /\ \A s \in Calls : s # r /\ req[s].tab = q0.tab /\ Waited(s) => req[s].kind \notin {"session", "switch"}
    <3> SUFFICES ASSUME sole
                 PROVE  /\ Waited(r)
                        /\ \A s \in Calls : s # r /\ req[s].tab = q0.tab /\ Waited(s) =>
                             req[s].kind \notin {"session", "switch"}
      OBVIOUS
    <3>1. TabOf(q0.tab) /\ r # NoRequest /\ "switch" \in Kinds /\ "session" \in Reading
      BY <1>2 DEF Calls, NoRequest, Kinds, Reading
    <3>2. Waited(r)
      BY <3>1 DEF TabOf, LatestOf
    <3>3. latest[q0.tab]["session"] = NoRequest
      BY <1>1, <3>1, <3>2 DEF TabOf, SessionOf
    <3>4. ASSUME NEW s \in Calls, s # r, req[s].tab = q0.tab, Waited(s)
          PROVE  req[s].kind \notin {"session", "switch"}
      <4>1. req[s].kind # "switch"
        BY <3>4 DEF UnderWay, Waited
      <4>2. req[s].kind # "session"
        BY <3>1, <3>3, <3>4 DEF TabOf, LatestOf, Calls, NoRequest
      <4> QED
        BY <4>1, <4>2
    <3> QED
      BY <3>2, <3>4
  <2>c. PICK c \in Cookies : c = q0.cookie
    BY <1>4 DEF Live
  <2>8. Who(c)' = q0.person
    BY <1>2, <1>4, <2>1, <2>c DEF Who, Live, WbTypeOK
  <2>9. GreetInv'
    <3>1. ASSUME NEW s \in Calls, req'[s].kind \in {"session", "switch"}, req'[s].answer = "ok",
                 req'[s].tab \notin fooled'
          PROVE  (req[s].actor = Who(req[s].cookie))'
      <4>1. CASE s = r
        <5>1. req'[s].cookie = c /\ req'[s].actor = q0.person
          BY <2>3, <2>4, <2>c, <3>1, <4>1
        <5> QED
          BY <2>8, <5>1
      <4>2. CASE s # r
        <5>1. Waited(s) /\ req[s].tab \in Tabs
          BY <2>5, <3>1, <4>2 DEF Waited, TabInv
        <5>2. sole /\ req[s].tab = q0.tab
          BY <2>1, <2>5, <3>1, <4>2, <5>1
        <5> QED
          BY <2>5, <2>7, <3>1, <4>2, <5>1, <5>2
      <4> QED
        BY <4>1, <4>2
    <3> QED
      BY <3>1 DEF GreetInv
  <2>10. NameInv'
    <3>1. ASSUME NEW s \in Calls, req'[s].kind = "decide", ~req'[s].moved
          PROVE  req'[s].at # "sent" /\ (req'[s].at = "running" => req'[s].actor = req'[s].person)
      BY <2>3, <2>4, <2>5, <3>1 DEF NameInv
    <3> QED
      BY <3>1 DEF NameInv
  <2>11. /\ fooled \subseteq fooled' /\ fooled' \subseteq Tabs /\ slots' \subseteq Calls
         /\ sessions' \in [Cookies -> Personas \cup {Nobody, Ended}]
    BY <1>1, <1>2, <2>1 DEF WbTypeOK
  <2>12. SlotInv'
    BY <1>1, <1>2, <2>5 DEF SlotInv, WbTypeOK
  <2>13. \A s \in Calls :
           /\ req'[s].at = "running" => req'[s].answer \in {"none", "taken"}
           /\ req'[s].at \in {"running", "failing"} => req'[s].kind \in Guarded
    BY <2>3, <2>4, <2>5 DEF TabInv
  <2>14. \A u \in Tabs : ~Calm(u)'
    <3> SUFFICES ASSUME NEW u \in Tabs, u \notin fooled'
                 PROVE  ~Calm(u)'
      BY DEF Calm
    <3>1. sole /\ u = q0.tab
      BY <2>1
    <3> QED
      BY <2>3, <2>4, <2>7, <3>1 DEF Calm, Waited
  <2> QED
    BY <1>1, <2>6, <2>9, <2>10, <2>11, <2>12, <2>13, <2>14, ServerKeeps
<1> QED
  BY <1>3, <1>4

--------------------------------------------------------------------------------
LEMMA WbInitHolds ==
  ASSUME WbInit
  PROVE  WbInv
<1>1. PICK p \in Personas \cup {Nobody} :
        /\ p = Nobody <=> cookie = NoCookie
        /\ sessions = [c \in Cookies |-> IF c = cookie THEN p ELSE Nobody]
        /\ label = [t \in Tabs |-> p]
        /\ shown = [t \in Tabs |-> ReadFor(p)]
  BY DEF WbInit
<1>2. /\ req = [r \in Calls |-> Free] /\ slots = {} /\ kids = {}
      /\ wanted = [t \in Tabs |-> {}]
      /\ latest = [t \in Tabs |-> [k \in Kinds |-> NoRequest]]
      /\ cookie \in {NoCookie, 1} /\ fooled = {} /\ clicks = 0 /\ mishaps = 0
  BY DEF WbInit
<1>3. cookie \in Cookies \cup {NoCookie} /\ NoCookie \notin Cookies
  BY <1>2, WorkbenchAssumption DEF WorkbenchAssumption, Cookies, NoCookie
<1>4. ReadFor(p) \in [Panes -> Personas \cup {Nobody}] /\ \A k \in Panes : ReadFor(p)[k] \in {p, Nobody}
  BY DEF ReadFor
<1>5. WbTypeOK
  <2>1. req \in [Calls -> Exchanges]
    BY <1>2, FreeIsRequest
  <2> QED
    BY <1>1, <1>2, <1>3, <1>4, <2>1, WorkbenchAssumption DEF WbTypeOK, WorkbenchAssumption
<1>6. \A r \in Calls : req[r].at = "over" /\ req[r].answer = "taken" /\ req[r].kind = "graph"
  BY <1>2 DEF Free
<1>7. SlotInv
  BY <1>2, FS_EmptySet, WorkbenchAssumption DEF SlotInv, WorkbenchAssumption
<1>8. TabInv /\ NameInv /\ GreetInv
  BY <1>6 DEF TabInv, NameInv, GreetInv, Waited
<1>9. ASSUME NEW t \in Tabs
      PROVE  TabOf(t)
  <2>1. p # Nobody => p = Who(cookie)
    BY <1>1, <1>3 DEF Who, Live
  <2>2. Current(t)
    BY <1>1, <1>4, <1>6, <2>1 DEF Current, OfPerson, Panes, Waited
  <2>3. LatestOf(t) /\ SessionOf(t)
    BY <1>2, <1>6, FreeIsRequest DEF LatestOf, SessionOf, Waited, Reading, Kinds
  <2> QED
    BY <2>2, <2>3 DEF TabOf
<1> QED
  BY <1>5, <1>7, <1>8, <1>9 DEF WbInv

LEMMA WbStepKeeps ==
  ASSUME WbInv, [WbNext]_wbVars
  PROVE  WbInv'
<1>1. CASE UNCHANGED wbVars
  BY <1>1 DEF WbInv, wbVars, serverVars, pageVars, counters, WbTypeOK, SlotInv, TabInv, NameInv,
             GreetInv, TabOf, LatestOf, SessionOf, Calm, Current, Waited, Who, Live
<1>2. ASSUME NEW t \in Tabs, Open(t) \/ Fetch(t) \/ Navigate(t) \/ Seek(t) \/ Switch(t) \/ Decide(t)
      PROVE  WbInv'
  BY <1>2, OpenKeeps, FetchKeeps, NavigateKeeps, SeekKeeps, SwitchKeeps, DecideKeeps
<1>3. ASSUME NEW r \in Calls, Serve(r) \/ Timeout(r) \/ Deliver(r) \/ Lose(r)
      PROVE  WbInv'
  BY <1>3, SessionKeeps, PersonaKeeps, AdmitKeeps, EndKeeps, DeliverKeeps, LoseKeeps DEF Serve
<1> QED
  BY <1>1, <1>2, <1>3, LapseKeeps DEF WbNext

LEMMA WbInvariant == WbSpec => []WbInv
<1>1. WbInit => WbInv
  BY WbInitHolds
<1>2. WbInv /\ [WbNext]_wbVars => WbInv'
  BY WbStepKeeps
<1> QED
  BY <1>1, <1>2, PTL DEF WbSpec

\* The pages, requests, sessions and slots stay what they are said to be.
THEOREM WorkbenchIsTyped == WbSpec => []WbTypeOK
<1>1. WbInv => WbTypeOK
  BY DEF WbInv
<1> QED
  BY <1>1, WbInvariant, PTL

\* However requests fail and time out, no more MCP processes run than there are
\* slots (request_slots of the workbench server).
THEOREM ProcessesStayBounded == WbSpec => []ProcessesBounded
<1>1. WbInv => ProcessesBounded
  <2> SUFFICES ASSUME WbInv PROVE ProcessesBounded
    OBVIOUS
  <2>1. kids \in SUBSET slots
    BY DEF WbInv, SlotInv
  <2> QED
    BY <2>1, FewerSlots DEF ProcessesBounded
<1> QED
  BY <1>1, WbInvariant, PTL

\* A decision that reaches the gateway carries the name that the page showed, or
\* the session was changed meanwhile (_actor_and_invoker).
THEOREM DecisionsKeepTheirName == WbSpec => []DecidersAreNamed
<1>1. WbInv => DecidersAreNamed
  BY DEF WbInv, NameInv, DecidersAreNamed
<1> QED
  BY <1>1, WbInvariant, PTL

\* A page at rest names the person of its session, and what it shows of that person -
\* the matches of a search are not - was read for that person, unless the session
\* was changed by another page or has ended, the page was reloaded or lost the answer
\* while its switch was under way, or it sent a switch before the last was answered
\* (changePersona, and the effects that read again).
THEOREM RestingTabIsHonest == WbSpec => []QuietTabIsHonest
<1>1. WbInv => QuietTabIsHonest
  <2> SUFFICES ASSUME WbInv, NEW t \in Tabs, label[t] # Nobody, UnderWay(t) = {}, t \notin fooled
               PROVE  /\ label[t] = Who(cookie)
                      /\ \A p \in OfPerson(label[t]) : shown[t][p] \in {label[t], Nobody}
    BY DEF QuietTabIsHonest
  <2>1. Calm(t)
    BY DEF Calm, UnderWay
  <2> QED
    BY <2>1 DEF WbInv, TabOf, Current
<1> QED
  BY <1>1, WbInvariant, PTL

--------------------------------------------------------------------------------
(***************************************************************************)
(* The form of a quality review: what is entered is of the kind its field  *)
(* takes, whatever the view shows meanwhile.                               *)
(***************************************************************************)
Entries ==
  [outcome : Outcomes \cup {""}, cause : Causes, cause_status : CauseStatuses,
   decision_impact : Impacts, next_action : NextActions, follow_up_on : {"", "date", "past"},
   evidence : Evidence]

FormInv ==
  /\ active \in BOOLEAN /\ form \in Entries
  /\ request \in Requests \cup {None}
  /\ CauseFollowsItsStatus

\* The rules of Python and those of JavaScript differ in how they read ids alone.
LEMMA SameRules ==
  ASSUME NEW r \in Requests
  PROVE  /\ ClientValid(r) => ValidRequest(r) \/ r.ids = "control"
         /\ ValidRequest(r) => ClientValid(r) \/ r.ids = "wide"
<1> USE DEF Requests, Ids, Outcomes, Causes, CauseStatuses, Impacts, NextActions, FollowUps, Evidence
<1>1. CASE r.action = "start"
  BY <1>1 DEF ClientValid, ValidRequest
<1>2. CASE r.action = "complete"
  BY <1>2 DEF ClientValid, ValidRequest
<1>3. CASE r.action = "other"
  BY <1>3 DEF ClientValid, ValidRequest
<1> QED
  BY <1>1, <1>2, <1>3

LEMMA EmptyFormIs ==
  EmptyForm \in Entries /\ EmptyForm.cause = "unknown" /\ EmptyForm.cause_status = "unknown"
BY DEF EmptyForm, Entries, Outcomes, Causes, CauseStatuses, Impacts, NextActions, Evidence

LEMMA FormInvariant == FormSpec => []FormInv
<1>1. FormInit => FormInv
  BY EmptyFormIs DEF FormInit, FormInv, CauseFollowsItsStatus
<1>2. FormInv /\ [FormNext]_formVars => FormInv'
  <2> SUFFICES ASSUME FormInv, [FormNext]_formVars PROVE FormInv'
    OBVIOUS
  <2> USE DEF FormInv
  <2>1. CASE ChooseOutcome \/ ChooseImpact \/ ChooseEvidence \/ ChooseCauseStatus \/ ChooseCause
             \/ ChooseNextAction \/ ChooseDate \/ DatePasses
    <3>1. UNCHANGED <<active, request>>
      BY <2>1 DEF ChooseOutcome, ChooseImpact, ChooseEvidence, ChooseCauseStatus, ChooseCause,
                  ChooseNextAction, ChooseDate, DatePasses, Entered
    <3>2. form' \in Entries /\ CauseFollowsItsStatus'
      <4> USE DEF Entered, Entries, CauseFollowsItsStatus, Outcomes, Causes, CauseStatuses,
                  Impacts, NextActions, Evidence
      <4>1. CASE ChooseOutcome \/ ChooseImpact \/ ChooseEvidence
        BY <4>1 DEF ChooseOutcome, ChooseImpact, ChooseEvidence
      <4>2. CASE ChooseCauseStatus
        BY <4>2 DEF ChooseCauseStatus
      <4>3. CASE ChooseCause
        BY <4>3 DEF ChooseCause
      <4>4. CASE ChooseNextAction
        BY <4>4 DEF ChooseNextAction
      <4>5. CASE ChooseDate
        BY <4>5 DEF ChooseDate
      <4>6. CASE DatePasses
        BY <4>6 DEF DatePasses
      <4> QED
        BY <2>1, <4>1, <4>2, <4>3, <4>4, <4>5, <4>6
    <3> QED
      BY <3>1, <3>2
  <2>2. CASE Submit
    <3>1. \A ids \in Ids : Sent(ids) \in Requests
      BY DEF Sent, Requests, Entries, Outcomes, Causes, CauseStatuses, Impacts, NextActions,
             FollowUps, Evidence
    <3> QED
      BY <2>2, <3>1 DEF Submit, CauseFollowsItsStatus
  <2>3. CASE OtherClient
    BY <2>3 DEF OtherClient, CauseFollowsItsStatus
  <2>4. CASE request' = None /\ (Recorded \/ NotRecorded)
    <3>1. active' \in BOOLEAN /\ (form' = form \/ form' = EmptyForm)
      BY <2>4 DEF Recorded, NotRecorded
    <3> QED
      BY <2>4, <3>1, EmptyFormIs DEF CauseFollowsItsStatus
  <2>5. CASE UNCHANGED formVars
    BY <2>5 DEF formVars, CauseFollowsItsStatus
  <2> QED
    BY <2>1, <2>2, <2>3, <2>4, <2>5 DEF FormNext
<1> QED
  BY <1>1, <1>2, PTL DEF FormSpec

\* The gateway refuses of what the browser lets through only a date that has passed and
\* a target with control characters; of what can be recorded, the browser refuses only
\* ids that are too long in UTF-16 units (validate_request, validReviewRequest).
THEOREM RulesAgree == FormSpec => []ClientAgreesWithServer
<1>1. FormInv => ClientAgreesWithServer
  BY SameRules DEF FormInv, ClientAgreesWithServer, Acceptable
<1> QED
  BY <1>1, FormInvariant, PTL

\* The select that is hidden holds no cause (the coupled onChange of cause_status).
THEOREM HiddenCauseIsUnknown == FormSpec => []CauseFollowsItsStatus
<1>1. FormInv => CauseFollowsItsStatus
  BY DEF FormInv
<1> QED
  BY <1>1, FormInvariant, PTL

--------------------------------------------------------------------------------
(***************************************************************************)
(* The start of the server: what doctor found and what the start found     *)
(* holds of the vault as it is.                                            *)
(***************************************************************************)
Chosen == setup.option \/ setup.variable

StartInv ==
  /\ verdict = "clean" =>
       LET found == Loaded(Chosen, setup.file, setup.rc, ~setup.option)
       IN  found # {} /\ \A s \in found : DoctorClean(s)
  /\ server = "refused" =>
       LET found == Loaded(Chosen, setup.file, setup.rc, FALSE)
       IN  found = {} \/ \E s \in found : ~BuildsApp(s)

\* The RC_* variables never enable the workbench.
LEMMA LegacyHasNoWorkbench ==
  ASSUME NEW rc, NEW s \in LegacySettings(rc)
  PROVE  s.workbench.enabled = FALSE
<1> DEFINE adapter == [provider |-> "rocketchat", enabled |-> TRUE, identity |-> "fixture",
                       conversation |-> IF rc.channel THEN "channel" ELSE "",
                       dm |-> IF rc.dm THEN "user" ELSE "", poll |-> rc.poll,
                       url |-> "RC_URL", user |-> "RC_USER", password |-> "RC_PASS",
                       token |-> ""]
           settings(bench) ==
             [version |-> 1, profile |-> "demo", root |-> rc.root, runtime |-> rc.runtime,
              features |-> {FALSE}, trigger |-> "?", workbench |-> bench,
              adapters |-> {adapter}]
           enough == /\ rc.url /\ rc.user /\ rc.pass
                     /\ rc.channel # rc.dm /\ rc.poll # Wrong /\ rc.poll > 0
<1>a. LegacySettings(rc) = IF enough THEN {settings(DisabledWorkbench)} ELSE {}
  BY Zenon DEF LegacySettings
<1>b. \A bench : settings(bench).workbench = bench
  OBVIOUS
<1> HIDE DEF settings, enough
<1>1. s.workbench = DisabledWorkbench
  BY <1>a, <1>b
<1> QED
  BY <1>1 DEF DisabledWorkbench

\* A configuration file that is accepted and that doctor finds in order starts the
\* server, but for what the statement of DoctorPredictsStart excepts.
LEMMA CleanBuilds ==
  ASSUME NEW s \in Parsed(setup.file), DoctorClean(s),
         s.workbench.enabled, s.workbench.identity = "fixture",
         IsLoopbackHost(s.workbench.host), ~setup.override
  PROVE  BuildsApp(s)
<1>1. WorkbenchAccepted(s.profile, s.workbench)
  BY DEF Parsed
<1>2. /\ s.profile = "demo" /\ s.workbench.transport = "stdio"
      /\ \A o \in s.workbench.origins : ValidOrigin(o)
  <2>1. s.workbench.enabled = TRUE /\ s.workbench.transport = "stdio"
    BY <1>1 DEF WorkbenchAccepted, IsBoolean
  <2>2. s.profile = "demo"
    BY <1>1 DEF WorkbenchAccepted
  <2>3. \A o \in s.workbench.origins : ValidOrigin(o)
    <3>1. \A o \in s.workbench.origins : ExactOrigin(o)
      BY <1>1 DEF WorkbenchAccepted
    <3>2. \A o : ExactOrigin(o) => ValidOrigin(o)
      BY DEF ExactOrigin, ValidOrigin
    <3> QED
      BY <3>1, <3>2
  <2> QED
    BY <2>1, <2>2, <2>3
<1>3. FixtureActive(s)
  BY DEF FixtureActive
<1>4. s.root # "" /\ GuardPasses(vault, setup.override) /\ ResolvesActor(setup.actor)
  BY <1>3 DEF DoctorClean
<1> QED
  BY <1>2, <1>4 DEF BuildsApp, GuardPasses

\* An operator whom doctor tells that all is well can start the workbench, short of a
\* bind address doctor does not look at and an override the server does not honour.
THEOREM DoctorIsRight == StartSpec => []DoctorPredictsStart
<1>1. StartInit => StartInv
  BY DEF StartInit, NothingDone, StartInv
<1>2. StartInv /\ [StartNext]_startVars => StartInv'
  <2> SUFFICES ASSUME StartInv, [StartNext]_startVars PROVE StartInv'
    OBVIOUS
  <2>1. CASE Doctor
    BY <2>1 DEF Doctor, StartInv, Chosen, DoctorClean, BuildsApp
  <2>2. CASE StartServer
    BY <2>2 DEF StartServer, StartInv, Chosen, DoctorClean, BuildsApp
  <2>3. CASE EditVault
    BY <2>3 DEF EditVault, StartInv
  <2>4. CASE UNCHANGED startVars
    BY <2>4 DEF startVars, StartInv, Chosen, DoctorClean, BuildsApp
  <2> QED
    BY <2>1, <2>2, <2>3, <2>4 DEF StartNext
<1>3. StartInv => DoctorPredictsStart
  <2> SUFFICES ASSUME StartInv, verdict = "clean", server = "refused",
                      NEW s \in Loaded(Chosen, setup.file, setup.rc, TRUE),
                      s.workbench.enabled, s.workbench.identity = "fixture",
                      IsLoopbackHost(s.workbench.host), ~setup.override
               PROVE  FALSE
    BY DEF DoctorPredictsStart, Chosen
  <2>1. CASE Chosen
    <3>1. s \in Parsed(setup.file) /\ Parsed(setup.file) = {s} /\ DoctorClean(s)
      BY <2>1 DEF Loaded, StartInv, Parsed
    <3> QED
      BY <2>1, <3>1, CleanBuilds DEF Loaded, StartInv
  <2>2. CASE ~Chosen
    <3>1. s \in LegacySettings(setup.rc)
      BY <2>2 DEF Loaded
    <3>2. s.workbench.enabled = FALSE
      BY <3>1, LegacyHasNoWorkbench
    <3> QED
      BY <3>2
  <2> QED
    BY <2>1, <2>2
<1> QED
  BY <1>1, <1>2, <1>3, PTL DEF StartSpec

--------------------------------------------------------------------------------
(***************************************************************************)
(* One exchange: what a parser or a validator can turn down.               *)
(***************************************************************************)
LEMMA TextsAreSized ==
  ASSUME NEW n \in Nat, NEW w \in Nat
  PROVE  LET text == TextOf(n, w)
         IN  /\ text.chars = n /\ text.units \in Nat
             /\ text.chars <= text.units /\ text.control = FALSE
BY DEF TextOf

\* A request of the page is parsed, unless its text, or the id it names, is too much.
LEMMA PageIsParsed ==
  ASSUME NEW q \in PageRequests, Made(q), ~Parses(q)
  PROVE  TooMuch(q)
<1>r. PICK route \in Routes :
        \E target \in PageTargets(route), text \in Texts, action \in Actions :
          q = Request(route, TRUE, TRUE, target, text, action)
  BY DEF PageRequests, Request
<1>1. PICK target \in PageTargets(route), text \in Texts, action \in Actions :
        q = Request(route, TRUE, TRUE, target, text, action)
  BY <1>r
<1>2. /\ q.route = route /\ q.form = TRUE /\ q.text = text /\ q.action = action
      /\ q.target = target
  BY <1>1 DEF Request
<1>3. route \in Naming => /\ target.chars \in Nat \ {0} /\ target.units \in Nat
                          /\ target.chars <= target.units /\ ~target.control
  <2> SUFFICES ASSUME route \in Naming
               PROVE  /\ target.chars \in Nat \ {0} /\ target.units \in Nat
                      /\ target.chars <= target.units /\ ~target.control
    OBVIOUS
  <2>1. target \in Names
    BY DEF PageTargets
  <2>2. PICK n \in NameLengths, w \in Widths : target = TextOf(n, w)
    BY <2>1 DEF Names
  <2>3. n \in Nat \ {0} /\ w \in Nat
    BY WireAssumption DEF WireAssumption
  <2> QED
    BY <2>2, <2>3, TextsAreSized
<1>4. text.chars \in Nat /\ text.units \in Nat /\ text.chars <= text.units
  <2>1. PICK n \in Lengths, w \in Widths, c \in BOOLEAN :
          text = [TextOf(n, w) EXCEPT !.control = c]
    BY DEF Texts
  <2>2. n \in Nat /\ w \in Nat
    BY WireAssumption DEF WireAssumption
  <2>3. text.chars = TextOf(n, w).chars /\ text.units = TextOf(n, w).units
    BY <2>1 DEF TextOf
  <2>4. /\ TextOf(n, w).chars \in Nat /\ TextOf(n, w).units \in Nat
        /\ TextOf(n, w).chars <= TextOf(n, w).units
    BY <2>2, TextsAreSized
  <2> QED
    BY <2>3, <2>4
<1>n. {"import-proposal", "update-proposal", "review-proposal", "record-check"} \subseteq PostRoutes
  BY DEF PostRoutes
<1>5. CASE route = "import-proposal"
  <2>1. text.chars \in 1 .. 480
    BY <1>2, <1>4, <1>5 DEF Made, PageLimit
  <2>2. ~ParsesImport(q) /\ route \in Naming
    BY <1>2, <1>5 DEF Parses, Naming
  <2>3. BodyFits(q) => q.target.chars > 200
    BY <1>2, <1>3, <2>1, <2>2 DEF ParsesImport, Within
  <2> QED
    BY <1>2, <1>5, <1>n, <2>2, <2>3 DEF TooMuch
<1>6. CASE route = "update-proposal"
  <2>1. text.chars >= 1
    BY <1>2, <1>6 DEF Made
  <2>2. ~ParsesUpdate(q) /\ route \in Naming
    BY <1>2, <1>6 DEF Parses, Naming
  <2>3. BodyFits(q) => q.target.chars > 200 \/ q.text.chars > 480
    BY <1>2, <1>3, <1>4, <2>1, <2>2 DEF ParsesUpdate, Within
  <2> QED
    BY <1>2, <1>6, <1>n, <2>2, <2>3 DEF TooMuch
<1>7. CASE route = "review-proposal"
  <2>1. text.chars <= 240 /\ (q.action = "reject" => text.chars >= 1)
    BY <1>2, <1>4, <1>7 DEF Made, PageLimit
  <2>2. ~ParsesDecision(q) /\ target.chars = 13
    <3>1. ~ParsesDecision(q)
      BY <1>2, <1>7 DEF Parses
    <3>2. target = TextOf(13, 1)
      BY <1>7 DEF PageTargets, Naming, Plain
    <3> QED
      BY <3>1, <3>2, TextsAreSized
  <2>3. ~BodyFits(q)
    BY <1>2, <1>4, <2>1, <2>2 DEF ParsesDecision, Within
  <2> QED
    BY <1>2, <1>7, <1>n, <2>3 DEF TooMuch
<1>8. CASE route = "company-search"
  <2>1. ~ParsesSearch(q)
    BY <1>2, <1>8 DEF Parses
  <2> QED
    BY <1>2, <1>8, <2>1 DEF ParsesSearch, TooMuch
<1>9. CASE route = "record-check"
  <2>1. ~ParsesCheck(q) /\ route \in Naming
    BY <1>2, <1>9 DEF Parses, Naming
  <2>2. q.target.units <= 160
    BY <1>2, <1>9 DEF Made
  <2>3. ~BodyFits(q)
    BY <1>2, <1>3, <2>1, <2>2 DEF ParsesCheck, Within
  <2> QED
    BY <1>2, <1>9, <1>n, <2>3 DEF TooMuch
<1>10. CASE route = "signal-review"
  <2>1. ~Within(q.target, 160) /\ route \in Naming
    BY <1>2, <1>10 DEF Parses, Naming
  <2> QED
    BY <1>2, <1>3, <1>10, <2>1 DEF Within, TooMuch
<1>11. CASE route \in {"entity-graph", "account-brief", "guided-answer"}
  <2>1. ~ParsesEntity(q) /\ route \in Naming
    BY <1>2, <1>11 DEF Parses, Naming
  <2> QED
    BY <1>2, <1>3, <2>1 DEF ParsesEntity, Within, TooMuch
<1>12. CASE route \in {"my-day", "dashboard", "review-queue"}
  BY <1>2, <1>12 DEF Parses
<1> QED
  BY <1>5, <1>6, <1>7, <1>8, <1>9, <1>10, <1>11, <1>12 DEF Routes, GetRoutes, PostRoutes

\* What a validator or a client turns down was expected, and has recorded nothing.
Expected(q, e) ==
  \/ q.route = "my-day" \/ NoCheck(q, e)
  \/ q.route = "company-search" /\ ~e.whole
  \/ q.route = "review-proposal" /\ ~e.wrote /\ e.status \in Decided

LEMMA SaidIs ==
  ASSUME NEW has, NEW access, "text" \notin has
  PROVE  /\ Structured(Said(has, access)).has = has
         /\ Structured(Said(has, access)).access = access
         /\ Structured(Said(has, access)).wrote = FALSE
BY DEF Said, Envelope, Structured

LEMMA FieldsAreNoText ==
  /\ "text" \notin AnswerFields /\ "text" \notin GraphFields
  /\ "text" \notin DashboardFields /\ "text" \notin CheckFields
BY DEF AnswerFields, GraphFields, DashboardFields, CheckFields

LEMMA LeastIs ==
  ASSUME NEW n \in Found, NEW limit \in Nat
  PROVE  Least(n, limit) <= limit
BY WireAssumption DEF WireAssumption, Least

LEMMA RepliesAreValid ==
  ASSUME NEW q, q.route \in Routes, q.target.units \in Nat, NEW e0 \in Replies(q),
         ~(Valid(q.route, Structured(e0)) /\ Taken(q, Structured(e0)))
  PROVE  (Expected(q, Structured(e0)) \/ TooMuch(q)) /\ Structured(e0).wrote = FALSE
<1> DEFINE e == Structured(e0)
<1>r. q.route \in {"my-day", "dashboard", "review-queue", "entity-graph", "account-brief",
        "guided-answer", "company-search", "signal-review", "import-proposal",
        "update-proposal", "review-proposal", "record-check"}
  BY DEF Routes, GetRoutes, PostRoutes
<1>v. q.route \notin {"signal-review", "record-check"} => ~Valid(q.route, Structured(e0))
  BY DEF Taken
<1> HIDE DEF e
<1>1. CASE q.route = "my-day"
  <2>1. e0 = Said(AnswerFields, "allowed")
    BY <1>1 DEF Replies
  <2> QED
    BY <1>1, <2>1, SaidIs, FieldsAreNoText DEF Expected
<1>2. CASE q.route = "account-brief"
  <2>1. PICK a \in BriefAccess : e0 = Said(AnswerFields \cup {"company"}, a)
    BY <1>2 DEF Replies
  <2>2. e.has = AnswerFields \cup {"company"} /\ e.access = a
    BY <2>1, SaidIs, FieldsAreNoText DEF e
  <2>3. ValidBrief(e)
    BY <2>2 DEF ValidBrief, AnswerFields, e
  <2> QED
    BY <1>v, <1>2, <2>3 DEF Valid, e
<1>3. CASE q.route = "guided-answer"
  <2>1. PICK a \in BriefAccess : e0 = Said(AnswerFields \cup {"intent"}, a)
    BY <1>3 DEF Replies
  <2>2. e.has = AnswerFields \cup {"intent"} /\ e.access = a
    BY <2>1, SaidIs, FieldsAreNoText DEF e
  <2>3. ValidGuided(e)
    BY <2>2 DEF ValidGuided, ValidBrief, AnswerFields, e
  <2> QED
    BY <1>v, <1>3, <2>3 DEF Valid, e
<1>4. CASE q.route = "entity-graph"
  <2>1. PICK a \in BriefAccess : e0 = Said(GraphFields, a)
    BY <1>4 DEF Replies
  <2>2. e.has = GraphFields /\ e.access = a
    BY <2>1, SaidIs, FieldsAreNoText DEF e
  <2>3. ValidGraph(e)
    BY <2>2 DEF ValidGraph, e
  <2> QED
    BY <1>v, <1>4, <2>3 DEF Valid, e
<1>5. CASE q.route = "dashboard"
  <2>1. PICK n \in Found :
          e0 = Envelope(DashboardFields, "allowed", "ok", Least(n, 12), TRUE, FALSE)
    BY <1>5 DEF Replies, Envelope, Said, Did
  <2>2. e.has = DashboardFields /\ e.access = "allowed" /\ e.count = Least(n, 12)
    BY <2>1, FieldsAreNoText DEF e, Did, Envelope, Structured
  <2>3. ValidDashboard(e)
    BY <2>2, LeastIs DEF ValidDashboard
  <2> QED
    BY <1>v, <1>5, <2>3 DEF Valid, e
<1>6. CASE q.route = "company-search"
  <2>1. PICK n \in Found, whole \in BOOLEAN :
          e0 = Envelope({"status", "query", "items"}, "allowed", "ok", Least(n, 8),
                        whole \/ n = 0, FALSE)
    BY <1>6 DEF Replies, Envelope, Said, Did
  <2>2. /\ e.has = {"status", "query", "items"} /\ e.status = "ok" /\ e.count = Least(n, 8)
        /\ e.wrote = FALSE
    BY <2>1 DEF e, Did, Envelope, Structured
  <2>3. e.whole => ValidSearch(e)
    BY <2>2, LeastIs DEF ValidSearch
  <2> QED
    BY <1>v, <1>6, <2>2, <2>3 DEF Valid, Expected, e
<1>7. CASE q.route = "review-queue"
  <2>1. PICK a \in {"allowed", "blocked"} : e0 = Said({"access", "can_decide", "items"}, a)
    BY <1>7 DEF Replies
  <2>2. e.has = {"access", "can_decide", "items"} /\ e.access = a
    BY <2>1, SaidIs DEF e
  <2>3. ValidQueue(e)
    BY <2>2 DEF ValidQueue, e
  <2> QED
    BY <1>v, <1>7, <2>3 DEF Valid, e
<1>8. ASSUME q.route \in {"signal-review", "record-check"}, e0 \in Unserved
      PROVE  /\ NoCheck(q, e) /\ e.wrote = FALSE
  <2>1. PICK s \in {"unavailable", "error"} : e0 = Did({"status", "access"}, s, FALSE)
    BY <1>8 DEF Unserved
  <2>2. e.status = s /\ e.wrote = FALSE
    BY <2>1 DEF e, Did, Envelope, Structured
  <2> QED
    BY <1>8, <2>2 DEF NoCheck
<1>9. CASE q.route = "signal-review"
  <2>1. CASE e0 \in Unserved
    BY <1>8, <1>9, <2>1 DEF Expected, e
  <2>2. CASE e0 \notin Unserved
    <3>h. e0 \in Histories
      BY <1>9, <2>2 DEF Replies
    <3>1. PICK n \in Found, whole \in BOOLEAN :
            e0 = Envelope(CheckFields, "allowed", "ok", Least(n, 20), whole \/ n = 0, FALSE)
      BY <3>h DEF Histories, Envelope
    <3>2. /\ e.has = CheckFields /\ e.status = "ok" /\ e.count = Least(n, 20)
          /\ e.whole \in BOOLEAN /\ e.wrote = FALSE
      BY <3>1, FieldsAreNoText DEF e, Envelope, Structured
    <3>3. ValidCheck(e, FALSE)
      BY <3>2, LeastIs DEF ValidCheck
    <3>4. ~Taken(q, e)
      BY <1>9, <3>3 DEF Valid, e
    <3>5. ~e.whole \/ ~(q.target.units <= 160)
      BY <1>9, <3>2, <3>4 DEF Taken
    <3> QED
      BY <1>9, <3>2, <3>5 DEF TooMuch, Expected, NoCheck, e
  <2> QED
    BY <2>1, <2>2
<1>10. CASE q.route = "record-check"
  <2>1. CASE e0 \in Unserved
    BY <1>8, <1>10, <2>1 DEF Expected, e
  <2>2. CASE e0 = Raised
    <3>1. e.status = "raised" /\ e.wrote = FALSE
      BY <2>2 DEF Raised, Did, Envelope, Structured, e
    <3> QED
      BY <1>10, <3>1 DEF Expected, NoCheck, e
  <2>3. CASE \/ e0 = Did({"status", "access"}, "conflict", FALSE)
             \/ e0 = Did({"status", "access", "revision", "state"}, "recorded", TRUE)
    <3>1. \/ e.has = {"status", "access"} /\ e.status = "conflict"
          \/ e.has = {"status", "access", "revision", "state"} /\ e.status = "recorded"
      BY <2>3 DEF e, Did, Envelope, Structured
    <3>2. ValidCheck(e, TRUE) /\ Taken(q, e)
      BY <1>10, <3>1 DEF ValidCheck, Taken
    <3> QED
      BY <1>10, <3>2 DEF Valid, e
  <2>4. e0 \in Unserved \cup {Raised, Did({"status", "access"}, "conflict", FALSE),
                             Did({"status", "access", "revision", "state"}, "recorded", TRUE)}
    BY <1>10 DEF Replies, Raised, Envelope, Said, Did
  <2> QED
    BY <2>1, <2>2, <2>3, <2>4, Zenon
<1>11. CASE q.route = "review-proposal"
  <2>1. \/ \E s \in Decided \cup {"blocked", "not-found"} :
             e0 = Did({"status", "proposal_id"}, s, FALSE)
        \/ \E s \in {"approved", "rejected"} : e0 = Did({"status", "proposal_id"}, s, TRUE)
    BY <1>11 DEF Replies, Envelope, Said, Did
  <2>2. /\ "proposal_id" \in e.has
        /\ \/ e.status \in Decided \cup {"blocked", "not-found"} /\ e.wrote = FALSE
           \/ e.status \in {"approved", "rejected"} /\ e.wrote = TRUE
    BY <2>1 DEF e, Did, Envelope, Structured
  <2>3. ~ValidDecision(e)
    BY <1>v, <1>11 DEF Valid, e
  <2> QED
    BY <1>11, <2>2, <2>3 DEF ValidDecision, Expected, e
<1>12. CASE q.route \in {"import-proposal", "update-proposal"}
  <2>1. e0 = Did({"status", "proposal_id"}, "draft", TRUE)
    BY <1>12 DEF Replies, Envelope, Said, Did
  <2>2. e.has = {"status", "proposal_id"} /\ e.status = "draft"
    BY <2>1 DEF e, Did, Envelope, Structured
  <2>3. ValidProposal(e)
    BY <2>2 DEF ValidProposal, e
  <2> QED
    BY <1>v, <1>12, <2>3 DEF Valid, e
<1> QED
  BY <1>r, <1>1, <1>2, <1>3, <1>4, <1>5, <1>6, <1>7, <1>9, <1>10, <1>11, <1>12

\* Why an exchange that is over has not ended in an answer of the tool.
Explained ==
  /\ ask.page => \/ code = 503 \/ failed
                 \/ listed /\ ask.route \in PostRoutes
                 \/ TooMuch(ask)
                 \/ Expected(ask, reply) /\ landed = reply.wrote
  /\ ~failed => landed = FALSE

WireInv ==
  /\ ask \in Asks
  /\ at \in {"sent", "parsed", "ran", "answered", "shown"}
  /\ at \in {"sent", "parsed"} => landed = FALSE /\ failed = FALSE
  /\ at = "ran" => \E e \in Replies(ask) : reply = Structured(e) /\ landed = e.wrote
  /\ at = "answered" /\ ~(code = 200 /\ Taken(ask, reply)) => Explained
  /\ told = "error" => at = "shown" /\ (lost \/ Explained)

LEMMA AsksAreMade ==
  ASSUME NEW q \in Asks
  PROVE  /\ q.route \in Routes /\ q.target.units \in Nat
         /\ q.page => q \in PageRequests /\ Made(q)
<1> DEFINE odd == [Plain(38) EXCEPT !.control = TRUE]
<1>1. \A target \in Names \cup {Plain(0), Plain(13), odd} : target.units \in Nat
  <2>1. ASSUME NEW n \in NameLengths, NEW w \in Widths
        PROVE  TextOf(n, w).units \in Nat
    <3>1. n \in Nat /\ w \in Nat
      BY WireAssumption DEF WireAssumption
    <3> QED
      BY <3>1, TextsAreSized
  <2>2. Plain(0).units = 0 /\ Plain(13).units = 13 /\ odd.units = 38
    BY DEF Plain, TextOf
  <2> HIDE DEF odd
  <2> QED
    BY <2>1, <2>2 DEF Names
<1>2. CASE q \in PageRequests /\ Made(q)
  <2>1. PICK route \in Routes :
          \E target \in PageTargets(route), text \in Texts, action \in Actions :
            q = Request(route, TRUE, TRUE, target, text, action)
    BY <1>2 DEF PageRequests, Request
  <2>2. PICK target \in PageTargets(route), text \in Texts, action \in Actions :
          q = Request(route, TRUE, TRUE, target, text, action)
    BY <2>1
  <2>3. q.route = route /\ q.target = target
    BY <2>2 DEF Request
  <2>4. target \in Names \cup {Plain(0), Plain(13)}
    BY DEF PageTargets
  <2> QED
    BY <1>1, <1>2, <2>3, <2>4
<1>3. CASE q \in OtherRequests
  <2>1. PICK route \in Routes, isForm \in BOOLEAN, n \in {0, 120, 240},
             target \in Names \cup {Plain(0), odd} :
          q = Request(route, FALSE, isForm, target, Plain(n), "approve")
    BY <1>3 DEF OtherRequests, Request
  <2>2. q.route = route /\ q.target = target /\ q.page = FALSE
    BY <2>1 DEF Request
  <2> HIDE DEF odd
  <2> QED
    BY <1>1, <2>2
<1> QED
  BY <1>2, <1>3 DEF Asks

LEMMA WireInvariant == WireSpec => []WireInv
<1>1. WireInit => WireInv
  BY DEF WireInit, JustSent, WireInv
<1>2. WireInv /\ [WireNext]_wireVars => WireInv'
  <2> SUFFICES ASSUME WireInv, [WireNext]_wireVars PROVE WireInv'
    OBVIOUS
  <2> USE DEF WireInv
  <2>1. CASE Turn
    <3>1. CASE OriginRefused(ask)
      BY <2>1, <3>1 DEF Turn, Answer, Explained, OriginRefused
    <3>2. CASE ~OriginRefused(ask) /\ ~Parses(ask)
      <4>1. ask.page => TooMuch(ask)
        BY <3>2, AsksAreMade, PageIsParsed
      <4> QED
        BY <2>1, <3>2, <4>1 DEF Turn, Answer, Explained
    <3>3. CASE ~OriginRefused(ask) /\ Parses(ask)
      BY <2>1, <3>3 DEF Turn
    <3> QED
      BY <3>1, <3>2, <3>3
  <2>2. CASE Busy
    BY <2>2 DEF Busy, Answer, Explained
  <2>3. CASE RunTool
    <3>1. PICK e \in Replies(ask) : reply' = Structured(e) /\ landed' = e.wrote
      BY <2>3 DEF RunTool
    <3> QED
      BY <2>3, <3>1 DEF RunTool
  <2>4. CASE Validate
    <3>1. PICK e \in Replies(ask) : reply = Structured(e) /\ landed = e.wrote
      BY <2>4 DEF Validate
    <3>2. Structured(e).wrote = e.wrote
      BY DEF Structured
    <3>3. ~(code' = 200 /\ Taken(ask, reply)) =>
            failed \/ ~(Valid(ask.route, reply) /\ Taken(ask, reply))
      BY <2>4 DEF Validate, Answer
    <3>a. UNCHANGED <<listed, ask, reply, landed, failed, lost, told>> /\ at' = "answered"
      BY <2>4 DEF Validate, Answer
    <3>b. ~(Valid(ask.route, reply) /\ Taken(ask, reply)) =>
            /\ Expected(ask, reply) \/ TooMuch(ask)
            /\ landed = FALSE /\ reply.wrote = FALSE
      BY <3>1, <3>2, AsksAreMade, RepliesAreValid
    <3>4. ~(code' = 200 /\ Taken(ask, reply)) => Explained'
      BY <3>3, <3>a, <3>b DEF Explained
    <3>5. told # "error"
      BY <2>4 DEF Validate
    <3> QED
      BY <3>4, <3>5, <3>a
  <2>5. CASE Show
    BY <2>5 DEF Show, Explained
  <2>6. CASE Lost
    BY <2>6 DEF Lost
  <2>7. CASE UNCHANGED wireVars
    BY <2>7 DEF wireVars, Explained
  <2> QED
    BY <2>1, <2>2, <2>3, <2>4, <2>5, <2>6, <2>7 DEF WireNext
<1> QED
  BY <1>1, <1>2, PTL DEF WireSpec

\* Whatever the lengths and widths of texts and ids and the numbers of matches and of
\* checks, what a page sends is refused for a reason of the moment or for one of those
\* that OnlyKnownRefusals names (the parsers, caps and validators of server.py, and
\* the clients of graphClient.js).
THEOREM RefusalsAreKnown == WireSpec => []OnlyKnownRefusals
<1>1. WireInv => OnlyKnownRefusals
  BY DEF WireInv, Explained, Expected, OnlyKnownRefusals
<1> QED
  BY <1>1, WireInvariant, PTL

\* "Nothing was changed" is wrong only where the call failed after the tool had
\* recorded, or the answer was lost on its way to the browser: no validator and no
\* client turns down a reply of a tool that has written.
THEOREM ErrorsAreHonest == WireSpec => []ErrorMeansUnchanged
<1>1. WireInv => ErrorMeansUnchanged
  BY DEF WireInv, Explained, ErrorMeansUnchanged
<1> QED
  BY <1>1, WireInvariant, PTL
================================================================================

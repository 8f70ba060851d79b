----------------------------- MODULE WorkbenchWire -----------------------------
(***************************************************************************)
(* One exchange of a page with the workbench server: the request is        *)
(* checked and parsed (server.py), its tool runs in an MCP process that    *)
(* adapts the envelope (saleswiki_mcp/server.py), the reply is validated,  *)
(* and the client of graphClient.js takes or refuses the answer.           *)
(*                                                                         *)
(* A text is what the parsers tell apart: its characters when blanks are   *)
(* taken together, which the server counts; its UTF-16 units, which the    *)
(* browser counts; its bytes within the JSON body; whether it has control  *)
(* characters.  What is a blank to one of the two is taken to be a blank   *)
(* to the other.  A reply is the set of its fields and the values that     *)
(* validators and clients look at.                                         *)
(***************************************************************************)
EXTENDS Integers, FiniteSets, FiniteSetsExt

CONSTANTS
  Lengths,      \* lengths of texts
  NameLengths,  \* lengths of the ids of accounts
  Widths,       \* bytes of a character in a JSON body
  Found         \* how many companies, matches or checks there may be

ASSUME WireAssumption ==
  Lengths \cup Found \cup Widths \subseteq Nat /\ NameLengths \subseteq Nat \ {0}

VARIABLES
  listed,  \* allowed_origins are configured, the page's own not among them
  ask,     \* the request
  at,      \* "sent", "parsed", "ran", "answered", "shown"
  reply,   \* what the tool returned
  landed,  \* something was recorded
  failed,  \* the call of the MCP process failed or its time was up
  lost,    \* the request or the answer was lost between browser and server
  code,    \* the HTTP status; 0 where the connection was dropped
  told     \* what the client tells the page

wireVars == <<listed, ask, at, reply, landed, failed, lost, code, told>>

GetRoutes == {"my-day", "dashboard", "review-queue", "entity-graph", "account-brief",
          "guided-answer", "company-search", "signal-review"}
PostRoutes == {"import-proposal", "update-proposal", "review-proposal", "record-check"}
Routes == GetRoutes \cup PostRoutes

\* Characters of four bytes are those of two UTF-16 units.
TextOf(n, w) ==
  [chars |-> n, units |-> IF w = 4 THEN 2 * n ELSE n, bytes |-> n * w, control |-> FALSE]
Texts == {[TextOf(n, w) EXCEPT !.control = c] : n \in Lengths, w \in Widths, c \in BOOLEAN}
Plain(n) == TextOf(n, 1)

--------------------------------------------------------------------------------
(***************************************************************************)
(* Requests.                                                               *)
(***************************************************************************)
\* page: the request is one that App.jsx makes; form: the path, the query and the
\* fields are those of the route, with known values.
Request(route, page, form, target, text, action) ==
  [route |-> route, page |-> page, form |-> form,
   target |-> target, text |-> text, action |-> action]

\* Routes that name an account, and routes that carry a text: what was written, or
\* the ids of the evidence of a check.
Naming == {"entity-graph", "account-brief", "guided-answer", "signal-review",
           "import-proposal", "update-proposal", "record-check"}
Writing == PostRoutes \cup {"company-search"}

\* The longest text the page sends, in the units it counts: the reason has a
\* maxLength, a summary is cut by importDrafts.js, a check has eight ids of at most
\* 160; a note or a search is not bounded.
PageLimit(route) == CASE route = "review-proposal" -> 240
                      [] route = "import-proposal" -> 480
                      [] route = "record-check" -> 8 * 160
                      [] OTHER -> 2 * Max(Lengths)

Actions == {"approve", "reject"}

\* Requests of the page name an account by its id, whose characters are of any
\* width, or a proposal.
Names == {TextOf(n, w) : n \in NameLengths, w \in Widths}
PageTargets(route) == IF route \in Naming THEN Names
                      ELSE {Plain(IF route = "review-proposal" THEN 13 ELSE 0)}
PageRequests ==
  UNION {{Request(route, TRUE, TRUE, target, text, action) :
            target \in PageTargets(route), text \in Texts, action \in Actions} : route \in Routes}

\* What the forms let through; summaries and ids have no control characters.
Made(q) ==
  /\ q.text.units <= PageLimit(q.route)
  /\ q.route \notin Writing => q.text.chars = 0
  /\ q.route = "company-search" => q.text.units >= 2
  /\ q.route \in {"import-proposal", "update-proposal"} => q.text.chars >= 1
  /\ q.route \in {"import-proposal", "record-check"} => ~q.text.control
  /\ q.route = "record-check" => q.target.units <= 160
  /\ IF q.route = "review-proposal" THEN q.action = "reject" <=> q.text.chars >= 1
     ELSE q.action = "approve"

OtherRequests ==
  {Request(route, FALSE, form, target, Plain(n), "approve") :
     route \in Routes, form \in BOOLEAN, n \in {0, 120, 240},
     target \in Names \cup {Plain(0), [Plain(38) EXCEPT !.control = TRUE]}}

Asks == {q \in PageRequests : Made(q)} \cup OtherRequests

Within(text, n) == text.chars \in 1 .. n

\* A body of the JSON keys, quotes and other values - of a check, these at their
\* longest - and of the texts; and the most it may have.
Frame(route) == CASE route = "import-proposal" -> 26
                  [] route = "update-proposal" -> 23
                  [] route = "review-proposal" -> 49
                  [] OTHER -> 282
BodyLimit(route) == CASE route = "import-proposal" -> 1024
                      [] route = "record-check" -> 4096
                      [] OTHER -> 768
BodyFits(q) == Frame(q.route) + q.target.bytes + q.text.bytes <= BodyLimit(q.route)

ParsesImport(q) == /\ BodyFits(q)
                   /\ Within(q.target, 200) /\ ~q.target.control /\ Within(q.text, 480)
ParsesUpdate(q) == BodyFits(q) /\ Within(q.target, 200) /\ Within(q.text, 480)
\* Here the target is the id of the proposal.
ParsesDecision(q) == /\ BodyFits(q)
                     /\ Within(q.target, 40) /\ q.text.chars <= 240
                     /\ q.action = "reject" => q.text.chars > 0
ParsesCheck(q) == BodyFits(q) /\ Within(q.target, 160) /\ ~q.target.control
ParsesEntity(q) == Within(q.target, 200) /\ ~q.target.control
ParsesSearch(q) == q.text.chars \in 2 .. 120 /\ ~q.text.control

Parses(q) ==
  /\ q.form
  /\ CASE q.route = "import-proposal" -> ParsesImport(q)
       [] q.route = "update-proposal" -> ParsesUpdate(q)
       [] q.route = "review-proposal" -> ParsesDecision(q)
       [] q.route \in {"entity-graph", "account-brief", "guided-answer"} -> ParsesEntity(q)
       [] q.route = "company-search" -> ParsesSearch(q)
       [] q.route = "signal-review" -> Within(q.target, 160)
       [] q.route = "record-check" -> ParsesCheck(q)
       [] OTHER -> TRUE

--------------------------------------------------------------------------------
(***************************************************************************)
(* Replies of the tools, as build_tools makes them.                        *)
(***************************************************************************)
\* wrote: the call recorded something; whole: every item has an id and a label, and
\* every id in a history is short enough for the browser.
Envelope(has, access, status, count, whole, wrote) ==
  [has |-> has \cup {"text"}, access |-> access, status |-> status,
   count |-> count, whole |-> whole, wrote |-> wrote]
Said(has, access) == Envelope(has, access, "ok", 0, TRUE, FALSE)
Did(has, status, wrote) == Envelope(has, "allowed", status, 0, TRUE, wrote)

AnswerFields == {"title", "access", "conclusion", "sections", "citations", "restricted",
                 "confidence", "freshness", "as_of", "next_action", "missing", "redaction_notice"}
GraphFields == {"contract", "version", "access", "summary", "nodes", "edges", "evidence",
                "restricted", "missing"}
DashboardFields == {"contract", "version", "access", "synthetic", "risk", "coverage", "signals",
                    "history_status"}
CheckFields == {"contract", "version", "status", "access", "target", "revision", "state", "events",
                "sources", "can_start", "can_complete", "scope", "card_freshness"}
BriefAccess == {"allowed", "sanitized", "blocked", "not-found", "ambiguous"}

Least(n, limit) == IF n < limit THEN n ELSE limit
\* Access to the checks is denied, or their journal cannot be read.
Unserved == {Did({"status", "access"}, s, FALSE) : s \in {"unavailable", "error"}}

\* A history as it is served.
Histories == {Envelope(CheckFields, "allowed", "ok", Least(n, 20), whole \/ n = 0, FALSE) :
                n \in Found, whole \in BOOLEAN}

\* The tool raises: the follow-up date has passed by the clock of the server.
Raised == Did({}, "raised", FALSE)

\* Statuses of proposals that a decision no longer changes.
Decided == {"approved", "rejected", "applied", "failed", "revoked", "rolled-back"}

Replies(q) ==
  CASE q.route = "my-day" -> {Said(AnswerFields, "allowed")}
    [] q.route = "account-brief" -> {Said(AnswerFields \cup {"company"}, a) : a \in BriefAccess}
    [] q.route = "guided-answer" -> {Said(AnswerFields \cup {"intent"}, a) : a \in BriefAccess}
    [] q.route = "entity-graph" -> {Said(GraphFields, a) : a \in BriefAccess}
    [] q.route = "dashboard" ->
         {Envelope(DashboardFields, "allowed", "ok", Least(n, 12), TRUE, FALSE) : n \in Found}
    [] q.route = "company-search" ->
         {Envelope({"status", "query", "items"}, "allowed", "ok", Least(n, 8), whole \/ n = 0, FALSE) :
            n \in Found, whole \in BOOLEAN}
    [] q.route = "review-queue" ->
         {Said({"access", "can_decide", "items"}, a) : a \in {"allowed", "blocked"}}
    [] q.route = "signal-review" -> Unserved \cup Histories
    [] q.route = "record-check" ->
         Unserved \cup {Raised, Did({"status", "access"}, "conflict", FALSE),
                        Did({"status", "access", "revision", "state"}, "recorded", TRUE)}
    [] q.route = "review-proposal" ->
         {Did({"status", "proposal_id"}, s, FALSE) : s \in Decided \cup {"blocked", "not-found"}}
           \cup {Did({"status", "proposal_id"}, IF q.action = "approve" THEN "approved" ELSE "rejected", TRUE)}
    [] OTHER -> {Did({"status", "proposal_id"}, "draft", TRUE)}

\* _as_tool_result: the text becomes a content block, the rest is structured.
Structured(e) == [e EXCEPT !.has = @ \ {"text"}]

--------------------------------------------------------------------------------
(***************************************************************************)
(* Validators of the server.                                               *)
(***************************************************************************)
ValidAnswer(e) == /\ (AnswerFields \ {"redaction_notice"}) \cup {"text"} \subseteq e.has
                  /\ e.access \in BriefAccess \cup {"aggregated"}
ValidBrief(e) == {"access", "conclusion", "citations"} \subseteq e.has /\ e.access \in BriefAccess
ValidGuided(e) == "intent" \in e.has /\ ValidBrief(e)
ValidGraph(e) == GraphFields \subseteq e.has /\ e.access \in BriefAccess \cup {"aggregated"}
ValidDashboard(e) == DashboardFields \subseteq e.has /\ e.access = "allowed" /\ e.count <= 12
ValidSearch(e) == {"status", "query", "items"} \subseteq e.has /\ e.status = "ok" /\ e.count <= 8 /\ e.whole
ValidQueue(e) == {"access", "can_decide", "items"} \subseteq e.has /\ e.access \in {"allowed", "blocked"}
ValidProposal(e) == {"status", "proposal_id"} \subseteq e.has /\ e.status = "draft"

FaultyValidDecision(e) == "proposal_id" \in e.has /\ e.status \in {"approved", "blocked", "not-found"}

ValidDecision(e) ==
  "proposal_id" \in e.has /\ e.status \in {"approved", "rejected", "blocked", "not-found"}

FaultyValidCheck(e, writing) ==
  IF writing THEN e.has = {"status", "access", "revision", "state"} /\ e.status = "recorded"
  ELSE e.has = CheckFields /\ e.status = "ok" /\ e.count <= 20

ValidCheck(e, writing) ==
  \/ e.has = {"status", "access"}
  \/ writing /\ e.has = {"status", "access", "revision", "state"} /\ e.status = "recorded"
  \/ ~writing /\ e.has = CheckFields /\ e.status = "ok" /\ e.count <= 20

Valid(route, e) ==
  CASE route = "my-day" -> ValidAnswer(e)
    [] route = "account-brief" -> ValidBrief(e)
    [] route = "guided-answer" -> ValidGuided(e)
    [] route = "entity-graph" -> ValidGraph(e)
    [] route = "dashboard" -> ValidDashboard(e)
    [] route = "company-search" -> ValidSearch(e)
    [] route = "review-queue" -> ValidQueue(e)
    [] route = "review-proposal" -> ValidDecision(e)
    [] route \in {"signal-review", "record-check"} -> ValidCheck(e, route = "record-check")
    [] OTHER -> ValidProposal(e)

--------------------------------------------------------------------------------
(***************************************************************************)
(* The exchange.                                                           *)
(***************************************************************************)
Nothing == Said({}, "blocked")

JustSent == /\ at = "sent" /\ reply = Nothing /\ landed = FALSE /\ failed = FALSE
            /\ lost = FALSE
            /\ code = 0 /\ told = "nothing"
WireInit == listed \in BOOLEAN /\ ask \in Asks /\ JustSent

Answer(status) == at' = "answered" /\ code' = status /\ UNCHANGED <<listed, ask, reply, landed, failed, lost, told>>

\* A browser gives the origin of a page with every POST; without configured origins
\* only the page's own is allowed, with them only those.
OriginRefused(q) == listed /\ q.page /\ q.route \in PostRoutes

\* do_GET, do_POST: the origin, then the parser of the route.  That of account-brief
\* is called outside any try: what it raises ends the connection.
Turn ==
  /\ at = "sent"
  /\ IF OriginRefused(ask) THEN Answer(403)
     ELSE IF ~Parses(ask) THEN Answer(IF ask.route = "account-brief" THEN 0 ELSE 400)
     ELSE at' = "parsed" /\ UNCHANGED <<listed, ask, reply, landed, failed, lost, code, told>>

\* The gateway has no slot.
Busy == at = "parsed" /\ Answer(503)

\* invoke_*: the tool runs; the call may fail before, or after it has recorded.  (It
\* fails for a summary that slice has cut within a character: half of one cannot be
\* sent on to the process.)
RunTool ==
  /\ at = "parsed"
  /\ \E e \in Replies(ask) : reply' = Structured(e) /\ landed' = e.wrote
  /\ failed' \in BOOLEAN
  /\ at' = "ran"
  /\ UNCHANGED <<listed, ask, lost, code, told>>

Validate == at = "ran" /\ Answer(IF ~failed /\ Valid(ask.route, reply) THEN 200 ELSE 502)

\* What a client asks of an answer that the server has not: a check has been served,
\* and its history is one that the browser can read.  A conflict is told as such.
Taken(q, e) ==
  /\ q.route = "signal-review" =>
       e.status = "ok" /\ e.whole /\ (e.count > 0 => q.target.units <= 160)
  /\ q.route = "record-check" => e.status \in {"recorded", "conflict"}

Show ==
  /\ at = "answered"
  /\ at' = "shown" /\ told' = IF code = 200 /\ Taken(ask, reply) THEN "ready" ELSE "error"
  /\ UNCHANGED <<listed, ask, reply, landed, failed, lost, code>>

\* The connection breaks, before the server has the request or before the page has
\* the answer: fetch rejects, and the client says what it says of any error.
Lost ==
  /\ at \in {"sent", "answered"}
  /\ at' = "shown" /\ told' = "error" /\ lost' = TRUE
  /\ UNCHANGED <<listed, ask, reply, landed, failed, code>>

WireNext == Turn \/ Busy \/ RunTool \/ Validate \/ Show \/ Lost
WireSpec == WireInit /\ [][WireNext]_wireVars

--------------------------------------------------------------------------------
\* What the form accepts and the parser does not: a body of too many bytes - CJK
\* text or ids, say; a note or a search of too many characters; a search of one
\* character that is two units, or with a control character, such as a pasted tab;
\* an account whose id is longer than the route takes.
TooMuch(q) ==
  \/ q.route \in PostRoutes /\ ~BodyFits(q)
  \/ q.route = "update-proposal" /\ q.text.chars > 480
  \/ q.route = "company-search" /\ (q.text.chars \notin 2 .. 120 \/ q.text.control)
  \/ q.route \in Naming /\ q.target.chars > 200
  \/ q.route = "signal-review" /\ q.target.units > 160

\* What was asked of the checks cannot be had: access is denied, the journal cannot be
\* read, the date has passed, or the history has an id too long for the browser.
NoCheck(q, e) ==
  \/ q.route \in {"signal-review", "record-check"} /\ e.status \in {"unavailable", "error", "raised"}
  \/ q.route = "signal-review" /\ ~e.whole

\* What the page lets a person do is refused for a reason of the moment - a broken
\* connection, no slot, a failed call - or for one of those known: origins configured
\* without the page's own, what the forms accept beyond the parsers (TooMuch), a
\* company card without an id among the matches, a check that cannot be had
\* (NoCheck), a proposal decided by another meanwhile, my-day.  Beyond these no
\* parser, cap on a request, validator or client of the twelve routes turns down
\* what the page sends or the tools reply (a reply of a megabyte is not modelled).
OnlyKnownRefusals ==
  at = "shown" /\ ask.page /\ told = "error" =>
    \/ lost \/ code = 503 \/ failed
    \/ listed /\ ask.route \in PostRoutes
    \/ TooMuch(ask)
    \/ ask.route = "company-search" /\ ~reply.whole
    \/ NoCheck(ask, reply)
    \/ ask.route = "review-proposal" /\ ~landed /\ reply.status \in Decided
    \/ ask.route = "my-day"

\* "Nothing was changed", which the page says of every error of a proposal, an import
\* or a decision, is wrong only where the call failed after the tool had recorded, or
\* where the answer was lost on its way to the browser: no reply of a tool that has
\* written is refused by a validator or a client (_validate_review_decision,
\* _validate_import_proposal, createBffReviewClient).
ErrorMeansUnchanged == told = "error" /\ ~failed /\ ~lost => ~landed

\* The digest of the day is served to every role, as the test of the route has it
\* (test_my_day_has_a_parameterless_role_bound_endpoint).
DayIsServed ==
  at = "shown" /\ ask.page /\ ask.route = "my-day" /\ code # 503 /\ ~failed /\ ~lost => code = 200
================================================================================

--------------------------------- MODULE Reads ---------------------------------
(***************************************************************************)
(* The read facade of a gateway process (service.py, graph.py,             *)
(* dashboard.py): which cards a tool reads, decides, audits and shows.     *)
(*                                                                         *)
(* A gateway serves one actor and one call at a time.  A call asks the     *)
(* Retriever several times and asks the policy once per card, and between  *)
(* any two of these the vault and the grants may change.                   *)
(*                                                                         *)
(* Abstractions: an answer is the set of cards whose text it shows (in     *)
(* full or as a handle), its access label and the cards its figures sum    *)
(* up; wording, scores, freshness labels and row order are left out.  The  *)
(* boundary of a card is that of its path.  Cards sort as their paths do.  *)
(* campaign_brief is event_brief for another card type.                    *)
(***************************************************************************)
EXTENDS Retriever, AccessPolicy, Sequences

CONSTANTS
  CardsAt,      \* what people file at every path
  Actors,       \* who the gateway may be started for
  BoundaryOf,   \* resolve_boundary: the boundary of every path
  Queries,      \* names a caller may give
  Grants,       \* grants that may be active, as <<actor, target, boundary>>
  SearchLimit,  \* company_search: limit
  MaxEvidence,  \* graph.py: MAX_EVIDENCE
  MaxCalls, MaxChanges   \* bounds

ASSUME FilingAssumption ==
  /\ \A p \in Path : CardsAt[p] \subseteq Card
  /\ \A v \in Vaults, p \in Path : v[p] \in CardsAt[p] \cup {Absent}

ASSUME QueriesAssumption == None \notin Queries
ASSUME LimitsAssumption == MaxEvidence \in Nat \ {0}
ASSUME GrantsAssumption == \A g \in Grants : g = <<g[1], g[2], g[3]>>

VARIABLES
  actor,      \* the actor of this process
  grants,     \* active_grants(now): approved, not revoked, not expired
  op,         \* the tool call in progress
  calls, changes   \* counters

facadeVars == <<actor, grants, op, calls, changes>>
vars == <<retrieverVars, facadeVars>>

OverAll == {"deal_risk", "lead_priority", "content_opportunities", "my_day",
            "pipeline_risk_digest", "dashboard"}
OverOne == {"company_search", "company_brief", "deal_risk", "call_prep", "lead_priority",
            "event_brief", "entity_graph"}
Gated == {"company_brief", "event_brief", "entity_graph"}

GraphTypes == {"person", "lead", "deal", "call", "source", "event", "pain-point"}

--------------------------------------------------------------------------------
(* Lookups (retrieval.py). *)

OfType(got, type) == {e \in got : e.card.type = type}
Related(got, id) == {e \in got : e.card.company = id}
RelatedByType(got, id, type) == Related(got, id) \cap OfType(got, type)

\* An exact match on id or display wins; otherwise the substring matches.
Candidates(got, q, type) ==
  LET exact == {e \in OfType(got, type) : q \in {e.card.id, e.card.label}} IN
  IF exact # {} THEN exact ELSE {e \in OfType(got, type) : q \in e.card.words}

\* A query resolves to a card only when it is the single candidate.
Find(got, q, type) ==
  LET found == Candidates(got, q, type) IN
  IF Cardinality(found) = 1 THEN CHOOSE e \in found : TRUE ELSE None

FirstEntry(entries) == CHOOSE e \in entries : \A f \in entries : e.path <= f.path

Resource(e) ==
  [id |-> e.card.id, boundary |-> BoundaryOf[e.path], owner |-> e.card.owner,
   team |-> e.card.team, company |-> e.card.company]

Effect(e) == CanRead(actor, Resource(e), grants)

Content(e) == [entry |-> e, form |-> "content"]
Handle(e) == [entry |-> e, form |-> "handle"]

--------------------------------------------------------------------------------
(* The call in progress. *)

NoCall ==
  [tool |-> None, part |-> None, q |-> None, at |-> "idle", about |-> None, options |-> 0,
   names |-> <<>>, todo |-> {}, log |-> {}, shown |-> {}, held |-> FALSE, missing |-> FALSE,
   rolled |-> {}, access |-> None, quiet |-> TRUE, span |-> {}]

Answer(o, access) == [o EXCEPT !.at = "answered", !.access = access]

\* Faulty: only refusals are recorded.
FaultyDecided(o, e) ==
  IF Effect(e) = "allow" THEN o
  ELSE [o EXCEPT !.log = @ \cup {[entry |-> e, effect |-> Effect(e)]}]

\* A decision goes to the audit log.
Decided(o, e) == [o EXCEPT !.log = @ \cup {[entry |-> e, effect |-> Effect(e)]}]

\* Where a tool begins, and the listing it begins with.
Begin(tool, q) ==
  [NoCall EXCEPT
    !.tool = tool, !.q = q,
    !.part = CASE tool = "my_day" -> "lead_priority"
               [] tool = "pipeline_risk_digest" -> "deal_risk"
               [] OTHER -> tool,
    !.at = CASE q = None \/ tool = "company_search" -> "list"
             [] tool = "entity_graph" -> "candidates"
             [] OTHER -> "find",
    !.span = {Entry(p, disk[p].card) : p \in Path}]

Ask(tool, q) ==
  /\ op.at \in {"idle", "answered"} /\ calls < MaxCalls
  /\ op' = Begin(tool, q)
  /\ calls' = calls + 1
  /\ UNCHANGED <<retrieverVars, actor, grants, changes>>

\* The points at which a tool calls the Retriever, and the use of the result.
ReadPoints == {"candidates", "find", "options", "list", "link", "target", "metrics"}

Read == op.at \in ReadPoints /\ Reading /\ UNCHANGED facadeVars

Use(point) ==
  /\ op.at = point /\ rd.at = "done"
  /\ rd' = NoRead
  /\ UNCHANGED <<disk, clock, cards, signature, actor, grants, calls, changes>>

Step == UNCHANGED <<retrieverVars, actor, grants, calls, changes>>

\* A file that vanished under the load raises through the tool.
Raise ==
  /\ rd.at = "failed"
  /\ rd' = NoRead
  /\ op' = Answer([op EXCEPT !.shown = {}], "error")
  /\ UNCHANGED <<disk, clock, cards, signature, actor, grants, calls, changes>>

--------------------------------------------------------------------------------
(* Resolving the name the caller gave. *)

Sought(tool) == IF tool = "event_brief" THEN "event" ELSE "company"

\* GraphProjector.entity_graph counts the candidates before it resolves.
CountCandidates ==
  /\ Use("candidates")
  /\ op' = [op EXCEPT !.at = "find",
                      !.options = Cardinality(Candidates(rd.got, op.q, "company"))]

\* Faulty: the name is looked up again until it resolves.
FaultyUnresolved ==
  /\ Use("find")
  /\ Find(rd.got, op.q, Sought(op.tool)) = None
  /\ op' = IF op.tool = "company_brief" THEN op ELSE Answer(op, "not-found")

\* No single match.  company_brief goes on to read the candidates again.
Unresolved ==
  /\ Use("find")
  /\ Find(rd.got, op.q, Sought(op.tool)) = None
  /\ op' = CASE op.tool = "company_brief" -> [op EXCEPT !.at = "options"]
             [] op.tool = "entity_graph" /\ op.options > 1 -> Answer(op, "ambiguous")
             [] OTHER -> Answer(op, "not-found")

ListOptions ==
  /\ Use("options")
  /\ op' = Answer(op, IF Cardinality(Candidates(rd.got, op.q, "company")) > 1
                      THEN "ambiguous" ELSE "not-found")

\* deal_risk, call_prep and lead_priority use the company for its id and take
\* no decision on it.
Resolved ==
  /\ Use("find")
  /\ op.tool \notin Gated
  /\ LET e == Find(rd.got, op.q, Sought(op.tool)) IN
       /\ e # None
       /\ op' = [op EXCEPT !.at = "list", !.about = e.card.id]

\* Whether the card a brief is about lets it go on: company_brief stops at a
\* block, the others at anything but an allow, the graph at a card without id.
Opens(tool, e) ==
  /\ IF tool = "company_brief" THEN Effect(e) # "block" ELSE Effect(e) = "allow"
  /\ tool = "entity_graph" => e.card.id # Nobody

NextTarget(o) ==
  IF o.names = <<>> THEN Answer(o, "allowed")
  ELSE [o EXCEPT !.at = "target", !.part = "event_brief"]

Gate ==
  /\ Use("find")
  /\ op.tool \in Gated
  /\ LET e == Find(rd.got, op.q, Sought(op.tool))
         opened == [Decided(op, e) EXCEPT !.shown = {Content(e)}, !.about = e.card.id]
     IN /\ e # None
        /\ op' = CASE ~Opens(op.tool, e) -> Answer(Decided(op, e), "blocked")
                   [] Opens(op.tool, e) /\ op.tool = "event_brief" ->
                        NextTarget([opened EXCEPT !.names = e.card.targets])
                   [] OTHER -> [opened EXCEPT !.at = "list"]

--------------------------------------------------------------------------------
(* Listing cards and deciding them one by one. *)

Listed(got) ==
  LET OfTool(type) == IF op.about = None THEN OfType(got, type)
                      ELSE RelatedByType(got, op.about, type)
  IN CASE op.part = "company_search" -> Candidates(got, op.q, "company")
       [] op.part \in {"company_brief", "account"} -> Related(got, op.about)
       [] op.part = "entity_graph" ->
            {e \in Related(got, op.about) : e.card.type \in GraphTypes}
       [] op.part = "deal_risk" -> OfTool("deal")
       [] op.part = "lead_priority" -> OfTool("lead")
       [] op.part = "content_opportunities" -> OfType(got, "pain-point")
       [] op.part = "dashboard" -> OfType(got, "company")
       [] op.part = "signal" -> OfTool("source")
       [] op.part = "call_prep" ->
            LET found == OfTool("call") IN
            IF found = {} THEN {} ELSE {FirstEntry(found)}

List ==
  /\ Use("list")
  /\ op' = IF op.part = "call_prep" /\ Listed(rd.got) = {}
           THEN Answer(op, "not-found")
           ELSE [op EXCEPT !.at = "decide", !.todo = Listed(rd.got)]

\* Faulty: the limit is exceeded by one.
FaultyProjects(e) ==
  /\ e.card.id # Nobody
  /\ \A s \in op.shown : s.entry.card.id # e.card.id
  /\ Cardinality(op.shown) <= MaxEvidence

\* An allowed card becomes a node unless its id is empty or taken, or the
\* evidence limit is reached.
Projects(e) ==
  /\ e.card.id # Nobody
  /\ \A s \in op.shown : s.entry.card.id # e.card.id
  /\ Cardinality(op.shown) < MaxEvidence

\* What a decision adds to the answer.
Emitted(e) ==
  CASE Effect(e) = "allow" ->
         IF \/ op.part = "entity_graph" /\ ~Projects(e)
            \/ op.part = "signal" /\ ~e.card.telling
         THEN {} ELSE {Content(e)}
    [] Effect(e) = "handle" /\ op.part = "company_brief" -> {Handle(e)}
    [] OTHER -> {}

\* The search stops at its limit, the signal at the first one found.
Satisfied(e) ==
  \/ op.part = "company_search" /\ Cardinality(op.shown \cup Emitted(e)) >= SearchLimit
  \/ op.part = "signal" /\ Emitted(e) # {}

Decide ==
  /\ op.at = "decide" /\ op.todo # {}
  /\ LET e == FirstEntry(op.todo)
         lead == op.part = "lead_priority" /\ Effect(e) = "allow"
     IN op' = [Decided(op, e) EXCEPT
                 !.todo = IF Satisfied(e) THEN {} ELSE @ \ {e},
                 !.shown = @ \cup Emitted(e),
                 !.held = @ \/ Effect(e) # "allow",
                 !.missing = @ \/ (Effect(e) = "allow" /\ Emitted(e) = {}),
                 !.names = IF op.part = "dashboard" /\ Effect(e) = "allow"
                           THEN Append(@, e.card.id) ELSE @,
                 !.at = IF lead THEN "link" ELSE @,
                 !.about = IF lead THEN e.card.company ELSE @]
  /\ Step

--------------------------------------------------------------------------------
(* Leads and events: the first deal of a company. *)

\* _linked_deal, shown when it is allowed and has a risk to tell.  An event
\* falls back on a broad signal about the account.
Link ==
  /\ Use("link")
  /\ LET deals == RelatedByType(rd.got, op.about, "deal")
         e == FirstEntry(deals)
         shows == Effect(e) = "allow" /\ e.card.telling
         after == IF deals = {} THEN op
                  ELSE [Decided(op, e) EXCEPT
                          !.shown = IF shows THEN @ \cup {Content(e)} ELSE @]
     IN op' = CASE op.part = "lead_priority" -> [after EXCEPT !.at = "decide"]
                [] op.part # "lead_priority" /\ deals # {} /\ ~shows ->
                     [after EXCEPT !.at = "list", !.part = "signal"]
                [] OTHER -> NextTarget(after)

\* The next target account of an event, looked up by name.
Target ==
  /\ Use("target")
  /\ LET e == Find(rd.got, Head(op.names), "company")
         rest == [op EXCEPT !.names = Tail(@)]
     IN op' = IF e = None THEN NextTarget(rest)
              ELSE [rest EXCEPT !.at = "link", !.about = e.card.id]

--------------------------------------------------------------------------------
(* The end of a listing. *)

\* Faulty: an answer that shows a related card is not called sanitized.
FaultyEndAccess(o) ==
  IF o.tool \in {"company_brief", "entity_graph"} /\ o.held /\ Cardinality(o.shown) = 1
  THEN "sanitized" ELSE "allowed"

EndAccess(o) ==
  CASE o.tool \in {"company_brief", "entity_graph"} ->
         IF o.held THEN "sanitized" ELSE "allowed"
    [] o.tool = "deal_risk" ->
         IF o.shown # {} THEN "allowed" ELSE IF o.q = None THEN "aggregated" ELSE "blocked"
    [] o.tool = "company_search" -> "ok"
    [] o.tool = "call_prep" -> IF o.shown # {} THEN "allowed" ELSE "sanitized"
    [] OTHER -> "allowed"

EndOf(part) == op.at = "decide" /\ op.part = part /\ op.todo = {} /\ Step

\* The dashboard goes on to what is related to the next allowed company.
NextAccount ==
  /\ EndOf("dashboard") \/ EndOf("account")
  /\ op' = IF op.names = <<>> THEN Answer(op, "allowed")
           ELSE [op EXCEPT !.at = "list", !.part = "account",
                           !.about = Head(op.names), !.names = Tail(@)]

\* After the leads, my_day goes on to the deals.
LeadsDone ==
  /\ EndOf("lead_priority")
  /\ op' = IF op.tool = "my_day"
           THEN [op EXCEPT !.at = "list", !.part = "deal_risk", !.about = None]
           ELSE Answer(op, "allowed")

\* After the deals, the digest goes on to the figures.
DealsDone ==
  /\ EndOf("deal_risk")
  /\ op' = CASE op.tool = "pipeline_risk_digest" -> [op EXCEPT !.at = "metrics"]
             [] op.tool = "my_day" -> Answer(op, "allowed")
             [] OTHER -> Answer(op, EndAccess(op))

\* With a signal or without, the event goes on to its next target.
SignalDone ==
  /\ EndOf("signal")
  /\ op' = NextTarget(op)

Finish ==
  /\ \/ EndOf("company_search") \/ EndOf("company_brief") \/ EndOf("entity_graph")
     \/ EndOf("content_opportunities") \/ EndOf("call_prep")
  /\ op' = Answer(op, EndAccess(op))

\* Faulty: the figures are over every deal.
FaultyMetrics ==
  /\ Use("metrics")
  /\ LET rolled == OfType(rd.got, "deal") IN
       op' = Answer([op EXCEPT !.rolled = rolled],
                    IF rolled # {} THEN "allowed" ELSE "aggregated")

\* _pipeline_metrics lists and decides the deals again, off the record.
Metrics ==
  /\ Use("metrics")
  /\ LET rolled == {e \in OfType(rd.got, "deal") : Effect(e) = "allow"} IN
       op' = Answer([op EXCEPT !.rolled = rolled],
                    IF rolled # {} THEN "allowed" ELSE "aggregated")

--------------------------------------------------------------------------------
(* What changes around the process. *)

Busy == op.at \notin {"idle", "answered"}

\* Ghosts of the call: whether anything changed under it, and what the paths
\* have held.
Noticed(entries) ==
  op' = IF Busy THEN [op EXCEPT !.quiet = FALSE, !.span = @ \cup entries] ELSE op

Edit(p) ==
  /\ changes < MaxChanges
  /\ (\E c \in CardsAt[p] : Write(p, c)) \/ Delete(p)
  /\ Noticed({Entry(p, disk'[p].card)})
  /\ changes' = changes + 1
  /\ UNCHANGED <<actor, grants, calls>>

\* A grant is approved; or it expires, or is revoked.
MoveGrant(g) ==
  /\ changes < MaxChanges
  /\ grants' = IF g \in grants THEN grants \ {g} ELSE grants \cup {g}
  /\ Noticed({})
  /\ changes' = changes + 1
  /\ UNCHANGED <<retrieverVars, actor, calls>>

--------------------------------------------------------------------------------
Init ==
  /\ RetrieverInit
  /\ actor \in Actors
  /\ grants \in SUBSET Grants
  /\ op = NoCall
  /\ calls = 0 /\ changes = 0

Serve ==
  \/ CountCandidates \/ Unresolved \/ ListOptions \/ Resolved \/ Gate
  \/ List \/ Decide \/ Link \/ Target
  \/ NextAccount \/ LeadsDone \/ DealsDone \/ SignalDone \/ Finish \/ Metrics \/ Raise

Next ==
  \/ \E tool \in OverAll : Ask(tool, None)
  \/ \E tool \in OverOne, q \in Queries : Ask(tool, q)
  \/ Read
  \/ Serve
  \/ \E p \in Path : Edit(p)
  \/ \E g \in Grants : MoveGrant(g)

\* A call that has begun runs: its thread is never suspended for good.
Spec == Init /\ [][Next]_vars /\ WF_vars(Read) /\ WF_vars(Serve)

--------------------------------------------------------------------------------
(* Safety. *)

\* The company a company brief is about: the one card a tool opens on a handle.
Briefed(o, e) ==
  o.tool = "company_brief" /\ e.card.type = "company" /\ e.card.id = o.about

\* The decisions a card may be shown on.
Grounds(o, s) ==
  IF s.form = "handle" THEN {"handle"}
  ELSE IF Briefed(o, s.entry) THEN {"allow", "handle"} ELSE {"allow"}

\* Whatever an answer shows in full was allowed, and whatever it shows as a
\* handle was left to a handle, by a decision of the same call on that same
\* card, and the decision is in the audit log (service.py:829-837, 863-875).
\* The company a company brief is about may have been left to a handle too: only
\* a block stops that tool (service.py:220).
ShownWasDecided ==
  \A s \in op.shown :
    \E effect \in Grounds(op, s) : [entry |-> s.entry, effect |-> effect] \in op.log

\* What the code says of itself: only an allow passes, "so a card mis-filed into a
\* restricted boundary is never emitted" (service.py:829-833), "through any tool,
\* regardless of its card type" (tests/test_security_no_leak.py:6-7).  It does
\* not hold: a company card filed under personal-data is shown by company_brief.
MisfiledIsNeverShown ==
  \A s \in op.shown :
    s.form = "content" => [entry |-> s.entry, effect |-> "allow"] \in op.log

\* The access label tells the truth about the answer: a refusal shows no
\* card, and a brief or a graph is called "allowed" exactly when nothing it
\* came across was withheld (service.py:220, 265, 303, 337; graph.py:205).  The
\* company of a brief is not withheld even when its decision was a handle.
LabelIsHonest ==
  op.at = "answered" =>
    /\ (\/ op.access \in {"blocked", "ambiguous", "not-found", "error"}
        \/ op.tool = "deal_risk" /\ op.access = "aggregated"
        \/ op.tool = "call_prep" /\ op.access = "sanitized")
       => op.shown = {}
    /\ op.tool \in {"company_brief", "entity_graph"} =>
         /\ op.access = "allowed" =>
              \A d \in op.log :
                d.effect = "allow" \/ (d.effect = "handle" /\ Briefed(op, d.entry))
         /\ op.access = "sanitized" => \E d \in op.log : d.effect # "allow"
    /\ op.tool = "deal_risk" /\ op.access = "allowed" => op.shown # {}

\* A graph passes its own validation (graph.py:448-490): it has its root, no
\* empty or doubled id and no more records than the limit; and a record it
\* leaves out though it was allowed is announced.  A call that raises has decided
\* cards and shows no graph.
GraphStandsUp ==
  op.tool = "entity_graph" /\ op.at = "answered" =>
    /\ \A s, t \in op.shown :
         /\ s.entry.card.id # Nobody
         /\ s.entry.card.id = t.entry.card.id => s = t
    /\ Cardinality(op.shown) <= MaxEvidence
    /\ op.access \in {"allowed", "sanitized"} =>
         /\ \E s \in op.shown : s.entry.card.id = op.about
         /\ \A d \in op.log :
              d.effect = "allow" => Content(d.entry) \in op.shown \/ op.missing

\* The figures of the pipeline digest are over the deals the digest shows,
\* unless the vault or a grant changed while it was put together
\* (service.py:671-681).
DigestAgreesWhenQuiet ==
  op.tool = "pipeline_risk_digest" /\ op.at = "answered" /\ op.quiet /\ op.access # "error" =>
    op.rolled = {s.entry : s \in op.shown}

\* A card an answer shows was on the disk at some moment of that very call,
\* if its path held a file throughout: a cache kept from an earlier call
\* never brings back what was overwritten before (retrieval.py:83-92).
ShownIsFromThisCall ==
  \A s \in op.shown :
    \/ s.entry \in op.span
    \/ Entry(s.entry.path, Absent) \in op.span

\* A grant coming into force never narrows anybody's reading, and opens only
\* what it names (policy.py:42-60).
GrantsOnlyWiden ==
  [][\A g \in Grants : grants' = grants \cup {g} =>
       \A a \in Actors, p \in Present :
         LET r == Resource(Entry(p, disk[p].card))
             before == CanRead(a, r, grants)
             after == CanRead(a, r, grants')
         IN IF a.id = g[1] /\ g[2] \in {r.id, r.company} /\ g[3] = r.boundary
            THEN after = "allow" ELSE after = before]_vars

(* Liveness. *)

\* Every call is answered, whatever changes under it.
EveryCallEnds == Busy ~> op.at = "answered"
================================================================================

----------------------------- MODULE AccessPolicy ------------------------------
(***************************************************************************)
(* Read decisions (policy.py): a role's boundaries, narrowed by ownership, *)
(* and widened by approved grants.                                         *)
(*                                                                         *)
(* An actor is [id, role, team, owns], a resource [id, boundary, owner,    *)
(* team, company]; Nobody stands for an empty property.  The rule          *)
(* personal_data_unauthorized_behavior is "opaque-handle", as configured.  *)
(***************************************************************************)
CONSTANTS
  Boundaries,   \* the boundaries of every known role
  Constraint,   \* attribute_constraints of every known role, by boundary
  Nobody        \* an empty owner, team or company

MatchesOwnership(actor, r, includeTeam) ==
  \/ r.owner # Nobody /\ r.owner = actor.id
  \/ includeTeam /\ r.team # Nobody /\ r.team = actor.team
  \/ r.company # Nobody /\ r.company \in actor.owns

\* A constraint the code does not know satisfies nobody.
MeetsConstraint(actor, r) ==
  LET constraints == Constraint[actor.role] IN
  \/ r.boundary \notin DOMAIN constraints
  \/ constraints[r.boundary] = "owned_or_team" /\ MatchesOwnership(actor, r, TRUE)
  \/ constraints[r.boundary] = "assigned" /\ MatchesOwnership(actor, r, FALSE)

BaseDecision(actor, r) ==
  CASE actor.role \notin DOMAIN Boundaries -> "block"
    [] actor.role \in DOMAIN Boundaries /\ r.boundary = "personal-data" ->
         IF r.boundary \in Boundaries[actor.role] THEN "allow" ELSE "handle"
    [] OTHER ->
         IF r.boundary \in Boundaries[actor.role] /\ MeetsConstraint(actor, r)
         THEN "allow" ELSE "block"

Granted(actor, r, grants) ==
  \E target \in {r.company, r.id} : <<actor.id, target, r.boundary>> \in grants

\* Faulty: the override read as the decision itself: whoever holds any grant is
\* judged by grants alone.
FaultyCanRead(actor, r, grants) ==
  IF \E g \in grants : g[1] = actor.id
  THEN IF Granted(actor, r, grants) THEN "allow" ELSE "block"
  ELSE BaseDecision(actor, r)

\* A grant turns a block or a handle into an allow, and nothing else.
CanRead(actor, r, grants) ==
  IF BaseDecision(actor, r) # "allow" /\ Granted(actor, r, grants)
  THEN "allow" ELSE BaseDecision(actor, r)
================================================================================

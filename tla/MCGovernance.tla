------------------------------ MODULE MCGovernance ------------------------------
(***************************************************************************)
(* Instances of Governance for TLC.                                        *)
(***************************************************************************)
EXTENDS Governance, TLC

CONSTANTS s1, s2, w1, w2, c1, curator, admin, rep, k1, k2

\* Approver roles of schemas/access-policy.json.
PolicyApprovers == {"curator", "hos", "admin"}

SameKey == [x \in Sessions \cup Workers |-> k1]

\* Two approvers, both of whom may also submit proposals.
RaceActorOf == (s1 :> curator) @@ (s2 :> admin)
RaceRoleOf == (curator :> "curator") @@ (admin :> "admin")

\* One approver.
OneActorOf == s1 :> curator
OneRoleOf == curator :> "curator"

\* One approver and a sales rep who may submit but not decide; the second
\* worker resolved another approval key.
MixedActorOf == (s1 :> admin) @@ (s2 :> rep)
MixedRoleOf == (admin :> "admin") @@ (rep :> "sales-owner")
MixedKeyOf == [x \in Sessions \cup Workers |-> IF x = w2 THEN k2 ELSE k1]

\* One mishap, a crash or an edit of the vault; no step of a worker is either.
GrantsNext == Next /\ (edits + crashes <= 1)'
GrantsSpec == Init /\ [][GrantsNext]_vars /\ Fairness
================================================================================

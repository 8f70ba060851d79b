--------------------------- MODULE ProposalLifecycle ---------------------------
(***************************************************************************)
(* What the proposal log promises to its readers, whatever the number of   *)
(* approver sessions and workers that write to it and whenever they stop.  *)
(*                                                                         *)
(* The log is append-only and no writer checks and appends under one lock, *)
(* so the promise is not the textbook automaton draft -> approved ->       *)
(* applied.  It is weaker: a status is appended only if the proposal HAD,  *)
(* at this or an earlier moment, a status that permits it.  Only the       *)
(* worker's two closing entries are tied to the present.                   *)
(***************************************************************************)

CONSTANTS Proposals   \* proposal ids

VARIABLES status,     \* status a reader of the log sees, per proposal
          trail       \* every status ever logged, per proposal

vars == <<status, trail>>

Status == {"none", "draft", "approved", "rejected", "revoked",
           "applied", "failed", "rolled-back"}

\* Statuses one of which must be in the trail before s may be logged.
Permits(s) ==
  CASE s = "approved"    -> {"draft"}
    [] s = "rejected"    -> {"draft"}
    [] s = "revoked"     -> {"approved", "applied"}
    [] s = "applied"     -> {"approved"}
    [] s = "failed"      -> {"approved"}
    [] s = "rolled-back" -> {"applied"}
    [] OTHER             -> {}

TypeOK ==
  /\ status \in [Proposals -> Status]
  /\ trail \in [Proposals -> SUBSET Status]

Init ==
  /\ status = [p \in Proposals |-> "none"]
  /\ trail = [p \in Proposals |-> {}]

Log(p, s) ==
  /\ status' = [status EXCEPT ![p] = s]
  /\ trail' = [trail EXCEPT ![p] = @ \cup {s}]

\* A captured proposal is new: its id names no earlier proposal.
Capture(p) ==
  /\ status[p] = "none"
  /\ Log(p, "draft")

Advance(p, s) ==
  /\ trail[p] \cap Permits(s) # {}
  /\ Log(p, s)

Next ==
  \E p \in Proposals :
    \/ Capture(p)
    \/ \E s \in Status \ {"none", "draft"} : Advance(p, s)

Spec == Init /\ [][Next]_vars
================================================================================

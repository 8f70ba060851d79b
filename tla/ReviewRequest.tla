----------------------------- MODULE ReviewRequest -----------------------------
(***************************************************************************)
(* When a quality-review request is well formed: once as the gateway       *)
(* decides (signal_review.py validate_request, which the workbench server  *)
(* calls too) and once as the browser does (signalReviewClient.js          *)
(* validReviewRequest).                                                    *)
(*                                                                         *)
(* A request is represented by what either of the two can tell apart.      *)
(***************************************************************************)
Outcomes == {"confirmed_current", "update_needed", "no_longer_relevant",
             "unable_to_verify", "false_alarm"}
\* "source_changed" stands for the causes other than "unknown".
Causes == {"unknown", "source_changed"}
CauseStatuses == {"unknown", "suspected", "confirmed"}
Impacts == {"not_assessed", "unchanged", "changed", "cannot_assess"}
\* "request_context" stands for the next actions other than "none".
NextActions == {"none", "request_context"}
\* A follow-up date is absent, a calendar date, one that has passed by the clock of
\* the server, or no date (the year 0, which Python does not have and the browser
\* does, is left out: the form takes it for a date that has passed).
FollowUps == {"", "date", "past", "not-a-date"}
\* Evidence: none, distinct ids within the limit, with a duplicate, too many.
Evidence == {"none", "some", "duplicate", "too-many"}
\* The ids of the target and of the evidence: all are within 160 UTF-16 units, as
\* the browser counts; one is longer, but within 160 characters, as the gateway
\* counts; one is longer than that; the target has a control character.
Ids == {"fits", "wide", "long", "control"}

Requests ==
  [ids : Ids,
   action : {"start", "complete", "other"},
   outcome : Outcomes \cup {"", "other"},
   cause : Causes \cup {"other"},
   cause_status : CauseStatuses,
   decision_impact : Impacts,
   next_action : NextActions,
   follow_up_on : FollowUps,
   evidence : Evidence]

\* validate_request raises for every other request.
ValidRequest(r) ==
  LET known == r.cause_status # "unknown"
      refs == r.evidence # "none"
  IN  /\ r.ids \in {"fits", "wide"}
      /\ r.action \in {"start", "complete"}
      /\ r.cause \in Causes /\ r.outcome \in Outcomes \cup {""}
      /\ r.evidence \in {"none", "some"}
      /\ r.follow_up_on # "not-a-date"
      /\ known <=> r.cause # "unknown"
      /\ known => refs
      /\ r.action = "start" =>
           /\ r.outcome = "" /\ r.cause = "unknown"
           /\ r.decision_impact = "not_assessed" /\ ~refs
           /\ r.next_action # "none"
      /\ r.action = "complete" =>
           /\ r.outcome # "" /\ r.decision_impact # "not_assessed"
           /\ r.outcome \in {"confirmed_current", "update_needed", "false_alarm"} => refs
           /\ r.outcome \in {"unable_to_verify", "update_needed"} => r.next_action # "none"
      /\ r.next_action # "none" <=> r.follow_up_on # ""

\* What record asks beyond that; events already recorded are not asked it again.
Acceptable(r) == ValidRequest(r) /\ r.follow_up_on # "past"

FaultyClientValid(r) ==
  /\ r.ids \in {"fits", "control"}
  /\ r.action \in {"start", "complete"}
  /\ r.cause \in Causes
  /\ r.outcome = "" \/ r.outcome \in Outcomes
  /\ r.evidence \notin {"too-many", "duplicate"}
  /\ (r.cause = "unknown") = (r.cause_status = "unknown")
  /\ ~(r.cause_status # "unknown" /\ r.evidence = "none")
  /\ r.follow_up_on # "not-a-date"
  /\ (r.next_action = "none") = (r.follow_up_on = "")
  /\ IF r.action = "start"
     THEN /\ r.outcome = "" /\ r.cause = "unknown" /\ r.decision_impact = "not_assessed"
          /\ r.evidence = "none" /\ r.next_action # "none"
     ELSE /\ r.outcome # "" /\ r.decision_impact # "not_assessed"
          /\ r.outcome \notin {"confirmed_current", "update_needed"} \/ r.evidence # "none"
          /\ r.outcome \notin {"unable_to_verify", "update_needed"} \/ r.next_action # "none"

ClientValid(r) ==
  /\ r.ids \in {"fits", "control"}
  /\ r.action \in {"start", "complete"}
  /\ r.cause \in Causes
  /\ r.outcome = "" \/ r.outcome \in Outcomes
  /\ r.evidence \notin {"too-many", "duplicate"}
  /\ (r.cause = "unknown") = (r.cause_status = "unknown")
  /\ ~(r.cause_status # "unknown" /\ r.evidence = "none")
  /\ r.follow_up_on # "not-a-date"
  /\ (r.next_action = "none") = (r.follow_up_on = "")
  /\ IF r.action = "start"
     THEN /\ r.outcome = "" /\ r.cause = "unknown" /\ r.decision_impact = "not_assessed"
          /\ r.evidence = "none" /\ r.next_action # "none"
     ELSE /\ r.outcome # "" /\ r.decision_impact # "not_assessed"
          /\ r.outcome \notin {"confirmed_current", "update_needed", "false_alarm"}
               \/ r.evidence # "none"
          /\ r.outcome \notin {"unable_to_verify", "update_needed"} \/ r.next_action # "none"
================================================================================

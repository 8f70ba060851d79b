------------------------------- MODULE ReviewForm -------------------------------
(***************************************************************************)
(* The form a quality review is entered in (SignalReviewModal.jsx) and the *)
(* requests that reach the gateway: those it sends, and those of other MCP *)
(* clients, whose recorded events the browser must be able to show.        *)
(***************************************************************************)
EXTENDS ReviewRequest

CONSTANT None   \* no request

VARIABLES
  active,   \* the view shows a check in progress (can_complete)
  form,     \* what has been entered
  request   \* the request being validated

formVars == <<active, form, request>>

EmptyForm ==
  [outcome |-> "", cause |-> "unknown", cause_status |-> "unknown",
   decision_impact |-> "cannot_assess", next_action |-> "request_context",
   follow_up_on |-> "date", evidence |-> "none"]

\* A check is started with nothing found yet.  The ids are those of the account and
\* of the sources that are ticked.
Sent(ids) ==
  [ids |-> ids,
   action |-> IF active THEN "complete" ELSE "start",
   outcome |-> IF active THEN form.outcome ELSE "",
   cause |-> IF active THEN form.cause ELSE "unknown",
   cause_status |-> IF active THEN form.cause_status ELSE "unknown",
   decision_impact |-> IF active THEN form.decision_impact ELSE "not_assessed",
   next_action |-> form.next_action,
   follow_up_on |-> form.follow_up_on,
   evidence |-> IF active THEN form.evidence ELSE "none"]

--------------------------------------------------------------------------------
(***************************************************************************)
(* Entering: which fields are shown depends on active; two of them carry   *)
(* another field along.                                                    *)
(***************************************************************************)
Entered(f) == form' = f /\ UNCHANGED <<active, request>>

ChooseOutcome ==
  /\ active
  /\ \E o \in Outcomes \cup {""} : Entered([form EXCEPT !.outcome = o])

ChooseImpact ==
  /\ active
  /\ \E i \in Impacts \ {"not_assessed"} : Entered([form EXCEPT !.decision_impact = i])

\* Sources are checked and unchecked one by one; none is listed twice.
ChooseEvidence ==
  /\ active
  /\ \E e \in {"none", "some", "too-many"} : Entered([form EXCEPT !.evidence = e])

FaultyChooseCauseStatus ==
  /\ active
  /\ \E s \in CauseStatuses :
       Entered([form EXCEPT !.cause_status = s,
                  !.cause = IF s # "unknown" /\ @ = "unknown" THEN "source_changed" ELSE @])

ChooseCauseStatus ==
  /\ active
  /\ \E s \in CauseStatuses :
       Entered([form EXCEPT !.cause_status = s,
                  !.cause = IF s = "unknown" THEN "unknown"
                            ELSE IF @ = "unknown" THEN "source_changed" ELSE @])

ChooseCause ==
  /\ active /\ form.cause_status # "unknown"
  /\ \E c \in Causes \ {"unknown"} : Entered([form EXCEPT !.cause = c])

\* A check that is started must name its next step.
ChooseNextAction ==
  \E n \in (IF active THEN NextActions ELSE NextActions \ {"none"}) :
    Entered([form EXCEPT !.next_action = n,
               !.follow_up_on = IF n = "none" THEN "" ELSE IF @ = "" THEN "date" ELSE @])

ChooseDate ==
  /\ form.next_action # "none"
  /\ \E d \in {"", "date"} : Entered([form EXCEPT !.follow_up_on = d])

\* The day that was entered is over, by the clock of the server.
DatePasses ==
  /\ form.follow_up_on = "date"
  /\ Entered([form EXCEPT !.follow_up_on = "past"])

--------------------------------------------------------------------------------
\* The page of an account whose id has control characters does not open.  (That the
\* form also asks the browser's clock whether the date has passed is left open.)
Submit ==
  /\ \E ids \in Ids \ {"control"} : request' = Sent(ids)
  /\ UNCHANGED <<active, form>>

OtherClient ==
  /\ form = EmptyForm
  /\ request' \in Requests
  /\ UNCHANGED <<active, form>>

\* Recorded: the form is cleared and the view loaded again.
Recorded ==
  /\ ClientValid(request) /\ Acceptable(request)
  /\ form' = EmptyForm
  /\ active' \in BOOLEAN

\* Refused, failed, in conflict, or of another client: what was entered stays, the
\* view may differ.
NotRecorded ==
  /\ form' = form
  /\ active' \in BOOLEAN

FormInit ==
  /\ active \in BOOLEAN
  /\ form = EmptyForm
  /\ request = None

FormNext ==
  \/ /\ request = None
     /\ \/ ChooseOutcome \/ ChooseImpact \/ ChooseEvidence
        \/ ChooseCauseStatus \/ ChooseCause
        \/ ChooseNextAction \/ ChooseDate \/ DatePasses
        \/ Submit \/ OtherClient
  \/ /\ request # None
     /\ request' = None
     /\ Recorded \/ NotRecorded

FormSpec == FormInit /\ [][FormNext]_formVars

--------------------------------------------------------------------------------
(***************************************************************************)
(* Properties.                                                             *)
(***************************************************************************)

\* The rules of a valid request are written twice, in Python and in JavaScript.  The
\* gateway refuses of what the browser lets through only a date that has passed
\* meanwhile and a target with control characters; and of the events that any client
\* gets recorded, only one with an id of more than 160 UTF-16 units within 160
\* characters makes the browser refuse the history (validate_request,
\* validReviewRequest, validateReviewView).
ClientAgreesWithServer ==
  request # None =>
    /\ ClientValid(request) /\ ~Acceptable(request) =>
         request.follow_up_on = "past" \/ request.ids = "control"
    /\ ValidRequest(request) /\ ~ClientValid(request) => request.ids = "wide"

\* However the view changes under the form, a cause is given exactly when its
\* certainty is: the select that is hidden never holds a value that would be sent
\* (the coupled onChange of cause_status).
CauseFollowsItsStatus == form.cause = "unknown" <=> form.cause_status = "unknown"
================================================================================

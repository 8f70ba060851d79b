--------------------------- MODULE MCGovernanceWrites --------------------------
(***************************************************************************)
(* Four instances of Governance in one state space, which plan tells       *)
(* apart: two approvers and one worker over one access request; one        *)
(* approver and two workers over two flags on one card, the second of      *)
(* which quotes the first, with one crash or one edit; the same over one   *)
(* flag on a card that cannot be resolved before an edit, with one crash;  *)
(* and two sessions that capture at the same time.                         *)
(***************************************************************************)
EXTENDS MCGovernance

VARIABLE plan

Captured(type, quotes) ==
  \A s \in Sessions : call[s].pc = "capture" =>
    call[s].req.ptype = type /\ call[s].req.quotes = quotes

\* What the sessions and the workers do under each plan.
KeptTo(p) ==
  CASE p = "race" -> /\ crashes = 0 /\ wk[w2].pc = "idle"
                     /\ \A s \in Sessions : call[s].pid # 2
                     /\ \A w \in Workers : wk[w].pid # 2
                     /\ status[2] = "none"
                     /\ Captured("request_access", {})
    [] p = "workers" -> /\ call[s2].pc = "idle" /\ edits + crashes <= 1
                        /\ Captured("flag_stale_or_wrong", IF status[1] = "none" THEN {} ELSE {1})
    [] p = "late" -> /\ call[s2].pc = "idle"
                     /\ status[2] = "none"
                     /\ Captured("flag_stale_or_wrong", {})
    [] p = "captures" -> /\ \A w \in Workers : wk[w].pc = "idle"
                         /\ \A s \in Sessions : call[s].pc \notin {"decide", "append"}
                         /\ Captured("request_access", {})

WritesInit ==
  /\ Init
  /\ plan \in {"race", "workers", "late", "captures"}
  /\ \A c \in Cards :
       (plan = "workers" => resolvable[c]) /\ (plan = "late" => ~resolvable[c])

WritesNext == Next /\ UNCHANGED plan /\ KeptTo(plan)'

WritesSpec == WritesInit /\ [][WritesNext]_<<vars, plan>>
================================================================================

----------------------------- MODULE CheckRegister -----------------------------
(***************************************************************************)
(* What the quality-review journal promises each person about one account: *)
(* checks are numbered events; a check is started, then completed, and no  *)
(* second one starts in between, however many tabs and processes write.    *)
(***************************************************************************)
EXTENDS Integers

CONSTANT Actors

VARIABLES revision,   \* events recorded so far, per actor
          current     \* revision that started the check in progress, 0 if none

vars == <<revision, current>>

Init ==
  /\ revision = [a \in Actors |-> 0]
  /\ current = [a \in Actors |-> 0]

Start(a) ==
  /\ current[a] = 0
  /\ revision' = [revision EXCEPT ![a] = @ + 1]
  /\ current' = [current EXCEPT ![a] = revision[a] + 1]

Complete(a) ==
  /\ current[a] # 0
  /\ revision' = [revision EXCEPT ![a] = @ + 1]
  /\ current' = [current EXCEPT ![a] = 0]

Next == \E a \in Actors : Start(a) \/ Complete(a)

Spec == Init /\ [][Next]_vars
================================================================================

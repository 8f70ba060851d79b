----------------------------- MODULE MCRuntimeFiles ----------------------------
(***************************************************************************)
(* Instances for TLC of the files in the runtime directory: the audit log  *)
(* with its anchor, the approval key, the id ledger and the journal of     *)
(* quality reviews.  They share nothing, so a behaviour is about one of    *)
(* them, which subject names.                                              *)
(***************************************************************************)
EXTENDS AuditChain, KeyFile, IdLedger, SignalReview, TLC

CONSTANTS
  Subjects,
  w1, w2, a1, a2, p1, p2, p3, p4, m1, m2, lead, deal, k1, i1, i2, i3, ann, bob, t1, t2, s1

VARIABLE subject

Interchangeable == Permutations(Writers) \cup Permutations(Anchorers)

OneOrTwoReviewers == {[t \in {t1, t2} |-> IF t = t1 THEN ann ELSE a] : a \in {ann, bob}}

filesVars == <<subject, vars, keyVars, idVars, reviewVars>>

\* What a behaviour is not about begins in one way.
FilesInit ==
  /\ subject \in Subjects
  /\ Init /\ KeyInit /\ IdInit /\ ReviewInit
  /\ subject # "key" => keyFile = Absent
  /\ subject # "reviews" => actorOf[t2] = ann

FilesNext ==
  \/ subject = "audit" /\ Next /\ UNCHANGED <<subject, keyVars, idVars, reviewVars>>
  \/ subject = "key" /\ KeyNext /\ UNCHANGED <<subject, vars, idVars, reviewVars>>
  \/ subject = "ids" /\ IdNext /\ UNCHANGED <<subject, vars, keyVars, reviewVars>>
  \/ subject = "reviews" /\ ReviewNext /\ UNCHANGED <<subject, vars, keyVars, idVars>>

FilesSpec == FilesInit /\ [][FilesNext]_filesVars
================================================================================

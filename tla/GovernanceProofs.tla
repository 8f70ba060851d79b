---------------------------- MODULE GovernanceProofs ----------------------------
(***************************************************************************)
(* Theorems about Governance, for every number of proposals, sessions,     *)
(* workers, cards, keys and for every bound.                               *)
(***************************************************************************)
EXTENDS Governance, FiniteSetTheorems, TLAPS

--------------------------------------------------------------------------------
(***************************************************************************)
(* Layer 1: types, and what each local state remembers of the log.         *)
(***************************************************************************)

\* The merged view is consistent with the statuses logged.
LogInv ==
  \A p \in Proposals :
    /\ status[p] = "none" <=> trail[p] = {}
    /\ status[p] # "none" => status[p] \in trail[p] /\ draft[p] \in Draft
    /\ "approved" \in trail[p] => approval[p] \in Approval

\* A call that will append has read a status that was logged and permits it.
CallInv ==
  \A s \in Sessions :
    /\ call[s].pc = "capture" => call[s].req \in Draft
    /\ call[s].pc = "captured" => call[s].pid \in Proposals
    /\ call[s].pc \in {"decide", "append"} =>
         /\ call[s].op \in Decisions
         /\ call[s].pid \in Proposals
         /\ call[s].seen \in trail[call[s].pid] \cup {"none"}
    /\ call[s].pc = "append" => call[s].seen \in Decidable(call[s].op)

ApplyPcs == {"read", "write", "log", "audit", "dlq"}
RollbackPcs == {"rb-read", "rb-write", "rb-log", "rb-audit"}

\* A run works on proposals that were approved when it read the log.
WorkerInv ==
  \A w \in Workers :
    /\ wk[w].pc \in {"next"} \cup ApplyPcs =>
         /\ wk[w].appr \in Approvals
         /\ \A p \in wk[w].todo :
              "approved" \in trail[p] /\ wk[w].appr[p] \in Approval
    /\ wk[w].pc \notin {"next"} \cup ApplyPcs => wk[w].todo = {}
    /\ wk[w].pc \in ApplyPcs => wk[w].pid \in wk[w].todo
    /\ wk[w].pc \in {"idle", "locked", "next"} => wk[w].pid = None
    /\ wk[w].pc \in {"write", "rb-write"} => wk[w].text \in Card
    /\ wk[w].pc = "dlq" => wk[w].outcome \in Failures
    /\ wk[w].pc \in RollbackPcs => wk[w].pid \in Proposals
    /\ wk[w].pc \in {"rb-write", "rb-log"} => "applied" \in trail[wk[w].pid]

Inv1 == TypeOK /\ LogInv /\ CallInv /\ WorkerInv

\* The disjuncts of the next-state relation, regrouped for the proofs.
ApplyNext(w) ==
  \/ WorkerLock(w) \/ WorkerSnapshot(w) \/ WorkerRead(w) \/ WorkerWrite(w)
  \/ (\E p \in Proposals : WorkerSelect(w, p)) \/ WorkerLog(w) \/ WorkerAudit(w) \/ WorkerDeadLetter(w)
  \/ WorkerRelease(w) \/ WorkerCrash(w)

RollbackNext(w) ==
  \/ \E p \in Proposals : RollbackLock(w, p)
  \/ RollbackSkip(w) \/ RollbackRead(w) \/ RollbackWrite(w)
  \/ RollbackLog(w) \/ RollbackAudit(w)

WorldNext == (\E c \in Cards : EditCard(c) \/ RenameCard(c)) \/ Tick

\* Logging a status of a captured proposal keeps the merged view consistent.
LEMMA LogStatusKeeps ==
  ASSUME LogTypes, LogInv,
         NEW p \in Proposals, NEW o \in Status \ {"none"},
         LogStatus(p, o), UNCHANGED draft, draft[p] \in Draft,
         approval' \in Approvals,
         \A q \in Proposals \ {p} : approval'[q] = approval[q],
         "approved" \in trail[p] \cup {o} => approval'[p] \in Approval
  PROVE  LogTypes' /\ LogInv'
<1>1. LogTypes'
  BY DEF LogStatus, LogTypes
<1>2. status'[p] = o /\ trail'[p] = trail[p] \cup {o} /\ draft'[p] = draft[p]
  BY DEF LogStatus, LogTypes
<1>3. \A q \in Proposals \ {p} :
        status'[q] = status[q] /\ trail'[q] = trail[q] /\ draft'[q] = draft[q]
  BY DEF LogStatus, LogTypes
<1>4. LogInv'
  BY <1>2, <1>3 DEF LogInv
<1> QED
  BY <1>1, <1>4

LEMMA AddBulletType ==
  ASSUME NEW card \in Card, NEW b \in Bullet
  PROVE  AddBullet(card, b) \in Card
<1> DEFINE bs == [card.bullets EXCEPT ![b] = @ + 1]
<1>1. AddBullet(card, b) = [card EXCEPT !.bullets = bs]
  BY DEF AddBullet, Card
<1>2. bs \in [Bullet -> Nat]
  BY DEF Card
<1> HIDE DEF bs
<1> QED
  BY <1>1, <1>2 DEF Card

LEMMA WithoutType ==
  ASSUME NEW card \in Card, NEW p
  PROVE  Without(card, p) \in Card
<1> DEFINE bs == [b \in Bullet |-> IF Mentions(b, p) THEN 0 ELSE card.bullets[b]]
<1>1. bs \in [Bullet -> Nat]
  BY DEF Card
<1>2. Without(card, p) = [card EXCEPT !.bullets = bs]
  BY DEF Without
<1> HIDE DEF bs
<1> QED
  BY <1>1, <1>2 DEF Card

LEMMA ReplaceType ==
  ASSUME VaultTypes, NEW c \in Cards, NEW text \in Card, Replace(c, text),
         UNCHANGED resolvable, overtaken' \subseteq Workers
  PROVE  VaultTypes'
<1>1. cards' \in [Cards -> Card]
  BY DEF Replace, VaultTypes
<1>2. cards[c] \in Card /\ past \in [Cards -> SUBSET Card]
  BY DEF VaultTypes
<1>3. past' \in [Cards -> SUBSET Card]
  BY <1>2 DEF Replace
<1> QED
  BY <1>1, <1>3 DEF VaultTypes

LEMMA EditType ==
  ASSUME VaultTypes, CounterTypes, NEW c \in Cards, NEW text \in EditsOf(c)
  PROVE  text \in Card
<1>1. cards[c] \in Card /\ past[c] \subseteq Card
  BY DEF VaultTypes
<1>2. ASSUME NEW gone
      PROVE  [cards[c] EXCEPT
                !.rev = edits + 1,
                !.bullets = [b \in Bullet |-> IF b \in gone THEN 0 ELSE @[b]]] \in Card
  <2> DEFINE bs == [b \in Bullet |-> IF b \in gone THEN 0 ELSE cards[c].bullets[b]]
  <2>1. bs \in [Bullet -> Nat]
    BY <1>1 DEF Card
  <2>2. edits + 1 \in Nat
    BY BoundsAssumption DEF CounterTypes
  <2>3. [cards[c] EXCEPT
           !.rev = edits + 1,
           !.bullets = [b \in Bullet |-> IF b \in gone THEN 0 ELSE @[b]]]
          = [cards[c] EXCEPT !.rev = edits + 1, !.bullets = bs]
    OBVIOUS
  <2> HIDE DEF bs
  <2> QED
    BY <1>1, <2>1, <2>2, <2>3 DEF Card
<1>3. \A m \in Meta : [cards[c] EXCEPT !.meta = m] \in Card
  BY <1>1 DEF Card
<1> QED
  BY <1>1, <1>2, <1>3 DEF EditsOf

LEMMA Init1 == Init => Inv1
<1> SUFFICES ASSUME Init PROVE Inv1
  OBVIOUS
<1>1. TypeOK
  <2>1. LogTypes /\ VaultTypes
    BY DEF Init, LogTypes, Approvals, VaultTypes, Status, Life!Status, Card, Meta
  <2>2. CallTypes
    BY DEF Init, CallTypes, Call, IdleCall, CallPcs
  <2>3. WorkerTypes
    BY DEF Init, WorkerTypes, Worker, IdleWorker, WorkerPcs
  <2>4. RecordTypes /\ CounterTypes
    BY BoundsAssumption DEF Init, RecordTypes, CounterTypes
  <2> QED
    BY <2>1, <2>2, <2>3, <2>4 DEF TypeOK
<1>2. LogInv /\ CallInv /\ WorkerInv
  BY DEF Init, LogInv, CallInv, WorkerInv, IdleCall, IdleWorker, ApplyPcs, RollbackPcs
<1> QED
  BY <1>1, <1>2 DEF Inv1

LEMMA SessionStep1 ==
  ASSUME Inv1, NEW s \in Sessions, SessionNext(s)
  PROVE  Inv1'
<1> USE DEF Inv1, TypeOK
<1>1. ASSUME NEW t \in CaptureTypes, NEW c \in Cards, NEW q \in NoteQuotes,
             CaptureRead(s, t, c, q)
      PROVE  Inv1'
  <2> DEFINE req == [ptype |-> t, target |-> c, requester |-> ActorOf[s], quotes |-> q,
                    base |-> IF resolvable[c] THEN BodyOf(cards[c]) ELSE None]
  <2>1. BodyOf(cards[c]) \in Body
    BY <1>1 DEF CaptureRead, VaultTypes, BodyOf, Body, Card
  <2>2. req \in Draft
    BY <1>1, <2>1, CallersAssumption, TypesAssumption DEF CaptureRead, Draft
  <2>3. call' = [call EXCEPT ![s].pc = "capture", ![s].req = req]
    BY <1>1 DEF CaptureRead, CallTypes
  <2> HIDE DEF req
  <2>4. CallTypes'
    BY <1>1, <2>2, <2>3
    DEF CallTypes, Call, CallPcs
  <2>5. CallInv'
    BY <1>1, <2>2, <2>3
    DEF CaptureRead, CallInv, CallTypes, Call, logVars
  <2>6. CounterTypes'
    BY <1>1, BoundsAssumption
    DEF CaptureRead, CounterTypes, logVars, vaultVars, workerVars
  <2>7. LogTypes' /\ VaultTypes' /\ WorkerTypes' /\ RecordTypes' /\ LogInv' /\ WorkerInv'
    BY <1>1 DEF CaptureRead, LogTypes, VaultTypes, WorkerTypes, RecordTypes, LogInv, WorkerInv, logVars, vaultVars, workerVars
  <2> QED
    BY <2>1, <2>2, <2>3, <2>4, <2>5, <2>6, <2>7 DEF Inv1
<1>2. CASE CaptureAppend(s)
  <2>1. LogTypes'
    BY <1>2
    DEF CaptureAppend, LogTypes, CallTypes, CallInv, LogStatus, Call, Status, Life!Status
  <2>2. LogInv'
    BY <1>2
    DEF CaptureAppend, LogInv, LogTypes, CallInv, LogStatus
  <2>3. CallTypes'
    BY <1>2
    DEF CaptureAppend, CallTypes, Call, CallPcs, IdleCall
  <2>4. CallInv'
    BY <1>2
    DEF CaptureAppend, CallInv, LogTypes, CallTypes, LogStatus, IdleCall
  <2>5. WorkerInv'
    BY <1>2
    DEF CaptureAppend, WorkerInv, LogTypes, WorkerTypes, LogInv, LogStatus, Worker, workerVars
  <2>6. VaultTypes' /\ WorkerTypes' /\ RecordTypes' /\ CounterTypes'
    BY <1>2 DEF CaptureAppend, VaultTypes, WorkerTypes, RecordTypes, CounterTypes, logVars, vaultVars, workerVars
  <2> QED
    BY <2>1, <2>2, <2>3, <2>4, <2>5, <2>6 DEF Inv1
<1>3. CASE CaptureAudit(s)
  <2>1. CallTypes'
    BY <1>3
    DEF CaptureAudit, CallTypes, Call, CallPcs, IdleCall
  <2>2. CallInv'
    BY <1>3
    DEF CaptureAudit, CallInv, CallTypes, IdleCall, logVars
  <2>3. RecordTypes'
    BY <1>3, CallersAssumption
    DEF CaptureAudit, RecordTypes, CallInv, LogEvent, Event, AuditEvent, workerVars
  <2>4. LogTypes' /\ VaultTypes' /\ WorkerTypes' /\ CounterTypes' /\ LogInv' /\ WorkerInv'
    BY <1>3 DEF CaptureAudit, LogTypes, VaultTypes, WorkerTypes, CounterTypes, LogInv, WorkerInv, logVars, vaultVars, workerVars
  <2> QED
    BY <2>1, <2>2, <2>3, <2>4 DEF Inv1
<1>4. ASSUME NEW op \in Decisions, NEW p \in Proposals, NEW days \in TtlRequests, DecisionRead(s, op, p, days) PROVE Inv1'
  <2> DEFINE expires == IF /\ op = "approve"
                           /\ status[p] # "none"
                           /\ draft[p].ptype = "request_access"
                        THEN now + Clamp(days) ELSE None
  <2>1. expires \in Int \cup {None}
    BY <1>4, TtlAssumption, BoundsAssumption DEF DecisionRead, CounterTypes, Clamp
  <2>2. status[p] \in Status
    BY <1>4 DEF DecisionRead, LogTypes
  <2>3. call' = [call EXCEPT ![s] = [IdleCall EXCEPT !.pc = "decide", !.op = op, !.pid = p,
                                                  !.seen = status[p], !.expires = expires]]
    BY <1>4 DEF DecisionRead, CallTypes
  <2> HIDE DEF expires
  <2>4. CallTypes'
    BY <1>4, <2>1, <2>2, <2>3
    DEF CallTypes, Call, CallPcs, IdleCall
  <2>5. CallInv'
    BY <1>4, <2>2, <2>3
    DEF DecisionRead, CallInv, LogTypes, LogInv, CallTypes, Call, IdleCall, logVars
  <2>6. CounterTypes'
    BY <1>4, BoundsAssumption
    DEF DecisionRead, CounterTypes, logVars, vaultVars, workerVars
  <2>7. LogTypes' /\ VaultTypes' /\ WorkerTypes' /\ RecordTypes' /\ LogInv' /\ WorkerInv'
    BY <1>4 DEF DecisionRead, LogTypes, VaultTypes, WorkerTypes, RecordTypes, LogInv, WorkerInv, logVars, vaultVars, workerVars
  <2> QED
    BY <2>1, <2>2, <2>3, <2>4, <2>5, <2>6, <2>7 DEF Inv1
<1>5. CASE DecisionAudit(s)
  <2>1. CallTypes'
    BY <1>5
    DEF DecisionAudit, CallTypes, Call, CallPcs, IdleCall
  <2>2. CallInv'
    BY <1>5
    DEF DecisionAudit, CallInv, CallTypes, Call, IdleCall, logVars
  <2>3. RecordTypes'
    BY <1>5, CallersAssumption
    DEF DecisionAudit, RecordTypes, CallInv, LogEvent, Event, AuditEvent, Decisions, workerVars
  <2>4. LogTypes' /\ VaultTypes' /\ WorkerTypes' /\ CounterTypes' /\ LogInv' /\ WorkerInv'
    BY <1>5 DEF DecisionAudit, LogTypes, VaultTypes, WorkerTypes, CounterTypes, LogInv, WorkerInv, logVars, vaultVars, workerVars
  <2> QED
    BY <2>1, <2>2, <2>3, <2>4 DEF Inv1
<1>6. CASE DecisionAppend(s)
  <2> DEFINE new == [by |-> ActorOf[s], at |-> now, expires |-> call[s].expires, key |-> KeyOf[s]]
  <2>1. new \in Approval
    BY <1>6, CallersAssumption DEF DecisionAppend, CallTypes, CounterTypes, Call, Approval
  <2> HIDE DEF new
  <2>2. PICK pid \in Proposals : pid = call[s].pid
    BY <1>6 DEF DecisionAppend, CallInv
  <2>3. PICK outcome \in Status \ {"none"} : outcome = Outcome(call[s].op)
    BY <1>6 DEF DecisionAppend, CallInv, Outcome, Decisions, Status, Life!Status
  <2>4. outcome = "approved" <=> call[s].op = "approve"
    BY <1>6, <2>3 DEF DecisionAppend, CallInv, Outcome, Decisions
  <2>5. draft[pid] \in Draft /\ UNCHANGED draft /\ LogStatus(pid, outcome)
    BY <1>6, <2>2, <2>3 DEF DecisionAppend, CallInv, LogInv, Decidable, Decisions
  <2>6. /\ approval' \in Approvals
        /\ \A p \in Proposals \ {pid} : approval'[p] = approval[p]
        /\ "approved" \in trail[pid] \cup {outcome} => approval'[pid] \in Approval
    BY <1>6, <2>1, <2>2, <2>4 DEF DecisionAppend, LogTypes, LogInv, Approvals, new
  <2>7. LogTypes' /\ LogInv'
    BY <1>6, <2>2, <2>3, <2>5, <2>6, LogStatusKeeps
  <2>8. CallTypes'
    BY <1>6
    DEF DecisionAppend, CallTypes, Call, CallPcs, IdleCall
  <2>9. CallInv'
    BY <1>6
    DEF DecisionAppend, CallInv, LogTypes, CallTypes, LogStatus, IdleCall
  <2>10. WorkerInv'
    BY <1>6, <2>1, <2>2, <2>3, <2>5, <2>6
    DEF DecisionAppend, WorkerInv, LogTypes, WorkerTypes, LogInv, LogStatus, Worker, workerVars
  <2>11. VaultTypes' /\ WorkerTypes' /\ RecordTypes' /\ CounterTypes'
    BY <1>6 DEF DecisionAppend, VaultTypes, WorkerTypes, RecordTypes, CounterTypes, logVars, vaultVars, workerVars
  <2> QED
    BY <2>1, <2>2, <2>3, <2>4, <2>5, <2>6, <2>7, <2>8, <2>9, <2>10, <2>11 DEF Inv1
<1>7. CASE CallCrash(s)
  <2>1. CallTypes'
    BY <1>7
    DEF CallCrash, CallTypes, Call, CallPcs, IdleCall
  <2>2. CallInv'
    BY <1>7
    DEF CallCrash, CallInv, CallTypes, IdleCall, logVars
  <2>3. CounterTypes'
    BY <1>7, BoundsAssumption
    DEF CallCrash, CounterTypes, logVars, vaultVars, workerVars
  <2>4. LogTypes' /\ VaultTypes' /\ WorkerTypes' /\ RecordTypes' /\ LogInv' /\ WorkerInv'
    BY <1>7 DEF CallCrash, LogTypes, VaultTypes, WorkerTypes, RecordTypes, LogInv, WorkerInv, logVars, vaultVars, workerVars
  <2> QED
    BY <2>1, <2>2, <2>3, <2>4 DEF Inv1
<1> QED
  BY <1>1, <1>2, <1>3, <1>4, <1>5, <1>6, <1>7 DEF SessionNext

LEMMA ApplyStep1 ==
  ASSUME Inv1, NEW w \in Workers, ApplyNext(w)
  PROVE  Inv1'
<1> USE DEF Inv1, TypeOK
<1>1. CASE WorkerLock(w)
  <2>1. WorkerTypes'
    BY <1>1
    DEF WorkerLock, WorkerTypes, Worker, WorkerPcs
  <2>2. WorkerInv'
    BY <1>1
    DEF WorkerLock, WorkerInv, WorkerTypes, ApplyPcs, RollbackPcs, Worker, logVars
  <2>3. RecordTypes'
    BY <1>1
    DEF WorkerLock, RecordTypes, workerVars
  <2>4. LogTypes' /\ VaultTypes' /\ CallTypes' /\ CounterTypes' /\ LogInv' /\ CallInv'
    BY <1>1 DEF WorkerLock, LogTypes, VaultTypes, CallTypes, CounterTypes, LogInv, CallInv, logVars, vaultVars
  <2> QED
    BY <2>1, <2>2, <2>3, <2>4 DEF Inv1
<1>2. CASE WorkerSnapshot(w)
  <2> DEFINE snapshot == {p \in Proposals : status[p] = "approved"}
  <2>1. /\ UNCHANGED trail
        /\ wk[w].pc = "locked"
        /\ wk' = [wk EXCEPT ![w].pc = "next", ![w].todo = snapshot, ![w].appr = approval]
    BY <1>2 DEF WorkerSnapshot, WorkerTypes, logVars
  <2>2. snapshot \in SUBSET Proposals /\ \A p \in snapshot : "approved" \in trail[p]
    BY <1>2 DEF WorkerSnapshot, LogTypes, LogInv
  <2>3. approval \in Approvals
    BY <1>2 DEF LogTypes
  <2>4. wk[w] \in Worker
    BY <1>2 DEF WorkerTypes
  <2> HIDE DEF snapshot
  <2>5. [wk[w] EXCEPT !.pc = "next", !.todo = snapshot, !.appr = approval] \in Worker
    BY <1>2, <2>2, <2>3, <2>4 DEF Worker, WorkerPcs
  <2>6. WorkerTypes'
    BY <1>2, <2>1, <2>5
    DEF WorkerTypes
  <2>7. WorkerInv'
    BY <1>2, <2>1, <2>2, <2>3
    DEF WorkerInv, WorkerTypes, LogTypes, LogInv, ApplyPcs, RollbackPcs, Worker
  <2>8. LogTypes' /\ VaultTypes' /\ CallTypes' /\ RecordTypes' /\ CounterTypes' /\ LogInv' /\ CallInv'
    BY <1>2 DEF WorkerSnapshot, LogTypes, VaultTypes, CallTypes, RecordTypes, CounterTypes, LogInv, CallInv, logVars, vaultVars
  <2> QED
    BY <2>1, <2>2, <2>3, <2>4, <2>5, <2>6, <2>7, <2>8 DEF Inv1
<1>3. ASSUME NEW p \in Proposals, WorkerSelect(w, p) PROVE Inv1'
  <2> DEFINE failure == IF wk[w].appr[p].key # KeyOf[w] THEN "unsigned-or-invalid-approval"
                        ELSE IF ~resolvable[draft[p].target] THEN "target-not-found"
                        ELSE None
             body == IF failure = None THEN BodyOf(cards[draft[p].target]) ELSE None
  <2>1. draft[p] \in Draft
    BY <1>3 DEF WorkerSelect, IsNext, WorkerInv, LogInv
  <2>2. body \in Body \cup {None}
    BY <1>3, <2>1 DEF WorkerSelect, VaultTypes, Draft, BodyOf, Body, Card
  <2>3. failure \in Failures \cup {None}
    BY <1>3 DEF WorkerSelect, Failures
  <2>4. /\ UNCHANGED trail
        /\ wk[w].pc = "next" /\ p \in wk[w].todo
        /\ wk' = [wk EXCEPT ![w].pid = p, ![w].outcome = failure,
                           ![w].pc = IF failure = None THEN "read" ELSE "log",
                           ![w].body = body]
    BY <1>3 DEF WorkerSelect, IsNext, WorkerTypes, logVars
  <2> HIDE DEF failure, body
  <2>5. WorkerTypes'
    BY <1>3, <2>2, <2>3, <2>4
    DEF WorkerTypes, Worker, WorkerPcs
  <2>6. WorkerInv'
    BY <1>3, <2>4
    DEF WorkerInv, WorkerTypes, ApplyPcs, RollbackPcs, Worker
  <2>7. LogTypes' /\ VaultTypes' /\ CallTypes' /\ RecordTypes' /\ CounterTypes' /\ LogInv' /\ CallInv'
    BY <1>3 DEF WorkerSelect, LogTypes, VaultTypes, CallTypes, RecordTypes, CounterTypes, LogInv, CallInv, logVars, vaultVars
  <2> QED
    BY <2>1, <2>2, <2>3, <2>4, <2>5, <2>6, <2>7 DEF Inv1
<1>4. CASE WorkerRead(w)
  <2> DEFINE p == wk[w].pid
             text == cards[draft[p].target]
             done == AlreadyApplied(text, BulletOf(p, wk[w].appr[p]))
             failure == IF done THEN None
                        ELSE IF BaseMoved(p, wk[w].body) THEN "base-version-mismatch"
                        ELSE IF text.meta = "broken" THEN "post-apply-validation-failed"
                        ELSE None
             pc == IF done \/ failure # None THEN "log" ELSE "write"
  <2>1. draft[p] \in Draft
    BY <1>4 DEF WorkerRead, WorkerTypes, Worker, WorkerInv, LogInv, ApplyPcs
  <2>2. text \in Card
    BY <1>4, <2>1 DEF WorkerRead, VaultTypes, Draft
  <2>3. failure \in Failures \cup {None} /\ pc \in {"log", "write"}
    BY <1>4 DEF WorkerRead, Failures
  <2>4. UNCHANGED trail /\ wk[w].pc = "read"
    BY <1>4 DEF WorkerRead, logVars
  <2>5. wk' = [wk EXCEPT ![w].text = text, ![w].body = None, ![w].outcome = failure,
                           ![w].pc = pc]
    BY <1>4, Zenon DEF WorkerRead
  <2> HIDE DEF text, done, failure, pc
  <2>6. [wk[w] EXCEPT !.text = text, !.body = None, !.outcome = failure, !.pc = pc] \in Worker
    BY <1>4, <2>2, <2>3 DEF WorkerTypes, Worker, WorkerPcs
  <2>7. WorkerTypes'
    BY <1>4, <2>5, <2>6
    DEF WorkerTypes
  <2>8. WorkerInv'
    BY <1>4, <2>2, <2>3, <2>4, <2>5
    DEF WorkerInv, WorkerTypes, ApplyPcs, RollbackPcs, Worker
  <2>9. VaultTypes'
    BY <1>4 DEF WorkerRead, VaultTypes
  <2>10. LogTypes' /\ CallTypes' /\ RecordTypes' /\ CounterTypes' /\ LogInv' /\ CallInv'
    BY <1>4 DEF WorkerRead, LogTypes, CallTypes, RecordTypes, CounterTypes, LogInv, CallInv, logVars, vaultVars
  <2> QED
    BY <2>1, <2>2, <2>3, <2>4, <2>5, <2>6, <2>7, <2>8, <2>9, <2>10 DEF Inv1
<1>5. CASE WorkerWrite(w)
  <2> DEFINE p == wk[w].pid
  <2>1. p \in Proposals /\ draft[p] \in Draft /\ wk[w].appr[p] \in Approval /\ wk[w].text \in Card
    BY <1>5 DEF WorkerWrite, WorkerTypes, Worker, WorkerInv, LogInv, ApplyPcs
  <2>2. AddBullet(wk[w].text, BulletOf(p, wk[w].appr[p])) \in Card
    BY <1>5, <2>1, AddBulletType DEF WorkerWrite, BulletOf, Bullet, Approval
  <2>3. VaultTypes'
    BY <1>5, <2>1, <2>2, ReplaceType DEF WorkerWrite, VaultTypes, Draft
  <2>4. WorkerTypes'
    BY <1>5
    DEF WorkerWrite, WorkerTypes, Worker, WorkerPcs
  <2>5. WorkerInv'
    BY <1>5
    DEF WorkerWrite, WorkerInv, WorkerTypes, ApplyPcs, RollbackPcs, Worker, logVars
  <2>6. LogTypes' /\ CallTypes' /\ RecordTypes' /\ CounterTypes' /\ LogInv' /\ CallInv'
    BY <1>5 DEF WorkerWrite, LogTypes, CallTypes, RecordTypes, CounterTypes, LogInv, CallInv, logVars
  <2> QED
    BY <2>1, <2>2, <2>3, <2>4, <2>5, <2>6 DEF Inv1
<1>6. CASE WorkerLog(w)
  <2>1. wk[w].pid \in Proposals /\ "approved" \in trail[wk[w].pid]
    BY <1>6 DEF WorkerLog, WorkerTypes, Worker, WorkerInv, ApplyPcs
  <2>2. LogTypes'
    BY <1>6, <2>1
    DEF WorkerLog, LogTypes, LogStatus, Status, Life!Status
  <2>3. LogInv'
    BY <1>6, <2>1
    DEF WorkerLog, LogInv, LogTypes, LogStatus
  <2>4. CallInv'
    BY <1>6
    DEF WorkerLog, CallInv, CallTypes, LogTypes, LogStatus, Call
  <2>5. WorkerTypes'
    BY <1>6
    DEF WorkerLog, WorkerTypes, Worker, WorkerPcs
  <2>6. WorkerInv'
    BY <1>6, <2>1
    DEF WorkerLog, WorkerInv, WorkerTypes, LogTypes, LogStatus, ApplyPcs, RollbackPcs, Worker
  <2>7. VaultTypes' /\ CallTypes' /\ RecordTypes' /\ CounterTypes'
    BY <1>6 DEF WorkerLog, VaultTypes, CallTypes, RecordTypes, CounterTypes, vaultVars
  <2> QED
    BY <2>1, <2>2, <2>3, <2>4, <2>5, <2>6, <2>7 DEF Inv1
<1>7. CASE WorkerAudit(w)
  <2>1. NextProposal(w) \in Worker
    BY <1>7 DEF WorkerAudit, WorkerTypes, NextProposal, Worker, WorkerPcs
  <2>2. WorkerTypes'
    BY <1>7, <2>1
    DEF WorkerAudit, WorkerTypes, Worker, WorkerPcs
  <2>3. WorkerInv'
    BY <1>7
    DEF WorkerAudit, WorkerInv, WorkerTypes, ApplyPcs, RollbackPcs, NextProposal, Worker, logVars
  <2>4. RecordTypes'
    BY <1>7
    DEF WorkerAudit, RecordTypes, WorkerTypes, Worker, WorkerInv, ApplyPcs, LogEvent, Event, AuditEvent
  <2>5. LogTypes' /\ VaultTypes' /\ CallTypes' /\ CounterTypes' /\ LogInv' /\ CallInv'
    BY <1>7 DEF WorkerAudit, LogTypes, VaultTypes, CallTypes, CounterTypes, LogInv, CallInv, logVars, vaultVars
  <2> QED
    BY <2>1, <2>2, <2>3, <2>4, <2>5 DEF Inv1
<1>8. CASE WorkerDeadLetter(w)
  <2>1. NextProposal(w) \in Worker
    BY <1>8 DEF WorkerDeadLetter, WorkerTypes, NextProposal, Worker, WorkerPcs
  <2>2. WorkerTypes'
    BY <1>8, <2>1
    DEF WorkerDeadLetter, WorkerTypes, Worker, WorkerPcs
  <2>3. WorkerInv'
    BY <1>8
    DEF WorkerDeadLetter, WorkerInv, WorkerTypes, ApplyPcs, RollbackPcs, NextProposal, Worker, logVars
  <2>4. RecordTypes'
    BY <1>8
    DEF WorkerDeadLetter, RecordTypes, WorkerTypes, Worker, WorkerInv, ApplyPcs
  <2>5. LogTypes' /\ VaultTypes' /\ CallTypes' /\ CounterTypes' /\ LogInv' /\ CallInv'
    BY <1>8 DEF WorkerDeadLetter, LogTypes, VaultTypes, CallTypes, CounterTypes, LogInv, CallInv, logVars, vaultVars
  <2> QED
    BY <2>1, <2>2, <2>3, <2>4, <2>5 DEF Inv1
<1>9. CASE WorkerRelease(w)
  <2>1. WorkerTypes'
    BY <1>9
    DEF WorkerRelease, WorkerTypes, Worker, WorkerPcs, IdleWorker
  <2>2. WorkerInv'
    BY <1>9
    DEF WorkerRelease, WorkerInv, WorkerTypes, ApplyPcs, RollbackPcs, IdleWorker, Worker, logVars
  <2>3. RecordTypes'
    BY <1>9
    DEF WorkerRelease, RecordTypes, workerVars
  <2>4. LogTypes' /\ VaultTypes' /\ CallTypes' /\ CounterTypes' /\ LogInv' /\ CallInv'
    BY <1>9 DEF WorkerRelease, LogTypes, VaultTypes, CallTypes, CounterTypes, LogInv, CallInv, logVars, vaultVars
  <2> QED
    BY <2>1, <2>2, <2>3, <2>4 DEF Inv1
<1>10. CASE WorkerCrash(w)
  <2>1. WorkerTypes'
    BY <1>10
    DEF WorkerCrash, WorkerTypes, Worker, WorkerPcs, IdleWorker
  <2>2. WorkerInv'
    BY <1>10
    DEF WorkerCrash, WorkerInv, WorkerTypes, ApplyPcs, RollbackPcs, IdleWorker, Worker, logVars
  <2>3. RecordTypes'
    BY <1>10
    DEF WorkerCrash, RecordTypes, workerVars
  <2>4. CounterTypes'
    BY <1>10, BoundsAssumption
    DEF WorkerCrash, CounterTypes, vaultVars
  <2>5. LogTypes' /\ VaultTypes' /\ CallTypes' /\ LogInv' /\ CallInv'
    BY <1>10 DEF WorkerCrash, LogTypes, VaultTypes, CallTypes, LogInv, CallInv, logVars, vaultVars
  <2> QED
    BY <2>1, <2>2, <2>3, <2>4, <2>5 DEF Inv1
<1> QED
  BY <1>1, <1>2, <1>3, <1>4, <1>5, <1>6, <1>7, <1>8, <1>9, <1>10 DEF ApplyNext

LEMMA RollbackStep1 ==
  ASSUME Inv1, NEW w \in Workers, RollbackNext(w)
  PROVE  Inv1'
<1> USE DEF Inv1, TypeOK
<1>1. ASSUME NEW p \in Proposals, RollbackLock(w, p) PROVE Inv1'
  <2>1. /\ UNCHANGED trail
        /\ wk[w].pc = "idle"
        /\ wk' = [wk EXCEPT ![w].pc = "rb-read", ![w].pid = p]
    BY <1>1 DEF RollbackLock, logVars
  <2>2. [wk[w] EXCEPT !.pc = "rb-read", !.pid = p] \in Worker
    BY <1>1 DEF WorkerTypes, Worker, WorkerPcs
  <2>3. WorkerTypes'
    BY <1>1, <2>1, <2>2
    DEF WorkerTypes
  <2>4. WorkerInv'
    BY <1>1, <2>1
    DEF WorkerInv, WorkerTypes, ApplyPcs, RollbackPcs, Worker
  <2>5. RecordTypes'
    BY <1>1
    DEF RollbackLock, RecordTypes, workerVars
  <2>6. LogTypes' /\ VaultTypes' /\ CallTypes' /\ CounterTypes' /\ LogInv' /\ CallInv'
    BY <1>1 DEF RollbackLock, LogTypes, VaultTypes, CallTypes, CounterTypes, LogInv, CallInv, logVars, vaultVars
  <2> QED
    BY <2>1, <2>2, <2>3, <2>4, <2>5, <2>6 DEF Inv1
<1>2. CASE RollbackSkip(w)
  <2>1. WorkerTypes'
    BY <1>2
    DEF RollbackSkip, WorkerTypes, Worker, WorkerPcs, IdleWorker
  <2>2. WorkerInv'
    BY <1>2
    DEF RollbackSkip, WorkerInv, WorkerTypes, ApplyPcs, RollbackPcs, IdleWorker, Worker, logVars
  <2>3. RecordTypes'
    BY <1>2
    DEF RollbackSkip, RecordTypes, workerVars
  <2>4. LogTypes' /\ VaultTypes' /\ CallTypes' /\ CounterTypes' /\ LogInv' /\ CallInv'
    BY <1>2 DEF RollbackSkip, LogTypes, VaultTypes, CallTypes, CounterTypes, LogInv, CallInv, logVars, vaultVars
  <2> QED
    BY <2>1, <2>2, <2>3, <2>4 DEF Inv1
<1>3. CASE RollbackRead(w)
  <2> DEFINE p == wk[w].pid
             c == draft[p].target
             text == IF resolvable[c] THEN Without(cards[c], p) ELSE None
             pc == IF resolvable[c] THEN "rb-write" ELSE "rb-audit"
             outcome == IF resolvable[c] THEN None ELSE "target-not-found"
  <2>1. draft[p] \in Draft /\ "applied" \in trail[p]
    BY <1>3 DEF RollbackRead, WorkerInv, LogInv, RollbackPcs
  <2>2. text \in Card \cup {None} /\ (pc = "rb-write" => text \in Card)
    BY <1>3, <2>1, WithoutType DEF RollbackRead, VaultTypes, Draft
  <2>3. outcome \in Failures \cup {None} /\ pc \in {"rb-write", "rb-audit"}
    BY <1>3 DEF RollbackRead, Failures
  <2>4. /\ UNCHANGED trail
        /\ wk[w].pc = "rb-read"
        /\ wk' = [wk EXCEPT ![w].text = text, ![w].pc = pc, ![w].outcome = outcome]
    BY <1>3 DEF RollbackRead, WorkerTypes, logVars
  <2> HIDE DEF text, pc, outcome
  <2>5. WorkerTypes'
    BY <1>3, <2>2, <2>3, <2>4
    DEF WorkerTypes, Worker, WorkerPcs
  <2>6. WorkerInv'
    BY <1>3, <2>1, <2>2, <2>3, <2>4
    DEF WorkerInv, WorkerTypes, ApplyPcs, RollbackPcs, Worker
  <2>7. VaultTypes'
    BY <1>3 DEF RollbackRead, VaultTypes
  <2>8. LogTypes' /\ CallTypes' /\ RecordTypes' /\ CounterTypes' /\ LogInv' /\ CallInv'
    BY <1>3 DEF RollbackRead, LogTypes, CallTypes, RecordTypes, CounterTypes, LogInv, CallInv, logVars, vaultVars
  <2> QED
    BY <2>1, <2>2, <2>3, <2>4, <2>5, <2>6, <2>7, <2>8 DEF Inv1
<1>4. CASE RollbackWrite(w)
  <2>1. draft[wk[w].pid] \in Draft /\ wk[w].text \in Card
    BY <1>4 DEF RollbackWrite, WorkerInv, LogInv, RollbackPcs
  <2>2. VaultTypes'
    BY <1>4, <2>1, ReplaceType DEF RollbackWrite, VaultTypes, Draft
  <2>3. WorkerTypes'
    BY <1>4
    DEF RollbackWrite, WorkerTypes, Worker, WorkerPcs
  <2>4. WorkerInv'
    BY <1>4
    DEF RollbackWrite, WorkerInv, WorkerTypes, ApplyPcs, RollbackPcs, Worker, logVars
  <2>5. LogTypes' /\ CallTypes' /\ RecordTypes' /\ CounterTypes' /\ LogInv' /\ CallInv'
    BY <1>4 DEF RollbackWrite, LogTypes, CallTypes, RecordTypes, CounterTypes, LogInv, CallInv, logVars
  <2> QED
    BY <2>1, <2>2, <2>3, <2>4, <2>5 DEF Inv1
<1>5. CASE RollbackLog(w)
  <2>1. wk[w].pid \in Proposals /\ "applied" \in trail[wk[w].pid]
    BY <1>5 DEF RollbackLog, WorkerInv, RollbackPcs
  <2>2. LogTypes'
    BY <1>5, <2>1
    DEF RollbackLog, LogTypes, LogStatus, Status, Life!Status
  <2>3. LogInv'
    BY <1>5, <2>1
    DEF RollbackLog, LogInv, LogTypes, LogStatus
  <2>4. CallInv'
    BY <1>5
    DEF RollbackLog, CallInv, CallTypes, LogTypes, LogStatus, Call
  <2>5. WorkerTypes'
    BY <1>5
    DEF RollbackLog, WorkerTypes, Worker, WorkerPcs
  <2>6. WorkerInv'
    BY <1>5, <2>1
    DEF RollbackLog, WorkerInv, WorkerTypes, LogTypes, LogStatus, ApplyPcs, RollbackPcs, Worker
  <2>7. VaultTypes' /\ CallTypes' /\ RecordTypes' /\ CounterTypes'
    BY <1>5 DEF RollbackLog, VaultTypes, CallTypes, RecordTypes, CounterTypes, vaultVars
  <2> QED
    BY <2>1, <2>2, <2>3, <2>4, <2>5, <2>6, <2>7 DEF Inv1
<1>6. CASE RollbackAudit(w)
  <2>1. WorkerTypes'
    BY <1>6
    DEF RollbackAudit, WorkerTypes, Worker, WorkerPcs, IdleWorker
  <2>2. WorkerInv'
    BY <1>6
    DEF RollbackAudit, WorkerInv, WorkerTypes, ApplyPcs, RollbackPcs, IdleWorker, Worker, logVars
  <2>3. RecordTypes'
    BY <1>6
    DEF RollbackAudit, RecordTypes, WorkerInv, RollbackPcs, LogEvent, Event, AuditEvent
  <2>4. LogTypes' /\ VaultTypes' /\ CallTypes' /\ CounterTypes' /\ LogInv' /\ CallInv'
    BY <1>6 DEF RollbackAudit, LogTypes, VaultTypes, CallTypes, CounterTypes, LogInv, CallInv, logVars, vaultVars
  <2> QED
    BY <2>1, <2>2, <2>3, <2>4 DEF Inv1
<1> QED
  BY <1>1, <1>2, <1>3, <1>4, <1>5, <1>6 DEF RollbackNext

LEMMA WorldStep1 ==
  ASSUME Inv1, WorldNext
  PROVE  Inv1'
<1> USE DEF Inv1, TypeOK
<1>1. ASSUME NEW c \in Cards, EditCard(c) PROVE Inv1'
  <2>1. PICK text \in EditsOf(c) : Replace(c, text)
    BY <1>1 DEF EditCard
  <2>2. text \in Card
    BY <2>1, EditType
  <2>3. UNCHANGED resolvable /\ overtaken' \subseteq Workers
    BY <1>1 DEF EditCard, Readers, VaultTypes
  <2>4. VaultTypes'
    BY <2>1, <2>2, <2>3, ReplaceType
  <2>5. CounterTypes'
    BY <1>1, BoundsAssumption DEF EditCard, CounterTypes
  <2>6. LogTypes' /\ CallTypes' /\ WorkerTypes' /\ RecordTypes' /\ LogInv' /\ CallInv' /\ WorkerInv'
    BY <1>1 DEF EditCard, LogTypes, CallTypes, WorkerTypes, RecordTypes, LogInv, CallInv, WorkerInv, logVars, workerVars
  <2> QED
    BY <2>4, <2>5, <2>6 DEF Inv1
<1>2. ASSUME NEW c \in Cards, RenameCard(c) PROVE Inv1'
  <2>1. VaultTypes'
    BY <1>2
    DEF RenameCard, VaultTypes, vaultVars
  <2>2. CounterTypes'
    BY <1>2, BoundsAssumption
    DEF RenameCard, CounterTypes, vaultVars
  <2>3. LogTypes' /\ CallTypes' /\ WorkerTypes' /\ RecordTypes' /\ LogInv' /\ CallInv' /\ WorkerInv'
    BY <1>2 DEF RenameCard, LogTypes, CallTypes, WorkerTypes, RecordTypes, LogInv, CallInv, WorkerInv, logVars, workerVars
  <2> QED
    BY <2>1, <2>2, <2>3 DEF Inv1
<1>3. CASE Tick
  <2>1. CounterTypes'
    BY <1>3, BoundsAssumption
    DEF Tick, CounterTypes, logVars, vaultVars, workerVars
  <2>2. LogTypes' /\ VaultTypes' /\ CallTypes' /\ WorkerTypes' /\ RecordTypes' /\ LogInv' /\ CallInv' /\ WorkerInv'
    BY <1>3 DEF Tick, LogTypes, VaultTypes, CallTypes, WorkerTypes, RecordTypes, LogInv, CallInv, WorkerInv, logVars, vaultVars, workerVars
  <2> QED
    BY <2>1, <2>2 DEF Inv1
<1> QED
  BY <1>1, <1>2, <1>3 DEF WorldNext
LEMMA Stutter1 ==
  ASSUME Inv1, UNCHANGED vars
  PROVE  Inv1'
BY DEF Inv1, TypeOK, LogTypes, VaultTypes, CallTypes, WorkerTypes, RecordTypes, CounterTypes,
       LogInv, CallInv, WorkerInv, vars, logVars, vaultVars, workerVars

LEMMA Step1 ==
  ASSUME Inv1, [Next]_vars
  PROVE  Inv1'
<1>1. CASE \E s \in Sessions : SessionNext(s)
  BY <1>1, SessionStep1
<1>2. CASE \E w \in Workers : ApplyNext(w)
  BY <1>2, ApplyStep1
<1>3. CASE \E w \in Workers : RollbackNext(w)
  BY <1>3, RollbackStep1
<1>4. CASE WorldNext
  BY <1>4, WorldStep1
<1>5. CASE UNCHANGED vars
  BY <1>5, Stutter1
<1> QED
  BY <1>1, <1>2, <1>3, <1>4, <1>5
  DEF Next, WorkerNext, WorkerStep, ApplyNext, RollbackNext, WorldNext

LEMMA Invariant1 == Spec => []Inv1
<1>1. Inv1 /\ [Next]_vars => Inv1'
  BY Step1
<1> QED
  BY Init1, <1>1, PTL DEF Spec

\* The state of the gateway calls, of the workers, of the log and of the vault
\* always has the types TypeOK gives it: no crash, stale read or late append
\* leaves a half-formed record (governance.py, proposals.py, worker.py).
THEOREM TypeCorrect == Spec => []TypeOK
<1>1. Inv1 => TypeOK
  BY DEF Inv1
<1> QED
  BY Invariant1, <1>1, PTL
--------------------------------------------------------------------------------
(***************************************************************************)
(* Layer 2: the log implements ProposalLifecycle.                          *)
(***************************************************************************)

\* The ids given out so far are an initial segment of the naturals.
MintInv ==
  \E n \in 0 .. MaxProposals : \A p \in Proposals : status[p] # "none" <=> p <= n

\* The id that append computes from the log is the first one not given out.
LEMMA NextIdIsFresh ==
  ASSUME NEW n \in 0 .. MaxProposals,
         \A p \in Proposals : status[p] # "none" <=> p <= n
  PROVE  NextId = n + 1
<1>1. {p \in Proposals : status[p] # "none"} = 1 .. n
  BY ProposalsAssumption DEF Proposals
<1>2. Cardinality(1 .. n) = n
  BY ProposalsAssumption, FS_Interval
<1> QED
  BY <1>1, <1>2 DEF NextId

LEMMA MintInit == Init => MintInv
<1> SUFFICES ASSUME Init PROVE MintInv
  OBVIOUS
<1>1. 0 \in 0 .. MaxProposals /\ \A p \in Proposals : status[p] # "none" <=> p <= 0
  BY ProposalsAssumption DEF Init, Proposals
<1> QED
  BY <1>1 DEF MintInv

\* Logging a status that the trail of the proposal permits.
LEMMA AdvanceStep ==
  ASSUME LogTypes, MintInv, NEW p \in Proposals, status[p] # "none",
         NEW o \in Status \ {"none", "draft"},
         trail[p] \cap Life!Permits(o) # {}, LogStatus(p, o)
  PROVE  Life!Next /\ MintInv'
<1>1. Life!Advance(p, o)
  BY DEF LogStatus, Life!Advance, Life!Log
<1>2. \A q \in Proposals : status'[q] # "none" <=> status[q] # "none"
  BY DEF LogStatus, LogTypes
<1> QED
  BY <1>1, <1>2 DEF Life!Next, MintInv, Status

LEMMA CaptureStep ==
  ASSUME LogTypes, MintInv, NEW s \in Sessions, CaptureAppend(s)
  PROVE  Life!Next /\ MintInv'
<1>1. PICK n \in 0 .. MaxProposals : \A p \in Proposals : status[p] # "none" <=> p <= n
  BY DEF MintInv
<1>2. NextId = n + 1 /\ n + 1 \in Proposals /\ LogStatus(n + 1, "draft")
  BY <1>1, NextIdIsFresh DEF CaptureAppend
<1>3. status[n + 1] = "none"
  BY <1>1, <1>2, ProposalsAssumption DEF Proposals
<1>4. Life!Capture(n + 1)
  BY <1>2, <1>3 DEF LogStatus, Life!Capture, Life!Log
<1>5. \A p \in Proposals : status'[p] # "none" <=> p <= n + 1
  BY <1>1, <1>2, ProposalsAssumption DEF LogStatus, LogTypes, Proposals
<1>6. n + 1 \in 0 .. MaxProposals
  BY <1>2, ProposalsAssumption DEF Proposals
<1> QED
  BY <1>2, <1>4, <1>5, <1>6 DEF Life!Next, MintInv

\* Only four actions write the log.
LEMMA LogWriters ==
  ASSUME [Next]_vars
  PROVE  \/ \E s \in Sessions : CaptureAppend(s) \/ DecisionAppend(s)
         \/ \E w \in Workers : WorkerLog(w) \/ RollbackLog(w)
         \/ UNCHANGED <<status, trail>>
<1> DEFINE Same == UNCHANGED <<status, trail>>
<1>1. ASSUME NEW s \in Sessions, SessionNext(s)
      PROVE  CaptureAppend(s) \/ DecisionAppend(s) \/ Same
  BY <1>1 DEF SessionNext, CaptureRead, CaptureAudit, DecisionRead, DecisionAudit,
              CallCrash, logVars
<1>2. ASSUME NEW w \in Workers, WorkerNext(w)
      PROVE  WorkerLog(w) \/ RollbackLog(w) \/ Same
  BY <1>2 DEF WorkerNext, WorkerStep, WorkerLock, WorkerSnapshot, WorkerSelect, WorkerRead,
              WorkerWrite, WorkerAudit, WorkerDeadLetter, WorkerRelease, WorkerCrash,
              RollbackLock, RollbackSkip, RollbackRead, RollbackWrite, RollbackAudit, logVars
<1>3. ASSUME WorldNext PROVE Same
  BY <1>3 DEF WorldNext, EditCard, RenameCard, Tick, logVars
<1>4. ASSUME UNCHANGED vars PROVE Same
  BY <1>4 DEF vars, logVars
<1> QED
  BY <1>1, <1>2, <1>3, <1>4 DEF Next, WorldNext

LEMMA LifecycleStep ==
  ASSUME Inv1, MintInv, [Next]_vars
  PROVE  [Life!Next]_(Life!vars) /\ MintInv'
<1> USE DEF Inv1, TypeOK
<1>1. ASSUME NEW s \in Sessions, CaptureAppend(s) PROVE Life!Next /\ MintInv'
  BY <1>1, CaptureStep
<1>2. ASSUME NEW s \in Sessions, DecisionAppend(s) PROVE Life!Next /\ MintInv'
  <2>1. PICK p \in Proposals : p = call[s].pid
    BY <1>2 DEF DecisionAppend, CallInv
  <2>2. PICK o \in Status \ {"none", "draft"} : o = Outcome(call[s].op)
    BY <1>2 DEF DecisionAppend, CallInv, Outcome, Decisions, Status, Life!Status
  <2>3. LogStatus(p, o)
    BY <1>2, <2>1, <2>2 DEF DecisionAppend
  <2>4. call[s].seen \in trail[p] /\ call[s].seen \in Life!Permits(o)
    BY <1>2, <2>1, <2>2
    DEF DecisionAppend, CallInv, Decidable, Decisions, Outcome, Life!Permits
  <2>5. status[p] # "none"
    BY <2>4 DEF LogInv
  <2> QED
    BY <2>3, <2>4, <2>5, AdvanceStep
<1>3. ASSUME NEW w \in Workers, WorkerLog(w) PROVE Life!Next /\ MintInv'
  <2>1. PICK p \in Proposals : p = wk[w].pid
    BY <1>3 DEF WorkerLog, WorkerInv, WorkerTypes, Worker, ApplyPcs
  <2>2. PICK o \in Status \ {"none", "draft"} :
          o = IF wk[w].outcome = None THEN "applied" ELSE "failed"
    BY DEF Status, Life!Status
  <2>3. LogStatus(p, o)
    BY <1>3, <2>1, <2>2 DEF WorkerLog
  <2>4. "approved" \in trail[p] /\ "approved" \in Life!Permits(o)
    BY <1>3, <2>1, <2>2 DEF WorkerLog, WorkerInv, ApplyPcs, Life!Permits
  <2>5. status[p] # "none"
    BY <2>4 DEF LogInv
  <2> QED
    BY <2>3, <2>4, <2>5, AdvanceStep
<1>4. ASSUME NEW w \in Workers, RollbackLog(w) PROVE Life!Next /\ MintInv'
  <2>1. PICK p \in Proposals : p = wk[w].pid
    BY <1>4 DEF RollbackLog, WorkerInv, RollbackPcs
  <2>2. "applied" \in trail[p] /\ "applied" \in Life!Permits("rolled-back")
    BY <1>4, <2>1 DEF RollbackLog, WorkerInv, Life!Permits
  <2>3. status[p] # "none"
    BY <2>2 DEF LogInv
  <2>4. "rolled-back" \in Status \ {"none", "draft"} /\ LogStatus(p, "rolled-back")
    BY <1>4, <2>1 DEF RollbackLog, Status, Life!Status
  <2> QED
    BY <2>2, <2>3, <2>4, AdvanceStep
<1>5. CASE UNCHANGED <<status, trail>>
  BY <1>5 DEF MintInv, Life!vars
<1>6. \/ \E s \in Sessions : CaptureAppend(s) \/ DecisionAppend(s)
      \/ \E w \in Workers : WorkerLog(w) \/ RollbackLog(w)
      \/ UNCHANGED <<status, trail>>
  BY LogWriters
<1> QED
  BY <1>1, <1>2, <1>3, <1>4, <1>5, <1>6

\* Whoever decides and however late, a status is logged only for a proposal that
\* once had a status permitting it, and every captured proposal has an id of its
\* own (governance.py approve, reject and revoke, worker.py, ProposalStore).
THEOREM LifecycleImplemented == Spec => ImplementsLifecycle
<1>1. Init => Life!Init
  BY DEF Init, Life!Init
<1>2. Init => MintInv
  BY MintInit
<1>3. Inv1 /\ MintInv /\ [Next]_vars => [Life!Next]_(Life!vars) /\ MintInv'
  BY LifecycleStep
<1> QED
  BY Invariant1, <1>1, <1>2, <1>3, PTL DEF Spec, ImplementsLifecycle, Life!Spec
================================================================================

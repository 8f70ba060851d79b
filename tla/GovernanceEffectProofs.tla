------------------------ MODULE GovernanceEffectProofs ------------------------
(***************************************************************************)
(* What approvals do to the cards and what the records show of it, proved  *)
(* for every instance: the worker holds the lock over each read-compute-   *)
(* replace, so a bullet is written at most once, is never lost to another  *)
(* write and is there when its proposal is logged as applied; and wherever *)
(* an approval is kept, in the log, in a call or in a run's snapshot, the  *)
(* audit log holds its allow event, hence so does every bullet on a card   *)
(* and every grant in force.  Then how a proposal ends: a rollback leaves  *)
(* no bullet of it, a dead letter has its failure in the log and on the    *)
(* audit log, and a final status stays once nobody is still working on an  *)
(* earlier one.                                                            *)
(***************************************************************************)
EXTENDS GovernanceProofs

--------------------------------------------------------------------------------
(***************************************************************************)
(* The lock.                                                               *)
(***************************************************************************)
\* The card of the proposal a worker has at hand, and the bullet it would add.
TargetOf(w) == draft[wk[w].pid].target
HandBullet(w) == BulletOf(wk[w].pid, wk[w].appr[wk[w].pid])

\* flock: whoever is under way holds the lock.
LockInv == \A w \in Workers : wk[w].pc # "idle" => lock = w

Inv2 == Inv1 /\ MintInv

LEMMA Invariant2 == Spec => []Inv2
<1>1. Init => MintInv
  BY MintInit
<1>2. Inv1 /\ MintInv /\ [Next]_vars => MintInv'
  BY LifecycleStep
<1> QED
  BY Invariant1, <1>1, <1>2, PTL DEF Spec, Inv2


\* While one worker moves, every other one is idle and stays idle.
LEMMA OthersIdle ==
  ASSUME WorkerTypes, LockInv, NEW w \in Workers, WorkerNext(w)
  PROVE  \A v \in Workers \ {w} : wk[v].pc = "idle" /\ wk'[v] = wk[v]
<1>1. lock = w \/ lock = None
  BY DEF WorkerNext, WorkerStep, WorkerLock, WorkerSnapshot, WorkerSelect, WorkerRead,
         WorkerWrite, WorkerLog, WorkerAudit, WorkerDeadLetter, WorkerRelease, WorkerCrash,
         RollbackLock, RollbackSkip, RollbackRead, RollbackWrite, RollbackLog, RollbackAudit,
         LockInv
<1>2. None \notin Workers
  BY NoneAssumption
<1>3. \A v \in Workers \ {w} : wk[v].pc = "idle"
  BY <1>1, <1>2 DEF LockInv
<1>4. \A v \in Workers \ {w} : wk'[v] = wk[v]
  BY DEF WorkerTypes,
         WorkerNext, WorkerStep, WorkerLock, WorkerSnapshot, WorkerSelect, WorkerRead,
         WorkerWrite, WorkerLog, WorkerAudit, WorkerDeadLetter, WorkerRelease, WorkerCrash,
         RollbackLock, RollbackSkip, RollbackRead, RollbackWrite, RollbackLog, RollbackAudit
<1> QED
  BY <1>3, <1>4

\* Nobody but the workers touches the lock and their local state.
LEMMA WorkerWriters ==
  ASSUME [Next]_vars
  PROVE  (\E w \in Workers : WorkerNext(w)) \/ UNCHANGED <<lock, wk>>
<1>1. ASSUME NEW s \in Sessions, SessionNext(s) PROVE UNCHANGED <<lock, wk>>
  BY <1>1 DEF SessionNext, CaptureRead, CaptureAppend, CaptureAudit, DecisionRead,
              DecisionAudit, DecisionAppend, CallCrash, workerVars
<1>2. ASSUME WorldNext PROVE UNCHANGED <<lock, wk>>
  BY <1>2 DEF WorldNext, EditCard, RenameCard, Tick, workerVars
<1>3. ASSUME UNCHANGED vars PROVE UNCHANGED <<lock, wk>>
  BY <1>3 DEF vars, workerVars
<1> QED
  BY <1>1, <1>2, <1>3 DEF Next, WorldNext

LEMMA LockStep ==
  ASSUME WorkerTypes, LockInv, [Next]_vars
  PROVE  LockInv'
<1>1. ASSUME NEW w \in Workers, WorkerNext(w) PROVE LockInv'
  <2>1. \A v \in Workers \ {w} : wk'[v].pc = "idle"
    BY <1>1, OthersIdle
  <2>2. CASE WorkerLock(w) \/ \E p \in Proposals : RollbackLock(w, p)
    BY <2>1, <2>2 DEF LockInv, WorkerLock, RollbackLock
  <2>3. CASE WorkerRelease(w) \/ WorkerCrash(w) \/ RollbackSkip(w) \/ RollbackAudit(w)
    <3>1. wk'[w].pc = "idle"
      BY <2>3 DEF WorkerTypes, IdleWorker, WorkerRelease, WorkerCrash, RollbackSkip, RollbackAudit
    <3> QED
      BY <2>1, <3>1 DEF LockInv
  <2>4. CASE wk[w].pc # "idle" /\ UNCHANGED lock
    BY <2>1, <2>4 DEF LockInv
  <2>5. \/ WorkerLock(w) \/ (\E p \in Proposals : RollbackLock(w, p))
        \/ WorkerRelease(w) \/ WorkerCrash(w) \/ RollbackSkip(w) \/ RollbackAudit(w)
        \/ wk[w].pc # "idle" /\ UNCHANGED lock
    BY <1>1
    DEF WorkerNext, WorkerStep, WorkerSnapshot, WorkerSelect, WorkerRead, WorkerWrite,
        WorkerLog, WorkerAudit, WorkerDeadLetter, RollbackRead, RollbackWrite, RollbackLog
  <2> QED
    BY <2>2, <2>3, <2>4, <2>5
<1>2. CASE UNCHANGED <<lock, wk>>
  BY <1>2 DEF LockInv
<1> QED
  BY <1>1, <1>2, WorkerWriters

--------------------------------------------------------------------------------
(***************************************************************************)
(* The proposal in a worker's hands.                                       *)
(***************************************************************************)

\* The draft of a captured proposal never changes.
LEMMA DraftStays ==
  ASSUME Inv2, [Next]_vars, NEW p \in Proposals, status[p] # "none"
  PROVE  draft'[p] = draft[p]
<1>1. ASSUME NEW s \in Sessions, CaptureAppend(s) PROVE draft'[p] = draft[p]
  <2>1. PICK n \in 0 .. MaxProposals : \A q \in Proposals : status[q] # "none" <=> q <= n
    BY DEF Inv2, MintInv
  <2>2. NextId = n + 1 /\ p <= n
    BY <2>1, NextIdIsFresh
  <2>3. p # NextId
    BY <2>2, ProposalsAssumption DEF Proposals
  <2> QED
    BY <1>1, <2>3 DEF CaptureAppend, Inv2, Inv1, TypeOK, LogTypes
<1>2. ASSUME NEW s \in Sessions, SessionNext(s), ~CaptureAppend(s) PROVE UNCHANGED draft
  BY <1>2 DEF SessionNext, CaptureRead, CaptureAudit, DecisionRead, DecisionAudit,
              DecisionAppend, CallCrash, logVars
<1>3. ASSUME NEW w \in Workers, WorkerNext(w) PROVE UNCHANGED draft
  BY <1>3 DEF WorkerNext, WorkerStep, WorkerLock, WorkerSnapshot, WorkerSelect, WorkerRead,
              WorkerWrite, WorkerLog, WorkerAudit, WorkerDeadLetter, WorkerRelease, WorkerCrash,
              RollbackLock, RollbackSkip, RollbackRead, RollbackWrite, RollbackLog,
              RollbackAudit, logVars
<1>4. ASSUME WorldNext \/ UNCHANGED vars PROVE UNCHANGED draft
  BY <1>4 DEF WorldNext, EditCard, RenameCard, Tick, vars, logVars
<1> QED
  BY <1>1, <1>2, <1>3, <1>4 DEF Next, WorldNext

\* A worker that is about to write or to log has a captured proposal at hand.
LEMMA HandIsCaptured ==
  ASSUME Inv1, NEW w \in Workers, wk[w].pc \in ApplyPcs \cup {"rb-write", "rb-log"}
  PROVE  /\ wk[w].pid \in Proposals
         /\ status[wk[w].pid] # "none"
         /\ draft[wk[w].pid] \in Draft /\ TargetOf(w) \in Cards
         /\ wk[w].pc \in ApplyPcs => BulletOf(wk[w].pid, wk[w].appr[wk[w].pid]) \in Bullet
<1>1. wk[w].pid \in Proposals /\ trail[wk[w].pid] # {}
  BY DEF Inv1, TypeOK, WorkerTypes, Worker, WorkerInv, ApplyPcs, RollbackPcs
<1>2. status[wk[w].pid] # "none" /\ draft[wk[w].pid] \in Draft
  BY <1>1 DEF Inv1, LogInv
<1>3. TargetOf(w) \in Cards
  BY <1>2 DEF TargetOf, Draft
<1>4. wk[w].pc \in ApplyPcs => wk[w].appr[wk[w].pid] \in Approval
  BY DEF Inv1, WorkerInv
<1> QED
  BY <1>1, <1>2, <1>3, <1>4 DEF BulletOf, Bullet, Approval

--------------------------------------------------------------------------------
(***************************************************************************)
(* The records.                                                            *)
(***************************************************************************)
\* Who approved was entitled to, and it is on record.
Audited(p, a) == CanApprove(a.by) /\ Event("approve", a.by, p, "allow") \in audit

LogOnRecord ==
  \A p \in Proposals : "approved" \in trail[p] => Audited(p, approval[p])

RunsOnRecord ==
  \A w \in Workers : \A p \in wk[w].todo : Audited(p, wk[w].appr[p])

CallsOnRecord ==
  \A s \in Sessions :
    call[s].pc = "append" =>
      /\ CanApprove(ActorOf[s])
      /\ Event(call[s].op, ActorOf[s], call[s].pid, "allow") \in audit

RecordInv == LogOnRecord /\ RunsOnRecord /\ CallsOnRecord

\* Events are never erased.
LEMMA AuditGrows ==
  ASSUME [Next]_vars
  PROVE  audit \subseteq audit'
<1>1. ASSUME NEW s \in Sessions, SessionNext(s) PROVE audit \subseteq audit'
  BY <1>1 DEF SessionNext, CaptureRead, CaptureAppend, CaptureAudit, DecisionRead,
              DecisionAudit, DecisionAppend, CallCrash, LogEvent
<1>2. ASSUME NEW w \in Workers, WorkerNext(w) PROVE audit \subseteq audit'
  BY <1>2 DEF WorkerNext, WorkerStep, WorkerLock, WorkerSnapshot, WorkerSelect, WorkerRead,
              WorkerWrite, WorkerLog, WorkerAudit, WorkerDeadLetter, WorkerRelease, WorkerCrash,
              RollbackLock, RollbackSkip, RollbackRead, RollbackWrite, RollbackLog,
              RollbackAudit, LogEvent
<1>3. ASSUME WorldNext \/ UNCHANGED vars PROVE audit \subseteq audit'
  BY <1>3 DEF WorldNext, EditCard, RenameCard, Tick, vars
<1> QED
  BY <1>1, <1>2, <1>3 DEF Next, WorldNext

\* What changes the approvals and the approved statuses: an approver's append.
LEMMA ApprovalWriters ==
  ASSUME Inv1, [Next]_vars,
         \A s \in Sessions : ~(DecisionAppend(s) /\ call[s].op = "approve")
  PROVE  /\ UNCHANGED approval
         /\ \A p \in Proposals : "approved" \in trail'[p] => "approved" \in trail[p]
<1> USE DEF Inv1, TypeOK, LogTypes
<1>1. ASSUME NEW p \in Proposals, NEW o, o # "approved", LogStatus(p, o)
      PROVE  \A q \in Proposals : "approved" \in trail'[q] => "approved" \in trail[q]
  BY <1>1 DEF LogStatus
<1>2. ASSUME NEW s \in Sessions, CaptureAppend(s)
      PROVE  /\ UNCHANGED approval
             /\ \A p \in Proposals : "approved" \in trail'[p] => "approved" \in trail[p]
  BY <1>1, <1>2 DEF CaptureAppend
<1>3. ASSUME NEW s \in Sessions, DecisionAppend(s)
      PROVE  /\ UNCHANGED approval
             /\ \A p \in Proposals : "approved" \in trail'[p] => "approved" \in trail[p]
  <2>1. call[s].op \in {"reject", "revoke"} /\ call[s].pid \in Proposals
    BY <1>3 DEF DecisionAppend, CallInv, Decisions
  <2>2. Outcome(call[s].op) # "approved"
    BY <2>1 DEF Outcome
  <2> QED
    BY <1>1, <1>3, <2>1, <2>2 DEF DecisionAppend
<1>4. ASSUME NEW w \in Workers, WorkerLog(w) \/ RollbackLog(w)
      PROVE  /\ UNCHANGED approval
             /\ \A p \in Proposals : "approved" \in trail'[p] => "approved" \in trail[p]
  <2>1. wk[w].pid \in Proposals
    BY <1>4 DEF WorkerLog, RollbackLog, WorkerInv, WorkerTypes, Worker, ApplyPcs, RollbackPcs
  <2> QED
    BY <1>1, <1>4, <2>1 DEF WorkerLog, RollbackLog
<1>5. ASSUME NEW s \in Sessions, SessionNext(s), ~CaptureAppend(s), ~DecisionAppend(s)
      PROVE  UNCHANGED <<trail, approval>>
  BY <1>5 DEF SessionNext, CaptureRead, CaptureAudit, DecisionRead, DecisionAudit,
              CallCrash, logVars
<1>6. ASSUME NEW w \in Workers, WorkerNext(w), ~WorkerLog(w), ~RollbackLog(w)
      PROVE  UNCHANGED <<trail, approval>>
  BY <1>6 DEF WorkerNext, WorkerStep, WorkerLock, WorkerSnapshot, WorkerSelect, WorkerRead,
              WorkerWrite, WorkerAudit, WorkerDeadLetter, WorkerRelease, WorkerCrash,
              RollbackLock, RollbackSkip, RollbackRead, RollbackWrite, RollbackAudit, logVars
<1>7. ASSUME WorldNext \/ UNCHANGED vars PROVE UNCHANGED <<trail, approval>>
  BY <1>7 DEF WorldNext, EditCard, RenameCard, Tick, vars, logVars
<1> QED
  BY <1>2, <1>3, <1>4, <1>5, <1>6, <1>7 DEF Next, WorldNext

LEMMA LogRecordStep ==
  ASSUME Inv1, RecordInv, [Next]_vars
  PROVE  LogOnRecord'
<1> USE DEF Inv1, TypeOK, LogTypes
<1>1. ASSUME NEW s \in Sessions, DecisionAppend(s), call[s].op = "approve"
      PROVE  LogOnRecord'
  <2> DEFINE p == call[s].pid
  <2>1. p \in Proposals /\ Event("approve", ActorOf[s], p, "allow") \in audit'
        /\ CanApprove(ActorOf[s])
    BY <1>1, AuditGrows DEF DecisionAppend, CallInv, RecordInv, CallsOnRecord
  <2>2. approval'[p].by = ActorOf[s]
    BY <1>1, <2>1 DEF DecisionAppend, Approvals
  <2>3. \A q \in Proposals \ {p} : approval'[q] = approval[q] /\ trail'[q] = trail[q]
    BY <1>1, <2>1 DEF DecisionAppend, LogStatus, Approvals
  <2>4. \A q \in Proposals \ {p} : "approved" \in trail'[q] => Audited(q, approval[q])'
    BY <2>3, AuditGrows DEF RecordInv, LogOnRecord, Audited, CanApprove
  <2> QED
    BY <2>1, <2>2, <2>4 DEF LogOnRecord, Audited, CanApprove
<1>2. CASE \A s \in Sessions : ~(DecisionAppend(s) /\ call[s].op = "approve")
  BY <1>2, ApprovalWriters, AuditGrows DEF RecordInv, LogOnRecord, Audited, CanApprove
<1> QED
  BY <1>1, <1>2

\* A run works on what its snapshot held: proposals that were approved then.
LEMMA TodoWriters ==
  ASSUME Inv1, [Next]_vars, NEW w \in Workers, NEW p \in wk'[w].todo
  PROVE  \/ p \in wk[w].todo /\ wk'[w].appr = wk[w].appr
         \/ p \in Proposals /\ status[p] = "approved" /\ wk'[w].appr = approval
<1> USE DEF Inv1, TypeOK, WorkerTypes
<1>1. ASSUME WorkerSnapshot(w)
      PROVE  p \in Proposals /\ status[p] = "approved" /\ wk'[w].appr = approval
  <2>1. /\ wk'[w].todo = {q \in Proposals : status[q] = "approved"}
        /\ wk'[w].appr = approval
    BY <1>1 DEF WorkerSnapshot, Worker
  <2> QED
    BY <2>1
<1>2. ASSUME NEW v \in Workers, WorkerNext(v), ~WorkerSnapshot(w)
      PROVE  p \in wk[w].todo /\ wk'[w].appr = wk[w].appr
  <2>1. NextProposal(w).todo \subseteq wk[w].todo /\ NextProposal(w).appr = wk[w].appr
    BY DEF NextProposal, Worker
  <2>2. IdleWorker.todo = {}
    BY DEF IdleWorker
  <2>3. v # w => wk'[w] = wk[w]
    BY <1>2
    DEF WorkerNext, WorkerStep, WorkerLock, WorkerSnapshot, WorkerSelect, WorkerRead,
        WorkerWrite, WorkerLog, WorkerAudit, WorkerDeadLetter, WorkerRelease, WorkerCrash,
        RollbackLock, RollbackSkip, RollbackRead, RollbackWrite, RollbackLog, RollbackAudit
  <2>4. CASE v = w
    <3>1. CASE \/ WorkerLock(w) \/ (\E q \in Proposals : WorkerSelect(w, q) \/ RollbackLock(w, q))
               \/ WorkerRead(w) \/ WorkerWrite(w) \/ WorkerLog(w)
               \/ RollbackRead(w) \/ RollbackWrite(w) \/ RollbackLog(w)
      <4>1. wk'[w].todo = wk[w].todo /\ wk'[w].appr = wk[w].appr
        <5>1. CASE WorkerLock(w) \/ WorkerWrite(w) \/ WorkerLog(w) \/ RollbackWrite(w) \/ RollbackLog(w)
          BY <5>1 DEF Worker, WorkerLock, WorkerWrite, WorkerLog, RollbackWrite, RollbackLog
        <5>2. CASE \E q \in Proposals : WorkerSelect(w, q)
          BY <5>2 DEF Worker, WorkerSelect
        <5>3. CASE \E q \in Proposals : RollbackLock(w, q)
          BY <5>3 DEF Worker, RollbackLock
        <5>4. CASE WorkerRead(w)
          <6> DEFINE text == cards[draft[wk[w].pid].target]
                     done == AlreadyApplied(text, HandBullet(w))
                     failure == IF done THEN None
                                ELSE IF BaseMoved(wk[w].pid, wk[w].body) THEN "base-version-mismatch"
                                ELSE IF text.meta = "broken" THEN "post-apply-validation-failed"
                                ELSE None
                     pc == IF done \/ failure # None THEN "log" ELSE "write"
          <6>1. wk' = [wk EXCEPT ![w].text = text, ![w].body = None,
                                 ![w].outcome = failure, ![w].pc = pc]
            BY <5>4 DEF WorkerRead, HandBullet
          <6> HIDE DEF text, failure, pc
          <6> QED
            BY <6>1 DEF Worker
        <5>5. CASE RollbackRead(w)
          BY <5>5 DEF Worker, RollbackRead
        <5> QED
          BY <3>1, <5>1, <5>2, <5>3, <5>4, <5>5
      <4> QED
        BY <4>1
    <3>2. CASE WorkerAudit(w) \/ WorkerDeadLetter(w)
      <4>1. wk'[w] = NextProposal(w) \/ wk'[w] = [wk[w] EXCEPT !.pc = "dlq"]
        BY <3>2 DEF WorkerAudit, WorkerDeadLetter
      <4> QED
        BY <2>1, <4>1 DEF Worker
    <3>3. CASE WorkerRelease(w) \/ WorkerCrash(w) \/ RollbackSkip(w) \/ RollbackAudit(w)
      <4>1. wk'[w] = IdleWorker
        BY <3>3 DEF WorkerRelease, WorkerCrash, RollbackSkip, RollbackAudit
      <4> QED
        BY <2>2, <4>1
    <3> QED
      BY <1>2, <2>4, <3>1, <3>2, <3>3 DEF WorkerNext, WorkerStep
  <2> QED
    BY <2>3, <2>4
<1> QED
  BY <1>1, <1>2, WorkerWriters

LEMMA RunsRecordStep ==
  ASSUME Inv1, RecordInv, [Next]_vars
  PROVE  RunsOnRecord'
<1> USE DEF Inv1, TypeOK, WorkerTypes
<1>1. SUFFICES ASSUME NEW w \in Workers, NEW p \in wk'[w].todo
               PROVE  Audited(p, wk[w].appr[p])'
  BY DEF RunsOnRecord
<1>2. \/ p \in wk[w].todo /\ wk'[w].appr = wk[w].appr
      \/ p \in Proposals /\ "approved" \in trail[p] /\ wk'[w].appr = approval
  BY TodoWriters DEF LogInv
<1>3. CASE p \in wk[w].todo /\ wk'[w].appr = wk[w].appr
  BY <1>3, AuditGrows DEF RecordInv, RunsOnRecord, Audited, CanApprove
<1>4. CASE p \in Proposals /\ "approved" \in trail[p] /\ wk'[w].appr = approval
  BY <1>4, AuditGrows DEF RecordInv, LogOnRecord, Audited, CanApprove
<1> QED
  BY <1>2, <1>3, <1>4

LEMMA CallsRecordStep ==
  ASSUME Inv1, RecordInv, [Next]_vars
  PROVE  CallsOnRecord'
<1> USE DEF Inv1, TypeOK, CallTypes
<1>1. ASSUME NEW s \in Sessions, SessionNext(s), NEW t \in Sessions, call'[t].pc = "append"
      PROVE  /\ CanApprove(ActorOf[t])
             /\ Event(call'[t].op, ActorOf[t], call'[t].pid, "allow") \in audit'
  <2>1. CASE call'[t] = call[t]
    BY <1>1, <2>1, AuditGrows DEF RecordInv, CallsOnRecord
  <2>2. CASE call'[t] # call[t]
    <3>1. t = s
      BY <1>1, <2>2 DEF SessionNext, CaptureRead, CaptureAppend, CaptureAudit, DecisionRead,
                        DecisionAudit, DecisionAppend, CallCrash
    <3>2. DecisionAudit(s)
      <4>1. call'[s].pc = "append" /\ call[s] \in Call
        BY <1>1, <3>1
      <4>2. /\ ~(\E type \in CaptureTypes, c \in Cards, quotes \in NoteQuotes :
                   CaptureRead(s, type, c, quotes))
              /\ ~CaptureAppend(s)
        <5>1. \A r : [call[s] EXCEPT !.pc = "capture", !.req = r].pc = "capture"
          BY <4>1 DEF Call
        <5>2. \A n : [IdleCall EXCEPT !.pc = "captured", !.pid = n].pc = "captured"
          BY DEF IdleCall
        <5>3. ASSUME NEW type \in CaptureTypes, NEW c \in Cards,
                     NEW quotes \in NoteQuotes, CaptureRead(s, type, c, quotes)
              PROVE  FALSE
          BY <4>1, <5>1, <5>3 DEF CaptureRead
        <5>4. ASSUME CaptureAppend(s) PROVE FALSE
          BY <4>1, <5>2, <5>4 DEF CaptureAppend
        <5> QED
          BY <5>3, <5>4
      <4>3. ~(\E op \in Decisions, p \in Proposals, days \in TtlRequests :
                DecisionRead(s, op, p, days))
        BY <4>1 DEF DecisionRead, IdleCall
      <4>4. ~CaptureAudit(s) /\ ~DecisionAppend(s) /\ ~CallCrash(s)
        BY <4>1 DEF CaptureAudit, DecisionAppend, CallCrash, IdleCall
      <4> QED
        BY <1>1, <4>2, <4>3, <4>4 DEF SessionNext
    <3>3. /\ CanApprove(ActorOf[s])
          /\ call'[s] = [call[s] EXCEPT !.pc = "append"]
          /\ audit' = audit \cup {Event(call[s].op, ActorOf[s], call[s].pid, "allow")}
      BY <1>1, <3>1, <3>2 DEF DecisionAudit, LogEvent, IdleCall
    <3> QED
      BY <3>1, <3>3 DEF Call
  <2> QED
    BY <2>1, <2>2
<1>2. ASSUME NEW w \in Workers, WorkerNext(w) PROVE UNCHANGED call
  BY <1>2 DEF WorkerNext, WorkerStep, WorkerLock, WorkerSnapshot, WorkerSelect, WorkerRead,
              WorkerWrite, WorkerLog, WorkerAudit, WorkerDeadLetter, WorkerRelease, WorkerCrash,
              RollbackLock, RollbackSkip, RollbackRead, RollbackWrite, RollbackLog,
              RollbackAudit
<1>4. ASSUME WorldNext \/ UNCHANGED vars PROVE UNCHANGED call
  BY <1>4 DEF WorldNext, EditCard, RenameCard, Tick, vars
<1>3. CASE UNCHANGED call
  BY <1>3, AuditGrows DEF RecordInv, CallsOnRecord, CanApprove
<1> QED
  BY <1>1, <1>2, <1>3, <1>4 DEF Next, WorldNext, CallsOnRecord, CanApprove

LEMMA InvariantRecord == Spec => []RecordInv
<1>1. Init => RecordInv
  BY DEF Init, RecordInv, LogOnRecord, RunsOnRecord, CallsOnRecord, IdleCall, IdleWorker
<1>2. Inv1 /\ RecordInv /\ [Next]_vars => RecordInv'
  BY LogRecordStep, RunsRecordStep, CallsRecordStep DEF RecordInv
<1> QED
  BY Invariant1, <1>1, <1>2, PTL DEF Spec

LEMMA TrailGrows ==
  ASSUME Inv1, [Next]_vars, NEW p \in Proposals
  PROVE  trail[p] \subseteq trail'[p] /\ (status[p] # "none" => status'[p] # "none")
<1> USE DEF Inv1, TypeOK, LogTypes
<1>1. \A q, o : LogStatus(q, o) /\ o # "none" =>
        trail[p] \subseteq trail'[p] /\ (status[p] # "none" => status'[p] # "none")
  BY DEF LogStatus
<1>2. ASSUME NEW s \in Sessions, CaptureAppend(s) \/ DecisionAppend(s)
      PROVE  \E q, o : LogStatus(q, o) /\ o # "none"
  BY <1>2 DEF CaptureAppend, DecisionAppend, CallInv, Outcome, Decisions
<1>3. ASSUME NEW w \in Workers, WorkerLog(w) \/ RollbackLog(w)
      PROVE  \E q, o : LogStatus(q, o) /\ o # "none"
  <2>1. (IF wk[w].outcome = None THEN "applied" ELSE "failed") # "none"
    OBVIOUS
  <2> QED
    BY <1>3, <2>1 DEF WorkerLog, RollbackLog
<1> QED
  BY <1>1, <1>2, <1>3, LogWriters

--------------------------------------------------------------------------------
(***************************************************************************)
(* What may be on a card, in a text it had, and in a worker's hands.       *)
(***************************************************************************)
\* The bullet belongs to a proposal for c that was approved, on record.
Answers(b, c) ==
  /\ status[b.pid] # "none" /\ draft[b.pid].target = c
  /\ "approved" \in trail[b.pid]
  /\ CanApprove(b.by)
  /\ Event("approve", b.by, b.pid, "allow") \in audit

Answering == [c \in Cards |-> {b \in Bullet : Answers(b, c)}]

\* A text that c may have: no bullet twice, and each one answers to an approval.
Sound(text, c) ==
  \A b \in Bullet : Has(text, b) => text.bullets[b] <= 1 /\ b \in Answering[c]

\* So is every text that an edit may put back.
CardsSound ==
  \A c \in Cards : Sound(cards[c], c) /\ \A text \in past[c] : Sound(text, c)

\* So is what a worker is about to write, and its own bullet is not in it.
HandSound(w) ==
  /\ wk[w].pc \in {"write", "rb-write"} => Sound(wk[w].text, TargetOf(w))
  /\ wk[w].pc = "write" => ~Has(wk[w].text, HandBullet(w))

SoundInv == CardsSound /\ \A w \in Workers : HandSound(w)

\* A bullet that answers to an approval keeps answering to it.
LEMMA AnsweringGrows ==
  ASSUME Inv2, [Next]_vars, NEW c \in Cards
  PROVE  Answering[c] \subseteq Answering'[c]
<1> SUFFICES ASSUME NEW b \in Bullet, Answers(b, c)
             PROVE  Answers(b, c)'
  BY DEF Answering
<1>1. b.pid \in Proposals
  BY DEF Bullet
<1>2. draft'[b.pid] = draft[b.pid]
  BY <1>1, DraftStays DEF Answers
<1> QED
  BY <1>1, <1>2, TrailGrows, AuditGrows DEF Inv2, Answers, CanApprove

\* The texts of the cards change by a worker's write and by a hand edit.
LEMMA VaultWriters ==
  ASSUME [Next]_vars
  PROVE  \/ UNCHANGED <<cards, past>>
         \/ \E w \in Workers : WorkerWrite(w) \/ RollbackWrite(w)
         \/ \E c \in Cards : EditCard(c)
<1>1. ASSUME NEW s \in Sessions, SessionNext(s) PROVE UNCHANGED <<cards, past>>
  BY <1>1 DEF SessionNext, CaptureRead, CaptureAppend, CaptureAudit, DecisionRead,
              DecisionAudit, DecisionAppend, CallCrash, vaultVars
<1>2. ASSUME NEW w \in Workers, WorkerNext(w), ~WorkerWrite(w), ~RollbackWrite(w)
      PROVE  UNCHANGED <<cards, past>>
  BY <1>2 DEF WorkerNext, WorkerStep, WorkerLock, WorkerSnapshot, WorkerSelect, WorkerRead,
              WorkerLog, WorkerAudit, WorkerDeadLetter, WorkerRelease, WorkerCrash,
              RollbackLock, RollbackSkip, RollbackRead, RollbackLog, RollbackAudit, vaultVars
<1>3. ASSUME (\E c \in Cards : RenameCard(c)) \/ Tick \/ UNCHANGED vars
      PROVE  UNCHANGED <<cards, past>>
  BY <1>3 DEF RenameCard, Tick, vars, vaultVars
<1> QED
  BY <1>1, <1>2, <1>3 DEF Next

\* An edit by hand drops bullets or puts an older text back, and writes none.
LEMMA EditsAreSound ==
  ASSUME VaultTypes, CounterTypes, CardsSound, NEW c \in Cards, NEW text \in EditsOf(c)
  PROVE  Sound(text, c)
<1>1. cards[c] \in Card /\ Sound(cards[c], c)
  BY DEF VaultTypes, CardsSound
<1>2. ASSUME NEW gone,
             text = [cards[c] EXCEPT
                       !.rev = edits + 1,
                       !.bullets = [b \in Bullet |-> IF b \in gone THEN 0 ELSE @[b]]]
      PROVE  Sound(text, c)
  <2>1. \A b \in Bullet : text.bullets[b] = IF b \in gone THEN 0 ELSE cards[c].bullets[b]
    BY <1>1, <1>2 DEF Card
  <2> QED
    BY <1>1, <2>1 DEF Sound, Has
<1>3. ASSUME NEW m, text = [cards[c] EXCEPT !.meta = m] PROVE Sound(text, c)
  <2>1. text.bullets = cards[c].bullets
    BY <1>1, <1>3 DEF Card
  <2> QED
    BY <1>1, <2>1 DEF Sound, Has
<1>4. ASSUME text \in past[c] PROVE Sound(text, c)
  BY <1>4 DEF CardsSound
<1> QED
  BY <1>2, <1>3, <1>4 DEF EditsOf

LEMMA ReplaceSound ==
  ASSUME VaultTypes, CardsSound, NEW c \in Cards, NEW text, Replace(c, text),
         Sound(text, c), \A d \in Cards : Answering[d] \subseteq Answering'[d]
  PROVE  CardsSound'
<1> SUFFICES ASSUME NEW d \in Cards, NEW t \in past'[d] \cup {cards'[d]},
                    NEW b \in Bullet, Has(t, b)
             PROVE  t.bullets[b] <= 1 /\ b \in Answering'[d]
  BY DEF CardsSound, Sound, Has
<1>1. cards'[d] = IF d = c THEN text ELSE cards[d]
  BY DEF Replace, VaultTypes
<1>2. past'[d] \subseteq past[d] \cup {cards[d]}
  BY DEF Replace, VaultTypes
<1>3. Sound(t, d)
  BY <1>1, <1>2 DEF CardsSound
<1> QED
  BY <1>3 DEF Sound

LEMMA CardsSoundStep ==
  ASSUME Inv2, RecordInv, SoundInv, [Next]_vars
  PROVE  CardsSound'
<1> USE DEF Inv2, Inv1, TypeOK
<1>0. \A d \in Cards : Answering[d] \subseteq Answering'[d]
  BY AnsweringGrows
<1>1. ASSUME NEW w \in Workers, WorkerWrite(w) PROVE CardsSound'
  <2> DEFINE c == TargetOf(w)
             h == HandBullet(w)
             text == AddBullet(wk[w].text, h)
  <2>1. c \in Cards /\ h \in Bullet /\ wk[w].text \in Card /\ wk[w].pid \in Proposals
    BY <1>1, HandIsCaptured DEF WorkerWrite, ApplyPcs, HandBullet, WorkerInv
  <2>2. Replace(c, text)
    BY <1>1 DEF WorkerWrite, TargetOf, HandBullet
  <2>3. \A b \in Bullet : text.bullets[b] = IF b = h THEN wk[w].text.bullets[b] + 1
                                           ELSE wk[w].text.bullets[b]
    BY <2>1 DEF AddBullet, Card
  <2>4. Sound(wk[w].text, c) /\ ~Has(wk[w].text, h)
    BY <1>1 DEF WorkerWrite, SoundInv, HandSound
  <2>5. h \in Answering[c]
    <3>1. wk[w].pid \in wk[w].todo /\ "approved" \in trail[wk[w].pid]
      BY <1>1 DEF WorkerWrite, WorkerInv, ApplyPcs
    <3>2. h.pid = wk[w].pid /\ h.by = wk[w].appr[wk[w].pid].by
      BY DEF HandBullet, BulletOf
    <3>3. status[wk[w].pid] # "none" /\ draft[wk[w].pid].target = c
      BY <1>1, HandIsCaptured DEF WorkerWrite, ApplyPcs, TargetOf
    <3>4. Audited(wk[w].pid, wk[w].appr[wk[w].pid])
      BY <3>1 DEF RecordInv, RunsOnRecord
    <3>5. Answers(h, c)
      BY <3>1, <3>2, <3>3, <3>4 DEF Answers, Audited
    <3> QED
      BY <2>1, <3>5 DEF Answering
  <2>6. wk[w].text.bullets[h] = 0
    BY <2>1, <2>4 DEF Has, Card
  <2> HIDE DEF text, h, c
  <2>7. Sound(text, c)
    BY <2>3, <2>4, <2>5, <2>6 DEF Sound, Has
  <2> QED
    BY <1>0, <2>1, <2>2, <2>7, ReplaceSound DEF SoundInv
<1>2. ASSUME NEW w \in Workers, RollbackWrite(w) PROVE CardsSound'
  <2>1. TargetOf(w) \in Cards
    BY <1>2, HandIsCaptured DEF RollbackWrite
  <2>2. Replace(TargetOf(w), wk[w].text) /\ Sound(wk[w].text, TargetOf(w))
    BY <1>2 DEF RollbackWrite, TargetOf, SoundInv, HandSound
  <2> QED
    BY <1>0, <2>1, <2>2, ReplaceSound DEF SoundInv
<1>3. ASSUME NEW c \in Cards, EditCard(c) PROVE CardsSound'
  <2>1. PICK text \in EditsOf(c) : Replace(c, text)
    BY <1>3 DEF EditCard
  <2>2. Sound(text, c)
    BY EditsAreSound DEF SoundInv
  <2> QED
    BY <1>0, <2>1, <2>2, ReplaceSound DEF SoundInv
<1>4. ASSUME UNCHANGED <<cards, past>> PROVE CardsSound'
  BY <1>0, <1>4 DEF SoundInv, CardsSound, Sound, Has
<1> QED
  BY <1>1, <1>2, <1>3, <1>4, VaultWriters

\* A worker comes to its write from the read of the text, or stays there.
LEMMA WriteSources ==
  ASSUME Inv1, [Next]_vars, NEW w \in Workers, wk'[w].pc \in {"write", "rb-write"}
  PROVE  \/ wk'[w] = wk[w]
         \/ /\ WorkerRead(w) /\ wk'[w].pc = "write"
            /\ wk'[w].pid = wk[w].pid /\ wk'[w].appr = wk[w].appr
            /\ wk'[w].text = cards[TargetOf(w)]
            /\ ~Has(wk'[w].text, HandBullet(w))
         \/ /\ RollbackRead(w) /\ wk'[w].pc = "rb-write"
            /\ wk'[w].pid = wk[w].pid
            /\ wk'[w].text = Without(cards[TargetOf(w)], wk[w].pid)
<1> USE DEF Inv1, TypeOK, WorkerTypes
<1>1. ASSUME NEW v \in Workers \ {w}, WorkerNext(v) PROVE wk'[w] = wk[w]
  BY <1>1 DEF WorkerNext, WorkerStep, WorkerLock, WorkerSnapshot, WorkerSelect, WorkerRead,
        WorkerWrite, WorkerLog, WorkerAudit, WorkerDeadLetter, WorkerRelease, WorkerCrash,
        RollbackLock, RollbackSkip, RollbackRead, RollbackWrite, RollbackLog, RollbackAudit
<1>2. ASSUME WorkerRead(w)
      PROVE  /\ wk'[w].pc = "write"
             /\ wk'[w].pid = wk[w].pid /\ wk'[w].appr = wk[w].appr
             /\ wk'[w].text = cards[TargetOf(w)]
             /\ ~Has(wk'[w].text, HandBullet(w))
  <2> DEFINE text == cards[draft[wk[w].pid].target]
             done == AlreadyApplied(text, HandBullet(w))
             failure == IF done THEN None
                        ELSE IF BaseMoved(wk[w].pid, wk[w].body) THEN "base-version-mismatch"
                        ELSE IF text.meta = "broken" THEN "post-apply-validation-failed"
                        ELSE None
             pc == IF done \/ failure # None THEN "log" ELSE "write"
  <2>1. wk' = [wk EXCEPT ![w].text = text, ![w].body = None,
                         ![w].outcome = failure, ![w].pc = pc]
    BY <1>2 DEF WorkerRead, HandBullet
  <2>2. pc = "write" => ~Has(text, HandBullet(w))
    BY DEF AlreadyApplied
  <2>3. pc \in {"log", "write"}
    OBVIOUS
  <2> HIDE DEF text, failure, pc
  <2>4. /\ wk'[w].pc = pc /\ wk'[w].text = text
        /\ wk'[w].pid = wk[w].pid /\ wk'[w].appr = wk[w].appr
    BY <2>1 DEF Worker
  <2> QED
    BY <2>2, <2>3, <2>4 DEF text, TargetOf
<1>3. ASSUME RollbackRead(w)
      PROVE  /\ wk'[w].pc = "rb-write" /\ wk'[w].pid = wk[w].pid
             /\ wk'[w].text = Without(cards[TargetOf(w)], wk[w].pid)
  BY <1>3 DEF Worker, RollbackRead, TargetOf
<1>4. ASSUME WorkerNext(w) PROVE WorkerRead(w) \/ RollbackRead(w)
  <2>1. NextProposal(w).pc = "next" /\ IdleWorker.pc = "idle"
    BY DEF NextProposal, IdleWorker, Worker
  <2>2. ASSUME WorkerLock(w) PROVE FALSE
    BY <2>2 DEF Worker, WorkerLock
  <2>3. ASSUME WorkerWrite(w) PROVE FALSE
    BY <2>3 DEF Worker, WorkerWrite
  <2>4. ASSUME WorkerLog(w) PROVE FALSE
    BY <2>4 DEF Worker, WorkerLog
  <2>5. ASSUME WorkerSnapshot(w) PROVE FALSE
    BY <2>5 DEF Worker, WorkerSnapshot
  <2>6. ASSUME NEW p \in Proposals, WorkerSelect(w, p) PROVE FALSE
    BY <2>6 DEF Worker, WorkerSelect
  <2>7. ASSUME NEW p \in Proposals, RollbackLock(w, p) PROVE FALSE
    BY <2>7 DEF Worker, RollbackLock
  <2>8. ASSUME RollbackWrite(w) \/ RollbackLog(w) PROVE FALSE
    BY <2>8 DEF Worker, RollbackWrite, RollbackLog
  <2>9. ASSUME WorkerAudit(w) \/ WorkerDeadLetter(w) PROVE FALSE
    BY <2>1, <2>9 DEF Worker, WorkerAudit, WorkerDeadLetter
  <2>10. ASSUME WorkerRelease(w) \/ WorkerCrash(w) \/ RollbackSkip(w) \/ RollbackAudit(w)
         PROVE  FALSE
    BY <2>1, <2>10 DEF WorkerRelease, WorkerCrash, RollbackSkip, RollbackAudit
  <2> QED
    BY <1>4, <2>2, <2>3, <2>4, <2>5, <2>6, <2>7, <2>8, <2>9, <2>10 DEF WorkerNext, WorkerStep
<1> QED
  BY <1>1, <1>2, <1>3, <1>4, WorkerWriters

LEMMA HandSoundStep ==
  ASSUME Inv2, Inv2', SoundInv, [Next]_vars, NEW w \in Workers
  PROVE  HandSound(w)'
<1> USE DEF Inv2, Inv1, TypeOK
<1>1. CASE wk'[w].pc \notin {"write", "rb-write"}
  BY <1>1 DEF HandSound
<1>2. CASE wk'[w].pc \in {"write", "rb-write"}
  <2>1. /\ wk[w].pc \in ApplyPcs \cup {"rb-write", "rb-read"}
        /\ wk'[w].pid = wk[w].pid
        /\ wk[w].pid \in Proposals /\ status[wk[w].pid] # "none"
        /\ TargetOf(w) \in Cards /\ draft[wk[w].pid] \in Draft
    <3>1. CASE RollbackRead(w)
      <4>1. wk[w].pid \in Proposals /\ status[wk[w].pid] # "none"
        BY <3>1 DEF RollbackRead, WorkerInv, RollbackPcs
      <4> QED
        BY <1>2, <3>1, <4>1, WriteSources DEF RollbackRead, WorkerRead, LogInv, TargetOf, Draft
    <3>2. CASE ~RollbackRead(w)
      <4>1. wk[w].pc \in ApplyPcs \cup {"rb-write"} /\ wk'[w].pid = wk[w].pid
        BY <1>2, <3>2, WriteSources DEF WorkerRead, ApplyPcs
      <4> QED
        BY <4>1, HandIsCaptured
    <3> QED
      BY <3>1, <3>2
  <2>2. PICK c \in Cards : c = TargetOf(w)
    BY <2>1
  <2>3. TargetOf(w)' = c
    BY <2>1, <2>2, DraftStays DEF TargetOf
  <2>4. Answering[c] \subseteq Answering'[c] /\ cards[c] \in Card
    BY AnsweringGrows DEF VaultTypes
  <2>5. ASSUME wk'[w] = wk[w] PROVE HandSound(w)'
    <3>1. HandSound(w)
      BY DEF SoundInv
    <3>2. Sound(wk[w].text, c)
      BY <1>2, <2>2, <2>5, <3>1 DEF HandSound
    <3> QED
      BY <2>3, <2>4, <2>5, <3>1, <3>2 DEF HandSound, Sound, Has, HandBullet
  <2>6. ASSUME wk'[w].text = cards[c], wk'[w].pc = "write", wk'[w].appr = wk[w].appr,
               ~Has(wk'[w].text, HandBullet(w))
        PROVE  HandSound(w)'
    <3>1. Sound(cards[c], c)
      BY DEF SoundInv, CardsSound
    <3> QED
      BY <2>1, <2>3, <2>4, <2>6, <3>1 DEF HandSound, Sound, Has, HandBullet
  <2>7. ASSUME wk'[w].text = Without(cards[c], wk[w].pid), wk'[w].pc = "rb-write"
        PROVE  HandSound(w)'
    <3>1. Sound(cards[c], c)
      BY DEF SoundInv, CardsSound
    <3>2. \A b \in Bullet : wk'[w].text.bullets[b] \in {0, cards[c].bullets[b]}
      BY <2>4, <2>7 DEF Without, Card
    <3> QED
      BY <2>3, <2>4, <2>7, <3>1, <3>2 DEF HandSound, Sound, Has
  <2> QED
    BY <1>2, <2>2, <2>5, <2>6, <2>7, WriteSources
<1> QED
  BY <1>1, <1>2

LEMMA InvariantSound == Spec => []SoundInv
<1>1. Init => SoundInv
  BY DEF Init, SoundInv, CardsSound, HandSound, Sound, Has, IdleWorker
<1>2. Inv2 /\ Inv2' /\ RecordInv /\ SoundInv /\ [Next]_vars => SoundInv'
  BY CardsSoundStep, HandSoundStep DEF SoundInv
<1> QED
  BY Invariant2, InvariantRecord, <1>1, <1>2, PTL DEF Spec

\* No bullet is ever on a card twice: not by applying again after a crash between
\* the card write and the status append, not by another worker, and not by an older
\* text put back by hand (worker.py _validate_and_apply's idempotency test on the
\* text that it then writes).
THEOREM NoBulletTwice == Spec => []BulletsAtMostOnce
<1>1. TypeOK /\ SoundInv => BulletsAtMostOnce
  <2> SUFFICES ASSUME TypeOK, SoundInv, NEW c \in Cards, NEW b \in Bullet
               PROVE  cards[c].bullets[b] <= 1
    BY DEF BulletsAtMostOnce
  <2>1. cards[c].bullets[b] \in Nat
    BY DEF TypeOK, VaultTypes, Card
  <2> QED
    BY <2>1 DEF SoundInv, CardsSound, Sound, Has
<1> QED
  BY TypeCorrect, InvariantSound, <1>1, PTL

\* Every bullet on a card answers to an approval whose allow event is in the audit
\* log (approve_proposal audits before it appends; the worker writes only what it
\* read as approved).
THEOREM BulletsHaveApprovals == Spec => []BulletsAnswerToApprovals
<1>1. SoundInv => BulletsAnswerToApprovals
  BY DEF SoundInv, CardsSound, Sound, Answering, Answers, BulletsAnswerToApprovals
<1> QED
  BY InvariantSound, <1>1, PTL

--------------------------------------------------------------------------------
(***************************************************************************)
(* The text in a worker's hands and the card it is for.                    *)
(***************************************************************************)
\* Between the read of a card and the record of its change nobody else touches its
\* bullets, unless it is edited by hand.
TextInvOf(w) ==
  w \notin overtaken =>
    /\ wk[w].pc = "write" => wk[w].text.bullets = cards[TargetOf(w)].bullets
    /\ wk[w].pc = "log" /\ wk[w].outcome = None =>
         \E b \in Bullet : b.pid = wk[w].pid /\ Has(cards[TargetOf(w)], b)
    /\ wk[w].pc = "rb-write" =>
         \A b \in Bullet :
           IF wk[w].text.bullets[b] = cards[TargetOf(w)].bullets[b]
           THEN b.pid = wk[w].pid => ~Has(wk[w].text, b)
           ELSE Mentions(b, wk[w].pid) /\ ~Has(wk[w].text, b)
    /\ wk[w].pc = "rb-log" =>
         \A b \in Bullet : b.pid = wk[w].pid => ~Has(cards[TargetOf(w)], b)

TextInv == \A w \in Workers : TextInvOf(w)

\* Outside the workers a card changes by a hand edit, which its readers outlive.
LEMMA OutsideIsByHand ==
  ASSUME [Next]_vars, \A w \in Workers : ~WorkerNext(w)
  PROVE  /\ overtaken \subseteq overtaken'
         /\ \/ UNCHANGED cards
            \/ \E c \in Cards : EditCard(c)
<1>1. ASSUME NEW s \in Sessions, SessionNext(s) PROVE UNCHANGED <<cards, overtaken>>
  BY <1>1 DEF SessionNext, CaptureRead, CaptureAppend, CaptureAudit, DecisionRead,
              DecisionAudit, DecisionAppend, CallCrash, vaultVars
<1>2. ASSUME (\E c \in Cards : RenameCard(c)) \/ Tick \/ UNCHANGED vars
      PROVE  UNCHANGED <<cards, overtaken>>
  BY <1>2 DEF RenameCard, Tick, vars, vaultVars
<1>3. ASSUME NEW c \in Cards, EditCard(c) PROVE overtaken \subseteq overtaken'
  BY <1>3 DEF EditCard
<1> QED
  BY <1>1, <1>2, <1>3 DEF Next

\* What a text mentions, it goes on mentioning.
LEMMA MentionsStays ==
  ASSUME Inv2, [Next]_vars, NEW b \in Bullet, NEW p, Mentions(b, p)
  PROVE  Mentions(b, p)'
<1>1. b.pid \in Proposals
  BY DEF Bullet
<1>2. status[b.pid] # "none" => draft'[b.pid] = draft[b.pid] /\ status'[b.pid] # "none"
  BY <1>1, DraftStays, TrailGrows DEF Inv2
<1> QED
  BY <1>2 DEF Mentions

LEMMA OwnTextStep ==
  ASSUME Inv2, Inv2', NEW w \in Workers, TextInvOf(w), WorkerNext(w)
  PROVE  TextInvOf(w)'
<1> USE DEF Inv2, Inv1, TypeOK
<1>1. ASSUME NEW p \in Proposals, WorkerSelect(w, p) PROVE TextInvOf(w)'
  <2>1. wk'[w].pc = "read" \/ (wk'[w].pc = "log" /\ wk'[w].outcome # None)
    BY <1>1 DEF WorkerSelect, WorkerTypes, Worker
  <2> QED
    BY <2>1 DEF TextInvOf
<1>2. CASE WorkerRead(w)
  <2> DEFINE p == wk[w].pid
             text == cards[draft[p].target]
             b == BulletOf(p, wk[w].appr[p])
  <2>1. b \in Bullet /\ b.pid = p
    BY <1>2, HandIsCaptured DEF WorkerRead, ApplyPcs, BulletOf, HandBullet
  <2>2. /\ UNCHANGED <<draft, cards>>
        /\ wk'[w].text = text /\ wk'[w].pid = p /\ wk'[w].appr = wk[w].appr
        /\ wk'[w].pc = "log" /\ wk'[w].outcome = None => AlreadyApplied(text, b)
        /\ wk'[w].pc \notin {"rb-write", "rb-log"}
    BY <1>2 DEF WorkerRead, WorkerTypes, Worker, logVars
  <2> QED
    BY <2>1, <2>2 DEF TextInvOf, TargetOf, AlreadyApplied
<1>3. CASE WorkerWrite(w)
  <2> DEFINE p == wk[w].pid
             c == draft[p].target
             b == BulletOf(p, wk[w].appr[p])
  <2>1. b \in Bullet /\ b.pid = p /\ c \in Cards /\ wk[w].text \in Card
    BY <1>3, HandIsCaptured DEF WorkerWrite, ApplyPcs, BulletOf, HandBullet, TargetOf, WorkerInv
  <2>2. /\ UNCHANGED draft
        /\ wk'[w].pid = p /\ wk'[w].pc = "log"
        /\ cards'[c] = AddBullet(wk[w].text, b)
    BY <1>3, <2>1 DEF WorkerWrite, Replace, WorkerTypes, Worker, VaultTypes, logVars
  <2>3. Has(AddBullet(wk[w].text, b), b)
    BY <2>1 DEF Has, AddBullet, Card
  <2> QED
    BY <2>1, <2>2, <2>3 DEF TextInvOf, TargetOf
<1>4. CASE RollbackRead(w)
  <2>1. /\ UNCHANGED <<status, draft, cards>>
        /\ wk'[w].pid = wk[w].pid
        /\ wk'[w].pc = "rb-write" => wk'[w].text = Without(cards[TargetOf(w)], wk[w].pid)
        /\ wk'[w].pc \notin {"write", "log", "rb-log"}
    BY <1>4 DEF RollbackRead, TargetOf, WorkerTypes, Worker, logVars
  <2>2. wk'[w].pc = "rb-write" => cards[TargetOf(w)] \in Card
    <3>1. wk[w].pid \in Proposals /\ status[wk[w].pid] # "none"
      BY <1>4 DEF RollbackRead, WorkerInv, RollbackPcs
    <3> QED
      BY <3>1 DEF LogInv, TargetOf, Draft, VaultTypes
  <2>3. wk'[w].pc = "rb-write" =>
          \A b \in Bullet : wk'[w].text.bullets[b] = IF Mentions(b, wk[w].pid) THEN 0
                                                    ELSE cards[TargetOf(w)].bullets[b]
    BY <2>1, <2>2 DEF Without, Card
  <2>4. TargetOf(w)' = TargetOf(w)
    BY <2>1 DEF TargetOf
  <2>5. \A b \in Bullet : Mentions(b, wk[w].pid) <=> Mentions(b, wk[w].pid)'
    BY <2>1 DEF Mentions
  <2>6. \A b \in Bullet : b.pid = wk[w].pid => Mentions(b, wk[w].pid)
    BY DEF Mentions
  <2>7. ASSUME wk'[w].pc = "rb-write", NEW b \in Bullet
        PROVE  IF wk'[w].text.bullets[b] = cards[TargetOf(w)].bullets[b]
               THEN b.pid = wk[w].pid => ~Has(wk'[w].text, b)
               ELSE Mentions(b, wk[w].pid)' /\ ~Has(wk'[w].text, b)
    BY <2>3, <2>5, <2>6, <2>7 DEF Has
  <2> QED
    BY <2>1, <2>4, <2>7 DEF TextInvOf
<1>5. CASE RollbackWrite(w)
  <2>1. /\ UNCHANGED <<draft, overtaken>>
        /\ wk'[w].pid = wk[w].pid /\ wk'[w].pc = "rb-log"
        /\ TargetOf(w) \in Cards /\ cards'[TargetOf(w)] = wk[w].text
    BY <1>5, HandIsCaptured
    DEF RollbackWrite, Replace, TargetOf, WorkerTypes, Worker, VaultTypes, logVars
  <2> QED
    BY <1>5, <2>1 DEF TextInvOf, TargetOf, RollbackWrite, Has
<1>6. CASE \/ WorkerLock(w) \/ WorkerSnapshot(w)
           \/ (\E p \in Proposals : RollbackLock(w, p))
           \/ WorkerLog(w) \/ RollbackLog(w)
  <2>1. ASSUME WorkerLock(w) \/ WorkerLog(w) \/ RollbackLog(w)
        PROVE  wk'[w].pc \in {"locked", "audit", "rb-audit"}
    <3>1. \A x : [wk[w] EXCEPT !.pc = x].pc = x
      BY DEF WorkerTypes, Worker
    <3> QED
      BY <2>1, <3>1 DEF WorkerTypes, WorkerLock, WorkerLog, RollbackLog
  <2>2. ASSUME WorkerSnapshot(w) PROVE wk'[w].pc = "next"
    BY <2>2 DEF WorkerTypes, Worker, WorkerSnapshot
  <2>3. ASSUME NEW p \in Proposals, RollbackLock(w, p) PROVE wk'[w].pc = "rb-read"
    BY <2>3 DEF WorkerTypes, Worker, RollbackLock
  <2>4. wk'[w].pc \notin {"write", "rb-write", "log", "rb-log"}
    BY <1>6, <2>1, <2>2, <2>3
  <2> QED
    BY <2>4 DEF TextInvOf
<1>7. CASE \/ WorkerAudit(w) \/ WorkerDeadLetter(w) \/ WorkerRelease(w) \/ WorkerCrash(w)
           \/ RollbackSkip(w) \/ RollbackAudit(w)
  <2>1. wk'[w].pc \in {"idle", "next", "dlq"}
    <3>1. NextProposal(w).pc = "next"
      BY DEF NextProposal, WorkerTypes, Worker
    <3> QED
      BY <1>7, <3>1 DEF WorkerTypes, Worker, IdleWorker, WorkerAudit, WorkerDeadLetter,
                        WorkerRelease, WorkerCrash, RollbackSkip, RollbackAudit
  <2> QED
    BY <2>1 DEF TextInvOf
<1> QED
  BY <1>1, <1>2, <1>3, <1>4, <1>5, <1>6, <1>7 DEF WorkerNext, WorkerStep

LEMMA TextStep ==
  ASSUME Inv2, Inv2', LockInv, TextInv, [Next]_vars
  PROVE  TextInv'
<1>1. ASSUME NEW w \in Workers, WorkerNext(w) PROVE TextInv'
  <2>1. TextInvOf(w)'
    BY <1>1, OwnTextStep DEF TextInv
  <2>2. ASSUME NEW v \in Workers \ {w} PROVE TextInvOf(v)'
    <3>1. wk'[v].pc = "idle"
      BY <1>1, OthersIdle DEF Inv2, Inv1, TypeOK
    <3> QED
      BY <3>1 DEF TextInvOf
  <2> QED
    BY <2>1, <2>2 DEF TextInv
<1>2. ASSUME \A w \in Workers : ~WorkerNext(w), NEW v \in Workers PROVE TextInvOf(v)'
  <2>1. UNCHANGED wk /\ overtaken \subseteq overtaken'
    BY <1>2, WorkerWriters, OutsideIsByHand
  <2>2. CASE wk[v].pc \notin {"write", "rb-write", "log", "rb-log"}
    BY <2>1, <2>2 DEF TextInvOf
  <2>3. CASE wk[v].pc \in {"write", "rb-write", "log", "rb-log"}
    <3>1. /\ wk[v].pid \in Proposals /\ status[wk[v].pid] # "none" /\ TargetOf(v) \in Cards
      BY <2>3, HandIsCaptured DEF Inv2, ApplyPcs
    <3>2. TargetOf(v)' = TargetOf(v)
      BY <2>1, <3>1, DraftStays DEF TargetOf
    <3>3. ASSUME EditCard(TargetOf(v)) PROVE TextInvOf(v)'
      BY <2>3, <3>3 DEF EditCard, Readers, TargetOf, TextInvOf
    <3>4. ASSUME ~EditCard(TargetOf(v)) PROVE cards'[TargetOf(v)] = cards[TargetOf(v)]
      BY <1>2, <3>1, <3>4, OutsideIsByHand DEF EditCard, Replace, Inv2, Inv1, TypeOK, VaultTypes
    <3>5. TextInvOf(v)
      BY DEF TextInv
    <3>6. \A b \in Bullet : Mentions(b, wk[v].pid) => Mentions(b, wk[v].pid)'
      <4>1. PICK p : p = wk[v].pid /\ p = wk'[v].pid
        BY <2>1
      <4>2. \A b \in Bullet : Mentions(b, p) => Mentions(b, p)'
        BY MentionsStays
      <4> QED
        BY <4>1, <4>2 DEF Mentions
    <3>7. ASSUME cards'[TargetOf(v)] = cards[TargetOf(v)] PROVE TextInvOf(v)'
      BY <2>1, <3>2, <3>5, <3>6, <3>7 DEF TextInvOf, Has
    <3> QED
      BY <3>3, <3>4, <3>7
  <2> QED
    BY <2>2, <2>3
<1> QED
  BY <1>1, <1>2 DEF TextInv

Inv3 == Inv2 /\ LockInv /\ TextInv

LEMMA Invariant3 == Spec => []Inv3
<1>1. Init => LockInv /\ TextInv
  BY DEF Init, LockInv, TextInv, TextInvOf, IdleWorker
<1>2. Inv2 /\ Inv2' /\ LockInv /\ TextInv /\ [Next]_vars => LockInv' /\ TextInv'
  BY LockStep, TextStep DEF Inv2, Inv1, TypeOK
<1> QED
  BY Invariant2, <1>1, <1>2, PTL DEF Spec, Inv3

--------------------------------------------------------------------------------
(***************************************************************************)
(* What a step may do to the bullets of a card.                            *)
(***************************************************************************)
\* w adds its bullet to c, and leaves the others.
Adds(w, c) ==
  /\ WorkerWrite(w)
  /\ \A b \in Bullet :
       b # HandBullet(w) => cards'[c].bullets[b] = cards[c].bullets[b]
  /\ HandBullet(w) \in Bullet => Has(cards'[c], HandBullet(w))

\* w removes bullets from c that mention the proposal at hand.
Removes(w, c) ==
  /\ RollbackWrite(w)
  /\ \A b \in Bullet :
       \/ cards'[c].bullets[b] = cards[c].bullets[b]
       \/ Mentions(b, wk[w].pid) /\ ~Has(cards'[c], b)

LEMMA CardStep ==
  ASSUME Inv3, [Next]_vars, NEW c \in Cards
  PROVE  \/ cards'[c].bullets = cards[c].bullets
         \/ edits' # edits
         \/ \E w \in Workers : Adds(w, c) \/ Removes(w, c)
         \/ \E w \in overtaken : wk[w].pc \in {"write", "rb-write"}
<1> USE DEF Inv3, Inv2, Inv1, TypeOK
<1>1. ASSUME NEW w \in Workers, WorkerWrite(w), c = TargetOf(w), w \notin overtaken
      PROVE  Adds(w, c)
  <2>1. HandBullet(w) \in Bullet /\ wk[w].text \in Card
    BY <1>1, HandIsCaptured DEF WorkerWrite, ApplyPcs, HandBullet, WorkerInv
  <2>2. cards'[c] = AddBullet(wk[w].text, HandBullet(w))
    BY <1>1 DEF WorkerWrite, Replace, TargetOf, HandBullet, VaultTypes
  <2>3. wk[w].text.bullets = cards[c].bullets
    BY <1>1 DEF WorkerWrite, TextInv, TextInvOf
  <2>4. \A b \in Bullet : AddBullet(wk[w].text, HandBullet(w)).bullets[b] =
                            IF b = HandBullet(w) THEN wk[w].text.bullets[b] + 1
                            ELSE wk[w].text.bullets[b]
    BY <2>1 DEF AddBullet, Card
  <2>5. wk[w].text.bullets[HandBullet(w)] \in Nat
    BY <2>1 DEF Card
  <2> QED
    BY <1>1, <2>1, <2>2, <2>3, <2>4, <2>5 DEF Adds, Has
<1>2. ASSUME NEW w \in Workers, RollbackWrite(w), c = TargetOf(w), w \notin overtaken
      PROVE  Removes(w, c)
  <2>1. cards'[c] = wk[w].text
    BY <1>2 DEF RollbackWrite, Replace, TargetOf, VaultTypes
  <2> QED
    BY <1>2, <2>1 DEF Removes, RollbackWrite, TextInv, TextInvOf
<1>3. ASSUME NEW w \in Workers, WorkerWrite(w) \/ RollbackWrite(w), c # TargetOf(w)
      PROVE  cards'[c] = cards[c]
  BY <1>3 DEF WorkerWrite, RollbackWrite, Replace, TargetOf, VaultTypes
<1>4. ASSUME NEW d \in Cards, EditCard(d) PROVE edits' # edits
  BY <1>4, BoundsAssumption DEF EditCard, CounterTypes
<1> QED
  BY <1>1, <1>2, <1>3, <1>4, VaultWriters DEF WorkerWrite, RollbackWrite

\* No write loses a bullet: only the rollback of a proposal that its text mentions
\* takes it off a card, or a hand edit, or a worker's write over a hand edit
\* (worker.py _single_writer around every read-compute-replace).
THEOREM NoBulletLost == Spec => OnlyRollbackRemoves
<1>1. ASSUME Inv3, [Next]_vars, NEW c \in Cards, NEW b \in Bullet,
             Has(cards[c], b), ~Has(cards'[c], b)
      PROVE  \/ \E w \in Workers : wk[w].pc = "rb-write" /\ Mentions(b, wk[w].pid)
             \/ ByHand({"write", "rb-write"})
  <2>1. ASSUME NEW w \in Workers, Adds(w, c) PROVE FALSE
    BY <1>1, <2>1 DEF Adds, Has
  <2>2. ASSUME NEW w \in Workers, Removes(w, c)
        PROVE  wk[w].pc = "rb-write" /\ Mentions(b, wk[w].pid)
    BY <1>1, <2>2 DEF Removes, RollbackWrite, Has
  <2> QED
    BY <1>1, <2>1, <2>2, CardStep DEF Has, ByHand
<1>2. Inv3 /\ [Next]_vars =>
        \A c \in Cards : \A b \in Bullet :
          Has(cards[c], b) /\ ~Has(cards'[c], b) =>
            \/ \E w \in Workers : wk[w].pc = "rb-write" /\ Mentions(b, wk[w].pid)
            \/ ByHand({"write", "rb-write"})
  BY <1>1
<1> QED
  BY Invariant3, <1>2, PTL DEF Spec, OnlyRollbackRemoves

\* When "applied" is logged, the change is on the card, unless somebody has edited
\* the card by hand since the worker read it (worker.py apply_approved: write, or
\* find it written, before append_status).
THEOREM AppliedIsWritten == Spec => AppliedIsOnTheCard
<1>1. ASSUME Inv3, [Next]_vars, NEW p \in Proposals,
             status[p] # "applied", status'[p] = "applied"
      PROVE  \/ \E b \in Bullet : b.pid = p /\ Has(cards'[draft[p].target], b)
             \/ \E w \in overtaken : wk[w].pc = "log" /\ wk[w].pid = p
  <2> USE DEF Inv3, Inv2, Inv1, TypeOK
  <2>1. PICK w \in Workers : WorkerLog(w)
    <3>1. ASSUME NEW s \in Sessions, CaptureAppend(s) PROVE FALSE
      BY <1>1, <3>1 DEF CaptureAppend, LogStatus, LogTypes
    <3>2. ASSUME NEW s \in Sessions, DecisionAppend(s) PROVE FALSE
      <4>1. Outcome(call[s].op) # "applied"
        BY <1>1, <3>2 DEF DecisionAppend, CallInv, Outcome, Decisions
      <4> QED
        BY <1>1, <3>2, <4>1 DEF DecisionAppend, LogStatus, LogTypes
    <3>3. ASSUME NEW w \in Workers, RollbackLog(w) PROVE FALSE
      BY <1>1, <3>3 DEF RollbackLog, LogStatus, LogTypes
    <3> QED
      BY <1>1, <3>1, <3>2, <3>3, LogWriters
  <2>2. wk[w].pc = "log" /\ wk[w].pid = p /\ wk[w].outcome = None
    BY <1>1, <2>1 DEF WorkerLog, LogStatus, LogTypes
  <2>3. w \notin overtaken => \E b \in Bullet : b.pid = p /\ Has(cards[draft[p].target], b)
    BY <1>1, <2>2 DEF TextInv, TextInvOf, TargetOf
  <2>4. UNCHANGED cards
    BY <2>1 DEF WorkerLog, vaultVars
  <2> QED
    BY <2>2, <2>3, <2>4
<1>2. Inv3 /\ [Next]_vars =>
        \A p \in Proposals :
          status[p] # "applied" /\ status'[p] = "applied" =>
            \/ \E b \in Bullet : b.pid = p /\ Has(cards'[draft[p].target], b)
            \/ \E w \in overtaken : wk[w].pc = "log" /\ wk[w].pid = p
  BY <1>1
<1> QED
  BY Invariant3, <1>2, PTL DEF Spec, AppliedIsOnTheCard

--------------------------------------------------------------------------------
(***************************************************************************)
(* Grants.                                                                 *)
(***************************************************************************)
IsAccess(p) == draft[p].ptype = "request_access"

ExpiriesAreBounded ==
  \A p \in Proposals :
    "approved" \in trail[p] /\ IsAccess(p) =>
      approval[p].expires \in Int /\ approval[p].expires <= approval[p].at + MaxTtl

\* The expiry was computed when the call read the proposal, and time only passes.
CallExpiry(s) ==
  call[s].pc \in {"decide", "append"} /\ call[s].op = "approve" /\ call[s].seen # "none"
    /\ IsAccess(call[s].pid) =>
      call[s].expires \in Int /\ call[s].expires <= now + MaxTtl

AppliedWasApproved ==
  \A p \in Proposals : "applied" \in trail[p] => "approved" \in trail[p]

ExpiryInv ==
  /\ ExpiriesAreBounded
  /\ \A s \in Sessions : CallExpiry(s)
  /\ AppliedWasApproved

LEMMA ClampBounds ==
  ASSUME NEW days \in TtlRequests
  PROVE  Clamp(days) \in 1 .. MaxTtl
BY TtlAssumption DEF Clamp

LEMMA TimePasses ==
  ASSUME Inv1, [Next]_vars
  PROVE  now \in Nat /\ now' \in Nat /\ now <= now'
<1>1. now \in Nat
  BY BoundsAssumption DEF Inv1, TypeOK, CounterTypes
<1>2. ASSUME NEW s \in Sessions, SessionNext(s) PROVE UNCHANGED now
  BY <1>2 DEF SessionNext, CaptureRead, CaptureAppend, CaptureAudit, DecisionRead,
              DecisionAudit, DecisionAppend, CallCrash
<1>3. ASSUME NEW w \in Workers, WorkerNext(w) PROVE UNCHANGED now
  BY <1>3 DEF WorkerNext, WorkerStep, WorkerLock, WorkerSnapshot, WorkerSelect, WorkerRead,
              WorkerWrite, WorkerLog, WorkerAudit, WorkerDeadLetter, WorkerRelease, WorkerCrash,
              RollbackLock, RollbackSkip, RollbackRead, RollbackWrite, RollbackLog,
              RollbackAudit
<1>4. ASSUME WorldNext \/ UNCHANGED vars PROVE now' = now \/ now' = now + 1
  BY <1>4 DEF WorldNext, EditCard, RenameCard, Tick, vars
<1> QED
  BY <1>1, <1>2, <1>3, <1>4 DEF Next, WorldNext

LEMMA CallExpiryStep ==
  ASSUME Inv2, ExpiryInv, [Next]_vars, NEW s \in Sessions
  PROVE  CallExpiry(s)'
<1> USE DEF Inv2, Inv1, TypeOK, CallTypes
<1>1. ASSUME call'[s].pc \in {"decide", "append"}, call'[s].op = "approve",
             call'[s].seen # "none", call[s].pc \in {"decide", "append"},
             call'[s] = call[s] \/ call'[s] = [call[s] EXCEPT !.pc = "append"]
      PROVE  CallExpiry(s)'
  <2>1. /\ call'[s].op = call[s].op /\ call'[s].seen = call[s].seen
        /\ call'[s].pid = call[s].pid /\ call'[s].expires = call[s].expires
    BY <1>1 DEF Call
  <2>2. call[s].pid \in Proposals /\ status[call[s].pid] # "none"
    BY <1>1, <2>1 DEF CallInv, LogInv
  <2>3. draft'[call[s].pid] = draft[call[s].pid]
    BY <2>2, DraftStays
  <2>4. CallExpiry(s)
    BY DEF ExpiryInv
  <2> QED
    BY <1>1, <2>1, <2>3, <2>4, TimePasses, TtlAssumption DEF CallExpiry, IsAccess
<1>2. ASSUME NEW op \in Decisions, NEW p \in Proposals, NEW days \in TtlRequests,
             DecisionRead(s, op, p, days)
      PROVE  CallExpiry(s)'
  <2>1. /\ call'[s].op = op /\ call'[s].pid = p /\ call'[s].seen = status[p]
        /\ op = "approve" /\ status[p] # "none" /\ IsAccess(p) =>
             call'[s].expires = now + Clamp(days)
        /\ UNCHANGED <<draft, now>>
    BY <1>2 DEF DecisionRead, IdleCall, IsAccess, logVars
  <2>2. now \in Int /\ Clamp(days) \in Int /\ Clamp(days) <= MaxTtl
    BY TimePasses, ClampBounds, TtlAssumption
  <2> QED
    BY <2>1, <2>2, TtlAssumption DEF CallExpiry, IsAccess
<1>3. ASSUME call'[s].pc \notin {"decide", "append"} PROVE CallExpiry(s)'
  BY <1>3 DEF CallExpiry
<1>4. ASSUME call'[s] = call[s] PROVE CallExpiry(s)'
  BY <1>1, <1>3, <1>4 DEF CallExpiry
<1>5. ASSUME NEW t \in Sessions, SessionNext(t) PROVE CallExpiry(s)'
  <2>1. CASE t # s
    <3>1. call'[s] = call[s]
      BY <1>5, <2>1 DEF SessionNext, CaptureRead, CaptureAppend, CaptureAudit, DecisionRead,
                        DecisionAudit, DecisionAppend, CallCrash
    <3> QED
      BY <1>4, <3>1
  <2>2. ASSUME NEW type \in CaptureTypes, NEW c \in Cards, NEW quotes \in NoteQuotes,
               CaptureRead(s, type, c, quotes)
        PROVE  CallExpiry(s)'
    <3>1. \A r : [call[s] EXCEPT !.pc = "capture", !.req = r].pc = "capture"
      BY DEF Call
    <3> QED
      BY <1>3, <2>2, <3>1 DEF CaptureRead
  <2>3. CASE CaptureAppend(s) \/ CaptureAudit(s) \/ DecisionAppend(s) \/ CallCrash(s)
    <3>1. \A n : [IdleCall EXCEPT !.pc = "captured", !.pid = n].pc = "captured"
      BY DEF IdleCall
    <3>2. \/ call'[s] = IdleCall
          \/ \E n : call'[s] = [IdleCall EXCEPT !.pc = "captured", !.pid = n]
      BY <2>3 DEF CaptureAppend, CaptureAudit, DecisionAppend, CallCrash
    <3>3. IdleCall.pc = "idle"
      BY DEF IdleCall
    <3> QED
      BY <1>3, <3>1, <3>2, <3>3
  <2>4. CASE DecisionAudit(s)
    <3>1. /\ call[s].pc = "decide"
          /\ call'[s] = [call[s] EXCEPT !.pc = "append"] \/ call'[s] = IdleCall
      BY <2>4 DEF DecisionAudit
    <3>2. IdleCall.pc = "idle"
      BY DEF IdleCall
    <3> QED
      BY <1>1, <1>3, <3>1, <3>2 DEF CallExpiry
  <2> QED
    BY <1>2, <1>5, <2>1, <2>2, <2>3, <2>4 DEF SessionNext
<1>6. ASSUME NEW w \in Workers, WorkerNext(w) PROVE UNCHANGED call
  BY <1>6 DEF WorkerNext, WorkerStep, WorkerLock, WorkerSnapshot, WorkerSelect, WorkerRead,
              WorkerWrite, WorkerLog, WorkerAudit, WorkerDeadLetter, WorkerRelease, WorkerCrash,
              RollbackLock, RollbackSkip, RollbackRead, RollbackWrite, RollbackLog,
              RollbackAudit
<1>7. ASSUME WorldNext \/ UNCHANGED vars PROVE UNCHANGED call
  BY <1>7 DEF WorldNext, EditCard, RenameCard, Tick, vars
<1> QED
  BY <1>4, <1>5, <1>6, <1>7 DEF Next, WorldNext

LEMMA ExpiriesStep ==
  ASSUME Inv2, ExpiryInv, [Next]_vars
  PROVE  ExpiriesAreBounded'
<1> USE DEF Inv2, Inv1, TypeOK, LogTypes
<1>1. SUFFICES ASSUME NEW p \in Proposals, "approved" \in trail'[p], IsAccess(p)'
               PROVE  /\ approval'[p].expires \in Int
                      /\ approval'[p].expires <= approval'[p].at + MaxTtl
  BY DEF ExpiriesAreBounded
<1>2. ASSUME NEW s \in Sessions, DecisionAppend(s), call[s].op = "approve"
      PROVE  /\ approval'[p].expires \in Int
             /\ approval'[p].expires <= approval'[p].at + MaxTtl
  <2>1. call[s].pid \in Proposals /\ call[s].seen # "none" /\ UNCHANGED draft
    BY <1>2 DEF DecisionAppend, CallInv, Decidable
  <2>2. approval'[call[s].pid].at = now /\ approval'[call[s].pid].expires = call[s].expires
    BY <1>2, <2>1 DEF DecisionAppend, Approvals
  <2>3. CASE p = call[s].pid
    <3>1. IsAccess(p)
      BY <1>1, <2>1 DEF IsAccess
    <3> QED
      BY <1>2, <2>1, <2>2, <2>3, <3>1 DEF DecisionAppend, ExpiryInv, CallExpiry
  <2>4. CASE p # call[s].pid
    <3>1. approval'[p] = approval[p] /\ trail'[p] = trail[p]
      BY <1>2, <2>1, <2>4 DEF DecisionAppend, LogStatus, Approvals
    <3> QED
      BY <1>1, <2>1, <3>1 DEF ExpiryInv, ExpiriesAreBounded, IsAccess
  <2> QED
    BY <2>3, <2>4
<1>3. CASE \A s \in Sessions : ~(DecisionAppend(s) /\ call[s].op = "approve")
  <2>1. UNCHANGED approval /\ "approved" \in trail[p]
    BY <1>1, <1>3, ApprovalWriters
  <2>2. draft'[p] = draft[p]
    BY <2>1, DraftStays DEF LogInv
  <2> QED
    BY <1>1, <2>1, <2>2 DEF ExpiryInv, ExpiriesAreBounded, IsAccess
<1> QED
  BY <1>2, <1>3

LEMMA AppliedStep ==
  ASSUME Inv1, AppliedWasApproved, [Next]_vars
  PROVE  AppliedWasApproved'
<1> USE DEF Inv1, TypeOK, LogTypes
<1>1. SUFFICES ASSUME NEW p \in Proposals, "applied" \in trail'[p]
               PROVE  "approved" \in trail[p]
  BY TrailGrows DEF AppliedWasApproved
<1>2. CASE "applied" \in trail[p]
  BY <1>2 DEF AppliedWasApproved
<1>3. CASE "applied" \notin trail[p]
  <2>1. ASSUME NEW s \in Sessions, CaptureAppend(s) \/ DecisionAppend(s) PROVE FALSE
    <3>1. \E q, o : LogStatus(q, o) /\ o # "applied"
      BY <2>1 DEF CaptureAppend, DecisionAppend, CallInv, Outcome, Decisions
    <3> QED
      BY <1>1, <1>3, <3>1 DEF LogStatus
  <2>2. ASSUME NEW w \in Workers, RollbackLog(w) PROVE FALSE
    BY <1>1, <1>3, <2>2 DEF RollbackLog, LogStatus
  <2>3. ASSUME NEW w \in Workers, WorkerLog(w) PROVE "approved" \in trail[p]
    <3>1. p = wk[w].pid
      BY <1>1, <1>3, <2>3 DEF WorkerLog, LogStatus
    <3> QED
      BY <2>3, <3>1 DEF WorkerLog, WorkerInv, ApplyPcs
  <2> QED
    BY <1>1, <1>3, <2>1, <2>2, <2>3, LogWriters
<1> QED
  BY <1>2, <1>3

LEMMA InvariantExpiry == Spec => []ExpiryInv
<1>1. Init => ExpiryInv
  BY DEF Init, ExpiryInv, ExpiriesAreBounded, CallExpiry, AppliedWasApproved, IdleCall
<1>2. ASSUME Inv2, ExpiryInv, [Next]_vars PROVE ExpiryInv'
  <2>1. \A s \in Sessions : CallExpiry(s)'
    BY <1>2, CallExpiryStep
  <2>2. ExpiriesAreBounded' /\ AppliedWasApproved'
    BY <1>2, ExpiriesStep, AppliedStep DEF ExpiryInv, Inv2
  <2> QED
    BY <2>1, <2>2 DEF ExpiryInv
<1> QED
  BY Invariant2, <1>1, <1>2, PTL DEF Spec

\* Access in force was granted by someone who may approve, on record, at most MaxTtl
\* days ago whatever ttl was asked for (approve_proposal, active_grants).
THEOREM GrantsBounded == Spec => []GrantsAreBounded
<1>1. ASSUME Inv2, RecordInv, ExpiryInv PROVE GrantsAreBounded
  <2> USE DEF Inv2, Inv1, TypeOK, LogTypes
  <2> SUFFICES ASSUME NEW k \in Keys, NEW g \in ActiveGrants(k, now)
               PROVE  \E p \in Proposals :
                        /\ draft[p].requester = g[1] /\ draft[p].target = g[2]
                        /\ Event("approve", approval[p].by, p, "allow") \in audit
                        /\ CanApprove(approval[p].by)
                        /\ g[3] = "personal-data" => RoleOf[approval[p].by] = "admin"
                        /\ now < approval[p].at + MaxTtl
    BY DEF GrantsAreBounded
  <2>1. PICK p \in Proposals :
          /\ GrantActive(p, k, now)
          /\ g \in {<<draft[p].requester, draft[p].target, b>> :
                      b \in {"sales-confidential"} \cup
                            (IF RoleOf[approval[p].by] = "admin" THEN {"personal-data"} ELSE {})}
    BY DEF ActiveGrants
  <2>2. /\ draft[p].requester = g[1] /\ draft[p].target = g[2]
        /\ g[3] = "personal-data" => RoleOf[approval[p].by] = "admin"
    BY <2>1
  <2>3. "approved" \in trail[p] /\ IsAccess(p)
    BY <1>1, <2>1 DEF GrantActive, LogInv, ExpiryInv, AppliedWasApproved, IsAccess
  <2>4. Audited(p, approval[p])
    BY <1>1, <2>3 DEF RecordInv, LogOnRecord
  <2>5. approval[p].expires \in Int /\ approval[p].expires <= approval[p].at + MaxTtl
    BY <1>1, <2>3 DEF ExpiryInv, ExpiriesAreBounded
  <2>6. approval[p].at \in Int /\ now \in Int /\ MaxTtl \in Int /\ approval[p].expires > now
    BY <1>1, <2>1, <2>3, TtlAssumption, BoundsAssumption
    DEF LogInv, Approval, CounterTypes, GrantActive
  <2>7. now < approval[p].at + MaxTtl
    BY <2>5, <2>6
  <2> QED
    BY <2>2, <2>4, <2>7 DEF Audited
<1> QED
  BY Invariant2, InvariantRecord, InvariantExpiry, <1>1, PTL

--------------------------------------------------------------------------------
(***************************************************************************)
(* Rollbacks.                                                              *)
(***************************************************************************)
\* A run never works on a proposal that was rolled back: while the run holds the
\* lock, nobody rolls back.
TodoIsLive == \A w \in Workers : \A p \in wk[w].todo : status[p] # "rolled-back"

\* The only way to the status: the end of the proposal's own rollback.
LEMMA RollbackLogs ==
  ASSUME Inv1, [Next]_vars, NEW p \in Proposals,
         status[p] # "rolled-back", status'[p] = "rolled-back"
  PROVE  \E w \in Workers : RollbackLog(w) /\ wk[w].pid = p
<1> USE DEF Inv1, TypeOK, LogTypes
<1>1. ASSUME NEW s \in Sessions, CaptureAppend(s) PROVE FALSE
  BY <1>1 DEF CaptureAppend, LogStatus
<1>2. ASSUME NEW s \in Sessions, DecisionAppend(s) PROVE FALSE
  <2>1. Outcome(call[s].op) # "rolled-back"
    BY <1>2 DEF DecisionAppend, CallInv, Outcome, Decisions
  <2> QED
    BY <1>2, <2>1 DEF DecisionAppend, LogStatus
<1>3. ASSUME NEW w \in Workers, WorkerLog(w) PROVE FALSE
  <2>1. (IF wk[w].outcome = None THEN "applied" ELSE "failed") # "rolled-back"
    OBVIOUS
  <2> QED
    BY <1>3, <2>1 DEF WorkerLog, LogStatus
<1>4. ASSUME NEW w \in Workers, RollbackLog(w) PROVE wk[w].pid = p
  BY <1>4 DEF RollbackLog, LogStatus
<1> QED
  BY <1>1, <1>2, <1>3, <1>4, LogWriters

LEMMA TodoStaysLive ==
  ASSUME Inv3, TodoIsLive, [Next]_vars
  PROVE  TodoIsLive'
<1> SUFFICES ASSUME NEW w \in Workers, NEW p \in wk'[w].todo, status'[p] = "rolled-back"
             PROVE  FALSE
  BY DEF TodoIsLive
<1> USE DEF Inv3, Inv2
<1>1. p \in wk[w].todo \/ status[p] = "approved"
  BY TodoWriters
<1>2. p \in Proposals /\ status[p] # "rolled-back"
  BY <1>1, TodoWriters DEF TodoIsLive, Inv1, TypeOK, WorkerTypes, Worker
<1>3. PICK v \in Workers : RollbackLog(v)
  BY <1>2, RollbackLogs
<1>4. WorkerNext(v) /\ wk[v].todo = {}
  BY <1>3 DEF WorkerNext, WorkerStep, RollbackLog, Inv1, WorkerInv, ApplyPcs
<1>5. wk'[v].todo = {}
  BY <1>3, <1>4 DEF RollbackLog, Inv1, TypeOK, WorkerTypes, Worker
<1>6. w # v /\ wk[w].pc = "idle" /\ wk'[w] = wk[w]
  BY <1>4, <1>5, OthersIdle DEF Inv1, TypeOK
<1>7. wk[w].todo = {}
  BY <1>6 DEF Inv1, WorkerInv, ApplyPcs
<1> QED
  BY <1>6, <1>7

\* When the status is logged, no card has a bullet of the proposal.
LEMMA UndoneIsClean ==
  ASSUME Inv3, SoundInv, NEW w \in Workers, wk[w].pc = "rb-log", w \notin overtaken
  PROVE  Clean(wk[w].pid)
<1> SUFFICES ASSUME NEW c \in Cards, NEW b \in Bullet, b.pid = wk[w].pid, Has(cards[c], b)
             PROVE  FALSE
  BY DEF Clean
<1>1. b \in Answering[c]
  BY DEF SoundInv, CardsSound, Sound
<1>2. c = TargetOf(w)
  BY <1>1 DEF Answering, Answers, TargetOf
<1> QED
  BY <1>2 DEF Inv3, TextInv, TextInvOf

\* Only applying a proposal puts a bullet of it on a card, or a hand edit.
LEMMA CleanStays ==
  ASSUME Inv3, [Next]_vars, NEW p, Clean(p), ~ByHand({"write", "rb-write"}),
         \A w \in Workers : ~(WorkerWrite(w) /\ wk[w].pid = p)
  PROVE  Clean(p)'
<1> SUFFICES ASSUME NEW c \in Cards, NEW b \in Bullet, b.pid = p, Has(cards'[c], b)
             PROVE  FALSE
  BY DEF Clean
<1>1. ~Has(cards[c], b)
  BY DEF Clean
<1>2. ASSUME NEW w \in Workers, Adds(w, c) PROVE FALSE
  BY <1>1, <1>2 DEF Adds, Has, HandBullet, BulletOf
<1>3. ASSUME NEW w \in Workers, Removes(w, c) PROVE FALSE
  BY <1>1, <1>3 DEF Removes, Has
<1> QED
  BY <1>1, <1>2, <1>3, CardStep DEF Has, ByHand

\* A rolled-back proposal has no bullet on any card, and none comes back: neither a
\* second approval's bullet nor a run that had the proposal in its snapshot brings
\* one (worker.py rollback, under the lock that apply_approved holds from the
\* snapshot to the last write).  Only a hand edit does.
THEOREM RollbackLeavesNothing == Spec => RolledBackIsClean
<1>1. Init => TodoIsLive
  BY DEF Init, TodoIsLive, IdleWorker
<1>2. Inv3 /\ TodoIsLive /\ [Next]_vars => TodoIsLive'
  BY TodoStaysLive
<1>3. ASSUME Inv3, SoundInv, TodoIsLive, [Next]_vars, NEW p \in Proposals,
             status'[p] = "rolled-back", ~Clean(p)'
      PROVE  \/ status[p] = "rolled-back" /\ ~Clean(p)
             \/ ByHand({"write", "rb-write", "rb-log"})
  <2> USE DEF Inv3, Inv2, Inv1
  <2>1. ASSUME status[p] = "rolled-back", Clean(p)
        PROVE  ByHand({"write", "rb-write", "rb-log"})
    <3>1. ASSUME NEW w \in Workers, WorkerWrite(w), wk[w].pid = p PROVE FALSE
      BY <1>3, <2>1, <3>1 DEF WorkerWrite, WorkerInv, ApplyPcs, TodoIsLive
    <3>2. ByHand({"write", "rb-write"})
      BY <1>3, <2>1, <3>1, CleanStays
    <3> QED
      BY <3>2 DEF ByHand
  <2>2. ASSUME status[p] # "rolled-back" PROVE ByHand({"write", "rb-write", "rb-log"})
    <3>1. PICK w \in Workers : RollbackLog(w) /\ wk[w].pid = p
      BY <1>3, <2>2, RollbackLogs
    <3>2. wk[w].pc = "rb-log" /\ UNCHANGED cards
      BY <3>1 DEF RollbackLog, vaultVars
    <3>3. ~Clean(p)
      BY <1>3, <3>2 DEF Clean
    <3>4. w \in overtaken
      BY <1>3, <3>1, <3>2, <3>3, UndoneIsClean
    <3> QED
      BY <3>2, <3>4 DEF ByHand
  <2> QED
    BY <2>1, <2>2
<1>4. Inv3 /\ SoundInv /\ TodoIsLive /\ [Next]_vars =>
        \A p \in Proposals :
          status'[p] = "rolled-back" /\ ~Clean(p)' =>
            \/ status[p] = "rolled-back" /\ ~Clean(p)
            \/ ByHand({"write", "rb-write", "rb-log"})
  BY <1>3
<1> QED
  BY Invariant3, InvariantSound, <1>1, <1>2, <1>4, PTL DEF Spec, RolledBackIsClean

\* A rollback that is past its check came there in steps of its own, on one proposal.
LEMMA RollbackSources ==
  ASSUME Inv1, [Next]_vars, NEW w \in Workers,
         wk'[w].pc \in {"rb-write", "rb-log", "rb-audit"}
  PROVE  /\ wk'[w].pid = wk[w].pid
         /\ \/ wk'[w] = wk[w] \/ RollbackRead(w) \/ RollbackWrite(w) \/ RollbackLog(w)
         /\ RollbackRead(w) \/ RollbackLog(w) => wk'[w].pc # "rb-log"
<1> USE DEF Inv1, TypeOK, WorkerTypes
<1>1. ASSUME NEW v \in Workers \ {w}, WorkerNext(v) PROVE wk'[w] = wk[w]
  BY <1>1 DEF WorkerNext, WorkerStep, WorkerLock, WorkerSnapshot, WorkerSelect, WorkerRead,
        WorkerWrite, WorkerLog, WorkerAudit, WorkerDeadLetter, WorkerRelease, WorkerCrash,
        RollbackLock, RollbackSkip, RollbackRead, RollbackWrite, RollbackLog, RollbackAudit
<1>2. ASSUME RollbackRead(w) PROVE wk'[w].pid = wk[w].pid /\ wk'[w].pc # "rb-log"
  BY <1>2 DEF Worker, RollbackRead
<1>3. ASSUME RollbackWrite(w) \/ RollbackLog(w) PROVE wk'[w].pid = wk[w].pid
  BY <1>3 DEF Worker, RollbackWrite, RollbackLog
<1>4. ASSUME RollbackLog(w) PROVE wk'[w].pc # "rb-log"
  BY <1>4 DEF Worker, RollbackLog
<1>5. ASSUME WorkerNext(w) PROVE RollbackRead(w) \/ RollbackWrite(w) \/ RollbackLog(w)
  <2>1. NextProposal(w).pc = "next" /\ IdleWorker.pc = "idle"
    BY DEF NextProposal, IdleWorker, Worker
  <2>2. ASSUME WorkerLock(w) \/ WorkerWrite(w) \/ WorkerLog(w) \/ WorkerSnapshot(w) PROVE FALSE
    <3>1. ASSUME WorkerLock(w) PROVE FALSE
      BY <3>1 DEF Worker, WorkerLock
    <3>2. ASSUME WorkerWrite(w) PROVE FALSE
      BY <3>2 DEF Worker, WorkerWrite
    <3>3. ASSUME WorkerLog(w) PROVE FALSE
      BY <3>3 DEF Worker, WorkerLog
    <3>4. ASSUME WorkerSnapshot(w) PROVE FALSE
      BY <3>4 DEF Worker, WorkerSnapshot
    <3> QED
      BY <2>2, <3>1, <3>2, <3>3, <3>4
  <2>3. ASSUME NEW p \in Proposals, WorkerSelect(w, p) PROVE FALSE
    BY <2>3 DEF Worker, WorkerSelect
  <2>4. ASSUME NEW p \in Proposals, RollbackLock(w, p) PROVE FALSE
    BY <2>4 DEF Worker, RollbackLock
  <2>5. ASSUME WorkerRead(w) PROVE FALSE
    BY <2>5 DEF Worker, WorkerRead
  <2>6. ASSUME WorkerAudit(w) \/ WorkerDeadLetter(w) PROVE FALSE
    BY <2>1, <2>6 DEF Worker, WorkerAudit, WorkerDeadLetter
  <2>7. ASSUME WorkerRelease(w) \/ WorkerCrash(w) \/ RollbackSkip(w) \/ RollbackAudit(w)
        PROVE  FALSE
    BY <2>1, <2>7 DEF WorkerRelease, WorkerCrash, RollbackSkip, RollbackAudit
  <2> QED
    BY <1>5, <2>2, <2>3, <2>4, <2>5, <2>6, <2>7 DEF WorkerNext, WorkerStep
<1> QED
  BY <1>1, <1>2, <1>3, <1>4, <1>5, WorkerWriters

--------------------------------------------------------------------------------
(***************************************************************************)
(* Dead letters.                                                           *)
(***************************************************************************)
\* What stands before the dead letter of the proposal at hand.
FailureInv ==
  \A w \in Workers :
    /\ wk[w].pc = "audit" /\ wk[w].outcome # None => "failed" \in trail[wk[w].pid]
    /\ wk[w].pc = "dlq" =>
         /\ "failed" \in trail[wk[w].pid]
         /\ Event("worker_apply", "worker", wk[w].pid, "failed") \in audit

LetterInv == FailureInv /\ DeadLettersAreOnRecord

\* The steps that bring a worker to its audit event and to its dead letter.
LEMMA FailureSources ==
  ASSUME Inv1, NEW w \in Workers, WorkerNext(w)
  PROVE  /\ wk'[w].pc = "audit" => WorkerLog(w)
         /\ wk'[w].pc = "dlq" => WorkerAudit(w)
<1> USE DEF Inv1, TypeOK, WorkerTypes
<1> DEFINE Elsewhere == wk'[w].pc \notin {"audit", "dlq"}
<1>1. CASE WorkerLock(w) \/ WorkerSnapshot(w) \/ WorkerWrite(w) \/ RollbackWrite(w) \/ RollbackLog(w)
  <2>1. Elsewhere
    BY <1>1 DEF Worker, WorkerLock, WorkerSnapshot, WorkerWrite, RollbackWrite, RollbackLog
  <2> QED
    BY <2>1
<1>2. CASE \E p \in Proposals : WorkerSelect(w, p)
  <2>1. Elsewhere
    BY <1>2 DEF Worker, WorkerSelect
  <2> QED
    BY <2>1
<1>3. CASE \E p \in Proposals : RollbackLock(w, p)
  <2>1. Elsewhere
    BY <1>3 DEF Worker, RollbackLock
  <2> QED
    BY <2>1
<1>4. CASE WorkerRead(w)
  <2>1. Elsewhere
    BY <1>4 DEF Worker, WorkerRead
  <2> QED
    BY <2>1
<1>5. CASE RollbackRead(w)
  <2>1. Elsewhere
    BY <1>5 DEF Worker, RollbackRead
  <2> QED
    BY <2>1
<1>6. CASE WorkerDeadLetter(w)
  <2>1. NextProposal(w).pc = "next"
    BY DEF NextProposal, Worker
  <2> QED
    BY <1>6, <2>1 DEF WorkerDeadLetter
<1>7. CASE WorkerRelease(w) \/ WorkerCrash(w) \/ RollbackSkip(w) \/ RollbackAudit(w)
  <2>1. wk'[w] = IdleWorker
    BY <1>7 DEF WorkerRelease, WorkerCrash, RollbackSkip, RollbackAudit
  <2> QED
    BY <2>1 DEF IdleWorker
<1>8. CASE WorkerLog(w)
  BY <1>8 DEF Worker, WorkerLog
<1>9. CASE WorkerAudit(w)
  <2>1. NextProposal(w).pc = "next"
    BY DEF NextProposal, Worker
  <2> QED
    BY <1>9, <2>1 DEF WorkerAudit, Worker
<1> QED
  BY <1>1, <1>2, <1>3, <1>4, <1>5, <1>6, <1>7, <1>8, <1>9 DEF WorkerNext, WorkerStep

LEMMA FailureStep ==
  ASSUME Inv1, FailureInv, [Next]_vars
  PROVE  FailureInv'
<1> USE DEF Inv1, TypeOK, WorkerTypes
<1>1. ASSUME NEW w \in Workers, wk'[w] = wk[w]
      PROVE  /\ wk'[w].pc = "audit" /\ wk'[w].outcome # None => "failed" \in trail'[wk'[w].pid]
             /\ wk'[w].pc = "dlq" =>
                  /\ "failed" \in trail'[wk'[w].pid]
                  /\ Event("worker_apply", "worker", wk'[w].pid, "failed") \in audit'
  <2>1. wk[w].pc \in {"audit", "dlq"} => wk[w].pid \in Proposals
    BY DEF WorkerInv, ApplyPcs, Worker
  <2> QED
    BY <1>1, <2>1, TrailGrows, AuditGrows DEF FailureInv
<1>2. ASSUME NEW w \in Workers, WorkerLog(w)
      PROVE  wk'[w].outcome # None => "failed" \in trail'[wk'[w].pid]
  <2>1. wk[w].pid \in Proposals
    BY <1>2 DEF WorkerLog, WorkerInv, ApplyPcs, Worker
  <2>2. wk'[w].pid = wk[w].pid /\ wk'[w].outcome = wk[w].outcome
    BY <1>2 DEF WorkerLog, Worker
  <2> QED
    BY <1>2, <2>1, <2>2 DEF WorkerLog, LogStatus, LogTypes
<1>3. ASSUME NEW w \in Workers, WorkerAudit(w), wk'[w].pc = "dlq"
      PROVE  /\ "failed" \in trail'[wk'[w].pid]
             /\ Event("worker_apply", "worker", wk'[w].pid, "failed") \in audit'
  <2>1. NextProposal(w).pc = "next"
    BY DEF NextProposal, Worker
  <2>2. wk[w].outcome # None /\ wk'[w] = [wk[w] EXCEPT !.pc = "dlq"]
    BY <1>3, <2>1 DEF WorkerAudit
  <2>3. wk'[w].pid = wk[w].pid
    BY <2>2 DEF Worker
  <2>4. "failed" \in trail[wk[w].pid] /\ UNCHANGED trail
    BY <1>3, <2>2 DEF WorkerAudit, FailureInv, logVars
  <2> QED
    BY <1>3, <2>2, <2>3, <2>4 DEF WorkerAudit, LogEvent
<1>4. ASSUME NEW v \in Workers, WorkerNext(v), NEW w \in Workers \ {v} PROVE wk'[w] = wk[w]
  BY <1>4 DEF WorkerNext, WorkerStep, WorkerLock, WorkerSnapshot, WorkerSelect, WorkerRead,
        WorkerWrite, WorkerLog, WorkerAudit, WorkerDeadLetter, WorkerRelease, WorkerCrash,
        RollbackLock, RollbackSkip, RollbackRead, RollbackWrite, RollbackLog, RollbackAudit
<1>5. ASSUME NEW w \in Workers, WorkerNext(w)
      PROVE  /\ wk'[w].pc = "audit" /\ wk'[w].outcome # None => "failed" \in trail'[wk'[w].pid]
             /\ wk'[w].pc = "dlq" =>
                  /\ "failed" \in trail'[wk'[w].pid]
                  /\ Event("worker_apply", "worker", wk'[w].pid, "failed") \in audit'
  BY <1>2, <1>3, <1>5, FailureSources
<1> QED
  BY <1>1, <1>4, <1>5, WorkerWriters DEF FailureInv

\* Only a worker that failed to apply a proposal adds a dead letter.
LEMMA LetterWriters ==
  ASSUME [Next]_vars
  PROVE  (\E w \in Workers : WorkerDeadLetter(w)) \/ UNCHANGED dlq
<1>1. ASSUME NEW s \in Sessions, SessionNext(s) PROVE UNCHANGED dlq
  BY <1>1 DEF SessionNext, CaptureRead, CaptureAppend, CaptureAudit, DecisionRead,
              DecisionAudit, DecisionAppend, CallCrash, workerVars
<1>2. ASSUME NEW w \in Workers, WorkerNext(w), ~WorkerDeadLetter(w) PROVE UNCHANGED dlq
  BY <1>2 DEF WorkerNext, WorkerStep, WorkerLock, WorkerSnapshot, WorkerSelect, WorkerRead,
              WorkerWrite, WorkerLog, WorkerAudit, WorkerRelease, WorkerCrash, RollbackLock,
              RollbackSkip, RollbackRead, RollbackWrite, RollbackLog, RollbackAudit
<1>3. ASSUME WorldNext \/ UNCHANGED vars PROVE UNCHANGED dlq
  BY <1>3 DEF WorldNext, EditCard, RenameCard, Tick, vars, workerVars
<1> QED
  BY <1>1, <1>2, <1>3 DEF Next, WorldNext

LEMMA LetterStep ==
  ASSUME Inv1, LetterInv, [Next]_vars
  PROVE  DeadLettersAreOnRecord'
<1> SUFFICES ASSUME NEW e \in dlq'
             PROVE  /\ "failed" \in trail'[e[1]]
                    /\ Event("worker_apply", "worker", e[1], "failed") \in audit'
  BY DEF DeadLettersAreOnRecord
<1>1. CASE e \in dlq
  <2>1. e[1] \in Proposals
    BY <1>1 DEF Inv1, TypeOK, RecordTypes
  <2> QED
    BY <1>1, <2>1, TrailGrows, AuditGrows DEF LetterInv, DeadLettersAreOnRecord
<1>2. ASSUME NEW w \in Workers, WorkerDeadLetter(w), e = <<wk[w].pid, wk[w].outcome>>
      PROVE  /\ "failed" \in trail'[e[1]]
             /\ Event("worker_apply", "worker", e[1], "failed") \in audit'
  BY <1>2 DEF WorkerDeadLetter, LetterInv, FailureInv, logVars
<1> QED
  BY <1>1, <1>2, LetterWriters DEF WorkerDeadLetter

\* A dead letter never stands alone: the failed status and the audit event were
\* written before it, and no crash in between leaves the letter without them
\* (worker.py apply_approved's order of writes).
THEOREM LettersHaveRecords == Spec => []DeadLettersAreOnRecord
<1>1. Init => LetterInv
  BY DEF Init, LetterInv, FailureInv, DeadLettersAreOnRecord, IdleWorker
<1>2. Inv1 /\ LetterInv /\ [Next]_vars => LetterInv'
  BY FailureStep, LetterStep DEF LetterInv
<1>3. LetterInv => DeadLettersAreOnRecord
  BY DEF LetterInv
<1> QED
  BY Invariant1, <1>1, <1>2, <1>3, PTL DEF Spec

--------------------------------------------------------------------------------
(***************************************************************************)
(* The end of a proposal's life.                                           *)
(***************************************************************************)

\* Nobody who is still at work logs a status for a quiet proposal that has ended.
LEMMA QuietKeepsStatus ==
  ASSUME Inv2, [Next]_vars, NEW p \in Proposals, status[p] \in Final, Quiet(p)
  PROVE  status'[p] = status[p]
<1> USE DEF Inv2, Inv1, TypeOK, LogTypes
<1>1. ASSUME NEW s \in Sessions, CaptureAppend(s) PROVE status'[p] = status[p]
  <2>1. PICK n \in 0 .. MaxProposals : \A q \in Proposals : status[q] # "none" <=> q <= n
    BY DEF MintInv
  <2>2. NextId = n + 1 /\ p <= n
    BY <2>1, NextIdIsFresh DEF Final
  <2>3. p # NextId
    BY <2>2, ProposalsAssumption DEF Proposals
  <2> QED
    BY <1>1, <2>3 DEF CaptureAppend, LogStatus
<1>2. ASSUME NEW s \in Sessions, DecisionAppend(s) PROVE status'[p] = status[p]
  <2>1. call[s].pid # p
    BY <1>2 DEF DecisionAppend, CallInv, Quiet
  <2> QED
    BY <1>2, <2>1 DEF DecisionAppend, LogStatus
<1>3. ASSUME NEW w \in Workers, WorkerLog(w) \/ RollbackLog(w) PROVE status'[p] = status[p]
  <2>1. wk[w].pid # p
    BY <1>3 DEF WorkerLog, RollbackLog, Quiet
  <2> QED
    BY <1>3, <2>1 DEF WorkerLog, RollbackLog, LogStatus
<1> QED
  BY <1>1, <1>2, <1>3, LogWriters

\* What a gateway call holds of a proposal is what it held, or a fresh reading.
LEMMA CallSources ==
  ASSUME Inv1, [Next]_vars, NEW s \in Sessions, call'[s].pc \in {"decide", "append"}
  PROVE  \/ call'[s] = call[s]
         \/ /\ call[s].pc = "decide"
            /\ call'[s] = [call[s] EXCEPT !.pc = "append"]
         \/ \E op \in Decisions, p \in Proposals :
              call'[s].op = op /\ call'[s].pid = p /\ call'[s].seen = status[p]
<1> USE DEF Inv1, TypeOK, CallTypes
<1>1. ASSUME NEW t \in Sessions \ {s}, SessionNext(t) PROVE call'[s] = call[s]
  BY <1>1 DEF SessionNext, CaptureRead, CaptureAppend, CaptureAudit, DecisionRead,
              DecisionAudit, DecisionAppend, CallCrash
<1>2. ASSUME NEW type \in CaptureTypes, NEW c \in Cards, NEW quotes \in NoteQuotes,
               CaptureRead(s, type, c, quotes) PROVE FALSE
  BY <1>2 DEF CaptureRead, Call
<1>3. ASSUME CaptureAppend(s) PROVE FALSE
  <2>1. \A n : [IdleCall EXCEPT !.pc = "captured", !.pid = n].pc = "captured"
    BY DEF IdleCall
  <2> QED
    BY <1>3, <2>1 DEF CaptureAppend
<1>4. ASSUME CaptureAudit(s) \/ DecisionAppend(s) \/ CallCrash(s) PROVE FALSE
  BY <1>4 DEF CaptureAudit, DecisionAppend, CallCrash, IdleCall
<1>5. ASSUME DecisionAudit(s)
      PROVE  call[s].pc = "decide" /\ call'[s] = [call[s] EXCEPT !.pc = "append"]
  BY <1>5 DEF DecisionAudit, IdleCall
<1>6. ASSUME NEW op \in Decisions, NEW p \in Proposals, NEW days \in TtlRequests,
             DecisionRead(s, op, p, days)
      PROVE  call'[s].op = op /\ call'[s].pid = p /\ call'[s].seen = status[p]
  BY <1>6 DEF DecisionRead, IdleCall
<1>7. ASSUME NEW w \in Workers, WorkerNext(w) PROVE UNCHANGED call
  BY <1>7 DEF WorkerNext, WorkerStep, WorkerLock, WorkerSnapshot, WorkerSelect, WorkerRead,
              WorkerWrite, WorkerLog, WorkerAudit, WorkerDeadLetter, WorkerRelease, WorkerCrash,
              RollbackLock, RollbackSkip, RollbackRead, RollbackWrite, RollbackLog,
              RollbackAudit
<1>8. ASSUME WorldNext \/ UNCHANGED vars PROVE UNCHANGED call
  BY <1>8 DEF WorldNext, EditCard, RenameCard, Tick, vars
<1>9. ASSUME SessionNext(s)
      PROVE  \/ DecisionAudit(s)
             \/ \E op \in Decisions, p \in Proposals, days \in TtlRequests :
                  DecisionRead(s, op, p, days)
  BY <1>2, <1>3, <1>4, <1>9 DEF SessionNext
<1> QED
  BY <1>1, <1>5, <1>6, <1>7, <1>8, <1>9 DEF Next, WorldNext

LEMMA QuietCalls ==
  ASSUME Inv1, [Next]_vars, NEW p \in Proposals, status[p] \in Final, Quiet(p),
         NEW s \in Sessions, call'[s].pid = p, call'[s].pc \in {"decide", "append"}
  PROVE  call'[s].seen \notin Decidable(call'[s].op)
<1>1. CASE call'[s] = call[s]
  BY <1>1 DEF Quiet
<1>2. CASE call[s].pc = "decide" /\ call'[s] = [call[s] EXCEPT !.pc = "append"]
  <2>1. /\ call'[s].pid = call[s].pid /\ call'[s].seen = call[s].seen
        /\ call'[s].op = call[s].op
    BY <1>2 DEF Inv1, TypeOK, CallTypes, Call
  <2> QED
    BY <1>2, <2>1 DEF Quiet
<1>3. CASE \E op \in Decisions, q \in Proposals :
             call'[s].op = op /\ call'[s].pid = q /\ call'[s].seen = status[q]
  BY <1>3 DEF Final, Decidable, Decisions
<1> QED
  BY <1>1, <1>2, <1>3, CallSources

LEMMA QuietRuns ==
  ASSUME Inv1, Inv1', [Next]_vars, NEW p \in Proposals, status[p] \in Final, Quiet(p),
         NEW w \in Workers, wk'[w].pc # "idle"
  PROVE  p \notin wk'[w].todo /\ (wk'[w].pid = p => wk'[w].pc = "rb-read")
<1>1. p \notin wk[w].todo
  BY DEF Quiet, Inv1, WorkerInv, ApplyPcs
<1>2. p \notin wk'[w].todo
  BY <1>1, TodoWriters DEF Final
<1>3. ASSUME wk'[w].pid = p PROVE wk'[w].pc = "rb-read"
  <2>1. wk'[w].pc \notin ApplyPcs
    BY <1>2, <1>3 DEF Inv1, WorkerInv
  <2>2. wk'[w].pc \notin {"idle", "locked", "next"}
    BY <1>3, NoneAssumption DEF Inv1, WorkerInv
  <2>3. ASSUME wk'[w].pc \in {"rb-write", "rb-log", "rb-audit"} PROVE FALSE
    <3>1. wk[w].pid = p
      BY <1>3, <2>3, RollbackSources
    <3>2. CASE wk'[w] = wk[w]
      BY <2>3, <3>1, <3>2 DEF Quiet
    <3>3. CASE RollbackRead(w)
      BY <3>1, <3>3 DEF RollbackRead, Final
    <3>4. CASE RollbackWrite(w) \/ RollbackLog(w)
      BY <3>1, <3>4 DEF RollbackWrite, RollbackLog, Quiet
    <3> QED
      BY <2>3, <3>2, <3>3, <3>4, RollbackSources
  <2>4. wk'[w].pc \in WorkerPcs
    BY DEF Inv1, TypeOK, WorkerTypes, Worker
  <2> QED
    BY <2>1, <2>2, <2>3, <2>4 DEF WorkerPcs, ApplyPcs
<1> QED
  BY <1>2, <1>3

\* Once a proposal is rejected, revoked, failed or rolled back and the calls and the
\* runs that had read an earlier status are over, nothing moves it again (the status
\* guards of the three decisions, the worker's filter on "approved", rollback's on
\* "applied").
THEOREM EndIsFinal == Spec => FinalOnceQuiet
<1>1. ASSUME Inv2, Inv2', [Next]_vars
      PROVE  \A p \in Proposals :
               status[p] \in Final /\ Quiet(p) => status'[p] = status[p] /\ Quiet(p)'
  <2> SUFFICES ASSUME NEW p \in Proposals, status[p] \in Final, Quiet(p)
               PROVE  status'[p] = status[p] /\ Quiet(p)'
    OBVIOUS
  <2>1. status'[p] = status[p]
    BY <1>1, QuietKeepsStatus
  <2>2. \A s \in Sessions :
          call'[s].pid = p /\ call'[s].pc \in {"decide", "append"}
            => call'[s].seen \notin Decidable(call'[s].op)
    BY <1>1, QuietCalls DEF Inv2
  <2>3. \A w \in Workers :
          wk'[w].pc # "idle" =>
            p \notin wk'[w].todo /\ (wk'[w].pid = p => wk'[w].pc = "rb-read")
    BY <1>1, QuietRuns DEF Inv2
  <2>4. Quiet(p)'
    BY <2>2, <2>3 DEF Quiet, Decidable
  <2> QED
    BY <2>1, <2>4
<1> QED
  BY Invariant2, <1>1, PTL DEF Spec, FinalOnceQuiet

================================================================================

------------------------------- MODULE Governance -------------------------------
(***************************************************************************)
(* The write-governance core: proposals captured, approved, rejected and   *)
(* revoked by concurrent gateway calls (governance.py), the append-only    *)
(* proposal log they share (proposals.py), and the single-writer worker    *)
(* that applies approved proposals to the cards and rolls them back        *)
(* (worker.py).                                                            *)
(*                                                                         *)
(* Every call reads the log, then audits, then appends: three critical     *)
(* sections of the file locks, hence three steps.  The log is represented  *)
(* by its merged view (ProposalStore._merge): status, draft and approval   *)
(* of each proposal, plus the set of statuses it holds for the proposal.   *)
(* A status record merges into the view by replacing the status; an        *)
(* approval record replaces the whole approval as well.                    *)
(*                                                                         *)
(* Abstractions of data: a card is a revision of its hand-written part,    *)
(* whether its frontmatter parses, and a bag of the bullets in its Review  *)
(* Needed section (line order and wording are left out); a body stands for *)
(* its own content hash; a bullet is identified by what makes its text     *)
(* different: proposal, approver and approval time.  Of a note it matters  *)
(* whose "(proposal <id>," it quotes, since a rollback goes by that text.  *)
(* Left out: a line that repeats a whole bullet before it is written (a    *)
(* note would have to foretell the time of the approval), and what a       *)
(* rollback does to hand-written lines that quote its proposal.            *)
(***************************************************************************)
EXTENDS Integers, FiniteSets

CONSTANTS
  MaxProposals,   \* bound on the proposals captured
  Cards,          \* entity ids a proposal can target
  Sessions,       \* concurrent gateway calls
  Workers,        \* worker processes (apply_approved or rollback)
  Actors,         \* people behind the sessions
  ActorOf,        \* [Sessions -> Actors]
  RoleOf,         \* [Actors -> roles]
  ApproverRoles,  \* access-policy.json "approver_roles"
  Keys,           \* approval keys
  KeyOf,          \* key each session and worker resolved at start-up
  CaptureTypes,   \* proposal types the sessions submit
  NoteQuotes,     \* sets of proposals whose id phrase a note may quote
  TtlRequests,    \* ttl_days values the approvers pass
  MaxTtl,         \* MAX_GRANT_TTL_DAYS
  MaxCalls,       \* bound on the gateway calls made
  MaxTime,        \* bound on the clock, in days
  MaxEdits,       \* bound on edits of the vault made outside the worker
  MaxCrashes,     \* bound on crashes
  None            \* absent value

ProposalTypes == {"flag_stale_or_wrong", "request_redaction_review",
                  "request_access", "ingest_resource"}

Proposals == 1 .. MaxProposals   \* proposal ids

ASSUME ProposalsAssumption == MaxProposals \in Nat
ASSUME CallersAssumption ==
  /\ ActorOf \in [Sessions -> Actors]
  /\ KeyOf \in [Sessions \cup Workers -> Keys]
ASSUME TypesAssumption ==
  CaptureTypes \subseteq ProposalTypes /\ NoteQuotes \subseteq SUBSET Proposals
ASSUME TtlAssumption == TtlRequests \subseteq Int /\ MaxTtl \in Nat \ {0}
ASSUME BoundsAssumption ==
  /\ MaxCalls \in Nat /\ MaxTime \in Nat
  /\ MaxEdits \in Nat /\ MaxCrashes \in Nat
ASSUME NoneAssumption ==
  None \notin Proposals \cup Cards \cup Workers \cup Nat \cup Actors

VARIABLES
  status,      \* merged status per proposal
  trail,       \* statuses logged for each proposal
  draft,       \* captured fields per proposal
  approval,    \* fields of the latest approval record per proposal
  cards,       \* content of each card
  resolvable,  \* Retriever.find(target) yields exactly this card
  audit,       \* events of the audit log
  dlq,         \* <<proposal, reason>> entries of the dead-letter queue
  call,        \* local state of each gateway call
  lock,        \* holder of .worker.lock
  wk,          \* local state of each worker
  now,         \* the clock
  calls,       \* gateway calls so far
  edits,       \* external edits so far
  crashes,     \* crashes so far
  past,        \* history: texts a card had before, which an edit may put back
  overtaken    \* history: workers whose card was edited by hand since they read it

logVars == <<status, trail, draft, approval>>
vaultVars == <<cards, resolvable, edits, past, overtaken>>
workerVars == <<lock, wk, dlq>>
vars == <<logVars, vaultVars, workerVars, audit, call, calls, now, crashes>>

--------------------------------------------------------------------------------
Life == INSTANCE ProposalLifecycle
Status == Life!Status

Approval == [by : Actors, at : 0 .. MaxTime, expires : Int \cup {None}, key : Keys]
Approvals == [Proposals -> Approval \cup {None}]
Bullet == [pid : Proposals, by : Actors, at : 0 .. MaxTime]
Meta == {"parses", "broken"}   \* the frontmatter of a card
Card == [rev : Nat, meta : Meta, bullets : [Bullet -> Nat]]
Body == [rev : Nat, bullets : [Bullet -> Nat]]
BodyOf(card) == [rev |-> card.rev, bullets |-> card.bullets]
Draft == [ptype : ProposalTypes, target : Cards, requester : Actors,
          base : Body \cup {None}, quotes : SUBSET Proposals]
AuditEvent == [tool : {"capture", "approve", "reject", "revoke",
                       "worker_apply", "worker_rollback"},
               actor : Actors \cup {"worker"},
               pid : Proposals,
               decision : {"proposal", "allow", "block", "applied", "failed",
                           "rolled-back", "target-not-found"}]
Failures == {"unsigned-or-invalid-approval", "target-not-found",
             "base-version-mismatch", "post-apply-validation-failed"}

IdleCall == [pc |-> "idle", op |-> None, pid |-> None, seen |-> None,
             expires |-> None, req |-> None]
IdleWorker == [pc |-> "idle", todo |-> {}, appr |-> None, pid |-> None,
               body |-> None, text |-> None, outcome |-> None]


(***************************************************************************)
(* Definitions whose name begins with Faulty are not part of the model:    *)
(* each is a definition below with a plausible bug, and shows that some    *)
(* property fails when the bug is made.                                    *)
(***************************************************************************)
Event(t, a, p, d) == [tool |-> t, actor |-> a, pid |-> p, decision |-> d]

CanApprove(a) == RoleOf[a] \in ApproverRoles

FaultyClamp(days) == IF days < 1 THEN 1 ELSE days

\* max(1, min(days, MAX_GRANT_TTL_DAYS))
Clamp(days) ==
  IF days < 1 THEN 1 ELSE IF days > MaxTtl THEN MaxTtl ELSE days

LogStatus(p, s) ==
  /\ status' = [status EXCEPT ![p] = s]
  /\ trail' = [trail EXCEPT ![p] = @ \cup {s}]

LogEvent(t, a, p, d) == audit' = audit \cup {Event(t, a, p, d)}

--------------------------------------------------------------------------------
(***************************************************************************)
(* Access grants, derived from the merged view at every read.              *)
(***************************************************************************)
GrantActive(p, k, t) ==
  /\ status[p] \in {"approved", "applied"}
  /\ draft[p].ptype = "request_access"
  /\ approval[p].key = k
  /\ approval[p].expires > t

\* {(requester, target, boundary)} as the gateway holding key k sees it at time t.
ActiveGrants(k, t) ==
  UNION {
    LET boundaries == {"sales-confidential"} \cup
          (IF RoleOf[approval[p].by] = "admin" THEN {"personal-data"} ELSE {})
    IN  {<<draft[p].requester, draft[p].target, b>> : b \in boundaries} :
    p \in {q \in Proposals : GrantActive(q, k, t)}}

--------------------------------------------------------------------------------
(***************************************************************************)
(* Gateway calls.                                                          *)
(***************************************************************************)

\* Resolve the target and hash its body, before the log is locked.
CaptureRead(s, type, c, quotes) ==
  /\ call[s].pc = "idle"
  /\ calls < MaxCalls
  /\ calls' = calls + 1
  /\ call' = [call EXCEPT ![s].pc = "capture",
                          ![s].req = [ptype |-> type, target |-> c,
                                      requester |-> ActorOf[s], quotes |-> quotes,
                                      base |-> IF resolvable[c] THEN BodyOf(cards[c]) ELSE None]]
  /\ UNCHANGED <<logVars, vaultVars, workerVars, audit, now, crashes>>

FaultyNextId == Cardinality({p \in Proposals : status[p] = "draft"}) + 1

\* ProposalStore.append counts the ids in the log and appends under one lock.
NextId == Cardinality({p \in Proposals : status[p] # "none"}) + 1

CaptureAppend(s) ==
  /\ call[s].pc = "capture"
  /\ NextId \in Proposals
  /\ LogStatus(NextId, "draft")
  /\ draft' = [draft EXCEPT ![NextId] = call[s].req]
  /\ call' = [call EXCEPT ![s] = [IdleCall EXCEPT !.pc = "captured", !.pid = NextId]]
  /\ UNCHANGED <<approval, vaultVars, workerVars, audit, calls, now, crashes>>

CaptureAudit(s) ==
  /\ call[s].pc = "captured"
  /\ LogEvent("capture", ActorOf[s], call[s].pid, "proposal")
  /\ call' = [call EXCEPT ![s] = IdleCall]
  /\ UNCHANGED <<logVars, vaultVars, workerVars, calls, now, crashes>>

Decisions == {"approve", "reject", "revoke"}

\* Read the proposal's state (an unknown id reads as no state) and, for an
\* access request, compute the expiry from the current time.
DecisionRead(s, op, p, days) ==
  /\ call[s].pc = "idle"
  /\ calls < MaxCalls
  /\ calls' = calls + 1
  /\ call' = [call EXCEPT
       ![s] = [IdleCall EXCEPT
                 !.pc = "decide", !.op = op, !.pid = p, !.seen = status[p],
                 !.expires = IF /\ op = "approve"
                                /\ status[p] # "none"
                                /\ draft[p].ptype = "request_access"
                             THEN now + Clamp(days) ELSE None]]
  /\ UNCHANGED <<logVars, vaultVars, workerVars, audit, now, crashes>>

\* The statuses, as read, under which each decision goes through.
Decidable(op) == IF op = "revoke" THEN {"approved", "applied"} ELSE {"draft"}

FaultyDecisionAudit(s) ==
  /\ call[s].pc = "decide"
  /\ call' = [call EXCEPT ![s] =
       IF CanApprove(ActorOf[s]) /\ call[s].seen \in Decidable(call[s].op)
       THEN [call[s] EXCEPT !.pc = "append"] ELSE IdleCall]
  /\ UNCHANGED <<logVars, vaultVars, workerVars, audit, calls, now, crashes>>

\* The audit event precedes every early return and the status append.
DecisionAudit(s) ==
  /\ call[s].pc = "decide"
  /\ LET allowed == CanApprove(ActorOf[s])
     IN  /\ LogEvent(call[s].op, ActorOf[s], call[s].pid,
                     IF allowed THEN "allow" ELSE "block")
         /\ call' = [call EXCEPT ![s] =
              IF allowed /\ call[s].seen \in Decidable(call[s].op)
              THEN [call[s] EXCEPT !.pc = "append"] ELSE IdleCall]
  /\ UNCHANGED <<logVars, vaultVars, workerVars, calls, now, crashes>>

FaultyOutcome(op) == op
Outcome(op) ==
  CASE op = "approve" -> "approved"
    [] op = "reject"  -> "rejected"
    [] op = "revoke"  -> "revoked"

\* The append does not look at the log again: the status read may be stale.
DecisionAppend(s) ==
  /\ call[s].pc = "append"
  /\ LogStatus(call[s].pid, Outcome(call[s].op))
  /\ approval' =
       IF call[s].op = "approve"
       THEN [approval EXCEPT ![call[s].pid] =
              [by |-> ActorOf[s], at |-> now, expires |-> call[s].expires, key |-> KeyOf[s]]]
       ELSE approval
  /\ call' = [call EXCEPT ![s] = IdleCall]
  /\ UNCHANGED <<draft, vaultVars, workerVars, audit, calls, now, crashes>>

\* The process serving the call is killed, or its caller timed out.
CallCrash(s) ==
  /\ call[s].pc # "idle"
  /\ crashes < MaxCrashes
  /\ crashes' = crashes + 1
  /\ call' = [call EXCEPT ![s] = IdleCall]
  /\ UNCHANGED <<logVars, vaultVars, workerVars, audit, calls, now>>

--------------------------------------------------------------------------------
(***************************************************************************)
(* The worker.  apply_approved: lock, one snapshot of the log, then the    *)
(* approved proposals of that snapshot in id order.                        *)
(***************************************************************************)
BulletOf(p, a) == [pid |-> p, by |-> a.by, at |-> a.at]
FaultyAddBullet(card, b) ==
  [card EXCEPT !.bullets = [other \in Bullet |-> IF other = b THEN 1 ELSE 0]]
AddBullet(card, b) == [card EXCEPT !.bullets[b] = @ + 1]
FaultyWithout(card, p) == [card EXCEPT !.bullets[BulletOf(p, approval[p])] = 0]

\* The text of b holds "(proposal p,": as its own id or in the note.
Mentions(b, p) == b.pid = p \/ (status[b.pid] # "none" /\ p \in draft[b.pid].quotes)

\* Every line that holds "(proposal p," goes.
Without(card, p) ==
  [card EXCEPT !.bullets = [b \in Bullet |-> IF Mentions(b, p) THEN 0 ELSE card.bullets[b]]]
Has(card, b) == card.bullets[b] > 0

\* A text of c is replaced by another one; past keeps it while an edit is left
\* that could put it back.
Replace(c, text) ==
  /\ cards' = [cards EXCEPT ![c] = text]
  /\ past' = IF edits < MaxEdits THEN [past EXCEPT ![c] = @ \cup {cards[c]}] ELSE past

FaultyAlreadyApplied(text, b) == FALSE
FaultyAlreadyAppliedAny(text, b) == \E other \in Bullet : Has(text, other)
\* if f"- {bullet}" in original
AlreadyApplied(text, b) == Has(text, b)

\* flock(LOCK_EX | LOCK_NB); a second process returns without doing anything.
WorkerLock(w) ==
  /\ wk[w].pc = "idle"
  /\ lock = None
  /\ lock' = w
  /\ wk' = [wk EXCEPT ![w].pc = "locked"]
  /\ UNCHANGED <<logVars, vaultVars, dlq, audit, call, calls, now, crashes>>

FaultyWorkerSnapshot(w) ==
  /\ wk[w].pc = "locked"
  /\ wk' = [wk EXCEPT ![w].pc = "next",
                      ![w].todo = {p \in Proposals : status[p] \in {"approved", "failed"}},
                      ![w].appr = approval]
  /\ UNCHANGED <<logVars, vaultVars, lock, dlq, audit, call, calls, now, crashes>>

\* The only read of the log in the run.
WorkerSnapshot(w) ==
  /\ wk[w].pc = "locked"
  /\ wk' = [wk EXCEPT ![w].pc = "next",
                      ![w].todo = {p \in Proposals : status[p] = "approved"},
                      ![w].appr = approval]
  /\ UNCHANGED <<logVars, vaultVars, lock, dlq, audit, call, calls, now, crashes>>

\* Proposals are taken in the order of their ids.
IsNext(w, p) ==
  /\ p \in wk[w].todo
  /\ \A q \in wk[w].todo : p <= q

FaultyWorkerSelect(w, p) ==
  /\ wk[w].pc = "next"
  /\ IsNext(w, p)
  /\ LET found == resolvable[draft[p].target]
     IN  wk' = [wk EXCEPT ![w].pid = IF found THEN p ELSE None,
                          ![w].pc = IF found THEN "read" ELSE "next",
                          ![w].todo = IF found THEN @ ELSE @ \ {p},
                          ![w].body = IF found
                                      THEN BodyOf(cards[draft[p].target]) ELSE None]
  /\ UNCHANGED <<logVars, vaultVars, lock, dlq, audit, call, calls, now, crashes>>

\* Verify the signature, then resolve the target (its type has a handler and
\* its payload hash matches in every log the gateway writes).
WorkerSelect(w, p) ==
  /\ wk[w].pc = "next"
  /\ IsNext(w, p)
  /\ LET failure == IF wk[w].appr[p].key # KeyOf[w] THEN "unsigned-or-invalid-approval"
                    ELSE IF ~resolvable[draft[p].target] THEN "target-not-found"
                    ELSE None
     IN  wk' = [wk EXCEPT ![w].pid = p,
                          ![w].outcome = failure,
                          ![w].pc = IF failure = None THEN "read" ELSE "log",
                          ![w].body = IF failure = None
                                      THEN BodyOf(cards[draft[p].target]) ELSE None]
  /\ UNCHANGED <<logVars, vaultVars, lock, dlq, audit, call, calls, now, crashes>>

BaseMoved(p, body) == draft[p].base # None /\ body # draft[p].base

\* Read the text to update; the idempotency test comes before the base check,
\* and the base check uses the body found earlier.
WorkerRead(w) ==
  /\ wk[w].pc = "read"
  /\ LET p == wk[w].pid
         text == cards[draft[p].target]
         done == AlreadyApplied(text, BulletOf(p, wk[w].appr[p]))
         failure == IF done THEN None
                    ELSE IF BaseMoved(p, wk[w].body) THEN "base-version-mismatch"
                    ELSE IF text.meta = "broken" THEN "post-apply-validation-failed"
                    ELSE None
     IN  wk' = [wk EXCEPT ![w].text = text,
                          ![w].body = None,
                          ![w].outcome = failure,
                          ![w].pc = IF done \/ failure # None THEN "log" ELSE "write"]
  /\ overtaken' = overtaken \ {w}
  /\ UNCHANGED <<logVars, cards, resolvable, edits, past, lock, dlq, audit, call, calls, now, crashes>>

\* os.replace of the whole file by the updated text.
WorkerWrite(w) ==
  /\ wk[w].pc = "write"
  /\ LET p == wk[w].pid
     IN  Replace(draft[p].target, AddBullet(wk[w].text, BulletOf(p, wk[w].appr[p])))
  /\ wk' = [wk EXCEPT ![w].pc = "log"]
  /\ UNCHANGED <<logVars, resolvable, edits, overtaken, lock, dlq, audit, call, calls, now, crashes>>

WorkerLog(w) ==
  /\ wk[w].pc = "log"
  /\ LogStatus(wk[w].pid, IF wk[w].outcome = None THEN "applied" ELSE "failed")
  /\ wk' = [wk EXCEPT ![w].pc = "audit"]
  /\ UNCHANGED <<draft, approval, vaultVars, lock, dlq, audit, call, calls, now, crashes>>

NextProposal(w) ==
  [wk[w] EXCEPT !.pc = "next", !.todo = @ \ {wk[w].pid},
                !.pid = None, !.text = None, !.outcome = None]

FaultyWorkerAudit(w) ==
  /\ wk[w].pc = "audit"
  /\ audit' = IF wk[w].outcome = None
              THEN audit \cup {Event("worker_apply", "worker", wk[w].pid, "applied")}
              ELSE audit
  /\ wk' = [wk EXCEPT ![w] =
        IF wk[w].outcome = None THEN NextProposal(w) ELSE [wk[w] EXCEPT !.pc = "dlq"]]
  /\ UNCHANGED <<logVars, vaultVars, lock, dlq, call, calls, now, crashes>>

WorkerAudit(w) ==
  /\ wk[w].pc = "audit"
  /\ LogEvent("worker_apply", "worker", wk[w].pid,
              IF wk[w].outcome = None THEN "applied" ELSE "failed")
  /\ wk' = [wk EXCEPT ![w] =
        IF wk[w].outcome = None THEN NextProposal(w) ELSE [wk[w] EXCEPT !.pc = "dlq"]]
  /\ UNCHANGED <<logVars, vaultVars, lock, dlq, call, calls, now, crashes>>

WorkerDeadLetter(w) ==
  /\ wk[w].pc = "dlq"
  /\ dlq' = dlq \cup {<<wk[w].pid, wk[w].outcome>>}
  /\ wk' = [wk EXCEPT ![w] = NextProposal(w)]
  /\ UNCHANGED <<logVars, vaultVars, lock, audit, call, calls, now, crashes>>

WorkerRelease(w) ==
  /\ wk[w].pc = "next"
  /\ wk[w].todo = {}
  /\ lock' = None
  /\ wk' = [wk EXCEPT ![w] = IdleWorker]
  /\ UNCHANGED <<logVars, vaultVars, dlq, audit, call, calls, now, crashes>>

FaultyWorkerCrash(w) ==
  /\ wk[w].pc # "idle"
  /\ crashes < MaxCrashes
  /\ crashes' = crashes + 1
  /\ wk' = [wk EXCEPT ![w] = IdleWorker]
  /\ UNCHANGED <<logVars, vaultVars, lock, dlq, audit, call, calls, now>>

\* The kernel drops the flock of a dead process; nothing else is undone.
WorkerCrash(w) ==
  /\ wk[w].pc # "idle"
  /\ crashes < MaxCrashes
  /\ crashes' = crashes + 1
  /\ lock' = IF lock = w THEN None ELSE lock
  /\ wk' = [wk EXCEPT ![w] = IdleWorker]
  /\ UNCHANGED <<logVars, vaultVars, dlq, audit, call, calls, now>>

--------------------------------------------------------------------------------
(***************************************************************************)
(* rollback(proposal_id), under the same lock.                             *)
(***************************************************************************)
RollbackLock(w, p) ==
  /\ wk[w].pc = "idle"
  /\ lock = None
  /\ lock' = w
  /\ wk' = [wk EXCEPT ![w].pc = "rb-read", ![w].pid = p]
  /\ UNCHANGED <<logVars, vaultVars, dlq, audit, call, calls, now, crashes>>

\* Only an applied proposal is rolled back; any other status is a no-op.
RollbackSkip(w) ==
  /\ wk[w].pc = "rb-read"
  /\ status[wk[w].pid] # "applied"
  /\ lock' = None
  /\ wk' = [wk EXCEPT ![w] = IdleWorker]
  /\ UNCHANGED <<logVars, vaultVars, dlq, audit, call, calls, now, crashes>>

RollbackRead(w) ==
  /\ wk[w].pc = "rb-read"
  /\ status[wk[w].pid] = "applied"
  /\ LET c == draft[wk[w].pid].target
     IN  wk' = [wk EXCEPT ![w].text = IF resolvable[c]
                                      THEN Without(cards[c], wk[w].pid) ELSE None,
                          ![w].pc = IF resolvable[c] THEN "rb-write" ELSE "rb-audit",
                          ![w].outcome = IF resolvable[c] THEN None ELSE "target-not-found"]
  /\ overtaken' = overtaken \ {w}
  /\ UNCHANGED <<logVars, cards, resolvable, edits, past, lock, dlq, audit, call, calls, now, crashes>>

RollbackWrite(w) ==
  /\ wk[w].pc = "rb-write"
  /\ Replace(draft[wk[w].pid].target, wk[w].text)
  /\ wk' = [wk EXCEPT ![w].pc = "rb-log"]
  /\ UNCHANGED <<logVars, resolvable, edits, overtaken, lock, dlq, audit, call, calls, now, crashes>>

RollbackLog(w) ==
  /\ wk[w].pc = "rb-log"
  /\ LogStatus(wk[w].pid, "rolled-back")
  /\ wk' = [wk EXCEPT ![w].pc = "rb-audit"]
  /\ UNCHANGED <<draft, approval, vaultVars, lock, dlq, audit, call, calls, now, crashes>>

RollbackAudit(w) ==
  /\ wk[w].pc = "rb-audit"
  /\ LogEvent("worker_rollback", "worker", wk[w].pid,
              IF wk[w].outcome = None THEN "rolled-back" ELSE "target-not-found")
  /\ lock' = None
  /\ wk' = [wk EXCEPT ![w] = IdleWorker]
  /\ UNCHANGED <<logVars, vaultVars, dlq, call, calls, now, crashes>>

--------------------------------------------------------------------------------
(***************************************************************************)
(* The world outside: people and tools edit the vault; time passes.        *)
(***************************************************************************)
\* What a person can make of a text of c by hand: another body, with or without
\* the bullets that were in it, another frontmatter, or an older text.
EditsOf(c) ==
  {[cards[c] EXCEPT !.rev = edits + 1,
                    !.bullets = [b \in Bullet |-> IF b \in gone THEN 0 ELSE @[b]]] :
     gone \in SUBSET {b \in Bullet : Has(cards[c], b)}}
  \cup {[cards[c] EXCEPT !.meta = m] : m \in Meta \ {cards[c].meta}}
  \cup past[c]

\* The workers that have read c and not yet recorded what they did to it.
Readers(c) ==
  {w \in Workers : /\ wk[w].pc \in {"write", "log", "rb-write", "rb-log"}
                   /\ draft[wk[w].pid].target = c}

EditCard(c) ==
  /\ edits < MaxEdits
  /\ edits' = edits + 1
  /\ \E text \in EditsOf(c) : Replace(c, text)
  /\ overtaken' = overtaken \cup Readers(c)
  /\ UNCHANGED <<logVars, resolvable, workerVars, audit, call, calls, now, crashes>>

\* A card with the same name appears or disappears: find() gives up or recovers.
RenameCard(c) ==
  /\ edits < MaxEdits
  /\ edits' = edits + 1
  /\ resolvable' = [resolvable EXCEPT ![c] = ~@]
  /\ UNCHANGED <<logVars, cards, past, overtaken, workerVars, audit, call, calls, now, crashes>>

Tick ==
  /\ now < MaxTime
  /\ now' = now + 1
  /\ UNCHANGED <<logVars, vaultVars, workerVars, audit, call, calls, crashes>>

--------------------------------------------------------------------------------
Init ==
  /\ status = [p \in Proposals |-> "none"]
  /\ trail = [p \in Proposals |-> {}]
  /\ draft = [p \in Proposals |-> None]
  /\ approval = [p \in Proposals |-> None]
  /\ cards = [c \in Cards |->
                [rev |-> 0, meta |-> "parses", bullets |-> [b \in Bullet |-> 0]]]
  /\ resolvable \in [Cards -> BOOLEAN]
  /\ audit = {} /\ dlq = {}
  /\ call = [s \in Sessions |-> IdleCall]
  /\ lock = None
  /\ wk = [w \in Workers |-> IdleWorker]
  /\ calls = 0 /\ now = 0 /\ edits = 0 /\ crashes = 0
  /\ past = [c \in Cards |-> {}] /\ overtaken = {}

SessionNext(s) ==
  \/ \E type \in CaptureTypes, c \in Cards, quotes \in NoteQuotes :
        CaptureRead(s, type, c, quotes)
  \/ CaptureAppend(s) \/ CaptureAudit(s)
  \/ \E op \in Decisions, p \in Proposals, days \in TtlRequests :
        DecisionRead(s, op, p, days)
  \/ DecisionAudit(s) \/ DecisionAppend(s)
  \/ CallCrash(s)

\* One step of a run of the worker that is under way.
WorkerStep(w) ==
  \/ WorkerSnapshot(w) \/ (\E p \in Proposals : WorkerSelect(w, p))
  \/ WorkerRead(w) \/ WorkerWrite(w)
  \/ WorkerLog(w) \/ WorkerAudit(w) \/ WorkerDeadLetter(w) \/ WorkerRelease(w)
  \/ RollbackSkip(w) \/ RollbackRead(w) \/ RollbackWrite(w)
  \/ RollbackLog(w) \/ RollbackAudit(w)

WorkerNext(w) ==
  \/ WorkerLock(w) \/ WorkerStep(w) \/ WorkerCrash(w)
  \/ \E p \in Proposals : RollbackLock(w, p)

Next ==
  \/ \E s \in Sessions : SessionNext(s)
  \/ \E w \in Workers : WorkerNext(w)
  \/ \E c \in Cards : EditCard(c) \/ RenameCard(c)
  \/ Tick

Spec == Init /\ [][Next]_vars

\* A run of the worker that has started goes on; nothing says that one starts.
Fairness == \A w \in Workers : WF_vars(WorkerStep(w))

--------------------------------------------------------------------------------
(***************************************************************************)
(* Properties.                                                             *)
(***************************************************************************)
CallPcs == {"idle", "capture", "captured", "decide", "append"}
Call == [pc : CallPcs, op : Decisions \cup {None}, pid : Proposals \cup {None},
         seen : Status \cup {None}, expires : Int \cup {None}, req : Draft \cup {None}]
WorkerPcs == {"idle", "locked", "next", "read", "write", "log", "audit", "dlq",
              "rb-read", "rb-write", "rb-log", "rb-audit"}
Worker == [pc : WorkerPcs, todo : SUBSET Proposals,
           appr : Approvals \cup {None},
           pid : Proposals \cup {None}, body : Body \cup {None},
           text : Card \cup {None}, outcome : Failures \cup {None}]

LogTypes ==
  /\ status \in [Proposals -> Status]
  /\ trail \in [Proposals -> SUBSET Status]
  /\ draft \in [Proposals -> Draft \cup {None}]
  /\ approval \in Approvals

VaultTypes ==
  /\ cards \in [Cards -> Card]
  /\ resolvable \in [Cards -> BOOLEAN]
  /\ past \in [Cards -> SUBSET Card]
  /\ overtaken \subseteq Workers

CallTypes == call \in [Sessions -> Call]
WorkerTypes == wk \in [Workers -> Worker]

RecordTypes ==
  /\ audit \subseteq AuditEvent
  /\ dlq \subseteq Proposals \X Failures
  /\ lock \in Workers \cup {None}

CounterTypes ==
  /\ calls \in 0 .. MaxCalls
  /\ now \in 0 .. MaxTime
  /\ edits \in 0 .. MaxEdits
  /\ crashes \in 0 .. MaxCrashes

\* The types of the log's merged view, the vault, the callers' local state, the
\* audit log, the dead-letter queue, the lock and the bounded counters.
TypeOK ==
  LogTypes /\ VaultTypes /\ CallTypes /\ WorkerTypes /\ RecordTypes /\ CounterTypes

\* What the log says of a proposal is what ProposalLifecycle allows: whoever
\* decides, and however late, a status is logged only for a proposal that once
\* had a status permitting it, and a captured proposal gets an id of its own
\* (governance.py approve/reject/revoke_proposal, worker.py, ProposalStore.append).
ImplementsLifecycle == Life!Spec

\* Every bullet on a card answers to an approval: it belongs to a proposal
\* captured for that card and approved, and the audit log holds the approver's
\* allow event (approve_proposal audits before it appends, the worker writes only
\* what it read as approved).
BulletsAnswerToApprovals ==
  \A c \in Cards : \A b \in Bullet :
    Has(cards[c], b) =>
      /\ status[b.pid] # "none" /\ draft[b.pid].target = c
      /\ "approved" \in trail[b.pid]
      /\ CanApprove(b.by)
      /\ Event("approve", b.by, b.pid, "allow") \in audit

\* Applying again after a crash between the card write and the status append
\* does not repeat the bullet (_validate_and_apply's idempotency test).
BulletsAtMostOnce ==
  \A c \in Cards : \A b \in Bullet : cards[c].bullets[b] <= 1

\* A hand edit, or a worker's write or record after a hand edit of the card it
\* had read: between the worker's read and its record nothing keeps editors out.
ByHand(pcs) ==
  edits' # edits \/ \E w \in overtaken : wk[w].pc \in pcs

Clean(p) == \A c \in Cards : \A b \in Bullet : b.pid = p => ~Has(cards[c], b)

\* A rolled-back proposal leaves no bullet behind, even if it was approved twice
\* and its bullet was written once for each approval, and no run of the worker
\* brings one back (rollback).  Only a hand edit may: by putting an older text
\* back, or in between the rollback's read and its record.
RolledBackIsClean ==
  [][\A p \in Proposals :
       status'[p] = "rolled-back" /\ ~Clean(p)' =>
         \/ status[p] = "rolled-back" /\ ~Clean(p)
         \/ ByHand({"write", "rb-write", "rb-log"})]_vars

\* When "applied" is logged the change is on the card, whatever other workers and
\* rollbacks did since the write (apply_approved), unless the card was edited by
\* hand since the worker had read it.
AppliedIsOnTheCard ==
  [][\A p \in Proposals :
       status[p] # "applied" /\ status'[p] = "applied" =>
         \/ \E b \in Bullet : b.pid = p /\ Has(cards'[draft[p].target], b)
         \/ \E w \in overtaken : wk[w].pc = "log" /\ wk[w].pid = p]_vars

\* A bullet leaves a card only when a proposal that its text mentions is rolled
\* back: its own, or one that its note quotes.  No write of another proposal,
\* computed from an older text, loses it (_single_writer); only a hand edit does,
\* or a write that undoes a hand edit made since its read.
OnlyRollbackRemoves ==
  [][\A c \in Cards : \A b \in Bullet :
       Has(cards[c], b) /\ ~Has(cards'[c], b) =>
         \/ \E w \in Workers : wk[w].pc = "rb-write" /\ Mentions(b, wk[w].pid)
         \/ ByHand({"write", "rb-write"})]_vars

\* A dead letter is preceded by its failed status and its audit event
\* (apply_approved's order of writes).
DeadLettersAreOnRecord ==
  \A e \in dlq : /\ "failed" \in trail[e[1]]
                 /\ Event("worker_apply", "worker", e[1], "failed") \in audit

\* Access in force was granted by someone who may approve and whose allow event is
\* in the audit log, at most MaxTtl days ago whatever ttl was asked for, and to
\* personal data by an admin (approve_proposal's clamp, active_grants).
GrantsAreBounded ==
  \A k \in Keys : \A g \in ActiveGrants(k, now) :
    \E p \in Proposals :
      /\ draft[p].requester = g[1] /\ draft[p].target = g[2]
      /\ Event("approve", approval[p].by, p, "allow") \in audit
      /\ CanApprove(approval[p].by)
      /\ g[3] = "personal-data" => RoleOf[approval[p].by] = "admin"
      /\ now < approval[p].at + MaxTtl

Final == {"rejected", "revoked", "failed", "rolled-back"}

\* Nobody is still about to act on an earlier reading of the proposal.
Quiet(p) ==
  /\ \A s \in Sessions :
       call[s].pid = p /\ call[s].pc \in {"decide", "append"}
         => call[s].seen \notin Decidable(call[s].op)
  /\ \A w \in Workers :
       wk[w].pc # "idle" => p \notin wk[w].todo /\ (wk[w].pid = p => wk[w].pc = "rb-read")

\* Rejected, revoked, failed and rolled-back are final once the calls and runs
\* that had read an earlier status are over: nothing that starts later can move
\* the proposal (the status guards of the three decisions, the worker's filter on
\* "approved", rollback's on "applied").
FinalOnceQuiet ==
  [][\A p \in Proposals :
       status[p] \in Final /\ Quiet(p) => status'[p] = status[p] /\ Quiet(p)']_vars

\* A run of the worker ends, or dies, and the lock is free again
\* (_single_writer: no stale lock file can deadlock the worker).
LockIsReleased == lock \in Workers ~> lock \notin Workers

\* Every proposal in a run's snapshot is settled by that run unless it crashes.
SnapshotIsSettled ==
  \A p \in Proposals :
    (\E w \in Workers : p \in wk[w].todo) ~>
      (trail[p] \cap {"applied", "failed"} # {} \/ crashes > 0)

--------------------------------------------------------------------------------
(***************************************************************************)
(* What the documentation says and the code does not keep.                 *)
(***************************************************************************)

\* governance.py: "a rejected proposal is never applied by the worker".
RejectedIsNeverApplied ==
  [][\A p \in Proposals :
       status[p] # "applied" /\ status'[p] = "applied" => "rejected" \notin trail[p]]_vars

\* governance.py: "the access overlay drops the grant as soon as the 'revoked'
\* status is recorded", and a dropped grant does not come back by itself.
RevokedGrantStaysDropped ==
  [][\A p \in Proposals : \A k \in Keys :
       status[p] = "revoked" => ~GrantActive(p, k, now)']_vars
================================================================================

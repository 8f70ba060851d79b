# SalesWiki: a verification project

TLA+ modules, TLC models and TLAPS proofs for SalesWiki: a permissioned Markdown
wiki of sales accounts (the *vault*), an MCP gateway in front of it
(`saleswiki_mcp`), a single-writer worker that alone changes cards, and a browser
workbench with its own small server (`apps/workbench`, `integrations/workbench`).

## 1. Inventory

There is no database and no long-lived coordinator. Every tool call may run in an
MCP process of its own (the workbench server starts one per request and kills it
on a timeout); the worker is a batch job; all of them meet in files.

| Component | State it keeps | Operations | Interacts with | What makes it correct |
|---|---|---|---|---|
| Proposal governance (`governance.py`, `proposals.py`) | `proposals.jsonl`: captures and status records, merged on every read | capture (4 types), approve, reject, revoke, active grants | audit log, policy, retriever, worker | ids are unique; a status rests on one that permits it; nothing takes effect without an audited decision; grants are bounded |
| Worker (`worker.py`, `formatter.py`) | `.worker.lock`, the cards, the dead-letter queue | `apply_approved`, `rollback` | proposal log, vault, audit log | one writer; a bullet is written once and lost to no other write, only to the rollback of a proposal its line mentions or to a hand edit; a crash anywhere is harmless to rerun |
| JSONL store (`jsonl.py`) | append-only files under `flock` | locked read-modify-append, tolerant and checked reads | everything above | appends are atomic to each other; damage is visible to whoever needs to know |
| Audit log (`audit.py`) | hash chain, signed anchor | record, verify, create/verify/advance anchor | every tool | one chain; a verifying anchor pins its prefix; no false alarm |
| Signing (`signing.py`) | key file | resolve, sign, verify | governance, worker | processes that meet a fresh directory resolve one key, up to repairs of a short file |
| Quality-review journal (`signal_review.py`, `SignalReviewModal.jsx`, `signalReviewClient.js`) | one JSONL file for all reviewers, what each tab shows | get, record | workbench server, retriever, policy, audit | a check is started and completed once; no tab overwrites what it did not show; a confirmed save is there |
| Policy (`policy.py`) | access rules, live grants | read, approve, review decisions | all reads | grants only widen, unknown constraints deny |
| Retriever (`retrieval.py`) | card cache with a stat signature | cards, find, related | vault | never a stale hit, ambiguous names resolve to nothing |
| Id allocator (`ids.py`) | id ledger | mint, lookup | JSONL store | one id per natural key, one key per id |
| Graph and dashboard (`graph.py`, `dashboard.py`) | none | project | retriever, policy | limits hold; nothing restricted shows |
| Read facade (`service.py`, `answer.py`, `read_support.py`) | none | briefs, digests | retriever, policy, audit | every card shown rests on an audited decision; only an allow shows a body |
| MCP server, identity (`server.py`, `identity.py`) | one actor per process | forward a tool call, make a tool result of an envelope | facade, workbench server | every field a client needs survives |
| Demo vault guard (`vault_guard.py`) | none | is this a demo vault, require one | launcher, workbench server | fixture persons never meet a real vault |
| Workbench server (`integrations/workbench`) | sessions, request slots | 14 routes, persona switch, a gateway process per request | MCP processes, pages | slots come back; at most so many processes; good answers are served, bad ones refused |
| Workbench app (`apps/workbench/src`) | per page: person, panes, requests in flight | load, save, decide, switch persona | workbench server | after a switch of person, the panes a page reads again never keep what was read for another |
| Runtime launcher (`saleswiki_runtime`) | configuration | check, doctor, start | guard, workbench server | what doctor passes starts |
| Demo scripts (`scripts/`) | generated data | generate, walk through | - | - |

Hard behaviours, in the order of how hard they are to test: decisions taken on a
status read before other writes (`governance.py:141-174`), the worker's snapshot
(`worker.py:107`), crashes between the card, the log, the audit log and the
dead-letter queue, torn lines and what is appended after them (`jsonl.py:63`),
answers that time out after the write landed, several tabs and personas on one
journal, two processes that create the key at once (`signing.py:86`), a switch of
person in one page while another page, or the same one, waits for answers
(`App.jsx:763`), slots of processes that hang (`server.py:404`), one reply whose
fields are written down in four places (`server.py:1002`). `PROJECT.json` lists each one
at its line with the properties that would catch it.

## 2. Modules

| Module | Models | EXTENDS / INSTANCEs |
|---|---|---|
| `ProposalLifecycle` | abstract specification of the proposal log | - |
| `Governance` | `governance.py`, `proposals.py`, `worker.py`, the grant overlay | implements `ProposalLifecycle` |
| `GovernanceProofs`, `GovernanceEffectProofs` | theorems about `Governance`: types and the log; cards, records and ends | the second extends the first |
| `JsonLines` | which lines of a file a reader keeps (`jsonl.py`), as recursive functions | - |
| `JsonLinesProofs` | what reading amounts to for a file of any length | `JsonLines` |
| `AuditChain` | `jsonl.py`'s append, `audit.py` | `JsonLines` |
| `AuditChainProofs` | theorems about `AuditChain` | `AuditChain`, `JsonLinesProofs` |
| `KeyFile` | `signing.resolve_key` | - |
| `IdLedger` | `ids.py` | - |
| `RuntimeFilesProofs` | theorems about the two | `KeyFile`, `IdLedger` |
| `CheckRegister` | abstract specification of the review journal | - |
| `SignalReview` | `signal_review.py`, its workbench routes and modal | `JsonLines`; implements `CheckRegister` |
| `SignalReviewProofs` | theorems about `SignalReview` | `SignalReview`, `JsonLinesProofs` |
| `ReviewRequest` | the two validators of a review request | - |
| `ReviewForm` | the form of the modal | `ReviewRequest` |
| `Retriever` | `retrieval.py`'s card cache | - |
| `AccessPolicy` | `policy.py`'s read decisions, as operators | - |
| `Reads` | the read tools of `service.py`, `graph.py`, `dashboard.py` | `Retriever`, `AccessPolicy` |
| `ReadsProofs` | theorems about `Reads` | `Reads` |
| `Workbench` | pages, sessions, slots and gateway processes in time | - |
| `WorkbenchWire` | one exchange in detail: parsers, adapter, validators, client | - |
| `RuntimeConfig` | `saleswiki_runtime/config.py`, `vault_guard.py`, `identity.py`, as operators | - |
| `Startup` | doctor and the start of the workbench server | `RuntimeConfig` |
| `WorkbenchProofs` | theorems about the four | `Workbench`, `WorkbenchWire`, `ReviewForm`, `Startup` |
| `MCGovernance`, `MCGovernanceWrites`, `MCRuntimeFiles`, `MCReads`, `MCWorkbench` | instances for TLC | |

Definitions whose name begins with `Faulty` are not part of a model. Each is a
definition of the model with a plausible bug made in it; with it in place of the
original a property fails, which shows that the property depends on that code.

### Governance

*State.* The log is its merged view (`ProposalStore._merge`): `status`, `draft` and
`approval` per proposal; `trail` remembers every status ever logged. A card is the
revision of its hand-written body, whether its frontmatter parses, and the bag of
bullets in *Review Needed*; a bullet is what distinguishes its text (proposal, approver,
approval time). Of a note, `quotes` keeps whose `(proposal <id>,` stands in it:
`_sanitize_note` lets that text through, and a rollback takes off every line that holds
it (`Mentions`, `Without`), a bullet of another proposal included. `audit` and `dlq` are
the audit log and the dead-letter queue as sets, `lock` the flock, `call` and `wk` the
local state of gateway calls and worker processes.

*Actions.* One per critical section of the code. A decision reads (`DecisionRead`),
audits (`DecisionAudit`), appends (`DecisionAppend`) - three locks of two files, so
anything may come in between. A worker takes the lock, takes a snapshot of the
approved proposals, and for each one selects, reads the card, writes it, logs,
audits and dead-letters; a rollback likewise. `CallCrash` and `WorkerCrash` stop a
process at any of these points and the kernel frees the lock. `EditCard` and
`RenameCard` are people editing the vault; `Tick` is time. A hand edit gives a card
another body, takes off any of its bullets, breaks its frontmatter, or puts back a
text the card had before (`past`, a history variable).

Nothing keeps an editor out between a worker's read of a card (`worker.py:174`), its
write (`worker.py:194`) and its record (`worker.py:112`). The write then undoes the
edit, or `applied` is logged for a bullet that the edit took away. `overtaken` is a
history variable: the workers whose card was edited since they read it. The three
properties about bullets on cards - `AppliedIsOnTheCard`, `OnlyRollbackRemoves`,
`RolledBackIsClean` - leave out what such a worker writes or records, and what the
edit itself removes or brings back; they hold of everything else. `BulletsAtMostOnce`
needs no such exception.

*Left out.* Sanitising of notes beyond what they quote, hashing (a body is its own
hash), line order, wording; a hand-written line that a rollback takes off because it
quotes the proposal; a note that repeats a whole bullet before it is written, for which
it would have to foretell the time of the approval; the log's own torn lines (they are
AuditChain's subject, and `active_grants` then withholds every grant).

### AuditChain

`lines` are the lines of the file, `open` says that the last has no newline. A
record becomes visible in part, then whole, under `holder`'s lock (`Acquire`,
`Compute`, `WritePart`, `WriteRest`, `Release`); `Crash` may come between any two.
A write that finds the file open continues the open line, as the code does. An
event is its number and SHA-256 is injective: a hash over a predecessor and an
event is the sequence of events hashed. What a reader keeps of the lines is `Parse` of
`JsonLines`. `Tamper` alters or removes a record.
`create_anchor` and `advance_anchor` keep the window between reading the chain and
replacing the anchor.

### KeyFile, IdLedger

`KeyFile` is the first use of the approval key, one file operation per action: look
whether there is a key file, read it, create it exclusively, write the key into it,
or draw a key in a temporary file and let that take the name, then read again. A key
is named after the process that drew it; what is too short for a key reads as
`Short`, a new file too until it is written. Processes may start with no file, a
stub or a key, may carry a key of their own, and may die between any two steps.

`IdLedger` is `mint`: `Reuse` and `ComputeEntry` are `compute()` with the lock just
taken, `AppendEntry` the line that follows while the lock is held, `MintDies` a
process that stops before its line, in the middle of it, or after it and before it has
returned. A line cut short is continued by the next append, and a tolerant reader
skips both: the entity is given another id the next time. `OneIdPerKey` is therefore
about a ledger without a broken line (`Undamaged`), and says nothing of any other. A
call may name a natural key, choose an id, both or neither.

### SignalReview

Tabs load a view, save from what they show, and get an answer, or an error when the
workbench server gives up (`Fail`) or the process dies inside its write (`Tear`). A
recording call reads the card and the sources, then the journal, then appends under
the lock; `Move` changes what anybody may read at any time. The journal is one file
for all reviewers, with the torn lines of AuditChain. The history variable
`register` is what a reader of the last intact file saw; it is mapped to
`CheckRegister`.

`NobodyOverwrites` and `HiddenHistoryIsFrozen` speak of an intact journal, and need
to. A call that reads the journal, and is overtaken by a write that is torn and by a
save that runs on from the torn line, may find under the lock a history of the length
it expects that is not the one it saw: the event on the broken line is gone for a
tolerant reader, and `append_computed` uses the tolerant reading. It takes three tabs,
four saves and a torn write. The event is lost as in `audit_torn`, and every later
checked reading of the file fails.

### ReviewRequest, ReviewForm

`ReviewRequest` states `validate_request` and `validReviewRequest` over what either
can tell apart. Their limits of 160 are not the same limit: Python counts characters
(`signal_review.py:27`, `:41`), JavaScript UTF-16 units (`signalReviewClient.js:19`,
`:22`). `Ids` has ids within both, ids of 81 to 160 characters of two units each
(`wide`), longer ones, and a target with a control character, which only Python looks
for. `Acceptable` adds what `record` asks after validation, that the follow-up date has
not passed (`signal_review.py:154`). `ClientAgreesWithServer` names these differences
and says that they are all: a history with a `wide` id is recorded and served, and the
browser then refuses it. `ReviewForm` is the form itself: every field a reviewer can change,
the fields that carry others along, the request that is sent, a view that changes
under the form, a day that passes while it is open (`DatePasses`), and the requests of
other MCP clients, whose events the browser has to accept when it shows the history.

### Retriever, AccessPolicy, Reads

`Retriever` is `cards()` one file at a time: the listing and the stats of the walk,
the comparison with the kept signature, the listing and the reads of a load, and the
exception a vanished file raises; `Write` and `Delete` are everybody else. A stamp
stands for (mtime, size) and is never used twice; two writes of one size within a
tick of the clock, or a rename that carries an old file back, are beyond the code
and outside the model.

`Reads` is a gateway process with its one actor. A call (`op`) is at a point `at` of
a tool; at each point where the code asks the retriever (`ReadPoints`) the retriever
runs, with edits in between, and the action that uses the result is the code up to
the next such point. `Decide` is the loop body the tools share: decide one card, put
the decision on record, show the card or not, go on. `part` names the sub-read when
a tool is made of several (`my_day`, the pipeline digest, the dashboard, an event's
signals). `log` and `shown` are what the call audited and what its answer shows;
`rolled` are the deals its figures sum up. `quiet` and `span` are ghosts. A card's
boundary is that of its path; `Grants` come and go at any moment.

`GraphStandsUp` says that a graph announces what it leaves out of answers that show
a graph; a call in which the retriever raises has decided cards and shows none.

`company_brief` stops at a *block* only (`service.py:220`), where the other tools ask
for an *allow*. For a company card filed under personal-data by mistake the policy
decides *handle*, and the brief goes on and shows the card. One of the vaults has such
a card, and a call under sales-confidential that refers to it, which `call_prep` and
`company_brief` meet. `ShownWasDecided` allows for it (`Grounds`), and `LabelIsHonest`
does not count it as withheld, since it is shown; what the code and its tests promise
instead is `MisfiledIsNeverShown`, which `reads_misfiled` refutes.

### Workbench

*State.* `sessions` is the server's map from cookie to person, an ended session
being known as such; `req` is every request under way, from `fetch` to the moment
the page has taken its answer, with where the handler thread is (`at`), the person
it found (`actor`) and the answer; `slots` and `kids` are the semaphore and the MCP
processes. A page has the person it shows (`label`), for whom each pane was read
(`shown`), the fetches an effect has begun (`wanted`) and the request each pane
waits for (`latest`): the cleanup of an effect, which makes a page ignore an older
answer, is `Settle`. `cookie` is the browser's, shared by its pages.

*Actions.* People open, navigate, type into the search, switch and decide (`Open`,
`Navigate`, `Seek`, `Switch`, `Decide`); `Fetch` sends what an effect began; `Deliver`
is the page taking an answer, with the effects that run again in the same render. On the
server `Session` and `Persona` are the two routes that touch sessions, `Admit` takes a
slot and starts a process or turns the request down, `Return` and `Timeout` are its two
ends, and `Release` comes after the 502, as in the code, so that a page may see the
error before the slot is free. `Lose` drops a connection before or after the server read
the request; `Lapse` ends a session. `fooled` is a ghost: the pages that may be mistaken
about the person of their session. Another page changed it, or it ended; or the page
misled itself: it was reloaded while its switch was under way, lost the answer, or sent
a second switch before the first was answered, which nothing in `changePersona` stops:
the two may land, or be answered, in the wrong order. `moved`, of a request, is another:
the session was changed, or being changed, when the decision was under way.

*Panes.* There are three, one for each way the effects of `App.jsx` depend on the
person. `graph` stands for those that a switch reads again for anybody (graph, day,
dashboard), `queue` is read for reviewers only, and `search` depends on the text
alone (`App.jsx:623-637`): a switch neither clears nor repeats it (`:761-776`), so the
matches listed under the search box may be those of an earlier person, for as long as
the text stays. `QuietTabIsHonest` is about the panes a switch reads again
(`OfPerson`) and claims nothing of the search. A pane that is loading shows nothing;
what a pane keeps while it is not displayed is part of the model.

*Left out.* The dialogs (brief, guided answer, quality review), which read when they
are opened; contents, which are the matter of `WorkbenchWire`.

### WorkbenchWire

One request goes through `Turn` (origin, then the parser of its route), `Busy` or
`RunTool` (the tool and the MCP adapter, which takes the text out of the structured
reply), `Validate` and `Show`; `Lost` is a connection that breaks before the server
has the request or before the page has the answer. A text is what the parsers tell
apart: its characters, which the server counts; its UTF-16 units, which the browser
counts; its bytes in the body; and whether it has control characters. A reply is the
set of its fields and the values a validator or a client looks at. `PageRequests` are
what `App.jsx` can send for an account with any id, cut by the limits of its forms
(`Made`) and by nothing else: a search may hold a pasted tab, be one character of two
units, or be of any length. `OtherRequests` is what another client may send.

So a page can be refused. `TooMuch` lists what its forms let through and a parser
does not: bodies over their cap in bytes (CJK text in an update; a check that cites
eight long ids), notes and searches of too many characters, the two kinds of search
just named, accounts with ids longer than a route takes. `NoCheck` lists when a
quality review cannot be had. `OnlyKnownRefusals` names these and the reasons of the
moment, and says that there are no others. The blanks that Python strips are taken to
be those that JavaScript trims, and a reply of a megabyte is not modelled.

`ErrorMeansUnchanged` is about the words "Nothing was changed" (`App.jsx:742-757`).
They are wrong where the call failed after the tool had recorded, and where the answer
was lost (`graphClient.js:512`, `:565-567`): the property leaves both out, which is to
say that it does not deny the hazard. It says that no reply of a tool that has written
is turned into an error by a validator or a client.

### RuntimeConfig, Startup

`RuntimeConfig` states which configuration files `parse_runtime_settings` accepts,
field by field, what the older `RC_*` variables amount to, and which vaults the guard
passes. `Startup` is an operator who runs doctor and starts the server, in any order,
while people edit the vault. `MCWorkbench` derives its two thousand configurations
from a good one by giving fields other values, several at once.

## 3. Runs

| Run | Instance | Shows |
|---|---|---|
| `governance_writes` | four plans of 4 calls. *race*: 2 approvers, 1 worker, 1 access request, 1 edit; *workers*: 1 approver, 2 workers, 2 flags on one card, the second quoting the first, 1 crash or 1 edit; *late*: the same with 1 flag on a card that cannot be resolved at first, 1 crash and 1 edit; *captures*: 2 sessions that capture at once | `TypeOK`, `ImplementsLifecycle`, `FinalOnceQuiet`, `BulletsAnswerToApprovals`, `BulletsAtMostOnce`, `AppliedIsOnTheCard`, `OnlyRollbackRemoves`, `RolledBackIsClean`, `DeadLettersAreOnRecord` under every order of reads, audits, appends and writes |
| `governance_grants` | an admin, a rep, 2 workers with different keys, 1 crash or 1 edit, 1 day | `GrantsAreBounded`; `LockIsReleased` and `SnapshotIsSettled` under fairness (a crash excuses a snapshot, and a proposal that failed is settled) |
| `runtime_files` | four subjects. *audit*: 2 writers, 2 anchorers, 4 events, 1 crash, 1 edit; *key*: 4 processes, 1 mortal, 1 with its own key; *ids*: 2 processes, 3 calls, 1 death; *reviews*: 2 tabs of one reviewer or of two, 3 saves, 1 torn write, 1 change of access | `ParsedIsChained`, `LossIsVisible`, `AnchorPinsHistory`, `HonestLogVerifies`; `KeysComeFromRepairs`; `OneIdPerKey`; `RefinesRegister`, `NobodyOverwrites`, `HiddenHistoryIsFrozen`, `ConfirmedOrDamaged`, `ConflictMeansChange` |
| `reads` | 3 roles, 4 paths, 6 vaults, 11 tools, 2 calls, 1 edit or grant | `CachedCardIsCurrent`, `ShownIsFromThisCall`, `ShownWasDecided`, `LabelIsHonest`, `GraphStandsUp`, `DigestAgreesWhenQuiet`, `GrantsOnlyWiden`; `EveryCallEnds` under fairness |
| `workbench` | four subjects. *pages*: 2 pages, a reviewer and another, 2 sessions, 2 requests, 1 slot, 2 clicks, 1 mishap; *wire*: 12 routes, texts of 9 lengths and ids of 4, characters of 4 widths; *form*: all forms, all requests; *start*: some 2200 configurations and machines, 4 vaults, 1 edit | `ProcessesBounded`, `QuietTabIsHonest`, `DecidersAreNamed`; `OnlyKnownRefusals`, `ErrorMeansUnchanged`; `ClientAgreesWithServer`, `CauseFollowsItsStatus`; `DoctorPredictsStart`; `SlotsComeBack` under fairness |
| `governance_rejected`, `governance_revoked`, `audit_torn`, `reads_stale`, `reads_misfiled`, `key_race`, `workbench_day` | small instances | the seven findings of section 5 |

*Joined runs.* Parts that share no state are checked in one run: `subject` (or, for
two instances of `Governance`, `plan`) is chosen once, at the start, and what the
behaviour is not about rests in one state. No behaviour is lost and none is added.

*Bounds.* Every race here needs two actors on one object: two decisions, a decision and
a worker, two workers on a card, two tabs. Two proposals are enough for one write to
lose the other's bullet; four calls for capture, approve, approve again and revoke;
three saves for a tab to come back to a history that has moved by a whole check, where
the start/complete alternation alone would no longer notice. One crash meets every point
of every run. In `reads` the first call fills the cache the second may reuse, and one
change meets every point between two files, two decisions and the two calls; the limits
(search 1, evidence 2) are small enough to be reached. In `workbench` two requests and
one slot are what it takes for one to be turned down, overtaken or answered twice over;
two clicks are a switch and a switch, a navigation, a search or a decision against it,
in one page or two. Lengths and widths are every limit of a parser or a form, and the
one beyond it. In `governance_grants` the approver asks for 7 days where 1 is the
maximum, so that the clamp is what bounds the grant; the clamp at the lower end, which
makes a grant of no days one of a day, is in the model and no property is about it. The
largest instances are `governance_writes` with 1.7 million states, `runtime_files` with
0.9 and `workbench` with 0.8.

*Fairness.* `governance_grants` assumes weak fairness of each worker's own steps, and
`reads` of a call's own steps: a tool call is a synchronous function that waits for
nothing but files. A worker process is a straight program that blocks on nothing but
file locks, which are held for a bounded time and freed by the kernel when the holder
dies; a worker that finds the lock taken gives up at once. `workbench` assumes that a
gateway call that runs comes back or is timed out (`asyncio.wait_for`), and that a
handler thread that has answered 502 goes on to give the slot back. Nothing is assumed
of people, browsers, networks, MCP processes, callers, editors or the clock.

*Deadlock* is not checked: with the bounded calls used up, the system rests, as the
real one does when nobody calls it, and a file or a page at rest has nothing to do.

## 4. Theorems

Proved by TLAPS for every number of proposals, cards, sessions, workers, keys,
writers, tabs, processes, paths, actors, policies, pages, requests and slots and every
bound, from the named assumptions of the modules alone. Every invariant and every
safety action property of a passing run, and both refinements, are proved - with the
exceptions that the properties themselves name (section 2), no others.

| Theorem | Module | States |
|---|---|---|
| `TypeCorrect` | `GovernanceProofs` | `Spec => []TypeOK` |
| `LifecycleImplemented` | `GovernanceProofs` | `Spec => ImplementsLifecycle` |
| `NoBulletTwice` | `GovernanceEffectProofs` | `Spec => []BulletsAtMostOnce` |
| `NoBulletLost` | `GovernanceEffectProofs` | `Spec => OnlyRollbackRemoves` |
| `AppliedIsWritten` | `GovernanceEffectProofs` | `Spec => AppliedIsOnTheCard` |
| `BulletsHaveApprovals` | `GovernanceEffectProofs` | `Spec => []BulletsAnswerToApprovals` |
| `GrantsBounded` | `GovernanceEffectProofs` | `Spec => []GrantsAreBounded` |
| `RollbackLeavesNothing` | `GovernanceEffectProofs` | `Spec => RolledBackIsClean` |
| `LettersHaveRecords` | `GovernanceEffectProofs` | `Spec => []DeadLettersAreOnRecord` |
| `EndIsFinal` | `GovernanceEffectProofs` | `Spec => FinalOnceQuiet` |
| `RecordsFormOneChain` | `AuditChainProofs` | `Spec => []ParsedIsChained` |
| `LossShows` | `AuditChainProofs` | `Spec => []LossIsVisible` |
| `AnchorPins` | `AuditChainProofs` | `Spec => []AnchorPinsHistory` |
| `NoFalseAlarm` | `AuditChainProofs` | `Spec => []HonestLogVerifies` |
| `ImplementsRegister` | `SignalReviewProofs` | `ReviewSpec => RefinesRegister` |
| `NoOverwriting` | `SignalReviewProofs` | `ReviewSpec => NobodyOverwrites` |
| `NoContinuingHidden` | `SignalReviewProofs` | `ReviewSpec => HiddenHistoryIsFrozen` |
| `ConflictsAreReal` | `SignalReviewProofs` | `ReviewSpec => ConflictMeansChange` |
| `ConfirmedIsOnFile` | `SignalReviewProofs` | `ReviewSpec => []ConfirmedOrDamaged` |
| `CacheIsCurrent` | `ReadsProofs` | `Spec => []CachedCardIsCurrent` |
| `AnswersAreOnRecord` | `ReadsProofs` | `Spec => []ShownWasDecided` |
| `GrantsWiden` | `ReadsProofs` | `Spec => GrantsOnlyWiden` |
| `LabelsAreHonest` | `ReadsProofs` | `Spec => []LabelIsHonest` |
| `GraphsStandUp` | `ReadsProofs` | `Spec => []GraphStandsUp` |
| `AnswersAreCurrent` | `ReadsProofs` | `Spec => []ShownIsFromThisCall` |
| `DigestAgrees` | `ReadsProofs` | `Spec => []DigestAgreesWhenQuiet` |
| `SecondKeysAreRepairs` | `RuntimeFilesProofs` | `KeySpec => []KeysComeFromRepairs` |
| `IdsAreUnique` | `RuntimeFilesProofs` | `IdSpec => []OneIdPerKey` |
| `WorkbenchIsTyped` | `WorkbenchProofs` | `WbSpec => []WbTypeOK` |
| `ProcessesStayBounded` | `WorkbenchProofs` | `WbSpec => []ProcessesBounded` |
| `DecisionsKeepTheirName` | `WorkbenchProofs` | `WbSpec => []DecidersAreNamed` |
| `RestingTabIsHonest` | `WorkbenchProofs` | `WbSpec => []QuietTabIsHonest` |
| `RulesAgree` | `WorkbenchProofs` | `FormSpec => []ClientAgreesWithServer` |
| `HiddenCauseIsUnknown` | `WorkbenchProofs` | `FormSpec => []CauseFollowsItsStatus` |
| `DoctorIsRight` | `WorkbenchProofs` | `StartSpec => []DoctorPredictsStart` |
| `RefusalsAreKnown` | `WorkbenchProofs` | `WireSpec => []OnlyKnownRefusals` |
| `ErrorsAreHonest` | `WorkbenchProofs` | `WireSpec => []ErrorMeansUnchanged` |

Almost none of the invariants is inductive alone. For `Governance` the argument is
layered, each layer an invariant proved from the ones below.

1. *Types and local state* (`Inv1` = `TypeOK`, `LogInv`, `CallInv`, `WorkerInv`): the
   merged status is in the trail, and what a process remembers is past but real - a
   call about to append has read a status that was logged and permits its own, a
   worker works on proposals that were approved when it read the log.
2. *Ids* (`Inv2` adds `MintInv`): the ids given out are an initial segment, so the
   count plus one is new. With it every step maps to a step of `ProposalLifecycle`
   or to a stutter.
3. *Records come first* (`RecordInv`): an approval in the log or in a worker's
   snapshot is by somebody who may approve, with the allow event on the audit log,
   and a call about to append has audited. Events are never removed.
4. *What a card may hold* (`SoundInv`): no bullet stands twice, and each answers to an
   approval - on every card, in every text an edit may put back, and in what a worker
   is about to write, which lacks the worker's own bullet. This needs no lock and no
   quiet editors, for the tests of `WorkerRead` are made on the text that is written.
   It gives `BulletsAtMostOnce` and `BulletsAnswerToApprovals`.
5. *One writer* (`Inv3` adds `LockInv`, `TextInv`): a worker under way holds the lock.
   Hence, as long as no hand edit has overtaken it, the text it read has exactly the
   bullets now on the card (for a rollback, those but the ones that mention its
   proposal), and from the write to the log entry its bullet stays on the card. It
   gives `AppliedIsOnTheCard`, `OnlyRollbackRemoves` and `RolledBackIsClean`.
6. *Expiry* (`ExpiryInv`): an approval of an access request expires at most the
   maximal ttl after it was given, because `Clamp` bounds it for every integer, and
   an applied proposal was approved.
7. *Ends* (`TodoIsLive`, `LetterInv`): what a run has still to do has not been rolled
   back; a worker on its way to a dead letter has logged and audited the failure.
   `FinalOnceQuiet` needs no more than `Inv2`: the status a process
   would overwrite is one it remembers, so nobody who remembers none can.

*Reading a file.* A chain and a history are what a reader keeps of the lines, computed
line by line. `JsonLinesProofs` proves what that means for a file of any length: what
is kept has the type of the lines, a kept line more is appended, one that is skipped
changes nothing, and a file without bad lines is read as it is. The installed provers
cannot use an induction theorem, which has an operator as parameter; each of these
facts is instead stated as a *set* of numbers that contains 0 and with each number the
next, and `Induction` shows from the least number outside that such a set is all of
the naturals.

For `AuditChain`, `WritingInv` ties what a writer holds to the file: the record it is
about to write chains off the last record a reader finds, and once part of it is
written, off the last before it, unless it runs on from a torn line. This needs the
lock (`HolderInv`) and makes `ParsedIsChained` inductive. `LossInv` is what
`LossIsVisible` rests on: every acknowledged event is on the file, or some line is torn
that nobody will complete, and that line fails `VerifyChain`. `QuietInv` says for a log
without crashes and edits that the anchor, and every anchor about to be written, is
pinned to the records; a chain only grows, so it stays pinned however late it is
written. `AnchorPinsHistory` needs no invariant but the types: it is a fact about
every file and every anchor, however they came about, by induction along the chain.

For `SignalReview`, `Written` is the journal less the line that is being written. As
long as it is intact, each history in it begins with whatever a tab or call has seen of
it (`WrittenInv`), histories being append-only; so a history of the length expected is
the history seen, which is `NobodyOverwrites`. `StageInv` ties a call to what its tab
shows, `LineInv` says that one call writes at a time and that what it writes continues
the history of its person. The step after which a line reads as an event is the one
that maps to a step of `CheckRegister`; every other step maps to a stutter, a torn line
too, because `register` does not follow a damaged file.

For `Reads`, `CacheInv` says that no stamp is ahead of the clock, so that the next
write is new to every signature, and that while a load runs the cards read so far
agree with the signature taken before it on every path not left to read; the load's
end hands that agreement to the cache. `FiledInv` (cards are where people file them)
and `Backed` (every card of the answer has its decision in the log) then give
`AnswersAreOnRecord`, which rests on no assumption about where people file cards.
`GrantsWiden` is about one step and follows from `CanRead`.

`SpanInv` says for every card a call holds - read by the load, left to decide, shown -
that it was on the disk in the course of the call, or its path was empty then; while a
walk runs it says so of what the walk has signed. `Tells` describes an unfinished call
by its tool: what it decided of the cards it met, which of them were withheld, that the
cards shown have distinct ids and are no more than the limit, and that an allowed one
is shown or something is announced as missing; `LabelIsHonest` and `GraphStandsUp` are
what is left of it when the call is answered. The digest needs more. While nothing
changes, the second listing is a hit on the cache the first one left; but the cache
need not be the vault, for a stale hit stays one (`reads_stale`). `QuietRead` and
`DigestInv` therefore say that the *signature* is that of the vault, so that the second
walk confirms the same cache, whatever cards it holds, and relate both halves of the
digest to the deals in that cache.

For `KeyFile`, `KeyInv` says that a file holds its own key or reads short, that the
file with the name is the first or that of a repair, and that a process about to read
again finds a key there: a short file never comes back. For `IdLedger`, `IdInv` says
that no two whole lines have an id, or a type and natural key, in common; that a call
about to append holds the lock and has a record that is still new; and that while no
line is broken every id returned as found or new is that of a line. The first line
for a key is picked with the library's theorem on well-founded orders.

For `Workbench`, `WbInv` is proved conjunct by conjunct.

1. `SlotInv`: a process belongs to a running request, which holds a slot.
2. `LatestOf`: of the requests that read, a page waits for its latest only, and for
   none that it has yet to send. This is what makes an overtaken answer harmless.
3. `SessionOf`: until a page knows who is asking, it has no switch under way.
4. `GreetInv`: the answer that names a person comes with a cookie that stands for that
   person, unless the page is among the fooled.
5. `Current` for every page that is `Calm` - not fooled, no switch of its own landed
   and still to be shown: the person on it, its panes and the readings under way are
   all the session's. A calm page at rest is the page of `QuietTabIsHonest`; being calm
   rather than at rest is what makes it inductive, because an answer to a switch is
   taken in one step with the panes that are read again.
6. `NameInv`: a decision under way has the name that the session will give it, unless
   it is marked `moved`. It needs `Current` at the moment of sending.

The steps fall into two kinds, each with a lemma of its own: `PageKeeps` (a page gives
up requests and begins to read) and `AdvanceKeeps` (a handler thread goes on with its
request and nobody's person changes). `Persona` and `Lapse`, which do change one, are
proved by themselves.

For `ReviewForm` the proof is `SameRules`, that the two validators differ in what they
make of the lengths and characters of ids and in nothing else, and that the form has
coupled its two fields (`FormInv`). For `Startup`,
`StartInv` keeps what the last verdict and the last start were about, and `CleanBuilds`
goes through the checks of the server: each is implied by the parser or by doctor, the
override and the bind address excepted. For `WorkbenchWire`, `WireInv` says of each
stage of an exchange why it may end in an error; `PageIsParsed` shows for all lengths and
widths of texts and ids that what a form lets through is parsed or among `TooMuch`, and
`RepliesAreValid` goes through the twelve tools and their validators.

*Assumptions.* Besides sizes and types of the constants: values that stand for nothing
(`None`, `Torn`, `TornLine`, `Absent`) are not values of what they stand for, what
people file at a path is a card of that path, the id of an account is not empty, and
the evidence limit is positive. TLC evaluates all of them.

*What the runs do not catch.* `ImplementsLifecycle` permits the overwrites of
`governance_rejected` and `governance_revoked`, as the code does; it is about ids and
about what a status rests on. `SnapshotIsSettled` asks a run to settle its snapshot:
that it should not have failed a proposal it could have applied is not claimed.

*Only model-checked.* Liveness - `LockIsReleased`, `SnapshotIsSettled`,
`EveryCallEnds`, `SlotsComeBack` - which is out of the prover's reach. The seven
properties that do not hold are refuted by their runs.

## 5. Where the code and its documentation disagree

* `governance_rejected` - `governance.py:202-203` says a rejected proposal is never
  applied. Two approvers read the same draft; one rejects it, the other's approval
  is appended afterwards without a second look (`governance.py:174`), and the worker
  applies it.
* `governance_revoked` - `governance.py:179-180` says the overlay drops a grant as
  soon as it is revoked. If the worker has the proposal in its snapshot it logs
  `applied` over `revoked` (`worker.py:112`), and the grant is in force again.
* `audit_torn` - `jsonl.py:3-5` says reads tolerate a torn trailing line. They do,
  but the next append continues that line: a record whose append returned is lost to
  every later reader. `LossIsVisible` shows that the chain check does notice.
* `reads_stale` - `retrieval.py:84-87` says a write racing the load can cause one
  extra reload, never a stale hit. A card that is created after the stat walk, read
  by the load and deleted again leaves the vault as the kept signature describes it:
  the deleted card is served until some other file changes. `CachedCardIsCurrent`
  shows that it is only ever such a card that is stale.
* `reads_misfiled` - `service.py:829-833` says that only an allow passes, "so a card
  mis-filed into a restricted boundary is never emitted", and
  `tests/test_security_no_leak.py:5-7` that it is never emitted to an unprivileged role
  through any tool, regardless of its card type. The tests mis-file their cards under
  sales-confidential, which the policy blocks. Of a company card under personal-data it
  decides a handle, `company_brief` stops at a block only (`service.py:220`), and the
  card's summary and conclusions are shown.
* `key_race` - `signing.py:83-85` says that two processes racing the first use do not
  clobber each other, and that the file is not observed empty. It is empty between
  `os.open` and `os.write`; a racer that looks then takes it for a stub and replaces
  it, and the two sign with different keys. `KeysComeFromRepairs` shows that this is
  the only way.
* `workbench_day` - a test (`tests/test_workbench_bff.py:301-306`) expects 200 of
  `GET /api/v1/my-day`. The MCP adapter takes `text` out of the structured reply
  (`saleswiki_mcp/server.py:278`) and the validator of the route requires it
  (`server.py:1002`), so with the real gateway the answer is always 502; the test's
  stand-in for the gateway keeps the field.

Two more are known and have no run of their own. `proposals.py:91-92` says only expiry
or an explicit revocation or rejection ends a grant; the worker's `failed`
(`worker.py:116`: the card was edited since the request) and `rolled-back` do so too,
since a record replaces the one that carried the grant. `App.jsx:742-757` say "Nothing
was changed" of a call that may have landed; section 2 says when.

## 6. Not modelled

* The demo scripts (`generate_demo_vault.py`, `demo_dryrun.py`) and the vault they
  write: data, and one scripted walk through the tools.
* Text: the wording of answers, scores, freshness labels, the dashboard's score
  observations, sanitising of notes, Markdown and frontmatter parsing.
* Of the workbench: rendering, filters, the layout of a graph, the tour, the fixture
  clients that stand in for the server, static files, the CORS preflight and the
  limit on the size of a response.
* The second reading of `company_brief` (`service.py:201`): no property of the code is
  lost in it, so none is stated.
* `PROJECT.json` gives for each component what is left out of it.

------------------------------ MODULE SignalReview ------------------------------
(***************************************************************************)
(* The personal quality-review journal of one account: the gateway's       *)
(* SignalReviewService (signal_review.py), called through the workbench    *)
(* server by browser tabs (SignalReviewModal.jsx, signalReviewClient.js).  *)
(*                                                                         *)
(* Every call runs in an MCP process of its own, which the workbench       *)
(* server kills when it times out.  The journal is one JSONL file shared   *)
(* by all persons; the append is the one AuditChain describes.             *)
(*                                                                         *)
(* Abstractions: one account; a request is its action and its evidence     *)
(* (ReviewRequest says which requests are well formed); revision of the    *)
(* starting event stands for the time in assigned_at; the limit of 20      *)
(* shown events is not reached.  Closing the modal during a call and       *)
(* opening it again is opening another tab.                                *)
(***************************************************************************)
EXTENDS Integers, SequencesExt, JsonLines

CONSTANTS
  Actors,     \* reviewers
  Tabs,       \* open review modals
  SignIns,    \* who may be signed in where: functions from Tabs to Actors
  Sources,    \* source cards related to the account
  Card,       \* the account's card
  MaxSaves,   \* bound on requests to record
  MaxMoves,   \* bound on changes of what somebody may read
  MaxTears,   \* bound on calls killed in the middle of a write
  TornLine    \* a line that json.loads refuses

ASSUME SignalReviewAssumption ==
  /\ SignIns \subseteq [Tabs -> Actors]
  /\ Card \notin Sources
  /\ MaxSaves \in Nat /\ MaxMoves \in Nat /\ MaxTears \in Nat

VARIABLES
  journal,    \* lines of the journal file
  unclosed,   \* the last line has no newline yet
  actorOf,    \* the person each tab is signed in as
  visible,    \* cards each actor may read
  tab,        \* what each tab shows
  call,       \* the call each tab has under way
  confirmed,  \* events whose recording a tab was told of
  register,   \* each actor's history when the file was last intact
  saves, moves, tears   \* counters

journalVars == <<journal, unclosed, register>>
browserVars == <<tab, confirmed, saves>>
actorVars == <<actorOf, visible>>
reviewVars == <<journalVars, browserVars, actorVars, call, moves, tears>>

States == {"in_progress", "completed"}
Actions == {"start", "complete"}
ReviewEvents ==
  [actor : Actors, tab : Tabs, evidence : SUBSET Sources, state : States,
   revision : Nat \ {0}, assigned : Nat \ {0}]

ASSUME TornLineAssumption == TornLine \notin ReviewEvents

IdleCall == [pc |-> "idle", action |-> "start", expected |-> 0, evidence |-> {},
             seen |-> <<>>, sources |-> {}, glued |-> FALSE, answer |-> "none"]

--------------------------------------------------------------------------------
(***************************************************************************)
(* The journal.                                                            *)
(***************************************************************************)
ParsedEvents(ls) == Parse(ls, TornLine)
Intact(ls) == \A i \in DOMAIN ls : ls[i] # TornLine
FaultyHistory(ls, a) == ParsedEvents(ls)
History(ls, a) ==
  LET events == ParsedEvents(ls)
  IN  Kept(events, {n \in 1 .. Len(events) : events[n].actor = a})
InProgress(history) == history # <<>> /\ Last(history).state = "in_progress"
Cited(history) == UNION {history[i].evidence : i \in DOMAIN history}

\* compute in record(): the event for the request of tab t after this history.
NewEvent(t, history) ==
  LET c == call[t]
      revision == Len(history) + 1
  IN  [actor |-> actorOf[t], tab |-> t, evidence |-> c.evidence,
       state |-> IF c.action = "start" THEN "in_progress" ELSE "completed",
       revision |-> revision,
       assigned |-> IF c.action = "start" THEN revision ELSE Last(history).assigned]

FaultyFits(c, history) == c.action = "start" <=> ~InProgress(history)

FaultyFitsState(c, history) ==
  Len(history) = c.expected /\ (c.action = "start" <=> InProgress(history))

\* The tab has seen all of the history, and its action is the next one.
Fits(c, history) ==
  /\ Len(history) = c.expected
  /\ c.action = "start" <=> ~InProgress(history)

Locked == \E t \in Tabs : call[t].pc = "rest"

\* The file becomes ls.
SetLines(ls) ==
  /\ journal' = ls
  /\ register' = IF Intact(ls) THEN [a \in Actors |-> History(ls, a)] ELSE register

--------------------------------------------------------------------------------
(***************************************************************************)
(* Calls.  One that fails, at the gateway or the workbench server, answers *)
(* "error" whatever the reason: the tab treats all of them alike.          *)
(***************************************************************************)
Goto(t, pc) == call' = [call EXCEPT ![t].pc = pc]
ReviewAnswer(t, answer) == call' = [call EXCEPT ![t].pc = "answer", ![t].answer = answer]
InCall == UNCHANGED <<browserVars, actorVars, moves, tears>>

\* The card, then the journal.
GetHistory(t) ==
  /\ call[t].pc = "get-history"
  /\ IF Card \in visible[actorOf[t]] /\ Intact(journal)
     THEN call' = [call EXCEPT ![t].pc = "get-sources",
                               ![t].seen = History(journal, actorOf[t])]
     ELSE ReviewAnswer(t, "error")
  /\ UNCHANGED journalVars /\ InCall

\* An event citing a source that is no longer accessible hides the whole history.
GetSources(t) ==
  /\ call[t].pc = "get-sources"
  /\ LET sources == visible[actorOf[t]] \ {Card}
     IN  IF Cited(call[t].seen) \subseteq sources
         THEN call' = [call EXCEPT ![t].pc = "answer", ![t].answer = "ok",
                                   ![t].sources = sources]
         ELSE ReviewAnswer(t, "error")
  /\ UNCHANGED journalVars /\ InCall

\* The card, then the sources.
RecordSources(t) ==
  /\ call[t].pc = "record-sources"
  /\ LET sources == visible[actorOf[t]] \ {Card}
     IN  IF Card \in visible[actorOf[t]] /\ call[t].evidence \subseteq sources
         THEN call' = [call EXCEPT ![t].pc = "record-journal", ![t].sources = sources]
         ELSE ReviewAnswer(t, "error")
  /\ UNCHANGED journalVars /\ InCall

FaultyRecordJournal(t) ==
  /\ call[t].pc = "record-journal"
  /\ IF Intact(journal)
     THEN call' = [call EXCEPT ![t].pc = "append"]
     ELSE ReviewAnswer(t, "error")
  /\ UNCHANGED journalVars /\ InCall

\* Also where a follow-up date that has passed meanwhile is refused.
RecordJournal(t) ==
  /\ call[t].pc = "record-journal"
  /\ IF Intact(journal) /\ Cited(History(journal, actorOf[t])) \subseteq call[t].sources
     THEN Goto(t, "append") \/ ReviewAnswer(t, "error")
     ELSE ReviewAnswer(t, "error")
  /\ UNCHANGED journalVars /\ InCall

\* Under the lock: the request is compared with the history as it is now, and
\* the event becomes visible in part, gluing to a line it finds open.
RecordAppend(t) ==
  /\ call[t].pc = "append"
  /\ ~Locked
  /\ LET history == History(journal, actorOf[t])
     IN  IF Fits(call[t], history)
         THEN \E piece \in {TornLine, NewEvent(t, history)} :
                /\ SetLines(IF unclosed THEN [journal EXCEPT ![Len(journal)] = TornLine]
                                    ELSE Append(journal, piece))
                /\ unclosed' = TRUE
                /\ call' = [call EXCEPT ![t].pc = "rest", ![t].glued = unclosed]
         ELSE ReviewAnswer(t, "conflict") /\ UNCHANGED journalVars
  /\ InCall

RecordRest(t) ==
  /\ call[t].pc = "rest"
  /\ SetLines(IF call[t].glued THEN journal
              ELSE [journal EXCEPT ![Len(journal)] =
                      NewEvent(t, History(Front(journal), actorOf[t]))])
  /\ unclosed' = FALSE
  /\ ReviewAnswer(t, "recorded")
  /\ InCall

--------------------------------------------------------------------------------
(***************************************************************************)
(* Failures.  The workbench server gives up (no free slot, a timeout, an   *)
(* answer it cannot read) and the call's process is killed wherever it is. *)
(***************************************************************************)
Fail(t) ==
  /\ call[t].pc \notin {"idle", "rest"}
  /\ call[t].answer # "error"
  /\ ReviewAnswer(t, "error")
  /\ UNCHANGED journalVars /\ InCall

Tear(t) ==
  /\ call[t].pc = "rest"
  /\ tears < MaxTears
  /\ tears' = tears + 1
  /\ ReviewAnswer(t, "error")
  /\ UNCHANGED <<journalVars, browserVars, actorVars, moves>>

--------------------------------------------------------------------------------
(***************************************************************************)
(* The modal.                                                              *)
(***************************************************************************)
\* Opening, reopening, or reloading the history after an error.
Load(t) ==
  /\ tab[t].pc \in {"closed", "ready", "error"}
  /\ call[t].pc = "idle"
  /\ tab' = [tab EXCEPT ![t] = [pc |-> "loading", seen |-> <<>>, sources |-> {}]]
  /\ call' = [call EXCEPT ![t] = [IdleCall EXCEPT !.pc = "get-history"]]
  /\ UNCHANGED <<journalVars, confirmed, actorVars, saves, moves, tears>>

\* What is saved follows what the tab shows: its revision, its state, its sources.
Save(t) ==
  /\ tab[t].pc = "ready"
  /\ saves < MaxSaves
  /\ saves' = saves + 1
  /\ LET active == InProgress(tab[t].seen)
     IN  \E evidence \in SUBSET (IF active THEN tab[t].sources ELSE {}) :
           call' = [call EXCEPT ![t] =
                      [IdleCall EXCEPT !.pc = "record-sources", !.evidence = evidence,
                         !.action = IF active THEN "complete" ELSE "start",
                         !.expected = Len(tab[t].seen)]]
  /\ tab' = [tab EXCEPT ![t].pc = "saving"]
  /\ UNCHANGED <<journalVars, confirmed, actorVars, moves, tears>>

Shown(t) ==
  /\ tab[t].pc = "loading" /\ call[t].answer = "ok"
  /\ tab' = [tab EXCEPT ![t] = [pc |-> "ready", seen |-> call[t].seen,
                                sources |-> call[t].sources]]
  /\ call' = [call EXCEPT ![t] = IdleCall]
  /\ UNCHANGED confirmed

\* The tab says so and loads the history again.
Recorded(t) ==
  /\ tab[t].pc = "saving" /\ call[t].answer = "recorded"
  /\ confirmed' = confirmed \cup {[tab |-> t, revision |-> call[t].expected + 1]}
  /\ tab' = [tab EXCEPT ![t] = [pc |-> "loading", seen |-> <<>>, sources |-> {}]]
  /\ call' = [call EXCEPT ![t] = [IdleCall EXCEPT !.pc = "get-history"]]

FaultyNotRecorded(t) ==
  /\ tab[t].pc \in {"loading", "saving"} /\ call[t].answer \in {"error", "conflict"}
  /\ confirmed' = IF call[t].answer = "conflict"
                  THEN confirmed \cup {[tab |-> t, revision |-> call[t].expected + 1]}
                  ELSE confirmed
  /\ tab' = [tab EXCEPT ![t] = [pc |-> "error", seen |-> <<>>, sources |-> {}]]
  /\ call' = [call EXCEPT ![t] = IdleCall]

\* Nothing is shown as saved; the tab must be loaded again before another save.
NotRecorded(t) ==
  /\ tab[t].pc \in {"loading", "saving"} /\ call[t].answer \in {"error", "conflict"}
  /\ tab' = [tab EXCEPT ![t] = [pc |-> "error", seen |-> <<>>, sources |-> {}]]
  /\ call' = [call EXCEPT ![t] = IdleCall]
  /\ UNCHANGED confirmed

Deliver(t) ==
  /\ call[t].pc = "answer"
  /\ Shown(t) \/ Recorded(t) \/ NotRecorded(t)
  /\ UNCHANGED <<journalVars, actorVars, saves, moves, tears>>

\* Policy, ownership, grants or the vault change what an actor may read.
Move ==
  /\ moves < MaxMoves
  /\ moves' = moves + 1
  /\ \E a \in Actors, c \in Sources \cup {Card} :
       visible' = [visible EXCEPT ![a] = IF c \in @ THEN @ \ {c} ELSE @ \cup {c}]
  /\ UNCHANGED <<journalVars, browserVars, actorOf, call, tears>>

--------------------------------------------------------------------------------
ReviewInit ==
  /\ journal = <<>> /\ unclosed = FALSE
  /\ register = [a \in Actors |-> <<>>]
  /\ actorOf \in SignIns
  /\ visible = [a \in Actors |-> Sources \cup {Card}]
  /\ tab = [t \in Tabs |-> [pc |-> "closed", seen |-> <<>>, sources |-> {}]]
  /\ call = [t \in Tabs |-> IdleCall]
  /\ confirmed = {}
  /\ saves = 0 /\ moves = 0 /\ tears = 0

TabNext(t) ==
  \/ Load(t) \/ Save(t) \/ Deliver(t)
  \/ GetHistory(t) \/ GetSources(t)
  \/ RecordSources(t) \/ RecordJournal(t) \/ RecordAppend(t) \/ RecordRest(t)
  \/ Fail(t) \/ Tear(t)

ReviewNext == Move \/ \E t \in Tabs : TabNext(t)

ReviewSpec == ReviewInit /\ [][ReviewNext]_reviewVars

--------------------------------------------------------------------------------
(***************************************************************************)
(* Properties.                                                             *)
(***************************************************************************)

Current(history) == IF InProgress(history) THEN Last(history).assigned ELSE 0

Register == INSTANCE CheckRegister WITH
  revision <- [a \in Actors |-> Len(register[a])],
  current <- [a \in Actors |-> Current(register[a])]

\* What can be read of the journal is a register of checks: per person, numbered
\* events, started and completed in turn, whatever tabs race, calls die and journal
\* tear (SignalReviewService.record over append_computed).
RefinesRegister == Register!Spec

Appends(t) == call[t].pc = "append" /\ call'[t].pc = "rest"

\* While the journal is intact a tab only ever adds to the history it shows: no
\* check another tab changed in the meantime is overwritten (expected_revision,
\* signal_review.py:4).  A write that runs on from an open line destroys the event
\* there; the history may then grow back to the length a waiting call expects.
NobodyOverwrites ==
  [][\A t \in Tabs :
       Appends(t) /\ Intact(journal) =>
         History(journal, actorOf[t]) = tab[t].seen]_reviewVars

\* While the journal is intact no history is continued that cites something its
\* reader could not read when the call looked, even if the journal was read later
\* (record()).
HiddenHistoryIsFrozen ==
  [][\A t \in Tabs :
       Appends(t) /\ Intact(journal) =>
         Cited(History(journal, actorOf[t])) \subseteq call[t].sources]_reviewVars

\* A save that was confirmed is in the journal, unless the damage is there for
\* every reader to see (read_records_checked; Modal save()).
ConfirmedOrDamaged ==
  Intact(journal) =>
    \A c \in confirmed : \E i \in DOMAIN journal :
      journal[i].tab = c.tab /\ journal[i].revision = c.revision

\* "This check changed in another tab" is never said of one that did not change:
\* the action a tab offers fits whatever it shows.
ConflictMeansChange ==
  [][\A t \in Tabs :
       call[t].pc = "append" /\ call'[t].answer = "conflict" =>
         History(journal, actorOf[t]) # tab[t].seen]_reviewVars
================================================================================

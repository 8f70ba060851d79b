--------------------------- MODULE SignalReviewProofs ---------------------------
(***************************************************************************)
(* Theorems of SignalReview, for any number of reviewers, tabs, sources,   *)
(* saves, changes of access and calls killed in the middle of a write.     *)
(***************************************************************************)
EXTENDS SignalReview, JsonLinesProofs

--------------------------------------------------------------------------------
(***************************************************************************)
(* The parts of the invariant.                                             *)
(***************************************************************************)
ReviewLines == ReviewEvents \cup {TornLine}

TabStates ==
  [pc : {"closed", "loading", "ready", "saving", "error"}, seen : Seq(ReviewEvents),
   sources : SUBSET Sources]

CallStates ==
  [pc : {"idle", "get-history", "get-sources", "record-sources", "record-journal", "append",
         "rest", "answer"},
   action : Actions, expected : Nat, evidence : SUBSET Sources, seen : Seq(ReviewEvents),
   sources : SUBSET Sources, glued : BOOLEAN,
   answer : {"none", "ok", "error", "conflict", "recorded"}]

ReviewTypeOK ==
  /\ journal \in Seq(ReviewLines) /\ unclosed \in BOOLEAN
  /\ actorOf \in [Tabs -> Actors]
  /\ visible \in [Actors -> SUBSET (Sources \cup {Card})]
  /\ tab \in [Tabs -> TabStates]
  /\ call \in [Tabs -> CallStates]

\* What a call under way is for: the save a tab waits for follows what it shows.
StageInv ==
  \A t \in Tabs :
    /\ tab[t].pc \notin {"loading", "saving"} => call[t].pc = "idle"
    /\ call[t].pc # "answer" => call[t].answer = "none"
    /\ call[t].pc \in {"record-sources", "record-journal", "append", "rest"} =>
         tab[t].pc = "saving"
    /\ tab[t].pc = "saving" =>
         /\ call[t].expected = Len(tab[t].seen)
         /\ call[t].action = "complete" <=> InProgress(tab[t].seen)

\* A call that writes its event and will complete it.
Resting(t) == call[t].pc = "rest" /\ ~ call[t].glued

FrontHistory(t) == History(Front(journal), actorOf[t])

\* One call writes at a time: it runs on from a torn line, or the last line is as
\* much of its event as is there, and the event continues what comes before it.
LineInv ==
  /\ \A s, t \in Tabs : call[s].pc = "rest" /\ call[t].pc = "rest" => s = t
  /\ unclosed \/ Locked => journal # <<>>
  /\ \A t \in Tabs :
       call[t].pc = "rest" =>
         IF call[t].glued THEN Last(journal) = TornLine
         ELSE /\ Last(journal) \in {TornLine, NewEvent(t, FrontHistory(t))}
              /\ Fits(call[t], FrontHistory(t))

\* The journal without a line that is torn only because it is being written.
Written ==
  IF (\E t \in Tabs : Resting(t)) /\ Last(journal) = TornLine THEN Front(journal) ELSE journal

Histories(ls) == [a \in Actors |-> History(ls, a)]
Begins(s, h) == Len(s) <= Len(h) /\ \A i \in 1 .. Len(s) : s[i] = h[i]
OnFile(ls, t, revision) ==
  \E i \in 1 .. Len(ls) : ls[i].tab = t /\ ls[i].revision = revision

\* As long as no event was destroyed, every history begins with what any tab or call
\* has seen of it, and whatever was recorded is there.
WrittenFor(t) ==
  LET history == History(Written, actorOf[t])
  IN  /\ Begins(tab[t].seen, history)
      /\ Begins(call[t].seen, history)
      /\ call[t].pc = "append" /\ Len(history) = call[t].expected =>
           Cited(history) \subseteq call[t].sources
      /\ call[t].answer = "recorded" => OnFile(Written, t, call[t].expected + 1)

WrittenInv ==
  Intact(Written) =>
    /\ register = Histories(Written)
    /\ \A t \in Tabs : WrittenFor(t)
    /\ \A c \in confirmed : OnFile(Written, c.tab, c.revision)

ReviewInv == ReviewTypeOK /\ StageInv /\ LineInv /\ WrittenInv

--------------------------------------------------------------------------------
(***************************************************************************)
(* Histories.                                                              *)
(***************************************************************************)
LEMMA EventsType == ASSUME NEW ls \in Seq(ReviewLines) PROVE ParsedEvents(ls) \in Seq(ReviewEvents)
<1>1. Parse(ls, TornLine) \in Seq(ReviewLines \ {TornLine})
  BY ParseType
<1>2. ReviewLines \ {TornLine} \subseteq ReviewEvents
  BY DEF ReviewLines
<1> HIDE DEF ReviewLines
<1> QED
  BY <1>1, <1>2, SeqMonotonic DEF ParsedEvents

LEMMA HistoryType ==
  ASSUME NEW ls \in Seq(ReviewLines), NEW a
  PROVE  History(ls, a) \in Seq(ReviewEvents) /\ Len(History(ls, a)) \in Nat
<1> DEFINE events == ParsedEvents(ls)
           mine == {n \in 1 .. Len(events) : events[n].actor = a}
<1>1. events \in Seq(ReviewEvents)
  BY EventsType
<1>2. \A n \in 1 .. Len(events) : n \in mine => events[n] \in ReviewEvents
  BY <1>1, ElementOfSeq
<1>3. History(ls, a) = Kept(events, mine)
  BY DEF History
<1> HIDE DEF events, mine
<1>4. Kept(events, mine) \in Seq(ReviewEvents)
  BY <1>1, <1>2, KeptType
<1> QED
  BY <1>3, <1>4

LEMMA HistoryEmpty == ASSUME NEW a PROVE History(<<>>, a) = <<>>
<1>1. ParsedEvents(<<>>) = <<>>
  BY ParseEmpty DEF ParsedEvents
<1> QED
  BY <1>1, KeptEmpty DEF History

LEMMA HistoryAppend ==
  ASSUME NEW ls \in Seq(ReviewLines), NEW e \in ReviewEvents, NEW a
  PROVE  History(Append(ls, e), a) =
           IF e.actor = a THEN Append(History(ls, a), e) ELSE History(ls, a)
<1> DEFINE events == ParsedEvents(ls)
           longer == Append(events, e)
           P == {n \in 1 .. Len(events) : events[n].actor = a}
           Q == {n \in 1 .. Len(longer) : longer[n].actor = a}
<1>1. events \in Seq(ReviewEvents)
  BY EventsType
<1>2. ParsedEvents(Append(ls, e)) = longer
  <2>1. e \in ReviewLines /\ e # TornLine
    BY TornLineAssumption DEF ReviewLines, TornLineAssumption
  <2> QED
    BY <2>1, ParseAppend DEF ParsedEvents
<1>3. History(ls, a) = Kept(events, P) /\ History(Append(ls, e), a) = Kept(longer, Q)
  BY <1>2 DEF History
<1>4. /\ Len(events) \in Nat /\ Len(longer) = Len(events) + 1
      /\ \A n \in 1 .. Len(events) : longer[n] = events[n]
      /\ longer[Len(events) + 1] = e
  BY <1>1, AppendProperties
<1>5. \A n \in 1 .. Len(events) : n \in P <=> n \in Q
  BY <1>4
<1>6. Len(events) + 1 \in Q <=> e.actor = a
  BY <1>4
<1>7. longer = Append(events, e)
  OBVIOUS
<1> HIDE DEF events, longer, P, Q
<1>8. Kept(Append(events, e), Q) =
        IF Len(events) + 1 \in Q THEN Append(Kept(events, P), e) ELSE Kept(events, P)
  BY <1>1, <1>5, KeptAppend
<1> QED
  BY <1>3, <1>6, <1>7, <1>8

\* A journal that grew at its end is intact if it was and the line is.
LEMMA IntactAppend ==
  ASSUME NEW ls \in Seq(ReviewLines), NEW l \in ReviewLines
  PROVE  Intact(Append(ls, l)) <=> Intact(ls) /\ l # TornLine
<1>1. /\ Len(ls) \in Nat /\ DOMAIN ls = 1 .. Len(ls)
      /\ DOMAIN Append(ls, l) = 1 .. Len(ls) + 1
      /\ \A i \in 1 .. Len(ls) : Append(ls, l)[i] = ls[i]
      /\ Append(ls, l)[Len(ls) + 1] = l
  BY AppendProperties
<1> QED
  BY <1>1 DEF Intact

\* The event for a request that fits is one, and it is the next of its history.
LEMMA NextEvent ==
  ASSUME ReviewTypeOK, NEW t \in Tabs, NEW history \in Seq(ReviewEvents),
         Fits(call[t], history)
  PROVE  /\ NewEvent(t, history) \in ReviewEvents
         /\ NewEvent(t, history).actor = actorOf[t] /\ NewEvent(t, history).tab = t
         /\ NewEvent(t, history).revision = call[t].expected + 1
         /\ call[t].action = "start" =>
              /\ ~ InProgress(history)
              /\ NewEvent(t, history).state = "in_progress"
              /\ NewEvent(t, history).assigned = Len(history) + 1
         /\ call[t].action # "start" =>
              /\ InProgress(history)
              /\ NewEvent(t, history).state = "completed"
<1>1. /\ call[t].expected \in Nat /\ call[t].action \in Actions
      /\ call[t].evidence \in SUBSET Sources /\ actorOf[t] \in Actors
  BY DEF ReviewTypeOK, CallStates
<1>2. Len(history) = call[t].expected
  BY DEF Fits
<1>3. call[t].action # "start" => Last(history).assigned \in Nat \ {0}
  <2>1. call[t].action # "start" => history # <<>>
    BY DEF Fits, InProgress
  <2>2. history # <<>> => Last(history) \in ReviewEvents
    BY LastLine
  <2> QED
    BY <2>1, <2>2 DEF ReviewEvents
<1>4. NewEvent(t, history) \in ReviewEvents
  BY <1>1, <1>2, <1>3 DEF NewEvent, ReviewEvents, States
<1> QED
  BY <1>1, <1>2, <1>4 DEF NewEvent, Fits

--------------------------------------------------------------------------------
(***************************************************************************)
(* What the two halves of a write do to the journal.                       *)
(***************************************************************************)
\* Only the call of tab t changed, and this is what it is now.
CallBecomes(t, c) == call' = [call EXCEPT ![t] = c]

LEMMA Becomes ==
  ASSUME ReviewTypeOK, NEW t \in Tabs, NEW c, CallBecomes(t, c)
  PROVE  call'[t] = c /\ \A s \in Tabs : s # t => call'[s] = call[s]
BY DEF ReviewTypeOK, CallBecomes

LEMMA AppendLine ==
  ASSUME ReviewTypeOK, LineInv, NEW t \in Tabs, RecordAppend(t)
  PROVE  LET history == History(journal, actorOf[t])
         IN  /\ call[t].pc = "append" /\ ~ Locked
             /\ \/ /\ ~ Fits(call[t], history) /\ UNCHANGED journalVars
                   /\ CallBecomes(t, [call[t] EXCEPT !.pc = "answer", !.answer = "conflict"])
                \/ /\ Fits(call[t], history) /\ unclosed'
                   /\ CallBecomes(t, [call[t] EXCEPT !.pc = "rest", !.glued = unclosed])
                   /\ \E piece \in {TornLine, NewEvent(t, history)} :
                        /\ SetLines(journal')
                        /\ IF unclosed THEN /\ journal # <<>>
                                            /\ journal' = Append(Front(journal), TornLine)
                           ELSE journal' = Append(journal, piece)
<1> DEFINE history == History(journal, actorOf[t])
<1>0. call[t].pc = "append" /\ ~ Locked
  BY DEF RecordAppend
<1>1. CASE Fits(call[t], history)
  <2>1. PICK piece \in {TornLine, NewEvent(t, history)} :
          /\ SetLines(IF unclosed THEN [journal EXCEPT ![Len(journal)] = TornLine]
                      ELSE Append(journal, piece))
          /\ unclosed' = TRUE
          /\ call' = [call EXCEPT ![t].pc = "rest", ![t].glued = unclosed]
    BY <1>1 DEF RecordAppend
  <2>2. CallBecomes(t, [call[t] EXCEPT !.pc = "rest", !.glued = unclosed])
    BY <2>1 DEF CallBecomes
  <2>3. CASE unclosed
    <3>1. journal # <<>>
      BY <2>3 DEF LineInv
    <3>2. [journal EXCEPT ![Len(journal)] = TornLine] = Append(Front(journal), TornLine)
      BY <3>1, LastLine DEF ReviewTypeOK
    <3>3. SetLines(Append(Front(journal), TornLine))
      BY <2>1, <2>3, <3>2
    <3>4. journal' = Append(Front(journal), TornLine)
      BY <3>3 DEF SetLines
    <3> HIDE DEF history
    <3> QED
      BY <1>0, <1>1, <2>1, <2>2, <2>3, <3>1, <3>3, <3>4 DEF history
  <2>4. CASE ~ unclosed
    <3>1. SetLines(Append(journal, piece))
      BY <2>1, <2>4
    <3>2. journal' = Append(journal, piece)
      BY <3>1 DEF SetLines
    <3> HIDE DEF history
    <3> QED
      BY <1>0, <1>1, <2>1, <2>2, <2>4, <3>1, <3>2 DEF history
  <2> QED
    BY <2>3, <2>4
<1>2. CASE ~ Fits(call[t], history)
  <2>1. UNCHANGED journalVars /\ ReviewAnswer(t, "conflict")
    BY <1>2 DEF RecordAppend
  <2>2. CallBecomes(t, [call[t] EXCEPT !.pc = "answer", !.answer = "conflict"])
    BY <2>1 DEF ReviewAnswer, CallBecomes
  <2> QED
    BY <1>0, <1>2, <2>1, <2>2
<1> QED
  BY <1>1, <1>2

LEMMA RestOfEvent ==
  ASSUME ReviewTypeOK, LineInv, NEW t \in Tabs, RecordRest(t)
  PROVE  /\ call[t].pc = "rest" /\ ~ unclosed' /\ journal # <<>>
         /\ CallBecomes(t, [call[t] EXCEPT !.pc = "answer", !.answer = "recorded"])
         /\ SetLines(journal')
         /\ IF call[t].glued THEN journal' = journal /\ Last(journal) = TornLine
            ELSE /\ journal' = Append(Front(journal), NewEvent(t, FrontHistory(t)))
                 /\ Last(journal) \in {TornLine, NewEvent(t, FrontHistory(t))}
                 /\ Fits(call[t], FrontHistory(t))
<1>1. call[t].pc = "rest" /\ journal # <<>>
  BY DEF RecordRest, LineInv, Locked
<1>2. CallBecomes(t, [call[t] EXCEPT !.pc = "answer", !.answer = "recorded"]) /\ ~ unclosed'
  BY DEF RecordRest, ReviewAnswer, CallBecomes
<1>3. CASE call[t].glued
  <2>1. SetLines(journal)
    BY <1>3 DEF RecordRest
  <2>2. journal' = journal
    BY <2>1 DEF SetLines
  <2>3. Last(journal) = TornLine
    BY <1>1, <1>3 DEF LineInv
  <2> QED
    BY <1>1, <1>2, <1>3, <2>1, <2>2, <2>3
<1>4. CASE ~ call[t].glued
  <2>1. SetLines([journal EXCEPT ![Len(journal)] = NewEvent(t, FrontHistory(t))])
    BY <1>4 DEF RecordRest, FrontHistory
  <2>2. [journal EXCEPT ![Len(journal)] = NewEvent(t, FrontHistory(t))]
          = Append(Front(journal), NewEvent(t, FrontHistory(t)))
    BY <1>1, LastLine DEF ReviewTypeOK
  <2>3. SetLines(Append(Front(journal), NewEvent(t, FrontHistory(t))))
    BY <2>1, <2>2
  <2>4. journal' = Append(Front(journal), NewEvent(t, FrontHistory(t)))
    BY <2>3 DEF SetLines
  <2>5. /\ Last(journal) \in {TornLine, NewEvent(t, FrontHistory(t))}
        /\ Fits(call[t], FrontHistory(t))
    BY <1>1, <1>4 DEF LineInv
  <2> QED
    BY <1>1, <1>2, <1>4, <2>3, <2>4, <2>5
<1> QED
  BY <1>3, <1>4

LEMMA AnswerBecomes ==
  ASSUME NEW t, NEW answer, ReviewAnswer(t, answer)
  PROVE  CallBecomes(t, [call[t] EXCEPT !.pc = "answer", !.answer = answer])
BY DEF ReviewAnswer, CallBecomes

\* A step of a call that reads: it goes on, with what it read, or answers.
Reads(t) ==
  \/ GetHistory(t) \/ GetSources(t) \/ RecordSources(t) \/ RecordJournal(t) \/ Fail(t)

ReadBecomes(t, c) ==
  \/ /\ GetHistory(t) /\ Intact(journal)
     /\ c = [call[t] EXCEPT !.pc = "get-sources", !.seen = History(journal, actorOf[t])]
  \/ /\ GetSources(t)
     /\ c = [call[t] EXCEPT !.pc = "answer", !.answer = "ok",
                            !.sources = visible[actorOf[t]] \ {Card}]
  \/ /\ RecordSources(t)
     /\ c = [call[t] EXCEPT !.pc = "record-journal", !.sources = visible[actorOf[t]] \ {Card}]
  \/ /\ RecordJournal(t) /\ Intact(journal)
     /\ Cited(History(journal, actorOf[t])) \subseteq call[t].sources
     /\ c = [call[t] EXCEPT !.pc = "append"]
  \/ c = [call[t] EXCEPT !.pc = "answer", !.answer = "error"]

LEMMA ReadStep ==
  ASSUME NEW t, Reads(t)
  PROVE  /\ UNCHANGED <<journalVars, browserVars, actorVars>>
         /\ call[t].pc \notin {"idle", "rest"}
         /\ \E c : ReadBecomes(t, c) /\ CallBecomes(t, c)
<1>1. UNCHANGED <<journalVars, browserVars, actorVars>> /\ call[t].pc \notin {"idle", "rest"}
  BY DEF Reads, GetHistory, GetSources, RecordSources, RecordJournal, Fail, InCall,
         browserVars, actorVars
<1>2. CASE ReviewAnswer(t, "error")
  BY <1>1, <1>2, AnswerBecomes DEF ReadBecomes
<1>3. CASE GetHistory(t) /\ ~ ReviewAnswer(t, "error")
  <2>1. /\ Intact(journal)
        /\ CallBecomes(t, [call[t] EXCEPT !.pc = "get-sources",
                                          !.seen = History(journal, actorOf[t])])
    BY <1>3 DEF GetHistory, CallBecomes
  <2> QED
    BY <1>1, <1>3, <2>1 DEF ReadBecomes
<1>4. CASE GetSources(t) /\ ~ ReviewAnswer(t, "error")
  <2>1. CallBecomes(t, [call[t] EXCEPT !.pc = "answer", !.answer = "ok",
                                      !.sources = visible[actorOf[t]] \ {Card}])
    BY <1>4 DEF GetSources, CallBecomes
  <2> QED
    BY <1>1, <1>4, <2>1 DEF ReadBecomes
<1>5. CASE RecordSources(t) /\ ~ ReviewAnswer(t, "error")
  <2>1. CallBecomes(t, [call[t] EXCEPT !.pc = "record-journal",
                                      !.sources = visible[actorOf[t]] \ {Card}])
    BY <1>5 DEF RecordSources, CallBecomes
  <2> QED
    BY <1>1, <1>5, <2>1 DEF ReadBecomes
<1>6. CASE RecordJournal(t) /\ ~ ReviewAnswer(t, "error")
  <2>1. /\ Intact(journal) /\ Cited(History(journal, actorOf[t])) \subseteq call[t].sources
        /\ CallBecomes(t, [call[t] EXCEPT !.pc = "append"])
    BY <1>6 DEF RecordJournal, Goto, CallBecomes
  <2> QED
    BY <1>1, <1>6, <2>1 DEF ReadBecomes
<1> QED
  BY <1>2, <1>3, <1>4, <1>5, <1>6 DEF Reads, Fail

\* Every other action leaves the journal and who is writing alone.
Elsewhere(t) ==
  Load(t) \/ Save(t) \/ Deliver(t) \/ Reads(t)

LEMMA StepCases ==
  ASSUME [ReviewNext]_reviewVars
  PROVE  \/ UNCHANGED reviewVars \/ Move
         \/ \E t \in Tabs : RecordAppend(t) \/ RecordRest(t) \/ Tear(t) \/ Elsewhere(t)
BY DEF ReviewNext, TabNext, Elsewhere, Reads

LEMMA WritesNothing ==
  ASSUME ReviewTypeOK, StageInv, NEW t \in Tabs, Elsewhere(t)
  PROVE  /\ UNCHANGED journalVars /\ UNCHANGED actorVars
         /\ call[t].pc # "rest" /\ call'[t].pc # "rest"
         /\ \A s \in Tabs : s # t => call'[s] = call[s] /\ tab'[s] = tab[s]
<1> USE DEF ReviewTypeOK
<1>1. CASE Load(t)
  BY <1>1 DEF Load, IdleCall
<1>2. CASE Save(t)
  <2>1. call[t].pc = "idle"
    BY <1>2 DEF Save, StageInv
  <2>2. /\ \E evidence : call' = [call EXCEPT ![t] =
                      [IdleCall EXCEPT !.pc = "record-sources", !.evidence = evidence,
                         !.action = IF InProgress(tab[t].seen) THEN "complete" ELSE "start",
                         !.expected = Len(tab[t].seen)]]
        /\ tab' = [tab EXCEPT ![t].pc = "saving"]
        /\ UNCHANGED journalVars /\ UNCHANGED actorVars
    BY <1>2 DEF Save
  <2> QED
    BY <2>1, <2>2 DEF IdleCall
<1>3. CASE Deliver(t)
  BY <1>3 DEF Deliver, Shown, Recorded, NotRecorded, IdleCall
<1>4. CASE Reads(t)
  <2>1. PICK c : ReadBecomes(t, c) /\ CallBecomes(t, c)
    BY <1>4, ReadStep
  <2>2. c.pc # "rest"
    BY <2>1 DEF ReadBecomes, CallStates
  <2>3. call'[t] = c /\ \A s \in Tabs : s # t => call'[s] = call[s]
    BY <2>1, Becomes
  <2>4. UNCHANGED <<journalVars, browserVars, actorVars>> /\ call[t].pc # "rest"
    BY <1>4, ReadStep
  <2> QED
    BY <2>2, <2>3, <2>4 DEF browserVars
<1> QED
  BY <1>1, <1>2, <1>3, <1>4 DEF Elsewhere

--------------------------------------------------------------------------------
(***************************************************************************)
(* Types.                                                                  *)
(***************************************************************************)
LEMMA JournalStaysTyped ==
  ASSUME ReviewTypeOK, StageInv, LineInv, [ReviewNext]_reviewVars
  PROVE  journal' \in Seq(ReviewLines) /\ unclosed' \in BOOLEAN
<1> USE DEF ReviewTypeOK
<1>1. ASSUME NEW t \in Tabs, RecordAppend(t)
      PROVE  journal' \in Seq(ReviewLines) /\ unclosed' \in BOOLEAN
  <2> DEFINE history == History(journal, actorOf[t])
  <2>1. CASE UNCHANGED journalVars
    BY <2>1 DEF journalVars
  <2>2. CASE Fits(call[t], history) /\ unclosed' = TRUE
    <3>1. history \in Seq(ReviewEvents)
      BY HistoryType
    <3>2. {TornLine, NewEvent(t, history)} \subseteq ReviewLines
      BY <2>2, <3>1, NextEvent DEF ReviewLines
    <3>3. CASE journal # <<>> /\ journal' = Append(Front(journal), TornLine)
      BY <2>2, <3>2, <3>3, LastLine, AddedLine
    <3>4. CASE \E piece \in {TornLine, NewEvent(t, history)} : journal' = Append(journal, piece)
      BY <2>2, <3>2, <3>4, AddedLine
    <3> QED
      BY <1>1, <2>2, <3>3, <3>4, AppendLine
  <2>3. Fits(call[t], history) => unclosed' = TRUE
    BY <1>1 DEF RecordAppend
  <2> QED
    BY <1>1, <2>1, <2>2, <2>3, AppendLine
<1>2. ASSUME NEW t \in Tabs, RecordRest(t)
      PROVE  journal' \in Seq(ReviewLines) /\ unclosed' \in BOOLEAN
  <2>1. unclosed' \in BOOLEAN /\ journal # <<>>
    BY <1>2, RestOfEvent DEF RecordRest
  <2>2. CASE journal' = journal
    BY <2>1, <2>2
  <2>3. CASE /\ Fits(call[t], FrontHistory(t))
             /\ journal' = Append(Front(journal), NewEvent(t, FrontHistory(t)))
    <3>1. Front(journal) \in Seq(ReviewLines)
      BY <2>1, LastLine
    <3>2. NewEvent(t, FrontHistory(t)) \in ReviewLines
      BY <2>3, <3>1, HistoryType, NextEvent DEF FrontHistory, ReviewLines
    <3> QED
      BY <2>1, <2>3, <3>1, <3>2, AddedLine
  <2> QED
    BY <1>2, <2>2, <2>3, RestOfEvent
<1>3. ASSUME NEW t \in Tabs, Elsewhere(t)
      PROVE  journal' \in Seq(ReviewLines) /\ unclosed' \in BOOLEAN
  BY <1>3, WritesNothing DEF journalVars
<1>4. ASSUME UNCHANGED journalVars
      PROVE  journal' \in Seq(ReviewLines) /\ unclosed' \in BOOLEAN
  BY <1>4 DEF journalVars
<1> QED
  BY <1>1, <1>2, <1>3, <1>4, StepCases DEF Move, Tear, reviewVars

\* A tab that changed, or whose call did, is one; the rest are as they were.
LEMMA TabStaysTyped ==
  ASSUME ReviewTypeOK, NEW t \in Tabs,
         RecordAppend(t) \/ RecordRest(t) \/ Tear(t) \/ Elsewhere(t)
  PROVE  tab' \in [Tabs -> TabStates] /\ call' \in [Tabs -> CallStates]
<1> USE DEF ReviewTypeOK
<1>i. IdleCall \in CallStates
  BY EmptySeq DEF IdleCall, CallStates, Actions
<1>l. [IdleCall EXCEPT !.pc = "get-history"] \in CallStates
  BY <1>i DEF CallStates
<1>f. [pc |-> "loading", seen |-> <<>>, sources |-> {}] \in TabStates
      /\ [pc |-> "error", seen |-> <<>>, sources |-> {}] \in TabStates
  BY EmptySeq DEF TabStates
<1>c. ASSUME NEW c \in CallStates, CallBecomes(t, c)
      PROVE  call' \in [Tabs -> CallStates]
  BY <1>c DEF CallBecomes
<1>t. call[t] \in CallStates /\ tab[t] \in TabStates
  OBVIOUS
<1>v. visible[actorOf[t]] \ {Card} \in SUBSET Sources
  OBVIOUS
<1>1. CASE RecordAppend(t)
  <2>1. UNCHANGED browserVars
    BY <1>1 DEF RecordAppend, InCall
  <2>2. \/ call' = [call EXCEPT ![t].pc = "rest", ![t].glued = unclosed]
        \/ call' = [call EXCEPT ![t].pc = "answer", ![t].answer = "conflict"]
    BY <1>1 DEF RecordAppend, ReviewAnswer
  <2>3. call' \in [Tabs -> CallStates]
    <3>1. CASE CallBecomes(t, [call[t] EXCEPT !.pc = "rest", !.glued = unclosed])
      <4>1. [call[t] EXCEPT !.pc = "rest", !.glued = unclosed] \in CallStates
        BY <1>t DEF CallStates
      <4> QED
        BY <3>1, <4>1, <1>c
    <3>2. CASE CallBecomes(t, [call[t] EXCEPT !.pc = "answer", !.answer = "conflict"])
      <4>1. [call[t] EXCEPT !.pc = "answer", !.answer = "conflict"] \in CallStates
        BY <1>t DEF CallStates
      <4> QED
        BY <3>2, <4>1, <1>c
    <3> QED
      BY <2>2, <3>1, <3>2 DEF CallBecomes
  <2> QED
    BY <2>1, <2>3 DEF browserVars
<1>2. CASE RecordRest(t) \/ Tear(t)
  <2>1. UNCHANGED browserVars
    BY <1>2 DEF RecordRest, Tear, InCall
  <2>2. PICK a \in {"recorded", "error"} : ReviewAnswer(t, a)
    BY <1>2 DEF RecordRest, Tear
  <2>3. [call[t] EXCEPT !.pc = "answer", !.answer = a] \in CallStates
    BY <1>t DEF CallStates
  <2> QED
    BY <2>1, <2>2, <2>3, <1>c, AnswerBecomes DEF browserVars
<1>3. CASE Load(t)
  BY <1>3, <1>l, <1>f DEF Load
<1>4. CASE Save(t)
  <2>1. PICK evidence \in SUBSET (IF InProgress(tab[t].seen) THEN tab[t].sources ELSE {}) :
          CallBecomes(t, [IdleCall EXCEPT !.pc = "record-sources", !.evidence = evidence,
                            !.action = IF InProgress(tab[t].seen) THEN "complete" ELSE "start",
                            !.expected = Len(tab[t].seen)])
    BY <1>4 DEF Save, CallBecomes
  <2>2. evidence \in SUBSET Sources /\ Len(tab[t].seen) \in Nat
    BY <1>t, <2>1 DEF TabStates
  <2>3. [IdleCall EXCEPT !.pc = "record-sources", !.evidence = evidence,
           !.action = IF InProgress(tab[t].seen) THEN "complete" ELSE "start",
           !.expected = Len(tab[t].seen)] \in CallStates
    BY <2>2, <1>i DEF CallStates, Actions
  <2>4. call' \in [Tabs -> CallStates]
    BY <2>1, <2>3, <1>c
  <2>5. tab' = [tab EXCEPT ![t].pc = "saving"]
    BY <1>4 DEF Save
  <2>6. [tab[t] EXCEPT !.pc = "saving"] \in TabStates
    BY <1>t DEF TabStates
  <2> QED
    BY <2>4, <2>5, <2>6
<1>5. CASE Deliver(t)
  <2>1. CASE Shown(t)
    <3>1. [pc |-> "ready", seen |-> call[t].seen, sources |-> call[t].sources] \in TabStates
      BY <1>t DEF CallStates, TabStates
    <3> QED
      BY <2>1, <3>1, <1>i DEF Shown
  <2>2. CASE Recorded(t)
    BY <2>2, <1>l, <1>f DEF Recorded
  <2>3. CASE NotRecorded(t)
    BY <2>3, <1>i, <1>f DEF NotRecorded
  <2> QED
    BY <1>5, <2>1, <2>2, <2>3 DEF Deliver
<1>6. CASE Reads(t)
  <2>1. PICK c : ReadBecomes(t, c) /\ CallBecomes(t, c)
    BY <1>6, ReadStep
  <2>2. History(journal, actorOf[t]) \in Seq(ReviewEvents)
    BY HistoryType
  <2>3. c \in CallStates
    BY <1>t, <1>v, <2>1, <2>2 DEF ReadBecomes, CallStates
  <2> QED
    BY <1>6, <2>1, <2>3, <1>c, ReadStep DEF browserVars
<1> QED
  BY <1>1, <1>2, <1>3, <1>4, <1>5, <1>6 DEF Elsewhere

LEMMA TypeStep ==
  ASSUME ReviewTypeOK, StageInv, LineInv, [ReviewNext]_reviewVars
  PROVE  ReviewTypeOK'
<1>1. journal' \in Seq(ReviewLines) /\ unclosed' \in BOOLEAN
  BY JournalStaysTyped
<1>2. tab' \in [Tabs -> TabStates] /\ call' \in [Tabs -> CallStates]
  <2>1. CASE UNCHANGED reviewVars \/ Move
    BY <2>1 DEF ReviewTypeOK, reviewVars, Move, browserVars
  <2> QED
    BY <2>1, StepCases, TabStaysTyped
<1>3. actorOf' \in [Tabs -> Actors] /\ visible' \in [Actors -> SUBSET (Sources \cup {Card})]
  <2>1. CASE Move
    BY <2>1 DEF Move, ReviewTypeOK
  <2>2. CASE UNCHANGED actorVars
    BY <2>2 DEF actorVars, ReviewTypeOK
  <2>3. ASSUME NEW t \in Tabs, Elsewhere(t) PROVE UNCHANGED actorVars
    BY <2>3, WritesNothing
  <2> QED
    BY <2>1, <2>2, <2>3, StepCases DEF reviewVars, actorVars, RecordAppend, RecordRest, Tear, InCall
<1> QED
  BY <1>1, <1>2, <1>3 DEF ReviewTypeOK

--------------------------------------------------------------------------------
(***************************************************************************)
(* What a call is for, and who writes.                                     *)
(***************************************************************************)
StageOf(t) ==
  /\ tab[t].pc \notin {"loading", "saving"} => call[t].pc = "idle"
  /\ call[t].pc # "answer" => call[t].answer = "none"
  /\ call[t].pc \in {"record-sources", "record-journal", "append", "rest"} =>
       tab[t].pc = "saving"
  /\ tab[t].pc = "saving" =>
       /\ call[t].expected = Len(tab[t].seen)
       /\ call[t].action = "complete" <=> InProgress(tab[t].seen)

\* A call goes on for what it was made for, or ends.
LEMMA StageKept ==
  ASSUME ReviewTypeOK, StageInv, NEW t \in Tabs, NEW c, CallBecomes(t, c), tab' = tab,
         call[t].pc # "idle",
         c.expected = call[t].expected, c.action = call[t].action,
         c.pc # "answer" => c.answer = "none",
         c.pc \in {"record-sources", "record-journal", "append", "rest"} =>
           call[t].pc \in {"record-sources", "record-journal", "append", "rest"}
  PROVE  StageInv'
<1>1. call'[t] = c /\ \A s \in Tabs : s # t => call'[s] = call[s]
  BY Becomes
<1>2. ASSUME NEW s \in Tabs PROVE StageOf(s)'
  <2>1. StageOf(s)
    BY DEF StageInv, StageOf
  <2>2. CASE s = t
    BY <1>1, <2>1, <2>2 DEF StageOf
  <2>3. CASE s # t
    BY <1>1, <2>1, <2>3 DEF StageOf
  <2> QED
    BY <2>2, <2>3
<1> QED
  BY <1>2 DEF StageInv, StageOf

LEMMA StageStep ==
  ASSUME ReviewTypeOK, StageInv, LineInv, [ReviewNext]_reviewVars
  PROVE  StageInv'
<1>1. ASSUME NEW t \in Tabs, RecordAppend(t) PROVE StageInv'
  <2>1. call[t].pc = "append" /\ tab' = tab
    BY <1>1 DEF RecordAppend, InCall, browserVars
  <2>2. PICK c : /\ CallBecomes(t, c)
                 /\ c \in {[call[t] EXCEPT !.pc = "answer", !.answer = "conflict"],
                           [call[t] EXCEPT !.pc = "rest", !.glued = unclosed]}
    BY <1>1, AppendLine
  <2>3. /\ c.expected = call[t].expected /\ c.action = call[t].action
        /\ c.pc # "answer" => c.answer = "none"
        /\ call[t].pc \in {"record-sources", "record-journal", "append", "rest"}
    BY <2>1, <2>2 DEF ReviewTypeOK, CallStates, StageInv
  <2> QED
    BY <2>1, <2>2, <2>3, StageKept
<1>2. ASSUME NEW t \in Tabs, RecordRest(t) \/ Tear(t) PROVE StageInv'
  <2>1. call[t].pc = "rest" /\ tab' = tab
    BY <1>2 DEF RecordRest, Tear, InCall, browserVars
  <2>2. PICK a : ReviewAnswer(t, a)
    BY <1>2 DEF RecordRest, Tear
  <2>3. CallBecomes(t, [call[t] EXCEPT !.pc = "answer", !.answer = a])
    BY <2>2, AnswerBecomes
  <2> DEFINE c == [call[t] EXCEPT !.pc = "answer", !.answer = a]
  <2>4. /\ c.expected = call[t].expected /\ c.action = call[t].action /\ c.pc = "answer"
        /\ call[t].pc \in {"record-sources", "record-journal", "append", "rest"}
    BY <2>1 DEF ReviewTypeOK, CallStates
  <2> HIDE DEF c
  <2> QED
    BY <2>1, <2>3, <2>4, StageKept DEF c
<1>3. ASSUME NEW t \in Tabs, Reads(t) PROVE StageInv'
  <2>1. PICK c : ReadBecomes(t, c) /\ CallBecomes(t, c)
    BY <1>3, ReadStep
  <2>2. call[t].pc # "idle" /\ tab' = tab
    BY <1>3, ReadStep DEF browserVars
  <2>3. /\ c.expected = call[t].expected /\ c.action = call[t].action
        /\ c.pc # "answer" => c.answer = "none"
        /\ c.pc \in {"record-sources", "record-journal", "append", "rest"} =>
             call[t].pc \in {"record-sources", "record-journal", "append", "rest"}
    BY <2>1 DEF ReadBecomes, ReviewTypeOK, CallStates, GetHistory, RecordSources, RecordJournal,
                StageInv
  <2> QED
    BY <2>1, <2>2, <2>3, StageKept
<1>4. ASSUME NEW t \in Tabs, Load(t) \/ Save(t) \/ Deliver(t) PROVE StageInv'
  <2>1. /\ \A s \in Tabs : s # t => call'[s] = call[s] /\ tab'[s] = tab[s]
    BY <1>4, WritesNothing DEF Elsewhere
  <2>2. StageOf(t)'
    <3>1. CASE Load(t) \/ (Deliver(t) /\ Recorded(t))
      BY <3>1 DEF Load, Deliver, Recorded, IdleCall, StageOf, ReviewTypeOK
    <3>2. CASE Deliver(t) /\ (Shown(t) \/ NotRecorded(t))
      BY <3>2 DEF Deliver, Shown, NotRecorded, IdleCall, StageOf, ReviewTypeOK
    <3>3. CASE Save(t)
      <4>1. /\ call'[t].pc = "record-sources" /\ call'[t].expected = Len(tab[t].seen)
            /\ call'[t].answer = "none"
            /\ call'[t].action = IF InProgress(tab[t].seen) THEN "complete" ELSE "start"
        BY <3>3 DEF Save, IdleCall, ReviewTypeOK
      <4>2. tab'[t].pc = "saving" /\ tab'[t].seen = tab[t].seen
        BY <3>3 DEF Save, ReviewTypeOK, TabStates
      <4> QED
        BY <4>1, <4>2 DEF StageOf
    <3> QED
      BY <1>4, <3>1, <3>2, <3>3 DEF Deliver
  <2>3. ASSUME NEW s \in Tabs, s # t PROVE StageOf(s)'
    BY <2>1, <2>3 DEF StageInv, StageOf
  <2> QED
    BY <2>2, <2>3 DEF StageInv, StageOf
<1>5. CASE UNCHANGED reviewVars \/ Move
  BY <1>5 DEF StageInv, Move, reviewVars, browserVars
<1> QED
  BY <1>1, <1>2, <1>3, <1>4, <1>5, StepCases DEF Elsewhere

\* A call that writes found the journal as it is now.
LineOf(t) ==
  call[t].pc = "rest" =>
    IF call[t].glued THEN Last(journal) = TornLine
    ELSE /\ Last(journal) \in {TornLine, NewEvent(t, FrontHistory(t))}
         /\ Fits(call[t], FrontHistory(t))

LEMMA LineKept ==
  ASSUME LineInv, NEW t \in Tabs, journal' = journal, actorOf' = actorOf,
         call'[t].pc # "rest" \/ call'[t] = call[t]
  PROVE  LineOf(t)'
<1>1. LineOf(t)
  BY DEF LineInv, LineOf
<1>2. CASE call'[t].pc # "rest"
  BY <1>2 DEF LineOf
<1>3. CASE call'[t] = call[t]
  <2>1. FrontHistory(t)' = FrontHistory(t)
    BY DEF FrontHistory
  <2>2. NewEvent(t, FrontHistory(t))' = NewEvent(t, FrontHistory(t))
    BY <1>3, <2>1 DEF NewEvent
  <2> QED
    BY <1>1, <1>3, <2>1, <2>2 DEF LineOf
<1> QED
  BY <1>2, <1>3

\* Where nobody starts to write and nobody's line changes.
LEMMA LineStays ==
  ASSUME LineInv, journal' = journal, actorOf' = actorOf, unclosed' => unclosed,
         \A t \in Tabs : call'[t].pc # "rest" \/ call'[t] = call[t]
  PROVE  LineInv'
<1>1. \A t \in Tabs : LineOf(t)'
  BY LineKept
<1>2. \A s, t \in Tabs : call'[s].pc = "rest" /\ call'[t].pc = "rest" => s = t
  BY DEF LineInv
<1>3. unclosed' \/ Locked' => journal' # <<>>
  BY DEF LineInv, Locked
<1> QED
  BY <1>1, <1>2, <1>3 DEF LineInv, LineOf

LEMMA LineStep ==
  ASSUME ReviewTypeOK, StageInv, LineInv, [ReviewNext]_reviewVars
  PROVE  LineInv'
<1> USE DEF ReviewTypeOK
<1>1. ASSUME NEW t \in Tabs, RecordAppend(t) PROVE LineInv'
  <2> DEFINE history == History(journal, actorOf[t])
  <2>1. /\ ~ Locked /\ actorOf' = actorOf
    BY <1>1, AppendLine DEF RecordAppend, InCall, actorVars
  <2>2. CASE UNCHANGED journalVars /\ CallBecomes(t, [call[t] EXCEPT !.pc = "answer", !.answer = "conflict"])
    <3>1. \A s \in Tabs : call'[s].pc # "rest" \/ call'[s] = call[s]
      BY <2>2 DEF CallBecomes, CallStates
    <3> QED
      BY <2>1, <2>2, <3>1, LineStays DEF journalVars
  <2>3. CASE /\ Fits(call[t], history)
             /\ CallBecomes(t, [call[t] EXCEPT !.pc = "rest", !.glued = unclosed])
             /\ \E piece \in {TornLine, NewEvent(t, history)} :
                  IF unclosed THEN /\ journal # <<>>
                                   /\ journal' = Append(Front(journal), TornLine)
                  ELSE journal' = Append(journal, piece)
    <3>1. PICK piece \in {TornLine, NewEvent(t, history)} :
                  IF unclosed THEN /\ journal # <<>>
                                   /\ journal' = Append(Front(journal), TornLine)
                  ELSE journal' = Append(journal, piece)
      BY <2>3
    <3>2. /\ call'[t] = [call[t] EXCEPT !.pc = "rest", !.glued = unclosed]
          /\ \A s \in Tabs : s # t => call'[s] = call[s]
      BY <2>3, Becomes
    <3>3. piece \in ReviewLines
      <4>1. history \in Seq(ReviewEvents)
        BY HistoryType
      <4> QED
        BY <2>3, <4>1, NextEvent DEF ReviewLines
    <3>4. call'[t].glued = unclosed /\ \A s \in Tabs : s # t => call'[s].pc # "rest"
      BY <2>1, <3>2 DEF Locked, CallStates
    <3>5. CASE unclosed
      <4>1. journal' = Append(Front(journal), TornLine) /\ TornLine \in ReviewLines
        BY <3>1, <3>5 DEF ReviewLines
      <4>2. Front(journal) \in Seq(ReviewLines)
        BY <3>1, <3>5, LastLine
      <4>3. journal' # <<>> /\ Last(journal') = TornLine
        BY <4>1, <4>2, AddedLine
      <4>4. LineOf(t)'
        BY <3>4, <3>5, <4>3 DEF LineOf
      <4> QED
        BY <3>4, <4>3, <4>4 DEF LineInv, LineOf
    <3>6. CASE ~ unclosed
      <4>1. journal' # <<>> /\ Last(journal') = piece /\ Front(journal') = journal
        BY <3>1, <3>3, <3>6, AddedLine
      <4>2. FrontHistory(t)' = history
        BY <2>1, <4>1 DEF FrontHistory
      <4>3. /\ call'[t].action = call[t].action /\ call'[t].evidence = call[t].evidence
            /\ call'[t].expected = call[t].expected
        BY <3>2 DEF CallStates
      <4>4. NewEvent(t, FrontHistory(t))' = NewEvent(t, history)
        BY <2>1, <4>2, <4>3 DEF NewEvent
      <4>5. Fits(call[t], FrontHistory(t))'
        BY <2>3, <4>2, <4>3 DEF Fits
      <4>6. LineOf(t)'
        BY <3>4, <3>6, <4>1, <4>4, <4>5 DEF LineOf
      <4> QED
        BY <3>4, <4>1, <4>6 DEF LineInv, LineOf
    <3> QED
      BY <3>5, <3>6
  <2> QED
    BY <1>1, <2>2, <2>3, AppendLine
<1>2. ASSUME NEW t \in Tabs, RecordRest(t) PROVE LineInv'
  <2>1. call[t].pc = "rest" /\ ~ unclosed' /\ actorOf' = actorOf
    BY <1>2, RestOfEvent DEF RecordRest, InCall, actorVars
  <2>2. \A s \in Tabs : call'[s].pc # "rest"
    <3>1. CallBecomes(t, [call[t] EXCEPT !.pc = "answer", !.answer = "recorded"])
      BY <1>2, RestOfEvent
    <3>2. call[t] \in CallStates
      OBVIOUS
    <3>3. call'[t].pc # "rest" /\ \A s \in Tabs : s # t => call'[s] = call[s]
      BY <3>1, <3>2 DEF CallStates, CallBecomes
    <3> QED
      BY <2>1, <3>3 DEF LineInv
  <2> QED
    BY <2>1, <2>2 DEF LineInv, Locked
<1>3. ASSUME NEW t \in Tabs, Tear(t) PROVE LineInv'
  <2>1. UNCHANGED journalVars /\ UNCHANGED actorVars /\ ReviewAnswer(t, "error")
    BY <1>3 DEF Tear
  <2>2. \A s \in Tabs : call'[s].pc # "rest" \/ call'[s] = call[s]
    <3>1. CallBecomes(t, [call[t] EXCEPT !.pc = "answer", !.answer = "error"])
      BY <2>1, AnswerBecomes
    <3>2. call[t] \in CallStates
      OBVIOUS
    <3>3. call'[t].pc # "rest" /\ \A s \in Tabs : s # t => call'[s] = call[s]
      BY <3>1, <3>2 DEF CallStates, CallBecomes
    <3> QED
      BY <3>3
  <2> QED
    BY <2>1, <2>2, LineStays DEF journalVars, actorVars
<1>4. ASSUME NEW t \in Tabs, Elsewhere(t) PROVE LineInv'
  <2>1. \A s \in Tabs : call'[s].pc # "rest" \/ call'[s] = call[s]
    BY <1>4, WritesNothing
  <2> QED
    BY <1>4, <2>1, WritesNothing, LineStays DEF journalVars, actorVars
<1>5. CASE UNCHANGED reviewVars \/ Move
  BY <1>5, LineStays DEF reviewVars, Move, journalVars, actorVars
<1> QED
  BY <1>1, <1>2, <1>3, <1>4, <1>5, StepCases

--------------------------------------------------------------------------------
(***************************************************************************)
(* What a step does to what was written: nothing, or an event is destroyed *)
(* for good, or the next event of one history is added.                    *)
(***************************************************************************)
LeavesWritten == Written' = Written /\ register' = register
DestroysEvent == ~ Intact(Written)' /\ register' = register

AddsEvent(t) ==
  LET history == History(Written, actorOf[t])
      event == NewEvent(t, history)
  IN  /\ call[t].pc \in {"append", "rest"} /\ Fits(call[t], history)
      /\ Intact(Written)
      /\ Written' = Append(Written, event)
      /\ register' = Histories(Append(Written, event))

LEMMA WrittenType ==
  ASSUME ReviewTypeOK, LineInv
  PROVE  /\ Written \in Seq(ReviewLines)
         /\ ~ Locked => Written = journal
         /\ Intact(journal) => Written = journal
<1>1. CASE (\E t \in Tabs : Resting(t)) /\ Last(journal) = TornLine
  <2>1. Written = Front(journal) /\ Locked
    BY <1>1 DEF Written, Resting, Locked
  <2>2. journal # <<>>
    BY <2>1 DEF LineInv
  <2>3. Front(journal) \in Seq(ReviewLines) /\ Last(journal) = journal[Len(journal)]
    BY <2>2, LastLine DEF ReviewTypeOK
  <2>4. Len(journal) \in DOMAIN journal
    BY <2>2, EmptySeq DEF ReviewTypeOK
  <2>5. ~ Intact(journal)
    BY <1>1, <2>3, <2>4 DEF Intact
  <2> QED
    BY <2>1, <2>3, <2>5
<1>2. CASE ~ ((\E t \in Tabs : Resting(t)) /\ Last(journal) = TornLine)
  BY <1>2 DEF Written, ReviewTypeOK
<1> QED
  BY <1>1, <1>2

LEMMA SameWritten ==
  ASSUME journal' = journal,
         \A t \in Tabs : call'[t] = call[t] \/ (call'[t].pc # "rest" /\ call[t].pc # "rest")
  PROVE  Written' = Written
<1>1. \A t \in Tabs : Resting(t)' <=> Resting(t)
  BY DEF Resting
<1>2. (\E t \in Tabs : Resting(t)') <=> \E t \in Tabs : Resting(t)
  BY <1>1
<1> QED
  BY <1>2 DEF Written

LEMMA NotIntact ==
  ASSUME NEW ls \in Seq(ReviewLines)
  PROVE  ~ Intact(Append(ls, TornLine))
BY IntactAppend DEF ReviewLines

LEMMA AppendWritten ==
  ASSUME ReviewTypeOK, LineInv, LineInv', ReviewTypeOK', WrittenInv, NEW t \in Tabs, RecordAppend(t)
  PROVE  LeavesWritten \/ DestroysEvent \/ AddsEvent(t)
<1> USE DEF ReviewTypeOK
<1> DEFINE history == History(journal, actorOf[t])
           event == NewEvent(t, history)
<1>1. ~ Locked /\ call[t].pc = "append" /\ Written = journal
  BY AppendLine, WrittenType
<1>2. CASE /\ UNCHANGED journalVars
           /\ CallBecomes(t, [call[t] EXCEPT !.pc = "answer", !.answer = "conflict"])
  <2>0. call[t] \in CallStates
    OBVIOUS
  <2>1. \A s \in Tabs : call'[s] = call[s] \/ (call'[s].pc # "rest" /\ call[s].pc # "rest")
    <3>1. call'[t].pc # "rest" /\ \A s \in Tabs : s # t => call'[s] = call[s]
      BY <1>2, <2>0 DEF CallBecomes, CallStates
    <3> QED
      BY <1>1, <3>1
  <2> QED
    BY <1>2, <2>1, SameWritten DEF LeavesWritten, journalVars
<1>3. CASE /\ Fits(call[t], history)
           /\ CallBecomes(t, [call[t] EXCEPT !.pc = "rest", !.glued = unclosed])
           /\ \E piece \in {TornLine, NewEvent(t, history)} :
                /\ SetLines(journal')
                /\ IF unclosed THEN /\ journal # <<>>
                                    /\ journal' = Append(Front(journal), TornLine)
                   ELSE journal' = Append(journal, piece)
  <2>1. /\ call'[t] = [call[t] EXCEPT !.pc = "rest", !.glued = unclosed]
        /\ \A s \in Tabs : s # t => call'[s] = call[s]
    BY <1>3, Becomes
  <2>2. call'[t].pc = "rest" /\ call'[t].glued = unclosed
    BY <2>1 DEF CallStates
  <2>3. \A s \in Tabs : s # t => call'[s].pc # "rest"
    BY <1>1, <2>1 DEF Locked
  <2>4. history \in Seq(ReviewEvents) /\ event \in ReviewEvents
    <3>1. history \in Seq(ReviewEvents)
      BY HistoryType
    <3> QED
      BY <1>3, <3>1, NextEvent
  <2>5. event \in ReviewLines /\ TornLine \in ReviewLines /\ event # TornLine
    BY <2>4, TornLineAssumption DEF ReviewLines, TornLineAssumption
  <2>6. SetLines(journal')
    BY <1>3
  <2>7. CASE unclosed
    <3>1. journal # <<>> /\ journal' = Append(Front(journal), TornLine)
      BY <1>3, <2>7
    <3>2. Front(journal) \in Seq(ReviewLines)
      BY <3>1, LastLine
    <3>3. ~ Intact(journal')
      BY <3>1, <3>2, NotIntact
    <3>4. \A s \in Tabs : ~ Resting(s)'
      BY <2>2, <2>3, <2>7 DEF Resting
    <3>5. Written' = journal'
      BY <3>4 DEF Written
    <3>6. register' = register
      BY <2>6, <3>3 DEF SetLines
    <3>7. ~ Intact(Written)'
      BY <3>3, <3>5 DEF Intact
    <3> QED
      BY <3>6, <3>7 DEF DestroysEvent
  <2>8. CASE ~ unclosed
    <3>1. Resting(t)'
      BY <2>2, <2>8 DEF Resting
    <3>2. CASE journal' = Append(journal, TornLine)
      <4>1. Last(journal') = TornLine /\ Front(journal') = journal
        BY <2>5, <3>2, AddedLine
      <4>2. Written' = journal
        BY <3>1, <4>1 DEF Written
      <4>3. ~ Intact(journal')
        BY <3>2, NotIntact
      <4>4. register' = register
        BY <2>6, <4>3 DEF SetLines
      <4> QED
        BY <1>1, <4>2, <4>4 DEF LeavesWritten
    <3>3. CASE journal' = Append(journal, event)
      <4>1. Last(journal') = event
        BY <2>5, <3>3, AddedLine
      <4>2. Written' = Append(journal, event)
        BY <2>5, <3>3, <4>1 DEF Written
      <4>3. CASE Intact(journal)
        <5>1. Intact(journal')
          BY <2>5, <3>3, <4>3, IntactAppend
        <5>2. register' = Histories(journal')
          BY <2>6, <5>1 DEF SetLines, Histories
        <5>3. register' = Histories(Append(journal, event))
          BY <3>3, <5>2
        <5> QED
          BY <1>1, <1>3, <4>2, <4>3, <5>3 DEF AddsEvent
      <4>4. CASE ~ Intact(journal)
        <5>1. ~ Intact(journal')
          BY <2>5, <3>3, <4>4, IntactAppend
        <5>2. register' = register
          BY <2>6, <5>1 DEF SetLines
        <5>3. ~ Intact(Written)'
          BY <3>3, <4>2, <5>1 DEF Intact
        <5> QED
          BY <5>2, <5>3 DEF DestroysEvent
      <4> QED
        BY <4>3, <4>4
    <3> QED
      BY <1>3, <2>8, <3>2, <3>3
  <2> QED
    BY <2>7, <2>8
<1> QED
  BY <1>2, <1>3, AppendLine

LEMMA RestWritten ==
  ASSUME ReviewTypeOK, LineInv, WrittenInv, NEW t \in Tabs, RecordRest(t)
  PROVE  /\ LeavesWritten \/ DestroysEvent \/ AddsEvent(t)
         /\ Intact(Written)' => OnFile(Written, t, call[t].expected + 1)'
<1> USE DEF ReviewTypeOK
<1> DEFINE event == NewEvent(t, FrontHistory(t))
<1>1. /\ call[t].pc = "rest" /\ journal # <<>> /\ SetLines(journal')
      /\ CallBecomes(t, [call[t] EXCEPT !.pc = "answer", !.answer = "recorded"])
      /\ Front(journal) \in Seq(ReviewLines)
      /\ journal = Append(Front(journal), Last(journal))
  BY RestOfEvent, LastLine
<1>2. /\ \A s \in Tabs : call[s].pc = "rest" => s = t
      /\ \A s \in Tabs : call'[s].pc # "rest"
  <2>1. call[t] \in CallStates
    OBVIOUS
  <2>2. call'[t].pc # "rest" /\ \A s \in Tabs : s # t => call'[s] = call[s]
    BY <1>1, <2>1 DEF CallStates, CallBecomes
  <2> QED
    BY <1>1, <2>2 DEF LineInv
<1>3. Written' = journal'
  BY <1>2 DEF Written, Resting
<1>4. CASE call[t].glued
  <2>1. journal' = journal /\ Last(journal) = TornLine
    BY <1>4, RestOfEvent
  <2>2. ~ Intact(journal')
    BY <1>1, <2>1, NotIntact
  <2>3. register' = register
    BY <1>1, <2>2 DEF SetLines
  <2>4. ~ Intact(Written)'
    BY <1>3, <2>2 DEF Intact
  <2> QED
    BY <2>3, <2>4 DEF DestroysEvent
<1>5. CASE ~ call[t].glued
  <2>1. /\ journal' = Append(Front(journal), event)
        /\ Last(journal) \in {TornLine, event}
        /\ Fits(call[t], FrontHistory(t))
    BY <1>5, RestOfEvent
  <2>2. FrontHistory(t) \in Seq(ReviewEvents) /\ event \in ReviewEvents
    <3>1. FrontHistory(t) \in Seq(ReviewEvents)
      BY <1>1, HistoryType DEF FrontHistory
    <3> QED
      BY <2>1, <3>1, NextEvent
  <2>3. event \in ReviewLines /\ event # TornLine
    BY <2>2, TornLineAssumption DEF ReviewLines, TornLineAssumption
  <2>4. Resting(t)
    BY <1>1, <1>5 DEF Resting
  <2>5. Intact(journal') <=> Intact(Front(journal))
    BY <1>1, <2>1, <2>3, IntactAppend
  <2>6. CASE ~ Intact(Front(journal))
    <3>1. register' = register
      BY <1>1, <2>5, <2>6 DEF SetLines
    <3>2. ~ Intact(Written)'
      BY <1>3, <2>5, <2>6 DEF Intact
    <3> QED
      BY <3>1, <3>2 DEF DestroysEvent
  <2>7. CASE Intact(Front(journal))
    <3>1. register' = Histories(journal')
      BY <1>1, <2>5, <2>7 DEF SetLines, Histories
    <3>4. LeavesWritten \/ AddsEvent(t)
      <4>1. CASE Last(journal) = TornLine
        <5>1. Written = Front(journal)
          BY <2>4, <4>1 DEF Written
        <5>2. FrontHistory(t) = History(Written, actorOf[t])
          BY <5>1 DEF FrontHistory
        <5>3. register' = Histories(Append(Written, event)) /\ Written' = Append(Written, event)
          BY <1>3, <2>1, <3>1, <5>1
        <5> QED
          BY <1>1, <2>1, <2>7, <5>1, <5>2, <5>3 DEF AddsEvent
      <4>2. CASE Last(journal) = event
        <5>1. Written = journal /\ journal' = journal
          BY <1>1, <2>1, <2>3, <4>2 DEF Written
        <5>2. Intact(Written)
          BY <2>5, <2>7, <5>1
        <5>3. register = Histories(Written)
          BY <5>2 DEF WrittenInv
        <5> QED
          BY <1>3, <3>1, <5>1, <5>3 DEF LeavesWritten
      <4> QED
        BY <2>1, <4>1, <4>2
    <3>5. OnFile(Written, t, call[t].expected + 1)'
      <4>1. call'[t].expected = call[t].expected
        <5>1. call[t] \in CallStates
          OBVIOUS
        <5> QED
          BY <1>1, <5>1 DEF CallStates, CallBecomes
      <4>2. event.tab = t /\ event.revision = call[t].expected + 1
        BY <2>1, <2>2, NextEvent
      <4>3. LET n == Len(Front(journal)) + 1 IN n \in 1 .. Len(journal') /\ journal'[n] = event
        BY <1>1, <2>1, <2>3, AppendProperties
      <4> HIDE DEF event
      <4> QED
        BY <1>3, <4>1, <4>2, <4>3 DEF OnFile
    <3> QED
      BY <3>4, <3>5
  <2> QED
    BY <2>6, <2>7
<1> QED
  BY <1>4, <1>5

LEMMA WrittenStep ==
  ASSUME ReviewInv, ReviewTypeOK', LineInv', [ReviewNext]_reviewVars
  PROVE  LeavesWritten \/ DestroysEvent \/ \E t \in Tabs : AddsEvent(t)
<1> USE DEF ReviewInv
<1>1. ASSUME NEW t \in Tabs, Tear(t) PROVE LeavesWritten \/ DestroysEvent
  <2>1. /\ journal' = journal /\ register' = register /\ call[t].pc = "rest"
        /\ ReviewAnswer(t, "error")
    BY <1>1 DEF Tear, journalVars
  <2>2. \A s \in Tabs : call[s].pc = "rest" => s = t
    BY <2>1 DEF LineInv
  <2>3. \A s \in Tabs : call'[s].pc # "rest"
    <3>1. call[t] \in CallStates
      BY DEF ReviewTypeOK
    <3>2. CallBecomes(t, [call[t] EXCEPT !.pc = "answer", !.answer = "error"])
      BY <2>1, AnswerBecomes
    <3>3. call'[t].pc # "rest" /\ \A s \in Tabs : s # t => call'[s] = call[s]
      BY <3>1, <3>2 DEF CallStates, CallBecomes, ReviewTypeOK
    <3> QED
      BY <2>2, <3>3
  <2>4. Written' = journal
    BY <2>1, <2>3 DEF Written, Resting
  <2>5. CASE Written = journal
    BY <2>1, <2>4, <2>5 DEF LeavesWritten
  <2>6. CASE Written # journal
    <3>1. ~ Intact(journal)
      BY <2>6, WrittenType
    <3> QED
      BY <2>1, <2>4, <3>1 DEF DestroysEvent, Intact
  <2> QED
    BY <2>5, <2>6
<1>2. ASSUME NEW t \in Tabs, Elsewhere(t) PROVE LeavesWritten
  <2>1. \A s \in Tabs : call'[s] = call[s] \/ (call'[s].pc # "rest" /\ call[s].pc # "rest")
    BY <1>2, WritesNothing
  <2> QED
    BY <1>2, <2>1, WritesNothing, SameWritten DEF LeavesWritten, journalVars
<1>3. CASE UNCHANGED reviewVars \/ Move
  BY <1>3, SameWritten DEF LeavesWritten, Move, reviewVars, journalVars
<1> QED
  BY <1>1, <1>2, <1>3, StepCases, AppendWritten, RestWritten

\* What a step does to what a tab shows and a call has read.
Changes(t) ==
  /\ tab'[t].seen \in {tab[t].seen, <<>>, call[t].seen}
  /\ \/ call'[t].seen \in {call[t].seen, <<>>}
     \/ /\ Intact(journal) /\ journal' = journal
        /\ call'[t].seen = History(journal, actorOf[t])
  /\ call'[t].pc = "append" =>
       \/ call[t].pc = "append" /\ call'[t] = call[t]
       \/ /\ Intact(journal) /\ journal' = journal
          /\ Cited(History(journal, actorOf[t])) \subseteq call'[t].sources
  /\ call'[t].answer = "recorded" =>
       \/ call[t].answer = "recorded" /\ call'[t].expected = call[t].expected
       \/ RecordRest(t)

LEMMA CallChanges ==
  ASSUME ReviewTypeOK, StageInv, NEW t \in Tabs,
         RecordAppend(t) \/ RecordRest(t) \/ Tear(t) \/ Elsewhere(t)
  PROVE  /\ \A s \in Tabs : Changes(s)
         /\ actorOf' = actorOf
         /\ \A c \in confirmed' :
              \/ c \in confirmed
              \/ c.tab = t /\ call[t].answer = "recorded" /\ c.revision = call[t].expected + 1
<1> USE DEF ReviewTypeOK
<1>t. call[t] \in CallStates /\ tab[t] \in TabStates
  OBVIOUS
<1>1. \A s \in Tabs : s # t => call'[s] = call[s] /\ tab'[s] = tab[s]
  BY WritesNothing DEF RecordAppend, RecordRest, Tear, InCall, browserVars, ReviewAnswer
<1>2. actorOf' = actorOf
  BY WritesNothing DEF RecordAppend, RecordRest, Tear, InCall, actorVars
<1>3. \A c \in confirmed' :
        \/ c \in confirmed
        \/ c.tab = t /\ call[t].answer = "recorded" /\ c.revision = call[t].expected + 1
  <2>1. confirmed' = confirmed \/ (Recorded(t) /\ Deliver(t))
    BY ReadStep DEF RecordAppend, RecordRest, Tear, InCall, browserVars, Elsewhere, Load, Save,
       Deliver, Shown, NotRecorded
  <2> QED
    BY <2>1 DEF Recorded
<1>4. Changes(t)
  <2>1. ASSUME NEW c \in CallStates, CallBecomes(t, c), tab' = tab,
               c.seen = call[t].seen,
               c.pc # "append", c.answer # "recorded" \/ c.answer = call[t].answer \/ RecordRest(t),
               c.expected = call[t].expected
        PROVE  Changes(t)
    <3>1. call'[t] = c
      BY <2>1 DEF CallBecomes
    <3> QED
      BY <2>1, <3>1 DEF Changes
  <2>2. CASE RecordAppend(t)
    <3>1. PICK c : /\ CallBecomes(t, c)
                   /\ \/ c = [call[t] EXCEPT !.pc = "answer", !.answer = "conflict"]
                      \/ c = [call[t] EXCEPT !.pc = "rest", !.glued = unclosed]
      <4>1. \/ call' = [call EXCEPT ![t].pc = "rest", ![t].glued = unclosed]
            \/ call' = [call EXCEPT ![t].pc = "answer", ![t].answer = "conflict"]
        BY <2>2 DEF RecordAppend, ReviewAnswer
      <4> QED
        BY <4>1 DEF CallBecomes
    <3>2. c \in CallStates /\ c.pc # "append" /\ c.answer \in {"conflict", call[t].answer}
          /\ c.seen = call[t].seen /\ c.expected = call[t].expected
      BY <1>t, <3>1 DEF CallStates
    <3> QED
      BY <2>1, <2>2, <3>1, <3>2 DEF RecordAppend, InCall, browserVars
  <2>3. CASE RecordRest(t) \/ Tear(t)
    <3>1. PICK c : /\ CallBecomes(t, c)
                   /\ \/ c = [call[t] EXCEPT !.pc = "answer", !.answer = "recorded"] /\ RecordRest(t)
                      \/ c = [call[t] EXCEPT !.pc = "answer", !.answer = "error"]
      BY <2>3, AnswerBecomes DEF RecordRest, Tear
    <3>2. c \in CallStates /\ c.pc # "append" /\ (c.answer # "recorded" \/ RecordRest(t))
          /\ c.seen = call[t].seen /\ c.expected = call[t].expected
      BY <1>t, <3>1 DEF CallStates
    <3> QED
      BY <2>1, <2>3, <3>1, <3>2 DEF RecordRest, Tear, InCall, browserVars
  <2>4. CASE Load(t)
    <3>1. call'[t] = [IdleCall EXCEPT !.pc = "get-history"] /\ tab'[t].seen = <<>>
      BY <2>4 DEF Load
    <3> QED
      BY <3>1 DEF Changes, IdleCall
  <2>5. CASE Save(t)
    <3>1. /\ call'[t].seen = <<>> /\ call'[t].pc = "record-sources" /\ call'[t].answer = "none"
      BY <2>5 DEF Save, IdleCall
    <3>2. tab'[t].seen = tab[t].seen
      BY <1>t, <2>5 DEF Save, TabStates
    <3> QED
      BY <3>1, <3>2 DEF Changes
  <2>6. CASE Deliver(t)
    <3>1. /\ call'[t].seen = <<>> /\ call'[t].pc # "append" /\ call'[t].answer = "none"
      BY <2>6 DEF Deliver, Shown, Recorded, NotRecorded, IdleCall
    <3>2. tab'[t].seen \in {<<>>, call[t].seen}
      BY <2>6 DEF Deliver, Shown, Recorded, NotRecorded
    <3> QED
      BY <3>1, <3>2 DEF Changes
  <2>7. CASE Reads(t)
    <3>1. PICK c : ReadBecomes(t, c) /\ CallBecomes(t, c)
      BY <2>7, ReadStep
    <3>2. call'[t] = c /\ tab' = tab /\ journal' = journal
      BY <2>7, <3>1, ReadStep DEF CallBecomes, browserVars, journalVars
    <3>3. /\ c.seen = call[t].seen \/ (Intact(journal) /\ c.seen = History(journal, actorOf[t]))
          /\ c.pc = "append" => /\ Intact(journal)
                                /\ Cited(History(journal, actorOf[t])) \subseteq c.sources
          /\ c.answer = "recorded" => call[t].answer = "recorded"
          /\ c.expected = call[t].expected
      BY <1>t, <3>1 DEF ReadBecomes, CallStates
    <3> QED
      BY <3>2, <3>3 DEF Changes
  <2> QED
    BY <2>2, <2>3, <2>4, <2>5, <2>6, <2>7 DEF Elsewhere
<1>5. ASSUME NEW s \in Tabs, s # t PROVE Changes(s)
  BY <1>1, <1>5 DEF Changes
<1> QED
  BY <1>2, <1>3, <1>4, <1>5

--------------------------------------------------------------------------------
(***************************************************************************)
(* As long as no event is destroyed, histories only grow.                  *)
(***************************************************************************)
LEMMA BeginsLonger ==
  ASSUME NEW s \in Seq(ReviewEvents), NEW h \in Seq(ReviewEvents), NEW e \in ReviewEvents,
         Begins(s, h)
  PROVE  Begins(s, Append(h, e))
<1>1. /\ Len(s) \in Nat /\ Len(h) \in Nat /\ Len(Append(h, e)) = Len(h) + 1
      /\ \A i \in 1 .. Len(h) : Append(h, e)[i] = h[i]
  BY AppendProperties
<1> QED
  BY <1>1 DEF Begins

\* What a step other than one that destroys an event does to the history of a person.
LEMMA HistoryStep ==
  ASSUME ReviewTypeOK, LineInv, LeavesWritten \/ \E u \in Tabs : AddsEvent(u),
         NEW a \in Actors
  PROVE  /\ Intact(Written)' <=> Intact(Written)
         /\ \/ History(Written', a) = History(Written, a)
            \/ \E e \in ReviewEvents : History(Written', a) = Append(History(Written, a), e)
         /\ \A i \in 1 .. Len(Written) :
              i \in 1 .. Len(Written') /\ Written'[i] = Written[i]
<1>1. Written \in Seq(ReviewLines)
  BY WrittenType
<1>2. CASE LeavesWritten
  BY <1>2 DEF LeavesWritten, Intact
<1>3. ASSUME NEW u \in Tabs, AddsEvent(u)
      PROVE  /\ Intact(Written)' <=> Intact(Written)
             /\ \/ History(Written', a) = History(Written, a)
                \/ \E e \in ReviewEvents : History(Written', a) = Append(History(Written, a), e)
             /\ \A i \in 1 .. Len(Written) :
                  i \in 1 .. Len(Written') /\ Written'[i] = Written[i]
  <2> DEFINE history == History(Written, actorOf[u])
             event == NewEvent(u, history)
  <2>1. history \in Seq(ReviewEvents)
    BY <1>1, HistoryType
  <2>2. event \in ReviewEvents /\ Written' = Append(Written, event) /\ Intact(Written)
    BY <1>3, <2>1, NextEvent DEF AddsEvent
  <2> HIDE DEF event
  <2>3. event \in ReviewLines /\ event # TornLine
    BY <2>2, TornLineAssumption DEF TornLineAssumption, ReviewLines
  <2>4. Intact(Append(Written, event))
    BY <1>1, <2>2, <2>3, IntactAppend
  <2>5. Intact(Written')
    BY <2>2, <2>4
  <2>6. Intact(Written)'
    BY <2>5 DEF Intact
  <2>7. History(Written', a) =
          IF event.actor = a THEN Append(History(Written, a), event) ELSE History(Written, a)
    BY <1>1, <2>2, HistoryAppend
  <2>8. \A i \in 1 .. Len(Written) : i \in 1 .. Len(Written') /\ Written'[i] = Written[i]
    BY <1>1, <2>2, <2>3, AppendProperties
  <2> QED
    BY <2>2, <2>6, <2>7, <2>8
<1> QED
  BY <1>2, <1>3

LEMMA RegisterStep ==
  ASSUME ReviewInv, LeavesWritten \/ \E u \in Tabs : AddsEvent(u), Intact(Written)'
  PROVE  register' = Histories(Written')
<1>1. CASE LeavesWritten
  <2>1. Intact(Written)
    BY <1>1 DEF LeavesWritten, Intact
  <2> QED
    BY <1>1, <2>1 DEF LeavesWritten, ReviewInv, WrittenInv
<1>2. CASE \E u \in Tabs : AddsEvent(u)
  BY <1>2 DEF AddsEvent
<1> QED
  BY <1>1, <1>2

\* Nothing is missing from an intact journal, before a step or after it.
LEMMA WrittenNext ==
  ASSUME ReviewTypeOK, LineInv, LineInv', Intact(journal), journal' = journal
  PROVE  Written' = journal
<1>1. CASE journal = <<>>
  <2>1. ~ Locked'
    BY <1>1 DEF LineInv
  <2>2. \A t \in Tabs : ~ Resting(t)'
    BY <2>1 DEF Locked, Resting
  <2> QED
    BY <2>2 DEF Written
<1>2. CASE journal # <<>>
  <2>1. Last(journal) = journal[Len(journal)] /\ Len(journal) \in DOMAIN journal
    <3>1. journal \in Seq(ReviewLines)
      BY DEF ReviewTypeOK
    <3>2. Last(journal) = journal[Len(journal)]
      BY <1>2, <3>1, LastLine
    <3>3. Len(journal) \in DOMAIN journal
      BY <1>2, <3>1, EmptySeq
    <3> QED
      BY <3>2, <3>3
  <2>2. Last(journal) # TornLine
    BY <2>1 DEF Intact
  <2> QED
    BY <2>2 DEF Written
<1> QED
  BY <1>1, <1>2

LEMMA WrittenForStep ==
  ASSUME ReviewInv, ReviewTypeOK', LineInv', LeavesWritten \/ \E u \in Tabs : AddsEvent(u),
         Intact(Written)', actorOf' = actorOf, NEW t \in Tabs, Changes(t),
         RecordRest(t) => OnFile(Written, t, call[t].expected + 1)',
         RecordRest(t) => call'[t].expected = call[t].expected
  PROVE  WrittenFor(t)'
<1> DEFINE a == actorOf[t]
           h == History(Written, a)
           g == History(Written', a)
<1>1. /\ Written \in Seq(ReviewLines)
      /\ Intact(journal) /\ journal' = journal => Written' = journal
  BY WrittenType, WrittenNext DEF ReviewInv
<1>2. a \in Actors /\ tab[t] \in TabStates /\ call[t] \in CallStates
  BY DEF ReviewInv, ReviewTypeOK
<1>3. /\ Intact(Written)
      /\ g = h \/ \E e \in ReviewEvents : g = Append(h, e)
      /\ \A i \in 1 .. Len(Written) : i \in 1 .. Len(Written') /\ Written'[i] = Written[i]
  BY <1>2, HistoryStep DEF ReviewInv
<1>4. WrittenFor(t)
  BY <1>3 DEF ReviewInv, WrittenInv
<1>5. h \in Seq(ReviewEvents) /\ Len(h) \in Nat /\ g \in Seq(ReviewEvents) /\ Len(g) \in Nat
  <2>1. h \in Seq(ReviewEvents) /\ Len(h) \in Nat
    BY <1>1, HistoryType
  <2> HIDE DEF h, g
  <2> QED
    BY <2>1, <1>3, AppendProperties
<1>6. g = History(Written, actorOf[t])'
  OBVIOUS
<1>7. Begins(tab[t].seen, h) /\ Begins(call[t].seen, h)
  BY <1>4 DEF WrittenFor
<1>8. g = h \/ Len(g) = Len(h) + 1
  BY <1>3, <1>5, AppendProperties
<1>j. Intact(journal) /\ journal' = journal => g = History(journal, a)
  BY <1>1
<1> HIDE DEF h, g
<1>9. \A s \in Seq(ReviewEvents) : Begins(s, h) => Begins(s, g)
  BY <1>3, <1>5, BeginsLonger
<1>10. Begins(<<>>, g) /\ Begins(g, g)
  BY <1>5, EmptySeq DEF Begins
<1>11. Begins(tab'[t].seen, g)
  <2>1. tab[t].seen \in Seq(ReviewEvents) /\ call[t].seen \in Seq(ReviewEvents)
    BY <1>2 DEF TabStates, CallStates
  <2> QED
    BY <2>1, <1>7, <1>9, <1>10 DEF Changes
<1>12. Begins(call'[t].seen, g)
  <2>1. call[t].seen \in Seq(ReviewEvents)
    BY <1>2 DEF CallStates
  <2> QED
    BY <2>1, <1>7, <1>9, <1>10, <1>j DEF Changes
<1>13. call'[t].pc = "append" /\ Len(g) = call'[t].expected => Cited(g) \subseteq call'[t].sources
  <2>1. CASE call[t].pc = "append" /\ call'[t] = call[t]
    <3>1. call[t].expected = Len(tab[t].seen)
      BY <2>1 DEF ReviewInv, StageInv
    <3>2. Len(tab[t].seen) <= Len(h) /\ Len(tab[t].seen) \in Nat
      BY <1>2, <1>7 DEF Begins, TabStates
    <3>3. Len(g) = call[t].expected => g = h
      BY <3>1, <3>2, <1>5, <1>8
    <3>4. Len(h) = call[t].expected => Cited(h) \subseteq call[t].sources
      BY <1>4, <2>1 DEF WrittenFor, h
    <3> QED
      BY <2>1, <3>3, <3>4
  <2>2. CASE /\ Intact(journal) /\ journal' = journal
             /\ Cited(History(journal, a)) \subseteq call'[t].sources
    BY <2>2, <1>j
  <2> QED
    BY <2>1, <2>2 DEF Changes
<1>14. call'[t].answer = "recorded" => OnFile(Written', t, call'[t].expected + 1)
  <2>1. CASE call[t].answer = "recorded" /\ call'[t].expected = call[t].expected
    <3>1. OnFile(Written, t, call[t].expected + 1)
      BY <1>4, <2>1 DEF WrittenFor
    <3> QED
      BY <3>1, <2>1, <1>3 DEF OnFile
  <2>2. CASE RecordRest(t)
    BY <2>2 DEF OnFile
  <2> QED
    BY <2>1, <2>2 DEF Changes
<1> QED
  BY <1>6, <1>11, <1>12, <1>13, <1>14 DEF WrittenFor, OnFile

\* confirmed holds what tabs were told of.
LEMMA WrittenInvStep ==
  ASSUME ReviewInv, ReviewTypeOK', LineInv', [ReviewNext]_reviewVars
  PROVE  WrittenInv'
<1>1. SUFFICES ASSUME Intact(Written)'
               PROVE  /\ register' = Histories(Written')
                      /\ \A t \in Tabs : WrittenFor(t)'
                      /\ \A c \in confirmed' : OnFile(Written', c.tab, c.revision)
  BY DEF WrittenInv, Histories, OnFile
<1> USE DEF ReviewInv
<1>2. LeavesWritten \/ \E u \in Tabs : AddsEvent(u)
  BY <1>1, WrittenStep DEF DestroysEvent
<1>3. register' = Histories(Written')
  BY <1>1, <1>2, RegisterStep
<1>4. /\ Intact(Written)
      /\ \A i \in 1 .. Len(Written) : i \in 1 .. Len(Written') /\ Written'[i] = Written[i]
  <2>1. ReviewTypeOK /\ LineInv
    OBVIOUS
  <2>2. CASE LeavesWritten
    BY <1>1, <2>2 DEF LeavesWritten, Intact
  <2>3. ASSUME NEW u \in Tabs, AddsEvent(u)
        PROVE  /\ Intact(Written)
               /\ \A i \in 1 .. Len(Written) : i \in 1 .. Len(Written') /\ Written'[i] = Written[i]
    <3>1. actorOf[u] \in Actors
      BY <2>1, <2>3 DEF ReviewTypeOK
    <3> QED
      BY <1>1, <2>1, <2>3, <3>1, HistoryStep
  <2> QED
    BY <1>2, <2>2, <2>3
<1>5. \A t, revision : OnFile(Written, t, revision) => OnFile(Written', t, revision)
  BY <1>4 DEF OnFile
<1>6. CASE UNCHANGED reviewVars \/ Move
  <2>1. actorOf' = actorOf /\ tab' = tab /\ call' = call /\ confirmed' = confirmed
    BY <1>6 DEF reviewVars, Move, actorVars, browserVars
  <2>2. \A t \in Tabs : Changes(t)
    BY <2>1 DEF Changes
  <2>3. \A t \in Tabs : ~ RecordRest(t)
    <3>1. ASSUME NEW t \in Tabs, RecordRest(t) PROVE FALSE
      <4>1. CallBecomes(t, [call[t] EXCEPT !.pc = "answer", !.answer = "recorded"])
            /\ call[t].pc = "rest"
        BY <3>1, RestOfEvent
      <4>2. call[t] \in CallStates
        BY DEF ReviewTypeOK
      <4>3. call'[t].pc = "answer"
        BY <4>1, <4>2 DEF CallBecomes, ReviewTypeOK, CallStates
      <4> QED
        BY <2>1, <4>1, <4>3
    <3> QED
      BY <3>1
  <2>4. \A t \in Tabs : WrittenFor(t)'
    BY <1>1, <1>2, <2>1, <2>2, <2>3, WrittenForStep
  <2>5. \A c \in confirmed' : OnFile(Written', c.tab, c.revision)
    BY <1>4, <1>5, <2>1 DEF WrittenInv
  <2> QED
    BY <1>3, <2>4, <2>5
<1>7. ASSUME NEW t \in Tabs, RecordAppend(t) \/ RecordRest(t) \/ Tear(t) \/ Elsewhere(t)
      PROVE  /\ \A s \in Tabs : WrittenFor(s)'
             /\ \A c \in confirmed' : OnFile(Written', c.tab, c.revision)
  <2>1. /\ \A s \in Tabs : Changes(s)
        /\ actorOf' = actorOf
        /\ \A c \in confirmed' :
             \/ c \in confirmed
             \/ c.tab = t /\ call[t].answer = "recorded" /\ c.revision = call[t].expected + 1
    BY <1>7, CallChanges
  <2>2. ASSUME NEW s \in Tabs, RecordRest(s)
        PROVE  /\ OnFile(Written, s, call[s].expected + 1)'
               /\ call'[s].expected = call[s].expected
    <3>1. OnFile(Written, s, call[s].expected + 1)'
      BY <1>1, <2>2, RestWritten
    <3>2. CallBecomes(s, [call[s] EXCEPT !.pc = "answer", !.answer = "recorded"])
      BY <2>2, RestOfEvent
    <3>3. call[s] \in CallStates
      BY DEF ReviewTypeOK
    <3>4. call'[s].expected = call[s].expected
      BY <3>2, <3>3 DEF CallBecomes, ReviewTypeOK, CallStates
    <3> QED
      BY <3>1, <3>4
  <2>3. \A s \in Tabs : WrittenFor(s)'
    BY <1>1, <1>2, <2>1, <2>2, WrittenForStep
  <2>4. \A c \in confirmed' : OnFile(Written', c.tab, c.revision)
    <3> TAKE c \in confirmed'
    <3>1. CASE c \in confirmed
      BY <1>4, <1>5, <3>1 DEF WrittenInv
    <3>2. CASE c.tab = t /\ call[t].answer = "recorded" /\ c.revision = call[t].expected + 1
      BY <1>4, <1>5, <3>2 DEF WrittenInv, WrittenFor
    <3> QED
      BY <2>1, <3>1, <3>2
  <2> QED
    BY <2>3, <2>4
<1> QED
  BY <1>3, <1>6, <1>7, StepCases

LEMMA ReviewInvInit == ASSUME ReviewInit PROVE ReviewInv
<1> USE DEF ReviewInit
<1>1. ReviewTypeOK
  <2>1. actorOf \in [Tabs -> Actors]
    BY SignalReviewAssumption DEF SignalReviewAssumption
  <2>2. journal \in Seq(ReviewLines)
    BY EmptySeq
  <2>3. [pc |-> "closed", seen |-> <<>>, sources |-> {}] \in TabStates
    BY EmptySeq DEF TabStates
  <2>4. IdleCall \in CallStates
    BY EmptySeq DEF IdleCall, CallStates, Actions
  <2> QED
    BY <2>1, <2>2, <2>3, <2>4 DEF ReviewTypeOK
<1>2. \A t \in Tabs : call[t] = IdleCall /\ tab[t].pc = "closed" /\ tab[t].seen = <<>>
  OBVIOUS
<1>3. StageInv
  BY <1>2 DEF StageInv, IdleCall
<1>4. \A t \in Tabs : call[t].pc # "rest" /\ ~ Resting(t)
  BY <1>2 DEF IdleCall, Resting
<1>5. LineInv
  BY <1>4 DEF LineInv, Locked
<1>6. Written = <<>>
  BY <1>4 DEF Written
<1>7. \A a : History(Written, a) = <<>>
  BY <1>6, HistoryEmpty
<1>8. register = Histories(Written)
  BY <1>7 DEF Histories
<1>9. ASSUME NEW t \in Tabs PROVE WrittenFor(t)
  <2>1. Len(<<>>) = 0 /\ Begins(<<>>, <<>>)
    BY EmptySeq DEF Begins
  <2> QED
    BY <1>2, <1>7, <2>1 DEF WrittenFor, IdleCall
<1> QED
  BY <1>1, <1>3, <1>5, <1>8, <1>9 DEF ReviewInv, WrittenInv

LEMMA ReviewInvStep == ASSUME ReviewInv, [ReviewNext]_reviewVars PROVE ReviewInv'
<1>1. ReviewTypeOK' /\ StageInv' /\ LineInv'
  BY TypeStep, StageStep, LineStep DEF ReviewInv
<1> QED
  BY <1>1, WrittenInvStep DEF ReviewInv

LEMMA ReviewInvAlways == ReviewSpec => []ReviewInv
BY ReviewInvInit, ReviewInvStep, PTL DEF ReviewSpec

--------------------------------------------------------------------------------
(***************************************************************************)
(* The theorems.                                                           *)
(***************************************************************************)
\* A call that is about to compare goes on, or is told of a conflict, by comparing.
LEMMA OnlyAppend ==
  ASSUME ReviewTypeOK, StageInv, LineInv, [ReviewNext]_reviewVars, NEW t \in Tabs,
         call[t].pc = "append", call'[t].pc = "rest" \/ call'[t].answer = "conflict"
  PROVE  /\ RecordAppend(t) /\ Written = journal
         /\ call'[t].pc = "rest" => Fits(call[t], History(journal, actorOf[t]))
         /\ call'[t].answer = "conflict" => ~ Fits(call[t], History(journal, actorOf[t]))
<1>1. call[t] \in CallStates /\ call[t].answer = "none"
  BY DEF ReviewTypeOK, StageInv
<1>2. call'[t] # call[t]
  BY <1>1
<1>3. PICK u \in Tabs : RecordAppend(u) \/ RecordRest(u) \/ Tear(u) \/ Elsewhere(u)
  BY <1>2, StepCases DEF Move, reviewVars
<1>4. \A c : ~ (Elsewhere(u) /\ Reads(u) /\ u = t /\ CallBecomes(u, c) /\ ReadBecomes(u, c))
  BY <1>1, <1>2 DEF ReadBecomes, CallBecomes, GetHistory, GetSources, RecordSources, RecordJournal,
     CallStates, ReviewTypeOK
<1>5. u = t
  <2>1. ASSUME u # t, RecordAppend(u) \/ RecordRest(u) \/ Tear(u) PROVE call'[t] = call[t]
    BY <2>1 DEF RecordAppend, RecordRest, Tear, ReviewAnswer, ReviewTypeOK
  <2>2. ASSUME u # t, Elsewhere(u) PROVE call'[t] = call[t]
    BY <2>2, WritesNothing
  <2> QED
    BY <1>2, <1>3, <2>1, <2>2
<1>6. ~ Elsewhere(t)
  <2>1. ~ Reads(t)
    BY <1>4, <1>5, ReadStep DEF Elsewhere
  <2>2. ~ (Load(t) \/ Save(t) \/ Deliver(t))
    BY DEF Load, Save, Deliver, StageInv
  <2> QED
    BY <2>1, <2>2 DEF Elsewhere
<1>7. RecordAppend(t)
  BY <1>3, <1>5, <1>6 DEF RecordRest, Tear
<1>8. Written = journal
  BY <1>7, AppendLine, WrittenType
<1>9. /\ Fits(call[t], History(journal, actorOf[t])) => call'[t].answer = "none"
      /\ ~ Fits(call[t], History(journal, actorOf[t])) => call'[t].pc = "answer"
  BY <1>1, <1>7 DEF RecordAppend, ReviewAnswer, CallStates, ReviewTypeOK
<1> QED
  BY <1>7, <1>8, <1>9

\* While the journal is intact a tab only ever adds to the history it shows.
THEOREM NoOverwriting == ReviewSpec => NobodyOverwrites
<1>1. ASSUME ReviewInv, [ReviewNext]_reviewVars, NEW t \in Tabs, Appends(t), Intact(journal)
      PROVE  History(journal, actorOf[t]) = tab[t].seen
  <2> DEFINE h == History(journal, actorOf[t])
  <2>1. Written = journal /\ Fits(call[t], h) /\ call[t].pc = "append"
    BY <1>1, OnlyAppend DEF Appends, ReviewInv
  <2>2. tab[t].pc = "saving"
    BY <1>1, <2>1 DEF ReviewInv, StageInv
  <2>3. Len(tab[t].seen) = Len(h)
    BY <1>1, <2>1, <2>2 DEF ReviewInv, StageInv, Fits
  <2>4. Begins(tab[t].seen, h)
    BY <1>1, <2>1 DEF ReviewInv, WrittenInv, WrittenFor
  <2>5. h \in Seq(ReviewEvents) /\ tab[t].seen \in Seq(ReviewEvents)
    BY <1>1, HistoryType DEF ReviewInv, ReviewTypeOK, TabStates
  <2> HIDE DEF h
  <2>6. h = tab[t].seen
    BY <2>3, <2>4, <2>5, SeqEqual DEF Begins
  <2> QED
    BY <2>6 DEF h
<1>2. ReviewInv /\ [ReviewNext]_reviewVars =>
        [\A t \in Tabs :
           Appends(t) /\ Intact(journal) => History(journal, actorOf[t]) = tab[t].seen]_reviewVars
  BY <1>1
<1> QED
  BY <1>2, ReviewInvAlways, PTL DEF ReviewSpec, NobodyOverwrites

\* Nor does it continue a history that cites what its reader could not read.
THEOREM NoContinuingHidden == ReviewSpec => HiddenHistoryIsFrozen
<1>1. ASSUME ReviewInv, [ReviewNext]_reviewVars, NEW t \in Tabs, Appends(t), Intact(journal)
      PROVE  Cited(History(journal, actorOf[t])) \subseteq call[t].sources
  <2>1. /\ Written = journal /\ Fits(call[t], History(journal, actorOf[t]))
        /\ call[t].pc = "append"
    BY <1>1, OnlyAppend DEF Appends, ReviewInv
  <2> QED
    BY <1>1, <2>1 DEF ReviewInv, WrittenInv, WrittenFor, Fits
<1>2. ReviewInv /\ [ReviewNext]_reviewVars =>
        [\A t \in Tabs :
           Appends(t) /\ Intact(journal) =>
             Cited(History(journal, actorOf[t])) \subseteq call[t].sources]_reviewVars
  BY <1>1
<1> QED
  BY <1>2, ReviewInvAlways, PTL DEF ReviewSpec, HiddenHistoryIsFrozen

\* A tab is told of a conflict only where the history is not what it shows.
THEOREM ConflictsAreReal == ReviewSpec => ConflictMeansChange
<1>1. ASSUME ReviewInv, [ReviewNext]_reviewVars, NEW t \in Tabs,
             call[t].pc = "append", call'[t].answer = "conflict"
      PROVE  History(journal, actorOf[t]) # tab[t].seen
  <2>1. ~ Fits(call[t], History(journal, actorOf[t]))
    BY <1>1, OnlyAppend DEF ReviewInv
  <2>2. /\ call[t].expected = Len(tab[t].seen)
        /\ call[t].action = "complete" <=> InProgress(tab[t].seen)
        /\ call[t].action \in Actions
    BY <1>1 DEF ReviewInv, StageInv, ReviewTypeOK, CallStates
  <2>3. Fits(call[t], tab[t].seen)
    BY <2>2 DEF Fits, Actions
  <2> QED
    BY <2>1, <2>3
<1>2. ReviewInv /\ [ReviewNext]_reviewVars =>
        [\A t \in Tabs :
           call[t].pc = "append" /\ call'[t].answer = "conflict" =>
             History(journal, actorOf[t]) # tab[t].seen]_reviewVars
  BY <1>1
<1> QED
  BY <1>2, ReviewInvAlways, PTL DEF ReviewSpec, ConflictMeansChange

\* What a tab was told was recorded is in the journal, or the damage shows.
THEOREM ConfirmedIsOnFile == ReviewSpec => []ConfirmedOrDamaged
<1>1. ReviewInv => ConfirmedOrDamaged
  <2> SUFFICES ASSUME ReviewInv, Intact(journal), NEW c \in confirmed
               PROVE  \E i \in DOMAIN journal :
                        journal[i].tab = c.tab /\ journal[i].revision = c.revision
    BY DEF ConfirmedOrDamaged
  <2>1. Written = journal
    BY WrittenType DEF ReviewInv
  <2>2. OnFile(journal, c.tab, c.revision)
    BY <2>1 DEF ReviewInv, WrittenInv
  <2>3. DOMAIN journal = 1 .. Len(journal)
    BY DEF ReviewInv, ReviewTypeOK
  <2> QED
    BY <2>2, <2>3 DEF OnFile
<1> QED
  BY <1>1, ReviewInvAlways, PTL

\* The event a call adds starts a check where none is in progress, or completes the
\* one that is.
LEMMA AddsToRegister ==
  ASSUME ReviewInv, NEW t \in Tabs, NEW a \in Actors, a = actorOf[t], AddsEvent(t)
  PROVE  Register!Start(a) \/ Register!Complete(a)
<1> DEFINE history == History(Written, a)
           event == NewEvent(t, history)
<1>1. Written \in Seq(ReviewLines) /\ a \in Actors
  BY WrittenType DEF ReviewInv, ReviewTypeOK
<1>2. history \in Seq(ReviewEvents) /\ Len(history) \in Nat
  BY <1>1, HistoryType
<1>3. Fits(call[t], history) /\ event \in ReviewEvents /\ event.actor = a
  BY <1>2, NextEvent DEF ReviewInv, AddsEvent
<1>4. register = Histories(Written)
  BY DEF ReviewInv, WrittenInv, AddsEvent
<1>5. register' = [b \in Actors |-> IF b = a THEN Append(history, event) ELSE History(Written, b)]
  <2>1. register' = Histories(Append(Written, event))
    BY DEF AddsEvent
  <2>2. \A b : History(Append(Written, event), b) =
                 IF event.actor = b THEN Append(History(Written, b), event) ELSE History(Written, b)
    BY <1>1, <1>3, HistoryAppend
  <2> HIDE DEF event
  <2> QED
    BY <2>1, <2>2, <1>3 DEF Histories
<1>6. /\ Append(history, event) # <<>> /\ Last(Append(history, event)) = event
      /\ Len(Append(history, event)) = Len(history) + 1
  BY <1>2, <1>3, AddedLine, AppendProperties
<1>7. /\ [b \in Actors |-> Len(register'[b])] =
           [[b \in Actors |-> Len(register[b])] EXCEPT ![a] = @ + 1]
      /\ [b \in Actors |-> Current(register'[b])] =
           [[b \in Actors |-> Current(register[b])] EXCEPT ![a] = Current(register'[a])]
  <2> HIDE DEF event, history
  <2>1. /\ register'[a] = Append(history, event) /\ register[a] = history
        /\ \A b \in Actors : b # a => register'[b] = register[b]
    BY <1>1, <1>4, <1>5 DEF Histories, history
  <2> QED
    BY <1>1, <1>6, <2>1
<1>8. register'[a] = Append(history, event) /\ register[a] = history
  BY <1>1, <1>4, <1>5 DEF Histories
<1>9. InProgress(history) => Last(history).assigned # 0
  <2>1. InProgress(history) => Last(history) \in ReviewEvents
    BY <1>2, LastLine DEF InProgress
  <2> QED
    BY <2>1 DEF ReviewEvents
<1>10. CASE call[t].action = "start"
  <2>1. /\ ~ InProgress(history) /\ event.state = "in_progress"
        /\ event.assigned = Len(history) + 1
    BY <1>2, <1>3, <1>10, NextEvent DEF ReviewInv
  <2> HIDE DEF event, history
  <2>2. Current(register[a]) = 0 /\ Current(register'[a]) = Len(history) + 1
    BY <1>6, <1>8, <2>1 DEF Current, InProgress
  <2>3. Register!Start(a)
    BY <1>1, <1>7, <1>8, <2>2 DEF Register!Start
  <2> QED
    BY <2>3
<1>11. CASE call[t].action # "start"
  <2>1. InProgress(history) /\ event.state = "completed"
    BY <1>2, <1>3, <1>11, NextEvent DEF ReviewInv
  <2> HIDE DEF event, history
  <2>2. Current(register[a]) # 0 /\ Current(register'[a]) = 0
    BY <1>6, <1>8, <1>9, <2>1 DEF Current, InProgress
  <2>3. Register!Complete(a)
    BY <1>1, <1>7, <1>8, <2>2 DEF Register!Complete
  <2> QED
    BY <2>3
<1> QED
  BY <1>10, <1>11

\* What can be read of the journal is a register of checks.
THEOREM ImplementsRegister == ReviewSpec => RefinesRegister
<1>1. ReviewInit => Register!Init
  <2> SUFFICES ASSUME ReviewInit PROVE Register!Init
    OBVIOUS
  <2>1. \A a \in Actors : register[a] = <<>>
    BY DEF ReviewInit
  <2>2. \A a \in Actors : Len(register[a]) = 0 /\ Current(register[a]) = 0
    BY <2>1 DEF Current, InProgress
  <2> QED
    BY <2>2 DEF Register!Init
<1>2. ASSUME ReviewInv, ReviewInv', [ReviewNext]_reviewVars PROVE [Register!Next]_(Register!vars)
  <2>1. CASE register' = register
    BY <2>1 DEF Register!vars, Current
  <2>2. CASE \E t \in Tabs : AddsEvent(t)
    <3>1. PICK t \in Tabs : AddsEvent(t)
      BY <2>2
    <3>2. PICK a \in Actors : a = actorOf[t]
      BY <1>2 DEF ReviewInv, ReviewTypeOK
    <3>3. Register!Start(a) \/ Register!Complete(a)
      BY <1>2, <3>1, <3>2, AddsToRegister
    <3> QED
      BY <3>3 DEF Register!Next
  <2> QED
    BY <1>2, <2>1, <2>2, WrittenStep DEF ReviewInv, LeavesWritten, DestroysEvent
<1> QED
  BY <1>1, <1>2, ReviewInvAlways, PTL DEF ReviewSpec, RefinesRegister, Register!Spec

================================================================================

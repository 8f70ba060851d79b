---------------------------- MODULE AuditChainProofs ---------------------------
(***************************************************************************)
(* Theorems of AuditChain, for any number of writers, anchoring processes, *)
(* events, crashes and edits of the file.                                  *)
(***************************************************************************)
EXTENDS AuditChain, JsonLinesProofs

--------------------------------------------------------------------------------
(***************************************************************************)
(* The parts of the invariant.                                             *)
(***************************************************************************)
Lines == Records \cup {Torn}

WriterStates ==
  [pc : {"idle", "compute", "write", "rest", "release"}, event : Events \cup {None},
   record : Records \cup {None}, glued : BOOLEAN]

AnchorerStates ==
  [pc : {"idle", "create", "advance", "replace"}, payload : Checkpoints \cup {None}]

\* Types, and what a process under way has at hand.
AuditTypeOK ==
  /\ lines \in Seq(Lines) /\ open \in BOOLEAN
  /\ holder \in Writers \cup {None}
  /\ wr \in [Writers -> WriterStates]
  /\ \A w \in Writers :
       /\ wr[w].pc # "idle" => wr[w].event \in Events
       /\ wr[w].pc \in {"write", "rest"} => wr[w].record \in Records
  /\ acked \in Seq(Events)
  /\ anchor \in Checkpoints \cup {None}
  /\ an \in [Anchorers -> AnchorerStates]
  /\ \A a \in Anchorers : an[a].pc \in {"create", "replace"} => an[a].payload \in Checkpoints
  /\ writes \in 0 .. MaxWrites /\ crashes \in Nat /\ tampers \in Nat

\* Who writes holds the lock, and what is open is a line.
HolderInv ==
  /\ \A w \in Writers : wr[w].pc # "idle" => holder = w
  /\ open => lines # <<>>

\* The record about to be written continues the records now in the file; one that
\* is partly written, those before it, unless it runs on from a torn line.
Writing(w) ==
  /\ wr[w].pc = "write" => wr[w].record = Chained(HeadHash(Parsed(lines)), wr[w].event)
  /\ wr[w].pc = "rest" =>
       /\ open
       /\ IF wr[w].glued THEN Last(lines) = Torn
          ELSE /\ Last(lines) \in {Torn, wr[w].record}
               /\ wr[w].record = Chained(HeadHash(Parsed(Front(lines))), wr[w].event)

WritingInv == \A w \in Writers : Writing(w)

\* A line that is still being written, by a writer that will complete it.
Pending(i) == i = Len(lines) /\ \E w \in Writers : wr[w].pc = "rest" /\ ~ wr[w].glued

Damaged == \E i \in 1 .. Len(lines) : lines[i] = Torn /\ ~ Pending(i)
OnFile(event) == \E i \in 1 .. Len(lines) : lines[i] # Torn /\ lines[i].event = event
Done(event) ==
  \/ event \in ToSet(acked)
  \/ \E w \in Writers : wr[w].pc = "release" /\ wr[w].event = event

\* What was written is there, or a line that stays torn is.
LossInv == tampers = 0 => Damaged \/ \A event \in Events : Done(event) => OnFile(event)

Pinned(p, records) ==
  /\ p.count <= Len(records)
  /\ IF p.count = 0 THEN p.head = <<>> ELSE records[p.count].hash = p.head

\* Without crashes and edits the only open line is one that is being written, and
\* what an anchor says, or is about to say, holds of the file from then on.
QuietInv ==
  crashes = 0 /\ tampers = 0 =>
    /\ open => \E w \in Writers : wr[w].pc = "rest"
    /\ \A w \in Writers : wr[w].pc = "rest" => ~ wr[w].glued
    /\ ~ Damaged
    /\ anchor # None => Pinned(anchor, Parsed(lines))
    /\ \A a \in Anchorers :
         an[a].pc \in {"create", "replace"} => Pinned(an[a].payload, Parsed(lines))

AuditInv ==
  AuditTypeOK /\ HolderInv /\ WritingInv /\ ParsedIsChained /\ LossInv /\ QuietInv

--------------------------------------------------------------------------------
(***************************************************************************)
(* Reading a file one line at a time.                                      *)
(***************************************************************************)
LEMMA ParsedType == ASSUME NEW ls \in Seq(Lines) PROVE Parsed(ls) \in Seq(Records)
<1>1. Parse(ls, Torn) \in Seq(Lines \ {Torn})
  BY ParseType
<1>2. Lines \ {Torn} \subseteq Records
  BY DEF Lines
<1> HIDE DEF Lines
<1> QED
  BY <1>1, <1>2, SeqMonotonic DEF Parsed

LEMMA ParsedAppend ==
  ASSUME NEW ls \in Seq(Lines), NEW l \in Lines
  PROVE  Parsed(Append(ls, l)) = IF l = Torn THEN Parsed(ls) ELSE Append(Parsed(ls), l)
BY ParseAppend DEF Parsed

LEMMA ParsedWhole ==
  ASSUME NEW ls \in Seq(Lines), \A i \in 1 .. Len(ls) : ls[i] # Torn
  PROVE  Parsed(ls) = ls
BY ParseWhole DEF Parsed

LEMMA HashType ==
  ASSUME NEW records \in Seq(Records), NEW event \in Events
  PROVE  HeadHash(records) \in Seq(Events) /\ Chained(HeadHash(records), event) \in Records
<1>1. HeadHash(records) \in Seq(Events)
  <2>1. CASE records = <<>>
    BY <2>1, EmptySeq DEF HeadHash
  <2>2. CASE records # <<>>
    <3>1. Last(records) \in Records
      BY <2>2, LastLine
    <3> QED
      BY <3>1, <2>2 DEF HeadHash, Records
  <2> QED
    BY <2>1, <2>2
<1> QED
  BY <1>1, AppendProperties DEF Chained, Hash, Records

\* The record computed for the end of a chain continues it; without its last
\* record a chain is a chain.
LEMMA LinkedAppend ==
  ASSUME NEW records \in Seq(Records), NEW event \in Events, Linked(records)
  PROVE  Linked(Append(records, Chained(HeadHash(records), event)))
<1> DEFINE r == Chained(HeadHash(records), event)
           longer == Append(records, r)
           n == Len(records)
<1>1. r \in Records /\ r.prev = HeadHash(records) /\ r.hash = Hash(r.prev, r.event)
  BY HashType DEF Chained
<1> HIDE DEF r
<1>2. /\ n \in Nat /\ Len(longer) = n + 1 /\ longer[n + 1] = r
      /\ \A i \in 1 .. n : longer[i] = records[i]
  BY <1>1, AppendProperties
<1>3. HeadHash(records) = IF n = 0 THEN <<>> ELSE records[n].hash
  BY DEF HeadHash, Last
<1> HIDE DEF longer
<1>4. ASSUME NEW i \in 1 .. n + 1
      PROVE  LET prev == IF i = 1 THEN <<>> ELSE longer[i - 1].hash
             IN  longer[i].prev = prev /\ longer[i].hash = Hash(prev, longer[i].event)
  <2>1. CASE i = n + 1
    <3>1. HeadHash(records) = IF i = 1 THEN <<>> ELSE longer[i - 1].hash
      BY <1>2, <1>3, <2>1
    <3> QED
      BY <3>1, <1>1, <1>2, <2>1
  <2>2. CASE i \in 1 .. n
    <3>1. longer[i] = records[i] /\ (i # 1 => longer[i - 1] = records[i - 1])
      BY <1>2, <2>2
    <3> QED
      BY <3>1, <2>2 DEF Linked
  <2> QED
    BY <1>2, <2>1, <2>2
<1> QED
  BY <1>2, <1>4 DEF Linked, longer, r

LEMMA LinkedFront ==
  ASSUME NEW records \in Seq(Records), NEW r \in Records, Linked(Append(records, r))
  PROVE  Linked(records)
<1> DEFINE longer == Append(records, r)
           n == Len(records)
<1>1. n \in Nat /\ Len(longer) = n + 1 /\ \A i \in 1 .. n : longer[i] = records[i]
  BY AppendProperties
<1>2. Linked(longer)
  OBVIOUS
<1> HIDE DEF longer
<1>3. ASSUME NEW i \in 1 .. n
      PROVE  LET prev == IF i = 1 THEN <<>> ELSE records[i - 1].hash
             IN  records[i].prev = prev /\ records[i].hash = Hash(prev, records[i].event)
  <2>1. i \in 1 .. n + 1 /\ longer[i] = records[i] /\ (i # 1 => longer[i - 1] = records[i - 1])
    BY <1>1
  <2> QED
    BY <2>1, <1>1, <1>2 DEF Linked
<1> QED
  BY <1>3 DEF Linked

\* The hash of a record stands for all events up to it.
LEMMA HashPinsEvents ==
  ASSUME NEW records \in Seq(Records), Linked(records), NEW n \in 1 .. Len(records)
  PROVE  records[n].hash = EventsOf(SubSeq(records, 1, n))
<1> DEFINE pre(i) == EventsOf(SubSeq(records, 1, i))
           N == {i \in Nat : i = 0 \/ records[i].hash = pre(i)}
<1>1. \A i \in 0 .. Len(records) : pre(i) = [j \in 1 .. i |-> records[j].event]
  BY DEF EventsOf
<1>2. \A i \in 1 .. Len(records) : records[i].event \in Events
  <2> TAKE i \in 1 .. Len(records)
  <2>1. records[i] \in Records
    BY ElementOfSeq
  <2> QED
    BY <2>1 DEF Records
<1>p. ASSUME NEW i \in 0 .. Len(records) PROVE pre(i) \in Seq(Events) /\ Len(pre(i)) = i
  <2>1. pre(i) = [j \in 1 .. i |-> records[j].event] /\ i \in Nat
    BY <1>1
  <2>2. \A j \in 1 .. i : records[j].event \in Events
    BY <1>2
  <2>3. pre(i) \in [1 .. i -> Events]
    BY <2>1, <2>2
  <2> HIDE DEF pre
  <2> QED
    BY <2>1, <2>3, FunctionIsSeq
<1> HIDE DEF pre
<1>3. 0 \in N
  OBVIOUS
<1>4. ASSUME NEW i \in 0 .. Len(records) - 1, i \in N PROVE i + 1 \in N
  <2>1. i \in Nat /\ i + 1 \in 1 .. Len(records) /\ (i + 1) - 1 = i
    OBVIOUS
  <2>2. records[i + 1].hash = Append(IF i = 0 THEN <<>> ELSE records[i].hash, records[i + 1].event)
    BY <2>1 DEF Linked, Hash
  <2>3. pre(0) = <<>>
    BY <1>1
  <2>4. (IF i = 0 THEN <<>> ELSE records[i].hash) = pre(i)
    BY <1>4, <2>3
  <2>5. pre(i) = [j \in 1 .. i |-> records[j].event] /\ pre(i) \in Seq(Events) /\ Len(pre(i)) = i
    BY <1>1, <1>p, <2>1
  <2>6. pre(i + 1) = [j \in 1 .. i + 1 |-> records[j].event] /\ pre(i + 1) \in Seq(Events)
        /\ Len(pre(i + 1)) = i + 1
    BY <1>1, <1>p, <2>1
  <2> DEFINE e == records[i + 1].event
             a == Append(pre(i), e)
  <2>7. e \in Events
    BY <1>2, <2>1
  <2>8. /\ a \in Seq(Events) /\ Len(a) = i + 1 /\ a[i + 1] = e
        /\ \A j \in 1 .. i : a[j] = pre(i)[j]
    BY <2>5, <2>7, AppendProperties
  <2>9. \A j \in 1 .. i + 1 : a[j] = pre(i + 1)[j]
    <3> TAKE j \in 1 .. i + 1
    <3>1. j = i + 1 \/ j \in 1 .. i
      BY <2>1
    <3> HIDE DEF a
    <3> QED
      BY <3>1, <2>5, <2>6, <2>8
  <2> HIDE DEF a
  <2>10. a = pre(i + 1)
    BY <2>6, <2>8, <2>9, SeqEqual
  <2>11. records[i + 1].hash = Append(pre(i), e)
    BY <2>2, <2>4
  <2>12. records[i + 1].hash = pre(i + 1)
    BY <2>10, <2>11 DEF a
  <2> QED
    BY <2>1, <2>12
<1>5. Len(records) \in Nat
  OBVIOUS
<1> HIDE DEF N
<1>6. \A i \in 0 .. Len(records) : i \in N
  BY <1>3, <1>4, <1>5, InductionUpTo
<1>7. n \in N /\ n # 0
  BY <1>6
<1> QED
  BY <1>7 DEF N, pre

--------------------------------------------------------------------------------
(***************************************************************************)
(* Types, and who holds the lock.                                          *)
(***************************************************************************)
\* The two halves of a write add a line, or run on from the one found open.
LEMMA PartOfLine ==
  ASSUME AuditTypeOK, HolderInv, NEW w \in Writers, WritePart(w)
  PROVE  /\ wr[w].record \in Records
         /\ \/ /\ open /\ lines # <<>> /\ wr'[w].glued
               /\ lines' = Append(Front(lines), Torn)
            \/ /\ ~ open /\ ~ wr'[w].glued
               /\ \E piece \in {Torn, wr[w].record} : lines' = Append(lines, piece)
<1>1. wr[w].record \in Records /\ wr'[w].glued = open
  BY DEF AuditTypeOK, WritePart, WriterStates
<1>2. CASE open
  <2>1. lines # <<>> /\ lines' = [lines EXCEPT ![Len(lines)] = Torn]
    BY <1>2 DEF WritePart, HolderInv
  <2> QED
    BY <1>1, <1>2, <2>1, LastLine DEF AuditTypeOK
<1>3. CASE ~ open
  BY <1>1, <1>3 DEF WritePart
<1> QED
  BY <1>1, <1>2, <1>3 DEF AuditTypeOK

LEMMA RestOfLine ==
  ASSUME AuditTypeOK, HolderInv, WritingInv, NEW w \in Writers, WriteRest(w)
  PROVE  /\ wr[w].record \in Records /\ lines # <<>>
         /\ \/ wr[w].glued /\ lines' = lines /\ Last(lines) = Torn
            \/ /\ ~ wr[w].glued
               /\ lines' = Append(Front(lines), wr[w].record)
               /\ Last(lines) \in {Torn, wr[w].record}
               /\ wr[w].record = Chained(HeadHash(Parsed(Front(lines))), wr[w].event)
<1>1. wr[w].record \in Records /\ lines # <<>> /\ wr[w].pc = "rest"
  BY DEF AuditTypeOK, WriteRest, WritingInv, Writing, HolderInv
<1>2. CASE wr[w].glued
  BY <1>1, <1>2 DEF WriteRest, WritingInv, Writing
<1>3. CASE ~ wr[w].glued
  <2>1. lines' = [lines EXCEPT ![Len(lines)] = wr[w].record]
    BY <1>3 DEF WriteRest
  <2>2. lines' = Append(Front(lines), wr[w].record)
    BY <1>1, <2>1, LastLine DEF AuditTypeOK
  <2> QED
    BY <1>1, <1>3, <2>2 DEF WritingInv, Writing
<1> QED
  BY <1>2, <1>3

LEMMA LinesStayTyped ==
  ASSUME AuditTypeOK, HolderInv, WritingInv, [Next]_vars
  PROVE  lines' \in Seq(Lines)
<1> USE DEF AuditTypeOK
<1>1. ASSUME NEW w \in Writers, WritePart(w) PROVE lines' \in Seq(Lines)
  <2>1. Torn \in Lines /\ wr[w].record \in Lines
    BY <1>1, PartOfLine DEF Lines
  <2>2. CASE lines # <<>> /\ lines' = Append(Front(lines), Torn)
    BY <2>1, <2>2, LastLine, AddedLine
  <2>3. CASE \E piece \in {Torn, wr[w].record} : lines' = Append(lines, piece)
    BY <2>1, <2>3, AddedLine
  <2> QED
    BY <1>1, <2>2, <2>3, PartOfLine
<1>2. ASSUME NEW w \in Writers, WriteRest(w) PROVE lines' \in Seq(Lines)
  <2>1. wr[w].record \in Lines /\ lines # <<>>
    BY <1>2, RestOfLine DEF Lines
  <2>2. Front(lines) \in Seq(Lines)
    BY <2>1, LastLine
  <2>3. CASE lines' = lines
    BY <2>3
  <2>4. CASE lines' = Append(Front(lines), wr[w].record)
    BY <2>1, <2>2, <2>4, AddedLine
  <2> QED
    BY <1>2, <2>3, <2>4, RestOfLine
<1>3. ASSUME NEW i \in 1 .. Len(lines), AlterLine(i) PROVE lines' \in Seq(Lines)
  <2>1. lines[i] \in Records
    BY <1>3, ElementOfSeq DEF AlterLine, Lines
  <2>2. [lines[i] EXCEPT !.event = 0] \in Lines
    <3>1. 0 \in Events
      BY AuditBoundsAssumption DEF AuditBoundsAssumption, Events
    <3>2. [lines[i] EXCEPT !.event = 0] \in Records
      BY <2>1, <3>1 DEF Records
    <3> QED
      BY <3>2 DEF Lines
  <2>3. lines' = [lines EXCEPT ![i] = [lines[i] EXCEPT !.event = 0]]
    BY <1>3 DEF AlterLine
  <2> QED
    BY <2>2, <2>3, ExceptSeq
<1>4. ASSUME NEW i \in 1 .. Len(lines), RemoveLine(i) PROVE lines' \in Seq(Lines)
  <2>1. \A j \in 1 .. Len(lines) : lines[j] \in Lines
    BY ElementOfSeq
  <2>2. SubSeq(lines, 1, i - 1) \in Seq(Lines) /\ SubSeq(lines, i + 1, Len(lines)) \in Seq(Lines)
    BY <2>1
  <2> QED
    BY <1>4, <2>2, ConcatProperties DEF RemoveLine, RemoveAt
<1>5. CASE UNCHANGED lines
  BY <1>5
<1>6. CASE Tamper
  BY <1>3, <1>4, <1>6 DEF Tamper
<1>7. ASSUME NEW w \in Writers, WriterNext(w) PROVE lines' \in Seq(Lines)
  BY <1>1, <1>2, <1>5, <1>7 DEF WriterNext, Acquire, Compute, Release, Crash, fileVars
<1>8. ASSUME NEW a \in Anchorers, AnchorNext(a) PROVE lines' \in Seq(Lines)
  BY <1>5, <1>8 DEF AnchorNext, CreateRead, CreateCheck, AdvanceVerify, AdvanceRead,
                    ReplaceAnchor, fileVars
<1> QED
  BY <1>5, <1>6, <1>7, <1>8 DEF Next, vars, fileVars

\* A reading process computes its checkpoint from records.
LEMMA PayloadType == ASSUME NEW ls \in Seq(Lines) PROVE Payload(ls) \in Checkpoints
<1>1. Parsed(ls) \in Seq(Records)
  BY ParsedType
<1>2. HeadHash(Parsed(ls)) \in Seq(Events)
  <2>1. CASE Parsed(ls) = <<>>
    BY <2>1, EmptySeq DEF HeadHash
  <2>2. CASE Parsed(ls) # <<>>
    <3>1. Last(Parsed(ls)) \in Records
      BY <1>1, <2>2, LastLine
    <3> QED
      BY <3>1, <2>2 DEF HeadHash, Records
  <2> QED
    BY <2>1, <2>2
<1>3. Len(Parsed(ls)) \in Nat
  BY <1>1, LenProperties
<1> QED
  BY <1>2, <1>3 DEF Payload, Checkpoints

LEMMA AuditTypesKept ==
  ASSUME AuditTypeOK, HolderInv, WritingInv, [Next]_vars
  PROVE  AuditTypeOK'
<1> USE DEF AuditTypeOK
<1>1. lines' \in Seq(Lines)
  BY LinesStayTyped
<1>2. ASSUME NEW w \in Writers, Acquire(w) PROVE AuditTypeOK'
  <2>1. writes + 1 \in Events /\ writes + 1 \in 0 .. MaxWrites
    BY <1>2, AuditBoundsAssumption DEF Acquire, Events, AuditBoundsAssumption
  <2> QED
    BY <1>1, <1>2, <2>1 DEF Acquire, WriterStates, IdleWriter, fileVars, anchorVars
<1>3. ASSUME NEW w \in Writers, Compute(w) PROVE AuditTypeOK'
  <2>1. Chained(HeadHash(Parsed(lines)), wr[w].event) \in Records
    BY <1>3, ParsedType, HashType DEF Compute
  <2> DEFINE r == Chained(HeadHash(Parsed(lines)), wr[w].event)
  <2> HIDE DEF r
  <2>2. wr' = [wr EXCEPT ![w].pc = "write", ![w].record = r] /\ r \in Records /\ wr[w].event \in Events
    BY <1>3, <2>1 DEF Compute, r
  <2>3. \A x \in Writers : wr'[x] = IF x = w THEN [wr[w] EXCEPT !.pc = "write", !.record = r]
                                    ELSE wr[x]
    BY <2>2
  <2>4. wr' \in [Writers -> WriterStates]
    <3>1. [wr[w] EXCEPT !.pc = "write", !.record = r] \in WriterStates
      BY <2>2 DEF WriterStates
    <3> QED
      BY <2>2, <2>3, <3>1
  <2> QED
    BY <1>1, <1>3, <2>2, <2>3, <2>4 DEF Compute, WriterStates, fileVars, anchorVars
<1>4. ASSUME NEW w \in Writers, WritePart(w) PROVE AuditTypeOK'
  <2>1. /\ wr' = [wr EXCEPT ![w].pc = "rest", ![w].glued = open] /\ open' \in BOOLEAN
        /\ wr[w].event \in Events /\ wr[w].record \in Records
    BY <1>4 DEF WritePart
  <2>2. \A x \in Writers : wr'[x] = IF x = w THEN [wr[w] EXCEPT !.pc = "rest", !.glued = open]
                                    ELSE wr[x]
    BY <2>1
  <2>3. wr' \in [Writers -> WriterStates]
    <3>1. [wr[w] EXCEPT !.pc = "rest", !.glued = open] \in WriterStates
      BY <2>1 DEF WriterStates
    <3> QED
      BY <2>1, <2>2, <3>1
  <2> QED
    BY <1>1, <1>4, <2>1, <2>2, <2>3 DEF WritePart, WriterStates, anchorVars
<1>5. ASSUME NEW w \in Writers, WriteRest(w) PROVE AuditTypeOK'
  BY <1>1, <1>5 DEF WriteRest, WriterStates, anchorVars
<1>6. ASSUME NEW w \in Writers, Release(w) PROVE AuditTypeOK'
  <2>1. acked' \in Seq(Events)
    BY <1>6, AppendProperties DEF Release
  <2> QED
    BY <1>1, <1>6, <2>1 DEF Release, WriterStates, IdleWriter, fileVars, anchorVars
<1>7. ASSUME NEW w \in Writers, Crash(w) PROVE AuditTypeOK'
  BY <1>1, <1>7 DEF Crash, WriterStates, IdleWriter, fileVars, anchorVars
<1>8. Payload(lines) \in Checkpoints
  BY PayloadType
<1>9. ASSUME NEW a \in Anchorers, AnchorNext(a) PROVE AuditTypeOK'
  <2>1. CASE CreateRead(a)
    BY <1>1, <1>8, <2>1 DEF CreateRead, AnchorerStates, fileVars, writerVars
  <2>2. CASE CreateCheck(a)
    BY <1>1, <2>2 DEF CreateCheck, AnchorerStates, IdleAnchorer, fileVars, writerVars
  <2>3. CASE AdvanceVerify(a)
    BY <1>1, <2>3 DEF AdvanceVerify, AnchorerStates, fileVars, writerVars
  <2>4. CASE AdvanceRead(a)
    BY <1>1, <1>8, <2>4 DEF AdvanceRead, AnchorerStates, IdleAnchorer, fileVars, writerVars
  <2>5. CASE ReplaceAnchor(a)
    BY <1>1, <2>5 DEF ReplaceAnchor, AnchorerStates, IdleAnchorer, fileVars, writerVars
  <2> QED
    BY <1>9, <2>1, <2>2, <2>3, <2>4, <2>5 DEF AnchorNext
<1>10. CASE Tamper
  <2>1. open' \in BOOLEAN
    BY <1>10 DEF Tamper, AlterLine, RemoveLine
  <2> QED
    BY <1>1, <1>10, <2>1 DEF Tamper, writerVars, anchorVars
<1>11. CASE UNCHANGED vars
  BY <1>11 DEF vars, fileVars, writerVars, anchorVars
<1> QED
  BY <1>2, <1>3, <1>4, <1>5, <1>6, <1>7, <1>9, <1>10, <1>11 DEF Next, WriterNext

LEMMA HolderKept ==
  ASSUME AuditTypeOK, HolderInv, WritingInv, [Next]_vars
  PROVE  HolderInv'
<1> USE DEF AuditTypeOK, HolderInv
<1>n. None \notin Writers
  BY AuditValuesAssumption DEF AuditValuesAssumption
<1>1. ASSUME NEW w \in Writers, WriterNext(w) PROVE HolderInv'
  <2>1. CASE Acquire(w)
    BY <1>n, <2>1 DEF Acquire, fileVars, IdleWriter
  <2>2. CASE Compute(w)
    BY <2>2 DEF Compute, fileVars, WriterStates
  <2>3. CASE WritePart(w)
    <3>1. lines' # <<>>
      <4>1. Torn \in Lines /\ wr[w].record \in Lines
        BY <2>3, PartOfLine DEF Lines
      <4>2. CASE lines # <<>> /\ lines' = Append(Front(lines), Torn)
        BY <4>1, <4>2, LastLine, AddedLine
      <4>3. CASE \E piece \in {Torn, wr[w].record} : lines' = Append(lines, piece)
        BY <4>1, <4>3, AddedLine
      <4> QED
        BY <2>3, <4>2, <4>3, PartOfLine
    <3>2. \A x \in Writers : wr'[x].pc # "idle" => holder' = x
      BY <2>3 DEF WritePart, WriterStates
    <3> QED
      BY <3>1, <3>2
  <2>4. CASE WriteRest(w)
    BY <2>4 DEF WriteRest, WriterStates
  <2>5. CASE Release(w)
    BY <1>n, <2>5 DEF Release, IdleWriter, fileVars
  <2>6. CASE Crash(w)
    BY <1>n, <2>6 DEF Crash, IdleWriter, fileVars
  <2> QED
    BY <1>1, <2>1, <2>2, <2>3, <2>4, <2>5, <2>6 DEF WriterNext
<1>2. ASSUME NEW a \in Anchorers, AnchorNext(a) PROVE HolderInv'
  BY <1>2 DEF AnchorNext, CreateRead, CreateCheck, AdvanceVerify, AdvanceRead, ReplaceAnchor,
              fileVars, writerVars
<1>3. CASE Tamper
  <2>1. ASSUME NEW i \in 1 .. Len(lines), AlterLine(i), open PROVE lines' # <<>>
    <3>1. Len(lines) \in Nat /\ Len(lines') = Len(lines)
      BY <2>1 DEF AlterLine
    <3> QED
      BY <3>1
  <2>2. ASSUME NEW i \in 1 .. Len(lines), RemoveLine(i), open' PROVE lines' # <<>>
    <3>0. i # Len(lines)
      BY <2>2, Zenon DEF RemoveLine
    <3>1. i + 1 <= Len(lines) /\ Len(lines) \in Nat /\ i \in Nat
      BY <3>0
    <3>2. \A j \in 1 .. Len(lines) : lines[j] \in Lines
      BY ElementOfSeq
    <3>3. /\ SubSeq(lines, 1, i - 1) \in Seq(Lines)
          /\ SubSeq(lines, i + 1, Len(lines)) \in Seq(Lines)
          /\ Len(SubSeq(lines, i + 1, Len(lines))) = Len(lines) - i
      BY <3>1, <3>2
    <3> DEFINE before == SubSeq(lines, 1, i - 1)
               after == SubSeq(lines, i + 1, Len(lines))
    <3>4. lines' = before \o after
      BY <2>2 DEF RemoveLine, RemoveAt
    <3>5. before \in Seq(Lines) /\ after \in Seq(Lines) /\ Len(after) = Len(lines) - i
      BY <3>3
    <3> HIDE DEF before, after
    <3>6. after # <<>>
      BY <3>1, <3>5
    <3> QED
      BY <3>4, <3>5, <3>6, ConcatEqualIffEmpty
  <2>3. open' => lines' # <<>>
    BY <1>3, <2>1, <2>2 DEF Tamper, AlterLine
  <2> QED
    BY <1>3, <2>3 DEF Tamper, writerVars
<1>4. CASE UNCHANGED vars
  BY <1>4 DEF vars, fileVars, writerVars
<1> QED
  BY <1>1, <1>2, <1>3, <1>4 DEF Next

--------------------------------------------------------------------------------
(***************************************************************************)
(* The chain.                                                              *)
(***************************************************************************)
LEMMA OthersIdle ==
  ASSUME HolderInv, NEW w \in Writers, wr[w].pc # "idle" \/ holder = None
  PROVE  \A x \in Writers : x # w => wr[x].pc = "idle"
BY AuditValuesAssumption DEF HolderInv, AuditValuesAssumption

\* What anybody but a writer does leaves the writers alone and the file too, or
\* finds them all idle.
LEMMA WritingKept ==
  ASSUME AuditTypeOK, HolderInv, WritingInv, [Next]_vars
  PROVE  WritingInv'
<1> USE DEF AuditTypeOK
<1>1. ASSUME NEW w \in Writers, WriterNext(w) PROVE WritingInv'
  <2>1. \A x \in Writers : x # w => wr[x].pc = "idle" /\ wr'[x] = wr[x]
    BY <1>1, OthersIdle
    DEF WriterNext, Acquire, Compute, WritePart, WriteRest, Release, Crash
  <2> SUFFICES Writing(w)'
    <3>1. ASSUME NEW x \in Writers, x # w PROVE Writing(x)'
      BY <2>1, <3>1 DEF Writing
    <3> QED
      BY <3>1 DEF WritingInv
  <2>2. CASE wr'[w].pc \notin {"write", "rest"}
    BY <2>2 DEF Writing
  <2>3. CASE Compute(w)
    <3>1. /\ wr'[w].pc = "write" /\ wr'[w].event = wr[w].event /\ lines' = lines
          /\ wr'[w].record = Chained(HeadHash(Parsed(lines)), wr[w].event)
      BY <2>3 DEF Compute, WriterStates, fileVars
    <3> QED
      BY <3>1 DEF Writing
  <2>4. CASE WritePart(w)
    <3>1. /\ wr'[w].pc = "rest" /\ wr'[w].event = wr[w].event /\ wr'[w].record = wr[w].record
          /\ wr[w].pc = "write" /\ open'
      BY <2>4 DEF WritePart, WriterStates
    <3>2. wr[w].record = Chained(HeadHash(Parsed(lines)), wr[w].event)
      BY <3>1 DEF WritingInv, Writing
    <3>3. Torn \in Lines /\ wr[w].record \in Lines
      BY <2>4, PartOfLine DEF Lines
    <3>4. CASE wr'[w].glued
      <4>1. lines # <<>> /\ lines' = Append(Front(lines), Torn)
        BY <2>4, <3>4, PartOfLine
      <4>2. Front(lines) \in Seq(Lines)
        BY <4>1, LastLine
      <4>3. Last(lines') = Torn
        BY <3>3, <4>1, <4>2, AddedLine
      <4> QED
        BY <3>1, <3>4, <4>3 DEF Writing
    <3>5. CASE ~ wr'[w].glued
      <4>1. PICK piece \in {Torn, wr[w].record} : lines' = Append(lines, piece)
        BY <2>4, <3>5, PartOfLine
      <4>2. Last(lines') = piece /\ Front(lines') = lines
        BY <3>3, <4>1, AddedLine
      <4> QED
        BY <3>1, <3>2, <3>5, <4>1, <4>2 DEF Writing
    <3> QED
      BY <3>4, <3>5
  <2>5. CASE Acquire(w)
    <3>1. wr'[w].pc = "compute"
      BY <2>5 DEF Acquire, IdleWriter
    <3> QED
      BY <3>1, <2>2
  <2>6. CASE WriteRest(w)
    <3>1. wr'[w].pc = "release"
      BY <2>6 DEF WriteRest, WriterStates
    <3> QED
      BY <3>1, <2>2
  <2>7. CASE Release(w) \/ Crash(w)
    <3>1. wr'[w].pc = "idle"
      BY <2>7 DEF Release, Crash, IdleWriter
    <3> QED
      BY <3>1, <2>2
  <2> QED
    BY <1>1, <2>3, <2>4, <2>5, <2>6, <2>7 DEF WriterNext
<1>2. ASSUME NEW a \in Anchorers, AnchorNext(a) PROVE WritingInv'
  BY <1>2 DEF AnchorNext, CreateRead, CreateCheck, AdvanceVerify, AdvanceRead, ReplaceAnchor,
              fileVars, writerVars, WritingInv, Writing
<1>3. CASE Tamper
  <2>1. \A x \in Writers : wr'[x].pc = "idle"
    BY <1>3, AuditValuesAssumption DEF Tamper, writerVars, HolderInv, AuditValuesAssumption
  <2> QED
    BY <2>1 DEF WritingInv, Writing
<1>4. CASE UNCHANGED vars
  BY <1>4 DEF vars, fileVars, writerVars, WritingInv, Writing
<1> QED
  BY <1>1, <1>2, <1>3, <1>4 DEF Next

\* What a writer does to the records a reader finds: nothing, or its own is added
\* at the end, or, running on from an open line, it takes the last one away.
LEMMA ParsedStep ==
  ASSUME AuditTypeOK, HolderInv, WritingInv, NEW w \in Writers, WriterNext(w)
  PROVE  \/ Parsed(lines') = Parsed(lines)
         \/ /\ wr[w].event \in Events
            /\ Parsed(lines') = Append(Parsed(lines), Chained(HeadHash(Parsed(lines)), wr[w].event))
         \/ /\ open /\ WritePart(w)
            /\ \E r \in Records : Parsed(lines) = Append(Parsed(lines'), r)
<1> USE DEF AuditTypeOK
<1>1. CASE UNCHANGED lines
  BY <1>1
<1>2. CASE WritePart(w)
  <2>1. /\ wr[w].record \in Records /\ wr[w].event \in Events
        /\ wr[w].record = Chained(HeadHash(Parsed(lines)), wr[w].event)
    BY <1>2, PartOfLine DEF WritePart, WritingInv, Writing
  <2>2. Torn \in Lines /\ wr[w].record \in Lines /\ wr[w].record # Torn
    BY <2>1, AuditValuesAssumption DEF Lines, AuditValuesAssumption
  <2>3. CASE open /\ lines # <<>> /\ lines' = Append(Front(lines), Torn)
    <3>1. Front(lines) \in Seq(Lines) /\ Last(lines) \in Lines /\ lines = Append(Front(lines), Last(lines))
      BY <2>3, LastLine
    <3>2. Parsed(lines') = Parsed(Front(lines))
      BY <2>2, <2>3, <3>1, ParsedAppend
    <3>3. Parsed(lines) = IF Last(lines) = Torn THEN Parsed(Front(lines))
                          ELSE Append(Parsed(Front(lines)), Last(lines))
      BY <3>1, ParsedAppend
    <3>4. Last(lines) = Torn \/ Last(lines) \in Records
      BY <3>1 DEF Lines
    <3> QED
      BY <1>2, <2>3, <3>2, <3>3, <3>4
  <2>4. ASSUME NEW piece \in {Torn, wr[w].record}, lines' = Append(lines, piece)
        PROVE  \/ Parsed(lines') = Parsed(lines)
               \/ Parsed(lines') = Append(Parsed(lines), wr[w].record)
    BY <2>2, <2>4, ParsedAppend
  <2> QED
    BY <1>2, <2>1, <2>3, <2>4, PartOfLine
<1>3. CASE WriteRest(w)
  <2>1. CASE lines' = lines
    BY <2>1
  <2>2. CASE ~ wr[w].glued
    <3>1. /\ wr[w].record \in Records /\ lines # <<>> /\ wr[w].event \in Events
          /\ lines' = Append(Front(lines), wr[w].record) /\ Last(lines) \in {Torn, wr[w].record}
          /\ wr[w].record = Chained(HeadHash(Parsed(Front(lines))), wr[w].event)
      BY <1>3, <2>2, RestOfLine DEF WriteRest
    <3>2. Front(lines) \in Seq(Lines) /\ Last(lines) \in Lines /\ lines = Append(Front(lines), Last(lines))
      BY <3>1, LastLine
    <3>3. wr[w].record \in Lines /\ wr[w].record # Torn
      BY <3>1, AuditValuesAssumption DEF Lines, AuditValuesAssumption
    <3>4. Parsed(lines') = Append(Parsed(Front(lines)), wr[w].record)
      BY <3>1, <3>2, <3>3, ParsedAppend
    <3>5. Parsed(lines) = IF Last(lines) = Torn THEN Parsed(Front(lines))
                          ELSE Append(Parsed(Front(lines)), Last(lines))
      BY <3>2, ParsedAppend
    <3>6. CASE Last(lines) = Torn
      BY <3>1, <3>4, <3>5, <3>6
    <3>7. CASE Last(lines) = wr[w].record
      BY <3>3, <3>4, <3>5, <3>7
    <3> QED
      BY <3>1, <3>6, <3>7
  <2> QED
    BY <1>3, <2>1, <2>2, RestOfLine
<1> QED
  BY <1>1, <1>2, <1>3 DEF WriterNext, Acquire, Compute, Release, Crash, fileVars

LEMMA ChainKept ==
  ASSUME AuditTypeOK, HolderInv, WritingInv, ParsedIsChained, [Next]_vars
  PROVE  ParsedIsChained'
<1> USE DEF AuditTypeOK
<1>1. lines' \in Seq(Lines)
  BY LinesStayTyped
<1>2. Parsed(lines) \in Seq(Records) /\ Parsed(lines') \in Seq(Records)
  BY <1>1, ParsedType
<1>3. ASSUME NEW w \in Writers, WriterNext(w) PROVE ParsedIsChained'
  <2>1. tampers' = tampers
    BY <1>3 DEF WriterNext, Acquire, Compute, WritePart, WriteRest, Release, Crash
  <2>2. CASE tampers = 0
    <3>1. Linked(Parsed(lines))
      BY <2>2 DEF ParsedIsChained
    <3> DEFINE old == Parsed(lines)
               new == Parsed(lines')
    <3>2. \/ new = old
          \/ wr[w].event \in Events /\ new = Append(old, Chained(HeadHash(old), wr[w].event))
          \/ \E r \in Records : old = Append(new, r)
      BY <1>3, ParsedStep
    <3>3. old \in Seq(Records) /\ new \in Seq(Records) /\ Linked(old)
      BY <1>2, <3>1
    <3> HIDE DEF old, new
    <3>4. Linked(new)
      BY <3>2, <3>3, LinkedAppend, LinkedFront
    <3> QED
      BY <3>4 DEF ParsedIsChained, new
  <2> QED
    BY <2>1, <2>2 DEF ParsedIsChained
<1>4. CASE Tamper
  <2>1. tampers' # 0
    BY <1>4 DEF Tamper
  <2> QED
    BY <2>1 DEF ParsedIsChained
<1>5. CASE UNCHANGED <<lines, tampers>>
  BY <1>5 DEF ParsedIsChained
<1>6. ASSUME NEW a \in Anchorers, AnchorNext(a) PROVE UNCHANGED <<lines, tampers>>
  BY <1>6 DEF AnchorNext, CreateRead, CreateCheck, AdvanceVerify, AdvanceRead, ReplaceAnchor,
              fileVars
<1> QED
  BY <1>3, <1>4, <1>5, <1>6 DEF Next, vars, fileVars

--------------------------------------------------------------------------------
(***************************************************************************)
(* What becomes of an event that was written.                              *)
(***************************************************************************)
LEMMA ToSetAppend ==
  ASSUME NEW S, NEW s \in Seq(S), NEW x \in S
  PROVE  ToSet(Append(s, x)) = ToSet(s) \cup {x}
<1> DEFINE longer == Append(s, x)
<1>1. /\ longer \in Seq(S) /\ Len(longer) = Len(s) + 1 /\ Len(s) \in Nat
      /\ longer[Len(s) + 1] = x /\ \A i \in 1 .. Len(s) : longer[i] = s[i]
  BY AppendProperties
<1>2. DOMAIN longer = 1 .. Len(s) + 1 /\ DOMAIN s = 1 .. Len(s)
  BY <1>1
<1> HIDE DEF longer
<1> QED
  BY <1>1, <1>2 DEF ToSet, longer

\* The writer's other steps leave the file alone.
LEMMA FileUntouched ==
  ASSUME AuditTypeOK, NEW w \in Writers, Acquire(w) \/ Compute(w) \/ Release(w) \/ Crash(w)
  PROVE  lines' = lines /\ open' = open /\ wr'[w].pc \notin {"rest", "release"}
<1> USE DEF AuditTypeOK, fileVars
<1>1. CASE Acquire(w)
  BY <1>1 DEF Acquire, IdleWriter
<1>2. CASE Compute(w)
  BY <1>2 DEF Compute
<1>3. CASE Release(w)
  BY <1>3 DEF Release, IdleWriter
<1>4. CASE Crash(w)
  BY <1>4 DEF Crash, IdleWriter
<1> QED
  BY <1>1, <1>2, <1>3, <1>4

\* A line that stays torn stays so: a writer only ever completes its own.
LEMMA DamageStays ==
  ASSUME AuditTypeOK, HolderInv, WritingInv, Damaged, NEW w \in Writers, WriterNext(w)
  PROVE  Damaged'
<1> USE DEF AuditTypeOK
<1>1. PICK i \in 1 .. Len(lines) : lines[i] = Torn /\ ~ Pending(i)
  BY DEF Damaged
<1>2. \A x \in Writers : x # w => wr[x].pc = "idle" /\ wr'[x] = wr[x]
  BY OthersIdle DEF WriterNext, Acquire, Compute, WritePart, WriteRest, Release, Crash
<1>3. Len(lines) \in Nat
  OBVIOUS
<1>4. CASE lines' = lines /\ wr'[w].pc # "rest"
  BY <1>1, <1>2, <1>4 DEF Damaged, Pending
<1>5. CASE WritePart(w)
  <2>1. wr'[w].glued = open /\ wr[w].record \in Records
    BY <1>5 DEF WritePart, WriterStates
  <2>2. CASE open
    <3>1. lines' = [lines EXCEPT ![Len(lines)] = Torn] /\ lines # <<>>
      BY <1>5, <2>2 DEF WritePart, HolderInv
    <3>2. lines'[i] = Torn /\ Len(lines') = Len(lines)
      BY <1>1, <1>3, <3>1
    <3>3. ~ Pending(i)'
      BY <1>2, <2>1, <2>2 DEF Pending
    <3> QED
      BY <1>1, <3>2, <3>3 DEF Damaged
  <2>3. CASE ~ open
    <3>1. PICK piece \in {Torn, wr[w].record} : lines' = Append(lines, piece)
      BY <1>5, <2>3 DEF WritePart
    <3>2. piece \in Lines
      BY <2>1, <3>1 DEF Lines
    <3>3. lines'[i] = Torn /\ Len(lines') = Len(lines) + 1
      BY <1>1, <3>1, <3>2, AppendProperties
    <3>4. i \in 1 .. Len(lines') /\ i # Len(lines')
      BY <1>1, <1>3, <3>3
    <3> QED
      BY <3>3, <3>4 DEF Damaged, Pending
  <2> QED
    BY <2>2, <2>3
<1>6. CASE WriteRest(w) /\ ~ wr[w].glued
  <2>1. i # Len(lines)
    BY <1>1, <1>6 DEF Pending, WriteRest
  <2>2. lines' = [lines EXCEPT ![Len(lines)] = wr[w].record] /\ wr'[w].pc = "release"
    BY <1>6 DEF WriteRest, WriterStates
  <2>3. lines'[i] = Torn /\ Len(lines') = Len(lines)
    BY <1>1, <1>3, <2>1, <2>2
  <2> QED
    BY <1>1, <1>2, <2>2, <2>3 DEF Damaged, Pending
<1>7. CASE WriteRest(w) /\ wr[w].glued
  <2>1. lines' = lines /\ wr'[w].pc = "release"
    BY <1>7 DEF WriteRest, WriterStates
  <2> QED
    BY <2>1, <1>4
<1>8. CASE Acquire(w) \/ Compute(w) \/ Release(w) \/ Crash(w)
  <2>1. lines' = lines /\ wr'[w].pc # "rest"
    BY <1>8, FileUntouched
  <2> QED
    BY <2>1, <1>4
<1> QED
  BY <1>5, <1>6, <1>7, <1>8 DEF WriterNext

LEMMA LossKept ==
  ASSUME AuditTypeOK, HolderInv, WritingInv, LossInv, [Next]_vars
  PROVE  LossInv'
<1> USE DEF AuditTypeOK
<1>1. ASSUME NEW w \in Writers, WriterNext(w) PROVE LossInv'
  <2>1. tampers' = tampers
    BY <1>1 DEF WriterNext, Acquire, Compute, WritePart, WriteRest, Release, Crash
  <2>2. \A x \in Writers : x # w => wr[x].pc = "idle" /\ wr'[x] = wr[x]
    BY <1>1, OthersIdle
    DEF WriterNext, Acquire, Compute, WritePart, WriteRest, Release, Crash
  <2>3. Len(lines) \in Nat
    OBVIOUS
  <2> SUFFICES ASSUME tampers = 0, ~ Damaged, ~ Damaged', NEW e \in Events, Done(e)'
               PROVE  OnFile(e)'
    BY <1>1, <2>1, DamageStays DEF LossInv
  <2>4. Done(e) => OnFile(e)
    BY DEF LossInv
  <2>5. CASE Acquire(w) \/ Compute(w) \/ Crash(w)
    <3>1. /\ lines' = lines /\ acked' = acked /\ wr'[w].pc # "release"
      BY <2>5, FileUntouched DEF Acquire, Compute, Crash
    <3>2. Done(e)
      BY <2>2, <3>1 DEF Done
    <3> QED
      BY <2>4, <3>1, <3>2 DEF OnFile
  <2>6. CASE Release(w)
    <3>1. /\ lines' = lines /\ acked' = Append(acked, wr[w].event) /\ wr'[w].pc = "idle"
          /\ wr[w].pc = "release" /\ wr[w].event \in Events
      BY <2>6 DEF Release, IdleWriter, fileVars
    <3>2. ToSet(acked') = ToSet(acked) \cup {wr[w].event}
      BY <3>1, ToSetAppend
    <3>3. Done(e)
      BY <2>2, <3>1, <3>2 DEF Done
    <3> QED
      BY <2>4, <3>1, <3>3 DEF OnFile
  <2>7. CASE WritePart(w)
    <3>1. /\ acked' = acked /\ wr'[w].pc = "rest" /\ wr'[w].glued = open
          /\ wr[w].record \in Records
      BY <2>7 DEF WritePart, WriterStates
    <3>2. Done(e)
      BY <2>2, <3>1 DEF Done
    <3>3. ~ open
      <4> SUFFICES ASSUME open PROVE FALSE
        OBVIOUS
      <4>1. lines' = [lines EXCEPT ![Len(lines)] = Torn] /\ lines # <<>>
        BY <2>7 DEF WritePart, HolderInv
      <4>2. Len(lines) \in 1 .. Len(lines) /\ Len(lines') = Len(lines) /\ lines'[Len(lines)] = Torn
        BY <2>3, <4>1
      <4>3. ~ Pending(Len(lines))'
        BY <2>2, <3>1 DEF Pending
      <4> QED
        BY <4>2, <4>3 DEF Damaged
    <3>4. PICK piece \in {Torn, wr[w].record} : lines' = Append(lines, piece)
      BY <2>7, <3>3 DEF WritePart
    <3>5. piece \in Lines
      BY <3>1, <3>4 DEF Lines
    <3>6. Len(lines') = Len(lines) + 1 /\ \A i \in 1 .. Len(lines) : lines'[i] = lines[i]
      BY <3>4, <3>5, AppendProperties
    <3>7. PICK i \in 1 .. Len(lines) : lines[i] # Torn /\ lines[i].event = e
      BY <2>4, <3>2 DEF OnFile
    <3>8. i \in 1 .. Len(lines')
      BY <2>3, <3>6
    <3> QED
      BY <3>6, <3>7, <3>8 DEF OnFile
  <2>8. CASE WriteRest(w)
    <3>1. /\ acked' = acked /\ wr'[w].pc = "release" /\ wr'[w].event = wr[w].event
          /\ wr[w].record \in Records /\ wr[w].record # Torn /\ lines # <<>>
      BY <2>8, RestOfLine, AuditValuesAssumption DEF WriteRest, WriterStates, AuditValuesAssumption
    <3>2. Done(e) \/ e = wr[w].event
      BY <2>2, <3>1 DEF Done
    <3>3. Len(lines) \in 1 .. Len(lines) /\ Last(lines) = lines[Len(lines)]
      <4>1. lines # <<>>
        BY <3>1
      <4>2. Last(lines) = lines[Len(lines)]
        BY <4>1, LastLine
      <4> QED
        BY <2>3, <4>1, <4>2, EmptySeq
    <3>4. \A i : ~ Pending(i)'
      BY <2>2, <3>1 DEF Pending
    <3>5. ~ wr[w].glued
      <4> SUFFICES ASSUME wr[w].glued PROVE FALSE
        OBVIOUS
      <4>1. lines' = lines /\ Last(lines) = Torn
        BY <2>8, RestOfLine
      <4> QED
        BY <3>3, <3>4, <4>1 DEF Damaged
    <3>6. /\ lines' = [lines EXCEPT ![Len(lines)] = wr[w].record]
          /\ Last(lines) \in {Torn, wr[w].record} /\ wr[w].record.event = wr[w].event
      <4>1. /\ Last(lines) \in {Torn, wr[w].record}
            /\ wr[w].record = Chained(HeadHash(Parsed(Front(lines))), wr[w].event)
        BY <2>8, <3>5, RestOfLine
      <4>2. lines' = [lines EXCEPT ![Len(lines)] = wr[w].record]
        BY <2>8, <3>5 DEF WriteRest
      <4> QED
        BY <4>1, <4>2 DEF Chained
    <3>7. /\ Len(lines') = Len(lines) /\ lines'[Len(lines)] = wr[w].record
          /\ \A i \in 1 .. Len(lines) : i # Len(lines) => lines'[i] = lines[i]
      BY <3>3, <3>6
    <3>8. CASE e = wr[w].event
      BY <3>1, <3>3, <3>6, <3>7, <3>8 DEF OnFile
    <3>9. CASE Done(e)
      <4>1. PICK i \in 1 .. Len(lines) : lines[i] # Torn /\ lines[i].event = e
        BY <2>4, <3>9 DEF OnFile
      <4>2. lines'[i] = lines[i]
        BY <3>3, <3>6, <3>7, <4>1
      <4> QED
        BY <3>7, <4>1, <4>2 DEF OnFile
    <3> QED
      BY <3>2, <3>8, <3>9
  <2> QED
    BY <1>1, <2>5, <2>6, <2>7, <2>8 DEF WriterNext
<1>2. ASSUME NEW a \in Anchorers, AnchorNext(a) PROVE UNCHANGED <<lines, wr, acked, tampers>>
  BY <1>2 DEF AnchorNext, CreateRead, CreateCheck, AdvanceVerify, AdvanceRead, ReplaceAnchor,
              fileVars, writerVars
<1>3. CASE UNCHANGED <<lines, wr, acked, tampers>>
  BY <1>3 DEF LossInv, Damaged, Done, OnFile, Pending
<1>4. CASE Tamper
  <2>1. tampers' # 0
    BY <1>4 DEF Tamper
  <2> QED
    BY <2>1 DEF LossInv
<1> QED
  BY <1>1, <1>2, <1>3, <1>4 DEF Next, vars, fileVars, writerVars

--------------------------------------------------------------------------------
(***************************************************************************)
(* A log that nobody cuts, tears or edits.                                 *)
(***************************************************************************)
LEMMA PinnedAppend ==
  ASSUME NEW records \in Seq(Records), NEW r \in Records, NEW p \in Checkpoints,
         Pinned(p, records)
  PROVE  Pinned(p, Append(records, r))
<1> DEFINE longer == Append(records, r)
<1>1. /\ Len(longer) = Len(records) + 1 /\ Len(records) \in Nat
      /\ \A i \in 1 .. Len(records) : longer[i] = records[i]
  BY AppendProperties
<1>2. p.count \in Nat
  BY DEF Checkpoints
<1> HIDE DEF longer
<1>3. Pinned(p, longer)
  BY <1>1, <1>2 DEF Pinned
<1> QED
  BY <1>3 DEF longer

LEMMA PayloadPinned ==
  ASSUME NEW ls \in Seq(Lines)
  PROVE  Pinned(Payload(ls), Parsed(ls))
<1>1. Parsed(ls) \in Seq(Records)
  BY ParsedType
<1>2. Len(Parsed(ls)) \in Nat /\ (Parsed(ls) = <<>> <=> Len(Parsed(ls)) = 0)
  BY <1>1, EmptySeq
<1>3. CASE Parsed(ls) = <<>>
  BY <1>2, <1>3 DEF Pinned, Payload, HeadHash
<1>4. CASE Parsed(ls) # <<>>
  <2>1. Last(Parsed(ls)) = Parsed(ls)[Len(Parsed(ls))]
    BY <1>1, <1>4, LastLine
  <2> QED
    BY <1>2, <1>4, <2>1 DEF Pinned, Payload, HeadHash
<1> QED
  BY <1>3, <1>4

\* The first three parts of QuietInv: what is open is being written.
Undamaged ==
  /\ open => \E w \in Writers : wr[w].pc = "rest"
  /\ \A w \in Writers : wr[w].pc = "rest" => ~ wr[w].glued
  /\ ~ Damaged

LEMMA UndamagedKept ==
  ASSUME AuditTypeOK, HolderInv, WritingInv, Undamaged, NEW w \in Writers, WriterNext(w), ~ Crash(w)
  PROVE  Undamaged' /\ (WritePart(w) => ~ open)
<1> USE DEF AuditTypeOK
<1>1. \A x \in Writers : x # w => wr[x].pc = "idle" /\ wr'[x] = wr[x]
  BY OthersIdle DEF WriterNext, Acquire, Compute, WritePart, WriteRest, Release, Crash
<1>2. Len(lines) \in Nat
  OBVIOUS
<1>3. ASSUME wr[w].pc # "rest" PROVE ~ open /\ \A i \in 1 .. Len(lines) : lines[i] # Torn
  BY <1>1, <1>3 DEF Undamaged, Damaged, Pending
<1>4. CASE Acquire(w) \/ Compute(w) \/ Release(w)
  <2>1. wr[w].pc # "rest" /\ lines' = lines /\ open' = open /\ wr'[w].pc # "rest"
    BY <1>4, FileUntouched DEF Acquire, Compute, Release
  <2>2. WritePart(w) => ~ open
    BY <1>3, <2>1
  <2> QED
    BY <1>1, <1>3, <2>1, <2>2 DEF Undamaged, Damaged
<1>5. CASE WritePart(w)
  <2>1. /\ wr[w].pc = "write" /\ wr'[w].pc = "rest" /\ wr'[w].glued = open
        /\ wr[w].record \in Records
    BY <1>5 DEF WritePart, WriterStates
  <2>2. ~ open /\ \A i \in 1 .. Len(lines) : lines[i] # Torn
    BY <1>3, <2>1
  <2>3. PICK piece \in {Torn, wr[w].record} : lines' = Append(lines, piece)
    BY <1>5, <2>2 DEF WritePart
  <2>4. piece \in Lines
    BY <2>1, <2>3 DEF Lines
  <2>5. Len(lines') = Len(lines) + 1 /\ \A i \in 1 .. Len(lines) : lines'[i] = lines[i]
    BY <2>3, <2>4, AppendProperties
  <2>6. \A i \in 1 .. Len(lines') : i = Len(lines') \/ lines'[i] # Torn
    BY <1>2, <2>2, <2>5
  <2>7. ~ Damaged'
    BY <2>1, <2>2, <2>6 DEF Damaged, Pending
  <2> QED
    BY <1>1, <2>1, <2>2, <2>7 DEF Undamaged
<1>6. CASE WriteRest(w)
  <2>1. ~ wr[w].glued /\ wr[w].pc = "rest"
    BY <1>6 DEF Undamaged, WriteRest
  <2>2. /\ wr[w].record \in Records /\ wr[w].record # Torn
    BY <2>1, AuditValuesAssumption DEF AuditValuesAssumption
  <2>3. /\ lines' = [lines EXCEPT ![Len(lines)] = wr[w].record] /\ ~ open'
        /\ wr'[w].pc = "release"
    BY <1>6, <2>1 DEF WriteRest, WriterStates
  <2>4. \A i \in 1 .. Len(lines) : lines[i] = Torn => i = Len(lines)
    BY DEF Undamaged, Damaged, Pending
  <2>5. /\ Len(lines') = Len(lines)
        /\ \A i \in 1 .. Len(lines) : lines'[i] = IF i = Len(lines) THEN wr[w].record ELSE lines[i]
    BY <1>2, <2>3
  <2>6. ~ Damaged'
    BY <2>2, <2>4, <2>5 DEF Damaged
  <2>7. ~ WritePart(w)
    BY <2>1 DEF WritePart
  <2> QED
    BY <1>1, <2>3, <2>6, <2>7 DEF Undamaged
<1> QED
  BY <1>4, <1>5, <1>6 DEF WriterNext

LEMMA QuietKept ==
  ASSUME AuditTypeOK, HolderInv, WritingInv, QuietInv, [Next]_vars
  PROVE  QuietInv'
<1> USE DEF AuditTypeOK
<1> DEFINE Quiet == crashes = 0 /\ tampers = 0
           Pins == /\ anchor # None => Pinned(anchor, Parsed(lines))
                   /\ \A a \in Anchorers :
                        an[a].pc \in {"create", "replace"} => Pinned(an[a].payload, Parsed(lines))
<1>1. QuietInv <=> (Quiet => Undamaged /\ Pins)
  BY DEF QuietInv, Undamaged
<1>2. QuietInv' <=> (Quiet' => Undamaged' /\ Pins')
  BY DEF QuietInv, Undamaged
<1>3. ASSUME NEW w \in Writers, WriterNext(w), Quiet' PROVE Undamaged' /\ Pins'
  <2>1. Quiet /\ ~ Crash(w)
    BY <1>3 DEF WriterNext, Acquire, Compute, WritePart, WriteRest, Release, Crash
  <2>2. Undamaged' /\ (WritePart(w) => ~ open)
    BY <1>1, <1>3, <2>1, UndamagedKept
  <2>3. Parsed(lines) \in Seq(Records)
    BY ParsedType
  <2> DEFINE old == Parsed(lines)
             new == Parsed(lines')
             r == Chained(HeadHash(old), wr[w].event)
  <2>4. new = old \/ (r \in Records /\ new = Append(old, r))
    BY <1>3, <2>2, <2>3, ParsedStep, HashType
  <2>5. anchor' = anchor /\ an' = an
    BY <1>3 DEF WriterNext, Acquire, Compute, WritePart, WriteRest, Release, Crash, anchorVars
  <2> HIDE DEF old, new, r
  <2>6. old \in Seq(Records)
    BY <2>3 DEF old
  <2>7. \A p \in Checkpoints : Pinned(p, old) => Pinned(p, new)
    BY <2>4, <2>6, PinnedAppend
  <2>8. Pins
    BY <1>1, <2>1
  <2>9. /\ anchor # None => Pinned(anchor, old)
        /\ \A a \in Anchorers : an[a].pc \in {"create", "replace"} => Pinned(an[a].payload, old)
    BY <2>8 DEF old
  <2>10. /\ anchor # None => Pinned(anchor, new)
         /\ \A a \in Anchorers : an[a].pc \in {"create", "replace"} => Pinned(an[a].payload, new)
    BY <2>7, <2>9
  <2> QED
    BY <2>2, <2>5, <2>10 DEF new
<1>4. ASSUME NEW a \in Anchorers, AnchorNext(a), Quiet' PROVE Undamaged' /\ Pins'
  <2>1. lines' = lines /\ open' = open /\ wr' = wr /\ Quiet
    BY <1>4 DEF AnchorNext, CreateRead, CreateCheck, AdvanceVerify, AdvanceRead, ReplaceAnchor,
                fileVars, writerVars
  <2>2. Undamaged /\ Pins
    BY <1>1, <2>1
  <2>3. Undamaged'
    BY <2>1, <2>2 DEF Undamaged, Damaged, Pending
  <2>4. Pinned(Payload(lines), Parsed(lines))
    BY PayloadPinned
  <2>5. \A x \in Anchorers : x # a => an'[x] = an[x]
    BY <1>4 DEF AnchorNext, CreateRead, CreateCheck, AdvanceVerify, AdvanceRead, ReplaceAnchor
  <2>6. CASE CreateRead(a) \/ AdvanceRead(a)
    <3>1. anchor' = anchor
      BY <2>6 DEF CreateRead, AdvanceRead
    <3>2. an'[a].pc \in {"create", "replace"} => an'[a].payload = Payload(lines)
      BY <2>6 DEF CreateRead, AdvanceRead, IdleAnchorer
    <3> QED
      BY <2>1, <2>2, <2>3, <2>4, <2>5, <3>1, <3>2
  <2>7. CASE CreateCheck(a) \/ AdvanceVerify(a)
    <3>1. anchor' = anchor
      BY <2>7 DEF CreateCheck, AdvanceVerify
    <3>2. an'[a].pc \in {"create", "replace"} =>
            an'[a].payload = an[a].payload /\ an[a].pc = "create"
      BY <2>7 DEF CreateCheck, AdvanceVerify, IdleAnchorer, AnchorerStates
    <3> QED
      BY <2>1, <2>2, <2>3, <2>5, <3>1, <3>2
  <2>8. CASE ReplaceAnchor(a)
    <3>1. anchor' = an[a].payload /\ an[a].pc = "replace" /\ an'[a].pc = "idle"
      BY <2>8 DEF ReplaceAnchor, IdleAnchorer
    <3> QED
      BY <2>1, <2>2, <2>3, <2>5, <3>1
  <2> QED
    BY <1>4, <2>6, <2>7, <2>8 DEF AnchorNext
<1>5. CASE UNCHANGED vars
  BY <1>1, <1>2, <1>5 DEF vars, fileVars, writerVars, anchorVars, Undamaged, Damaged, Pending
<1>6. CASE Tamper
  <2>1. tampers' # 0
    BY <1>6 DEF Tamper
  <2> QED
    BY <1>2, <2>1
<1> HIDE DEF Quiet, Pins
<1> QED
  BY <1>2, <1>3, <1>4, <1>5, <1>6 DEF Next

--------------------------------------------------------------------------------
(***************************************************************************)
(* The theorems.                                                           *)
(***************************************************************************)
LEMMA AuditInvInit == Init => AuditInv
<1> SUFFICES ASSUME Init PROVE AuditInv
  OBVIOUS
<1> USE DEF Init
<1>1. Len(<<>>) = 0 /\ ToSet(<<>>) = {} /\ Parsed(<<>>) = <<>>
  BY ParseEmpty DEF ToSet, Parsed
<1>2. AuditTypeOK
  <2>1. lines \in Seq(Lines) /\ acked \in Seq(Events)
    BY EmptySeq
  <2>2. writes \in 0 .. MaxWrites
    BY AuditBoundsAssumption DEF AuditBoundsAssumption
  <2>3. wr \in [Writers -> WriterStates] /\ \A w \in Writers : wr[w].pc = "idle"
    BY DEF WriterStates, IdleWriter
  <2>4. an \in [Anchorers -> AnchorerStates] /\ \A a \in Anchorers : an[a].pc = "idle"
    BY DEF AnchorerStates, IdleAnchorer
  <2> QED
    BY <2>1, <2>2, <2>3, <2>4 DEF AuditTypeOK
<1>3. HolderInv /\ WritingInv
  BY DEF HolderInv, WritingInv, Writing, IdleWriter
<1>4. ParsedIsChained
  BY <1>1 DEF ParsedIsChained, Linked
<1>5. LossInv
  BY <1>1 DEF LossInv, Done, IdleWriter
<1>6. QuietInv
  BY <1>1 DEF QuietInv, Damaged, IdleWriter, IdleAnchorer
<1> QED
  BY <1>2, <1>3, <1>4, <1>5, <1>6 DEF AuditInv

LEMMA AuditInvNext == AuditInv /\ [Next]_vars => AuditInv'
BY AuditTypesKept, HolderKept, WritingKept, ChainKept, LossKept, QuietKept DEF AuditInv

LEMMA AuditInvAlways == Spec => []AuditInv
BY AuditInvInit, AuditInvNext, PTL DEF Spec

\* Whatever dies half way, the records a tolerant reader finds form one chain: no
\* two writers continue the same record.
THEOREM RecordsFormOneChain == Spec => []ParsedIsChained
<1>1. AuditInv => ParsedIsChained
  BY DEF AuditInv
<1> QED
  BY <1>1, AuditInvAlways, PTL

\* An event that was acknowledged and cannot be read has left a line that fails
\* the check of the chain.
THEOREM LossShows == Spec => []LossIsVisible
<1>1. AuditInv => LossIsVisible
  <2> SUFFICES ASSUME AuditInv, tampers = 0, VerifyChain(lines), NEW e \in ToSet(acked)
               PROVE  e \in ToSet(EventsOf(Parsed(lines)))
    BY DEF LossIsVisible
  <2>1. lines \in Seq(Lines) /\ acked \in Seq(Events)
    BY DEF AuditInv, AuditTypeOK
  <2>2. \A i \in 1 .. Len(lines) : lines[i] # Torn
    BY DEF VerifyChain
  <2>3. Parsed(lines) = lines
    BY <2>1, <2>2, ParsedWhole
  <2>4. e \in Events
    BY <2>1, ElementOfSeq DEF ToSet
  <2>5. ~ Damaged
    BY <2>2 DEF Damaged
  <2>6. OnFile(e)
    BY <2>4, <2>5 DEF AuditInv, LossInv, Done
  <2>7. DOMAIN lines = 1 .. Len(lines)
    BY <2>1
  <2> QED
    BY <2>3, <2>6, <2>7 DEF OnFile, ToSet, EventsOf
<1> QED
  BY <1>1, AuditInvAlways, PTL

\* An anchor that verifies pins the events it was computed over, whatever was
\* altered, removed or appended since.
THEOREM AnchorPins == Spec => []AnchorPinsHistory
<1>1. AuditInv => AnchorPinsHistory
  <2> SUFFICES ASSUME AuditInv, anchor # None, VerifyAnchor(lines, anchor)
               PROVE  EventsOf(SubSeq(Parsed(lines), 1, anchor.count)) = anchor.head
    BY DEF AnchorPinsHistory
  <2>1. lines \in Seq(Lines) /\ anchor \in Checkpoints
    BY DEF AuditInv, AuditTypeOK
  <2>2. Parsed(lines) = lines /\ Linked(lines)
    BY <2>1, ParsedWhole DEF VerifyAnchor, VerifyChain
  <2>3. Parsed(lines) \in Seq(Records) /\ Linked(Parsed(lines))
    BY <2>1, <2>2, ParsedType
  <2>4. anchor.count \in Nat /\ Len(Parsed(lines)) \in Nat
    BY <2>1, <2>3 DEF Checkpoints
  <2>5. CASE anchor.count = 0
    <3>1. SubSeq(Parsed(lines), 1, 0) = <<>>
      BY SubSeqEmpty
    <3>2. EventsOf(<<>>) = <<>>
      BY DEF EventsOf
    <3> QED
      BY <2>5, <3>1, <3>2 DEF VerifyAnchor
  <2>6. CASE anchor.count # 0
    <3>1. anchor.count \in 1 .. Len(Parsed(lines))
      BY <2>4, <2>6 DEF VerifyAnchor
    <3> QED
      BY <2>3, <2>6, <3>1, HashPinsEvents DEF VerifyAnchor
  <2> QED
    BY <2>5, <2>6
<1> QED
  BY <1>1, AuditInvAlways, PTL

\* Without crashes and edits every anchor ever written verifies whenever nobody
\* is writing.
THEOREM NoFalseAlarm == Spec => []HonestLogVerifies
<1>1. AuditInv => HonestLogVerifies
  <2> SUFFICES ASSUME AuditInv, crashes = 0, tampers = 0, holder = None, anchor # None
               PROVE  VerifyAnchor(lines, anchor)
    BY DEF HonestLogVerifies
  <2>1. lines \in Seq(Lines) /\ anchor \in Checkpoints
    BY DEF AuditInv, AuditTypeOK
  <2>2. \A w \in Writers : wr[w].pc = "idle"
    BY AuditValuesAssumption DEF AuditInv, HolderInv, AuditValuesAssumption
  <2>3. \A i \in 1 .. Len(lines) : lines[i] # Torn
    BY <2>2 DEF AuditInv, QuietInv, Damaged, Pending
  <2>4. Parsed(lines) = lines
    BY <2>1, <2>3, ParsedWhole
  <2>5. VerifyChain(lines)
    BY <2>3, <2>4 DEF AuditInv, ParsedIsChained, VerifyChain
  <2>6. Pinned(anchor, Parsed(lines))
    BY DEF AuditInv, QuietInv
  <2>7. anchor.count \in Nat /\ Len(Parsed(lines)) \in Nat
    BY <2>1, <2>4 DEF Checkpoints
  <2> QED
    BY <2>5, <2>6, <2>7 DEF VerifyAnchor, Pinned
<1> QED
  BY <1>1, AuditInvAlways, PTL
================================================================================

------------------------------- MODULE AuditChain -------------------------------
(***************************************************************************)
(* The append-only JSONL file (jsonl.py) and the hash-chained audit log    *)
(* kept in one, with its signed anchor (audit.py).                         *)
(*                                                                         *)
(* Any number of processes append under flock; readers take no lock.  A    *)
(* line becomes visible in two steps, so that a reader, or a crash, can    *)
(* find it half written.  The next append continues the line it finds      *)
(* open.                                                                   *)
(*                                                                         *)
(* Abstractions: an event is its number, 0 standing for any text somebody  *)
(* edited in; SHA-256 is taken to be injective, so the hash over prev and  *)
(* an event is the sequence of the events hashed so far; the anchor is     *)
(* signed under one key, so the signature is left out.                     *)
(***************************************************************************)
EXTENDS Integers, SequencesExt, JsonLines

CONSTANTS
  Writers,      \* processes that record audit events
  Anchorers,    \* processes that create or advance the anchor
  MaxWrites,    \* bound on the events recorded
  MaxCrashes,   \* bound on writers that die
  MaxTampers,   \* bound on edits of the file by anything but an append
  None,         \* absent value
  Torn          \* a line that json.loads refuses

ASSUME AuditBoundsAssumption ==
  MaxWrites \in Nat /\ MaxCrashes \in Nat /\ MaxTampers \in Nat

VARIABLES
  lines,     \* the lines of the file
  open,      \* the last line has no newline yet
  holder,    \* holder of the flock
  wr,        \* local state of each writer
  acked,     \* events whose append returned to its caller, in order
  anchor,    \* the checkpoint file
  an,        \* local state of each anchoring process
  writes, crashes, tampers   \* counters

fileVars == <<lines, open>>
writerVars == <<holder, wr, acked, writes, crashes>>
anchorVars == <<anchor, an>>
vars == <<fileVars, writerVars, anchorVars, tampers>>

Events == 0 .. MaxWrites
Records == [event : Events, prev : Seq(Events), hash : Seq(Events)]
Checkpoints == [count : Nat, head : Seq(Events)]

ASSUME AuditValuesAssumption ==
  Torn \notin Records /\ None \notin Writers /\ None \notin Checkpoints

Hash(prev, event) == Append(prev, event)
Chained(prev, event) == [event |-> event, prev |-> prev, hash |-> Hash(prev, event)]

IdleWriter == [pc |-> "idle", event |-> None, record |-> None, glued |-> FALSE]
IdleAnchorer == [pc |-> "idle", payload |-> None]

--------------------------------------------------------------------------------
(***************************************************************************)
(* Reading.                                                                *)
(***************************************************************************)

Parsed(ls) == Parse(ls, Torn)

HeadHash(records) == IF records = <<>> THEN <<>> ELSE Last(records).hash

FaultyLinked(records) ==
  \A i \in 1 .. Len(records) :
    records[i].prev = IF i = 1 THEN <<>> ELSE records[i - 1].hash

\* Each record carries the hash of its predecessor and its own hash over both.
Linked(records) ==
  \A i \in 1 .. Len(records) :
    LET prev == IF i = 1 THEN <<>> ELSE records[i - 1].hash
    IN  records[i].prev = prev /\ records[i].hash = Hash(prev, records[i].event)

FaultyVerifyChain(ls) == Linked(Parsed(ls))

\* verify_chain, and _read_chain returning records at all.
VerifyChain(ls) == (\A i \in 1 .. Len(ls) : ls[i] # Torn) /\ Linked(ls)

FaultyVerifyAnchor(ls, a) ==
  /\ VerifyChain(ls)
  /\ Len(ls) > a.count
  /\ a.count > 0 => ls[a.count].hash = a.head

\* The anchored record is still where it was, in a chain that verifies.
VerifyAnchor(ls, a) ==
  /\ VerifyChain(ls)
  /\ Len(Parsed(ls)) >= a.count
  /\ IF a.count = 0 THEN a.head = <<>> ELSE Parsed(ls)[a.count].hash = a.head

--------------------------------------------------------------------------------
(***************************************************************************)
(* Appending (append_computed with AuditSink.record's compute).            *)
(***************************************************************************)
FaultyAcquire(w) ==
  /\ wr[w].pc = "idle"
  /\ writes < MaxWrites
  /\ writes' = writes + 1
  /\ holder' = w
  /\ wr' = [wr EXCEPT ![w] = [IdleWriter EXCEPT !.pc = "compute", !.event = writes + 1]]
  /\ UNCHANGED <<fileVars, acked, crashes, anchorVars, tampers>>

Acquire(w) ==
  /\ wr[w].pc = "idle"
  /\ writes < MaxWrites
  /\ holder = None
  /\ writes' = writes + 1
  /\ holder' = w
  /\ wr' = [wr EXCEPT ![w] = [IdleWriter EXCEPT !.pc = "compute", !.event = writes + 1]]
  /\ UNCHANGED <<fileVars, acked, crashes, anchorVars, tampers>>

Compute(w) ==
  /\ wr[w].pc = "compute"
  /\ wr' = [wr EXCEPT ![w].pc = "write",
                      ![w].record = Chained(HeadHash(Parsed(lines)), wr[w].event)]
  /\ UNCHANGED <<fileVars, holder, acked, writes, crashes, anchorVars, tampers>>

\* Some of the line is in the file: a fragment, or all but the newline.
WritePart(w) ==
  /\ wr[w].pc = "write"
  /\ \E piece \in {Torn, wr[w].record} :
       lines' = IF open THEN [lines EXCEPT ![Len(lines)] = Torn] ELSE Append(lines, piece)
  /\ open' = TRUE
  /\ wr' = [wr EXCEPT ![w].pc = "rest", ![w].glued = open]
  /\ UNCHANGED <<holder, acked, writes, crashes, anchorVars, tampers>>

\* The rest of the line, flushed and synced before the lock is released.
WriteRest(w) ==
  /\ wr[w].pc = "rest"
  /\ lines' = IF wr[w].glued THEN lines ELSE [lines EXCEPT ![Len(lines)] = wr[w].record]
  /\ open' = FALSE
  /\ wr' = [wr EXCEPT ![w].pc = "release"]
  /\ UNCHANGED <<holder, acked, writes, crashes, anchorVars, tampers>>

Release(w) ==
  /\ wr[w].pc = "release"
  /\ holder' = None
  /\ acked' = Append(acked, wr[w].event)
  /\ wr' = [wr EXCEPT ![w] = IdleWriter]
  /\ UNCHANGED <<fileVars, writes, crashes, anchorVars, tampers>>

\* The process dies, or its write fails for want of space; the lock is dropped.
Crash(w) ==
  /\ wr[w].pc # "idle"
  /\ crashes < MaxCrashes
  /\ crashes' = crashes + 1
  /\ holder' = IF holder = w THEN None ELSE holder
  /\ wr' = [wr EXCEPT ![w] = IdleWriter]
  /\ UNCHANGED <<fileVars, acked, writes, anchorVars, tampers>>

--------------------------------------------------------------------------------
(***************************************************************************)
(* The anchor.                                                             *)
(***************************************************************************)
Payload(ls) == [count |-> Len(Parsed(ls)), head |-> HeadHash(Parsed(ls))]

\* create_anchor reads the chain before it looks for an existing checkpoint.
CreateRead(a) ==
  /\ an[a].pc = "idle"
  /\ VerifyChain(lines)
  /\ an' = [an EXCEPT ![a] = [pc |-> "create", payload |-> Payload(lines)]]
  /\ UNCHANGED <<fileVars, writerVars, anchor, tampers>>

CreateCheck(a) ==
  /\ an[a].pc = "create"
  /\ an' = [an EXCEPT ![a] = IF anchor = None THEN [@ EXCEPT !.pc = "replace"]
                             ELSE IdleAnchorer]
  /\ UNCHANGED <<fileVars, writerVars, anchor, tampers>>

\* advance_anchor: first that the current checkpoint verifies ...
AdvanceVerify(a) ==
  /\ an[a].pc = "idle"
  /\ anchor # None
  /\ VerifyAnchor(lines, anchor)
  /\ an' = [an EXCEPT ![a].pc = "advance"]
  /\ UNCHANGED <<fileVars, writerVars, anchor, tampers>>

\* ... then the chain is read again; it may have changed.
AdvanceRead(a) ==
  /\ an[a].pc = "advance"
  /\ an' = [an EXCEPT ![a] = IF VerifyChain(lines)
                             THEN [pc |-> "replace", payload |-> Payload(lines)]
                             ELSE IdleAnchorer]
  /\ UNCHANGED <<fileVars, writerVars, anchor, tampers>>

ReplaceAnchor(a) ==
  /\ an[a].pc = "replace"
  /\ anchor' = an[a].payload
  /\ an' = [an EXCEPT ![a] = IdleAnchorer]
  /\ UNCHANGED <<fileVars, writerVars, tampers>>

--------------------------------------------------------------------------------
(***************************************************************************)
(* Something other than an append changes the file, between appends: a     *)
(* record is altered, or removed (the newest included).                    *)
(***************************************************************************)
AlterLine(i) ==
  /\ lines[i] # Torn
  /\ lines' = [lines EXCEPT ![i].event = 0]
  /\ UNCHANGED open

RemoveLine(i) ==
  /\ lines' = RemoveAt(lines, i)
  /\ open' = (open /\ i # Len(lines))

Tamper ==
  /\ tampers < MaxTampers
  /\ holder = None
  /\ tampers' = tampers + 1
  /\ \E i \in 1 .. Len(lines) : AlterLine(i) \/ RemoveLine(i)
  /\ UNCHANGED <<writerVars, anchorVars>>

--------------------------------------------------------------------------------
Init ==
  /\ lines = <<>> /\ open = FALSE
  /\ holder = None
  /\ wr = [w \in Writers |-> IdleWriter]
  /\ acked = <<>>
  /\ anchor = None
  /\ an = [a \in Anchorers |-> IdleAnchorer]
  /\ writes = 0 /\ crashes = 0 /\ tampers = 0

WriterNext(w) ==
  Acquire(w) \/ Compute(w) \/ WritePart(w) \/ WriteRest(w) \/ Release(w) \/ Crash(w)

AnchorNext(a) ==
  \/ CreateRead(a) \/ CreateCheck(a)
  \/ AdvanceVerify(a) \/ AdvanceRead(a)
  \/ ReplaceAnchor(a)

Next ==
  \/ \E w \in Writers : WriterNext(w)
  \/ \E a \in Anchorers : AnchorNext(a)
  \/ Tamper

Spec == Init /\ [][Next]_vars

--------------------------------------------------------------------------------
(***************************************************************************)
(* Properties.                                                             *)
(***************************************************************************)
EventsOf(records) == [i \in DOMAIN records |-> records[i].event]

\* Whatever is half written or was torn by a crash, the records a tolerant reader
\* finds form one chain: no two writers ever chain off the same predecessor
\* (append_computed reads and appends under one lock; AuditSink.record).
ParsedIsChained == tampers = 0 => Linked(Parsed(lines))

\* A log that verifies holds every event whose recording was acknowledged: an
\* event swallowed by a line torn before it leaves a line that fails the check
\* (verify_chain does not skip what it cannot parse).
LossIsVisible ==
  tampers = 0 /\ VerifyChain(lines) => ToSet(acked) \subseteq ToSet(EventsOf(Parsed(lines)))

\* While the anchor verifies, the first count events are those it was computed
\* over, whatever was altered, removed and appended since (verify_anchor).
AnchorPinsHistory ==
  anchor # None /\ VerifyAnchor(lines, anchor) =>
    EventsOf(SubSeq(Parsed(lines), 1, anchor.count)) = anchor.head

\* No false alarm: without crashes and edits every anchor ever written verifies
\* whenever no append is under way, and so however late its writer was
\* (create_anchor, advance_anchor).
HonestLogVerifies ==
  crashes = 0 /\ tampers = 0 /\ holder = None /\ anchor # None =>
    VerifyAnchor(lines, anchor)

--------------------------------------------------------------------------------
(***************************************************************************)
(* What the documentation says and the code does not keep.                 *)
(***************************************************************************)

\* jsonl.py: reads tolerate "a write torn by a crash"; an append that returned is
\* there for every later reader.
AcknowledgedIsRead ==
  tampers = 0 => ToSet(acked) \subseteq ToSet(EventsOf(Parsed(lines)))
================================================================================

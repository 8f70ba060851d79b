-------------------------------- MODULE IdLedger -------------------------------
(***************************************************************************)
(* The id ledger: IdAllocator.mint (ids.py) over append_computed           *)
(* (jsonl.py), called by several processes on one ledger file.             *)
(*                                                                         *)
(* A call holds the file lock from its reading of the ledger to the end of *)
(* its append, and may die in between.  A line that json.loads refuses is  *)
(* Broken: one that a dying call left without its end, or one that the     *)
(* next append made by continuing it.  A generated ULID is any id that is  *)
(* not in the ledger, which the code makes sure of; lookup and records     *)
(* only read.                                                              *)
(***************************************************************************)
EXTENDS Integers, Sequences

CONSTANTS
  Minters,     \* processes that mint
  Types,       \* card types
  NaturalKeys, \* natural keys other than the empty one
  NoKey,       \* the empty natural key
  Ids,         \* ids, generated or chosen
  NoId,        \* no id chosen
  Broken,      \* a line that does not parse
  MaxMints,    \* bound on calls
  MaxDeaths    \* bound on calls that die

Entry == [id : Ids, type : Types, key : NaturalKeys \cup {NoKey}]

ASSUME IdLedgerAssumption ==
  /\ NoKey \notin NaturalKeys /\ NoId \notin Ids /\ Broken \notin Entry
  /\ MaxMints \in Nat /\ MaxDeaths \in Nat

VARIABLES
  ledger,    \* the lines of the file
  unended,   \* the last line has no newline
  minting,   \* the processes inside append_computed, about to append
  asked,     \* what each process's call asks for, or nothing
  entry,     \* the record a call is about to append
  minted,    \* what the calls returned, and how they came by it
  mints, deaths   \* counters

idVars == <<ledger, unended, minting, asked, entry, minted, mints, deaths>>

Request == [type : Types, key : NaturalKeys \cup {NoKey}, chosen : Ids \cup {NoId}]
Origins == {"found", "new", "chosen"}
Answers == [id : Ids, type : Types, key : NaturalKeys \cup {NoKey}, how : Origins]

IdTypeOK ==
  /\ ledger \in Seq(Entry \cup {Broken}) /\ unended \in BOOLEAN
  /\ minting \in SUBSET Minters
  /\ asked \in [Minters -> SUBSET Request]
  /\ entry \in [Minters -> SUBSET Entry]
  /\ minted \in SUBSET Answers
  /\ mints \in 0 .. MaxMints /\ deaths \in 0 .. MaxDeaths

IdInit ==
  /\ ledger = <<>> /\ unended = FALSE
  /\ minting = {}
  /\ asked = [m \in Minters |-> {}] /\ entry = [m \in Minters |-> {}]
  /\ minted = {}
  /\ mints = 0 /\ deaths = 0

--------------------------------------------------------------------------------
IsFor(i, type, k) == ledger[i] # Broken /\ ledger[i].type = type /\ ledger[i].key = k

\* _find: the id of the first record with this type and natural key, if any.
Find(type, k) ==
  {ledger[i].id : i \in {i \in DOMAIN ledger :
     k # NoKey /\ IsFor(i, type, k) /\ \A j \in 1 .. i - 1 : ~IsFor(j, type, k)}}

Known == {ledger[i].id : i \in {i \in DOMAIN ledger : ledger[i] # Broken}}

Answer(m, id, r, how) ==
  /\ minted' = minted \cup {[id |-> id, type |-> r.type, key |-> r.key, how |-> how]}
  /\ asked' = [asked EXCEPT ![m] = {}]

Ask(m) ==
  /\ asked[m] = {} /\ mints < MaxMints
  /\ \E r \in Request : asked' = [asked EXCEPT ![m] = {r}]
  /\ mints' = mints + 1
  /\ UNCHANGED <<ledger, unended, minting, entry, minted, deaths>>

\* compute() with the lock just taken, when it finds an id and appends nothing.
Reuse(m) ==
  /\ minting = {}
  /\ \E r \in asked[m] :
       \/ \E id \in Find(r.type, r.key) : Answer(m, id, r, "found")
       \/ /\ Find(r.type, r.key) = {} /\ r.chosen \in Known
          /\ Answer(m, r.chosen, r, "chosen")
  /\ UNCHANGED <<ledger, unended, minting, entry, mints, deaths>>

FaultyComputeEntry(m) ==
  /\ m \notin minting
  /\ \E r \in asked[m] :
       /\ Find(r.type, r.key) = {} /\ r.chosen \notin Known
       /\ \E id \in IF r.chosen = NoId THEN Ids \ Known ELSE {r.chosen} :
            entry' = [entry EXCEPT ![m] = {[id |-> id, type |-> r.type, key |-> r.key]}]
  /\ minting' = minting \cup {m}
  /\ UNCHANGED <<ledger, unended, asked, minted, mints, deaths>>

\* compute() with the lock just taken, when it makes a record; the lock is kept.
ComputeEntry(m) ==
  /\ minting = {}
  /\ \E r \in asked[m] :
       /\ Find(r.type, r.key) = {} /\ r.chosen \notin Known
       /\ \E id \in IF r.chosen = NoId THEN Ids \ Known ELSE {r.chosen} :
            entry' = [entry EXCEPT ![m] = {[id |-> id, type |-> r.type, key |-> r.key]}]
  /\ minting' = {m}
  /\ UNCHANGED <<ledger, unended, asked, minted, mints, deaths>>

\* The file after a line is written whole, or in part.
Extended(line) ==
  IF unended THEN [ledger EXCEPT ![Len(ledger)] = Broken] ELSE Append(ledger, line)

AppendEntry(m) ==
  /\ m \in minting
  /\ \E r \in asked[m], e \in entry[m] :
       /\ ledger' = Extended(e)
       /\ Answer(m, e.id, r, "new")
  /\ unended' = FALSE
  /\ minting' = minting \ {m}
  /\ entry' = [entry EXCEPT ![m] = {}]
  /\ UNCHANGED <<mints, deaths>>

\* The process dies in its call: before it writes, in its line, or after it and
\* before the id is returned; the kernel frees the lock.
MintDies(m) ==
  /\ asked[m] # {} /\ deaths < MaxDeaths
  /\ \/ UNCHANGED <<ledger, unended>>
     \/ m \in minting /\ ledger' = Extended(Broken) /\ unended' = TRUE
     \/ m \in minting /\ (\E e \in entry[m] : ledger' = Extended(e)) /\ unended' = FALSE
  /\ minting' = minting \ {m}
  /\ asked' = [asked EXCEPT ![m] = {}] /\ entry' = [entry EXCEPT ![m] = {}]
  /\ deaths' = deaths + 1
  /\ UNCHANGED <<minted, mints>>

IdNext ==
  \E m \in Minters : Ask(m) \/ Reuse(m) \/ ComputeEntry(m) \/ AppendEntry(m) \/ MintDies(m)

IdSpec == IdInit /\ [][IdNext]_idVars

--------------------------------------------------------------------------------
Undamaged == \A i \in DOMAIN ledger : ledger[i] # Broken

\* The ledger is the authority on identity (ids.py:79-82): whatever calls ran at
\* once or died, an entity - a type with a natural key - that is minted again
\* gets the id it had, and no two entities get the same, as long as no line of the
\* ledger is broken: what a broken line held is minted anew.  Ids somebody chose
\* although they were recorded are not the ledger's.
OneIdPerKey ==
  Undamaged =>
    \A a, b \in {c \in minted : c.how # "chosen" /\ c.key # NoKey} :
      a.id = b.id <=> (a.type = b.type /\ a.key = b.key)
================================================================================

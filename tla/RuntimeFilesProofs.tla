--------------------------- MODULE RuntimeFilesProofs --------------------------
(***************************************************************************)
(* Theorems of KeyFile and IdLedger, for any number of processes, deaths   *)
(* and calls.                                                              *)
(***************************************************************************)
EXTENDS KeyFile, IdLedger, FiniteSetTheorems, WellFoundedInduction, TLAPS

--------------------------------------------------------------------------------
(***************************************************************************)
(* The approval key.  The file with the name is the first one or that of a *)
(* repair, and a process that has just written a key finds one under the   *)
(* name: a short file never comes back.                                    *)
(***************************************************************************)
Named(first) == keyFile \in repairs \cup {first}

FromFirst(first) ==
  /\ keyFile # Absent => Named(first)
  /\ \A p \in Resolved : key[p] \in repairs \cup {first}

FilesInv ==
  /\ \A f \in Files : holds[f] \in {f, Short, Absent}
  /\ keyFile # Absent => holds[keyFile] # Absent
  /\ \A p \in repairs : holds[p] = p

StepInv ==
  /\ keyFile = Absent =>
       repairs = {} /\ \A p \in Processes \ Injected : step[p] \in {"look", "create", "dead"}
  /\ \A p \in Processes :
       /\ step[p] = "fill" => keyFile \in repairs \cup {p}
       /\ step[p] = "replace" => holds[p] = p
       /\ step[p] = "reread" => holds[keyFile] = keyFile
       /\ p \in Injected => step[p] = "done"

KeyInv == KeyTypeOK /\ FilesInv /\ StepInv /\ \E first \in Files : FromFirst(first)

LEMMA KeyInvInit == KeyInit => KeyInv
<1> SUFFICES ASSUME KeyInit PROVE KeyInv
  OBVIOUS
<1> USE KeyFileAssumption DEF KeyFileAssumption, KeyInit, Files
<1>1. PICK beginning \in Beginnings :
        /\ keyFile = IF beginning = Absent THEN Absent ELSE Given
        /\ holds = [f \in Files |-> IF f = Given THEN beginning ELSE Absent]
        /\ step = [p \in Processes |-> IF p \in Injected THEN "done" ELSE "look"]
        /\ key = [p \in Processes |-> IF p \in Injected THEN EnvKey ELSE Absent]
        /\ repairs = {}
  OBVIOUS
<1>2. KeyTypeOK
  BY <1>1 DEF KeyTypeOK
<1>3. FilesInv
  BY <1>1 DEF FilesInv
<1>4. StepInv
  BY <1>1 DEF StepInv
<1>5. FromFirst(Given)
  BY <1>1 DEF FromFirst, Named, Resolved
<1> QED
  BY <1>2, <1>3, <1>4, <1>5 DEF KeyInv

\* What a process does with the key file keeps the invariant.
LEMMA KeyInvNext == KeyInv /\ [KeyNext]_keyVars => KeyInv'
<1> SUFFICES ASSUME KeyInv, [KeyNext]_keyVars PROVE KeyInv'
  OBVIOUS
<1> USE KeyFileAssumption DEF KeyFileAssumption, Files
<1>t. KeyTypeOK /\ FilesInv /\ StepInv
  BY DEF KeyInv
<1>f. PICK first \in Files : FromFirst(first)
  BY DEF KeyInv
<1> SUFFICES KeyTypeOK' /\ FilesInv' /\ StepInv' /\ \E f \in Files : FromFirst(f)'
  BY DEF KeyInv
<1>1. CASE UNCHANGED keyVars
  BY <1>1, <1>t, <1>f DEF keyVars, KeyTypeOK, FilesInv, StepInv, FromFirst, Named, Resolved
<1>2. ASSUME NEW p \in Processes, Look(p)
      PROVE  KeyTypeOK' /\ FilesInv' /\ StepInv' /\ FromFirst(first)'
  BY <1>2, <1>t, <1>f
     DEF Look, GoOn, KeyTypeOK, FilesInv, StepInv, FromFirst, Named, Resolved
<1>3. ASSUME NEW p \in Processes, ReadKey(p)
      PROVE  KeyTypeOK' /\ FilesInv' /\ StepInv' /\ FromFirst(first)'
  <2>1. keyFile # Absent /\ p \notin Injected
    BY <1>3, <1>t DEF ReadKey, GoOn, KeyTypeOK, StepInv
  <2>2. keyFile \in Files /\ (holds[keyFile] = Short \/ holds[keyFile] = keyFile)
    BY <2>1, <1>t DEF KeyTypeOK, FilesInv
  <2>3. KeyTypeOK'
    BY <1>3, <1>t, <2>2 DEF ReadKey, GoOn, Resolve, KeyTypeOK
  <2>4. FilesInv' /\ StepInv'
    BY <1>3, <1>t, <2>1 DEF ReadKey, GoOn, KeyTypeOK, FilesInv, StepInv
  <2>5. FromFirst(first)'
    BY <1>3, <1>t, <1>f, <2>1, <2>2
       DEF ReadKey, GoOn, Resolve, KeyTypeOK, FromFirst, Named, Resolved
  <2> QED
    BY <2>3, <2>4, <2>5
<1>4. ASSUME NEW p \in Processes, Create(p)
      PROVE  KeyTypeOK' /\ FilesInv' /\ StepInv' /\ \E f \in Files : FromFirst(f)'
  <2>1. CASE keyFile = Absent
    <3>1. Resolved = {} /\ repairs = {}
      BY <2>1, <1>t DEF StepInv, Resolved
    <3>2. KeyTypeOK' /\ FilesInv' /\ StepInv'
      BY <1>4, <1>t, <2>1 DEF Create, GoOn, KeyTypeOK, FilesInv, StepInv
    <3>3. FromFirst(p)'
      BY <1>4, <1>t, <2>1, <3>1
         DEF Create, GoOn, KeyTypeOK, FromFirst, Named, Resolved
    <3> QED
      BY <3>2, <3>3
  <2>2. CASE keyFile # Absent
    <3>1. KeyTypeOK' /\ FilesInv' /\ StepInv'
      BY <1>4, <1>t, <2>2 DEF Create, GoOn, KeyTypeOK, FilesInv, StepInv
    <3>2. FromFirst(first)'
      BY <1>4, <1>t, <1>f, <2>2 DEF Create, GoOn, KeyTypeOK, FromFirst, Named, Resolved
    <3> QED
      BY <3>1, <3>2
  <2> QED
    BY <2>1, <2>2
<1>5. ASSUME NEW p \in Processes, Fill(p)
      PROVE  KeyTypeOK' /\ FilesInv' /\ StepInv' /\ FromFirst(first)'
  BY <1>5, <1>t, <1>f
     DEF Fill, GoOn, KeyTypeOK, FilesInv, StepInv, FromFirst, Named, Resolved
<1>6. ASSUME NEW p \in Processes, Draw(p)
      PROVE  KeyTypeOK' /\ FilesInv' /\ StepInv' /\ FromFirst(first)'
  BY <1>6, <1>t, <1>f
     DEF Draw, GoOn, KeyTypeOK, FilesInv, StepInv, FromFirst, Named, Resolved
<1>7. ASSUME NEW p \in Processes, Replace(p)
      PROVE  KeyTypeOK' /\ FilesInv' /\ StepInv' /\ FromFirst(first)'
  BY <1>7, <1>t, <1>f
     DEF Replace, GoOn, KeyTypeOK, FilesInv, StepInv, FromFirst, Named, Resolved
<1>8. ASSUME NEW p \in Processes, Reread(p)
      PROVE  KeyTypeOK' /\ FilesInv' /\ StepInv' /\ FromFirst(first)'
  <2>1. keyFile \in Files /\ holds[keyFile] = keyFile
    BY <1>8, <1>t DEF Reread, GoOn, KeyTypeOK, StepInv
  <2> QED
    BY <1>8, <1>t, <1>f, <2>1
       DEF Reread, GoOn, Resolve, KeyTypeOK, FilesInv, StepInv, FromFirst, Named, Resolved
<1>9. ASSUME NEW p \in Processes, Die(p)
      PROVE  KeyTypeOK' /\ FilesInv' /\ StepInv' /\ FromFirst(first)'
  BY <1>9, <1>t, <1>f
     DEF Die, KeyTypeOK, FilesInv, StepInv, FromFirst, Named, Resolved
<1> QED
  BY <1>1, <1>2, <1>3, <1>4, <1>5, <1>6, <1>7, <1>8, <1>9 DEF KeyNext

\* Whoever races for the first use of the approval key, and whoever dies on the
\* way, a second key is always that of a process that took the file for damaged
\* and replaced it (signing.resolve_key).
THEOREM SecondKeysAreRepairs == KeySpec => []KeysComeFromRepairs
<1>1. KeyInv => KeysComeFromRepairs
  BY DEF KeyInv, FromFirst, KeysComeFromRepairs
<1> QED
  BY <1>1, KeyInvInit, KeyInvNext, PTL DEF KeySpec

--------------------------------------------------------------------------------
(***************************************************************************)
(* The id ledger.  No two records share an id or an entity; the call that  *)
(* is about to append was alone since it looked, so its record is still    *)
(* new; and every id the ledger answers for is on it, unless it is damaged.*)
(***************************************************************************)
\* A set of positions has a least one.
LEMMA LeastIndex ==
  ASSUME NEW n \in Nat, NEW T \in SUBSET (1 .. n), T # {}
  PROVE  \E x \in T : \A y \in T : ~(y < x)
<1> DEFINE below == {1 .. x : x \in T}
           R == StrictSubsetOrdering(1 .. n)
           F == FiniteSubsetsOf(1 .. n)
<1>1. IsWellFoundedOn(R, F)
  BY FS_Interval, FS_StrictSubsetOrderingWellFounded
<1>2. below \subseteq F /\ below # {}
  <2>1. \A x \in T : 1 .. x \subseteq 1 .. n
    OBVIOUS
  <2>2. \A x \in T : IsFiniteSet(1 .. x)
    BY FS_Interval
  <2> QED
    BY <2>1, <2>2 DEF FiniteSubsetsOf
<1>3. \E b \in below : \A c \in below : ~(<<c, b>> \in R)
  <2> HIDE DEF below, R, F
  <2> QED
    BY <1>1, <1>2, WFMin, Zenon
<1>4. PICK x \in T : \A y \in T : ~(<<1 .. y, 1 .. x>> \in R)
  <2> HIDE DEF R
  <2> QED
    BY <1>3
<1>5. ASSUME NEW y \in T, y < x
      PROVE  <<1 .. y, 1 .. x>> \in R
  <2>1. 1 .. y \subseteq 1 .. x /\ 1 .. x \subseteq 1 .. n /\ x \in 1 .. x /\ x \notin 1 .. y
    BY <1>5
  <2> QED
    BY <2>1 DEF StrictSubsetOrdering
<1> QED
  BY <1>4, <1>5

Whole(i) == i \in DOMAIN ledger /\ ledger[i] # Broken

SameEntity(a, b) == a.key # NoKey /\ a.type = b.type /\ a.key = b.key

Fresh(e) ==
  \A i \in DOMAIN ledger :
    ledger[i] # Broken => ledger[i].id # e.id /\ ~SameEntity(e, ledger[i])

LedgerInv ==
  /\ \A i, j \in DOMAIN ledger :
       /\ ledger[i] # Broken /\ ledger[j] # Broken
       /\ ledger[i].id = ledger[j].id \/ SameEntity(ledger[i], ledger[j])
       => i = j
  /\ unended => ledger # <<>> /\ ledger[Len(ledger)] = Broken

CallsInv ==
  /\ \A m, n \in minting : m = n
  /\ \A m \in minting : asked[m] # {}
  /\ \A m \in Minters : \A r, s \in asked[m] : r = s
  /\ \A m \in minting : \A r \in asked[m], e \in entry[m] :
       e.type = r.type /\ e.key = r.key /\ Fresh(e)

OnLedger(c) ==
  \E i \in DOMAIN ledger :
    ledger[i] # Broken /\ ledger[i].id = c.id /\ ledger[i].type = c.type /\ ledger[i].key = c.key

MintedInv ==
  Undamaged => \A c \in minted : c.how # "chosen" /\ c.key # NoKey => OnLedger(c)

IdInv == IdTypeOK /\ LedgerInv /\ CallsInv /\ MintedInv

LEMMA IdInvInit == IdInit => IdInv
<1> SUFFICES ASSUME IdInit PROVE IdInv
  OBVIOUS
<1> USE DEF IdInit
<1>1. ledger \in Seq(Entry \cup {Broken}) /\ DOMAIN ledger = {}
  OBVIOUS
<1>2. IdTypeOK
  <2>1. mints \in 0 .. MaxMints /\ deaths \in 0 .. MaxDeaths
    BY IdLedgerAssumption DEF IdLedgerAssumption
  <2>2. unended \in BOOLEAN /\ minting \in SUBSET Minters /\ minted \in SUBSET Answers
    OBVIOUS
  <2>3. asked \in [Minters -> SUBSET Request] /\ entry \in [Minters -> SUBSET Entry]
    OBVIOUS
  <2> QED
    BY <1>1, <2>1, <2>2, <2>3 DEF IdTypeOK
<1>3. LedgerInv /\ CallsInv /\ MintedInv
  BY <1>1 DEF LedgerInv, CallsInv, MintedInv
<1> QED
  BY <1>2, <1>3 DEF IdInv

\* What _find returns is on the ledger, and when it returns nothing there is no
\* record of that entity (ids.py:58-66).
LEMMA FindFinds ==
  ASSUME IdTypeOK, NEW type, NEW k
  PROVE  /\ \A id \in Find(type, k) :
              /\ k # NoKey
              /\ \E i \in DOMAIN ledger : IsFor(i, type, k) /\ ledger[i].id = id
         /\ Find(type, k) = {} /\ k # NoKey => \A i \in DOMAIN ledger : ~IsFor(i, type, k)
<1>1. \A id \in Find(type, k) :
        k # NoKey /\ \E i \in DOMAIN ledger : IsFor(i, type, k) /\ ledger[i].id = id
  BY DEF Find
<1>2. ASSUME k # NoKey, NEW i \in DOMAIN ledger, IsFor(i, type, k)
      PROVE  Find(type, k) # {}
  <2> DEFINE T == {j \in DOMAIN ledger : IsFor(j, type, k)}
  <2>1. Len(ledger) \in Nat /\ DOMAIN ledger = 1 .. Len(ledger)
    BY DEF IdTypeOK
  <2>2. T \in SUBSET (1 .. Len(ledger)) /\ T # {}
    BY <1>2, <2>1
  <2>3. PICK x \in T : \A y \in T : ~(y < x)
    <3> HIDE DEF T
    <3> QED
      BY <2>1, <2>2, LeastIndex
  <2>4. \A j \in 1 .. x - 1 : ~IsFor(j, type, k)
    BY <2>1, <2>3
  <2>5. ledger[x].id \in Find(type, k)
    BY <1>2, <2>3, <2>4 DEF Find
  <2> QED
    BY <2>5
<1> QED
  BY <1>1, <1>2

\* A line written to the file: the records before it stay, unless it is glued to
\* a torn one, which damages the ledger for good.
LEMMA ExtendedLedger ==
  ASSUME IdTypeOK, LedgerInv, NEW line \in Entry \cup {Broken}, ledger' = Extended(line)
  PROVE  /\ ledger' \in Seq(Entry \cup {Broken})
         /\ ledger' # <<>>
         /\ Undamaged' => Undamaged /\ ledger' = Append(ledger, line) /\ line # Broken
         /\ \A i \in DOMAIN ledger' :
              ledger'[i] # Broken =>
                \/ i \in DOMAIN ledger /\ ledger[i] = ledger'[i]
                \/ i = Len(ledger) + 1 /\ ledger'[i] = line
         /\ line = Broken => ledger'[Len(ledger')] = Broken
<1> USE DEF IdTypeOK
<1>1. CASE unended
  <2>1. ledger # <<>> /\ ledger' = [ledger EXCEPT ![Len(ledger)] = Broken] /\ Len(ledger) \in DOMAIN ledger
    BY <1>1 DEF Extended, LedgerInv
  <2>2. DOMAIN ledger' = DOMAIN ledger /\ Len(ledger') = Len(ledger)
        /\ ledger' \in Seq(Entry \cup {Broken})
    BY <2>1
  <2>3. \A i \in DOMAIN ledger : ledger'[i] = IF i = Len(ledger) THEN Broken ELSE ledger[i]
    BY <2>1
  <2>4. ledger'[Len(ledger')] = Broken /\ ~Undamaged'
    BY <2>1, <2>2, <2>3 DEF Undamaged
  <2>5. ledger' # <<>>
    BY <2>1, <2>2
  <2>6. \A i \in DOMAIN ledger' :
          ledger'[i] # Broken => i \in DOMAIN ledger /\ ledger[i] = ledger'[i]
    BY <2>2, <2>3
  <2> QED
    BY <2>2, <2>4, <2>5, <2>6
<1>2. CASE ~unended
  <2>1. ledger' = Append(ledger, line)
    BY <1>2 DEF Extended
  <2>2. /\ ledger' \in Seq(Entry \cup {Broken}) /\ Len(ledger') = Len(ledger) + 1
        /\ DOMAIN ledger' = 1 .. Len(ledger) + 1
        /\ \A i \in 1 .. Len(ledger) : ledger'[i] = ledger[i]
        /\ ledger'[Len(ledger) + 1] = line
    BY <2>1
  <2> QED
    BY <2>1, <2>2 DEF Undamaged
<1> QED
  BY <1>1, <1>2

\* The steps of a call keep the invariant.
LEMMA IdInvNext == IdInv /\ [IdNext]_idVars => IdInv'
<1> SUFFICES ASSUME IdInv, [IdNext]_idVars PROVE IdInv'
  OBVIOUS
<1>t. IdTypeOK /\ LedgerInv /\ CallsInv /\ MintedInv
  BY DEF IdInv
<1> SUFFICES IdTypeOK' /\ LedgerInv' /\ CallsInv' /\ MintedInv'
  BY DEF IdInv
<1> USE IdLedgerAssumption DEF IdLedgerAssumption
<1>1. CASE UNCHANGED idVars
  BY <1>1, <1>t
     DEF idVars, IdTypeOK, LedgerInv, CallsInv, MintedInv, Undamaged, Fresh, OnLedger
<1>2. ASSUME NEW m \in Minters, Ask(m)
      PROVE  IdTypeOK' /\ LedgerInv' /\ CallsInv' /\ MintedInv'
  <2>1. IdTypeOK'
    BY <1>2, <1>t DEF Ask, IdTypeOK
  <2>2. LedgerInv' /\ MintedInv'
    BY <1>2, <1>t DEF Ask, LedgerInv, MintedInv, Undamaged, OnLedger
  <2>3. CallsInv'
    <3>1. m \notin minting
      BY <1>2, <1>t DEF Ask, CallsInv
    <3> QED
      BY <3>1, <1>2, <1>t DEF Ask, IdTypeOK, CallsInv, Fresh
  <2> QED
    BY <2>1, <2>2, <2>3
<1>3. ASSUME NEW m \in Minters, Reuse(m)
      PROVE  IdTypeOK' /\ LedgerInv' /\ CallsInv' /\ MintedInv'
  <2>1. UNCHANGED <<ledger, unended, minting, entry, mints, deaths>> /\ minting = {}
    BY <1>3 DEF Reuse
  <2>r. PICK r \in asked[m] :
          \/ \E id \in Find(r.type, r.key) : Answer(m, id, r, "found")
          \/ r.chosen \in Known /\ Answer(m, r.chosen, r, "chosen")
    BY <1>3 DEF Reuse
  <2>2. PICK id, how :
          /\ \/ id \in Find(r.type, r.key) /\ how = "found"
             \/ id \in Known /\ how = "chosen"
          /\ Answer(m, id, r, how)
    BY <2>r
  <2>3. r \in Request /\ how \in Origins /\ (id \in Find(r.type, r.key) \/ id \in Known)
    BY <2>2, <1>t DEF IdTypeOK, Origins
  <2>4. id \in Ids
    <3>1. CASE id \in Known
      BY <3>1, <1>t DEF Known, IdTypeOK, Entry
    <3>2. CASE id \in Find(r.type, r.key)
      BY <3>2, <1>t, FindFinds DEF IsFor, IdTypeOK, Entry
    <3> QED
      BY <2>3, <3>1, <3>2
  <2>5. IdTypeOK'
    BY <2>1, <2>2, <2>3, <2>4, <1>t DEF Answer, IdTypeOK, Answers, Request
  <2>6. LedgerInv' /\ CallsInv'
    BY <2>1, <2>2, <1>t DEF Answer, IdTypeOK, LedgerInv, CallsInv, Fresh
  <2>7. how # "chosen" =>
          \E i \in DOMAIN ledger : IsFor(i, r.type, r.key) /\ ledger[i].id = id
    BY <2>2, <1>t, FindFinds
  <2>8. MintedInv'
    BY <2>1, <2>2, <2>7, <1>t DEF Answer, MintedInv, Undamaged, OnLedger, IsFor
  <2> QED
    BY <2>5, <2>6, <2>8
<1>4. ASSUME NEW m \in Minters, ComputeEntry(m)
      PROVE  IdTypeOK' /\ LedgerInv' /\ CallsInv' /\ MintedInv'
  <2>1. UNCHANGED <<ledger, unended, asked, minted, mints, deaths>> /\ minting = {} /\ minting' = {m}
    BY <1>4 DEF ComputeEntry
  <2>2. PICK r \in asked[m] :
          /\ Find(r.type, r.key) = {} /\ r.chosen \notin Known
          /\ \E id \in IF r.chosen = NoId THEN Ids \ Known ELSE {r.chosen} :
               entry' = [entry EXCEPT ![m] = {[id |-> id, type |-> r.type, key |-> r.key]}]
    BY <1>4 DEF ComputeEntry
  <2>3. PICK id \in IF r.chosen = NoId THEN Ids \ Known ELSE {r.chosen} :
          entry' = [entry EXCEPT ![m] = {[id |-> id, type |-> r.type, key |-> r.key]}]
    BY <2>2
  <2>4. r \in Request /\ id \in Ids /\ id \notin Known
    BY <2>2, <2>3, <1>t DEF IdTypeOK, Request
  <2>a. [id |-> id, type |-> r.type, key |-> r.key] \in Entry
    BY <2>4 DEF Request, Entry
  <2>5. IdTypeOK'
    BY <2>1, <2>3, <2>a, <1>t DEF IdTypeOK
  <2>6. LedgerInv' /\ MintedInv'
    BY <2>1, <1>t DEF LedgerInv, MintedInv, Undamaged, OnLedger
  <2>7. Fresh([id |-> id, type |-> r.type, key |-> r.key])
    BY <2>2, <2>4, <1>t, FindFinds DEF Fresh, SameEntity, IsFor, Known
  <2>8. asked' = asked /\ entry'[m] = {[id |-> id, type |-> r.type, key |-> r.key]}
        /\ \A s \in asked[m] : s = r
    BY <2>1, <2>3, <1>t DEF IdTypeOK, CallsInv
  <2>9. CallsInv'
    BY <2>1, <2>7, <2>8, <1>t DEF CallsInv, Fresh
  <2> QED
    BY <2>5, <2>6, <2>9
<1>5. ASSUME NEW m \in Minters, AppendEntry(m)
      PROVE  IdTypeOK' /\ LedgerInv' /\ CallsInv' /\ MintedInv'
  <2>1. PICK r \in asked[m], e \in entry[m] :
          ledger' = Extended(e) /\ Answer(m, e.id, r, "new")
    BY <1>5 DEF AppendEntry
  <2>2. /\ m \in minting /\ minting' = minting \ {m} /\ unended' = FALSE
        /\ entry' = [entry EXCEPT ![m] = {}] /\ UNCHANGED <<mints, deaths>>
    BY <1>5 DEF AppendEntry
  <2>3. /\ r \in Request /\ e \in Entry
        /\ e.type = r.type /\ e.key = r.key /\ Fresh(e)
    BY <2>1, <2>2, <1>t DEF IdTypeOK, CallsInv
  <2>4. /\ ledger' \in Seq(Entry \cup {Broken})
        /\ Undamaged' => Undamaged /\ ledger' = Append(ledger, e)
        /\ \A i \in DOMAIN ledger' :
             ledger'[i] # Broken =>
               \/ i \in DOMAIN ledger /\ ledger[i] = ledger'[i]
               \/ i = Len(ledger) + 1 /\ ledger'[i] = e
    BY <2>1, <2>3, <1>t, ExtendedLedger
  <2>a. minting' = {}
    BY <2>2, <1>t DEF CallsInv
  <2>b. [id |-> e.id, type |-> r.type, key |-> r.key, how |-> "new"] \in Answers
    BY <2>3 DEF Answers, Request, Entry, Origins
  <2>c. minted' \in SUBSET Answers /\ asked' \in [Minters -> SUBSET Request]
    BY <2>1, <2>b, <1>t DEF Answer, IdTypeOK
  <2>d. minting' \in SUBSET Minters /\ entry' \in [Minters -> SUBSET Entry] /\ unended' \in BOOLEAN
    BY <2>2, <1>t DEF IdTypeOK
  <2>5. IdTypeOK'
    BY <2>2, <2>4, <2>c, <2>d, <1>t DEF IdTypeOK
  <2>6. LedgerInv'
    BY <2>2, <2>3, <2>4, <1>t DEF LedgerInv, Fresh, SameEntity
  <2>7. CallsInv'
    BY <2>1, <2>a, <1>t DEF Answer, IdTypeOK, CallsInv
  <2>8. MintedInv'
    <3> SUFFICES ASSUME Undamaged', NEW c \in minted', c.how # "chosen", c.key # NoKey
                 PROVE  OnLedger(c)'
      BY DEF MintedInv
    <3>1. /\ Undamaged /\ ledger' = Append(ledger, e)
          /\ DOMAIN ledger' = 1 .. Len(ledger) + 1
          /\ \A i \in DOMAIN ledger : i \in DOMAIN ledger' /\ ledger'[i] = ledger[i]
          /\ ledger'[Len(ledger) + 1] = e
      BY <2>3, <2>4, <1>t DEF IdTypeOK
    <3>2. CASE c \in minted
      BY <3>1, <3>2, <1>t DEF MintedInv, OnLedger
    <3>3. CASE c \notin minted
      <4>1. c.id = e.id /\ c.type = e.type /\ c.key = e.key
        BY <3>3, <2>1, <2>3 DEF Answer
      <4> QED
        BY <4>1, <3>1, <2>3, <1>t DEF OnLedger, IdTypeOK
    <3> QED
      BY <3>2, <3>3
  <2> QED
    BY <2>5, <2>6, <2>7, <2>8
<1>6. ASSUME NEW m \in Minters, MintDies(m)
      PROVE  IdTypeOK' /\ LedgerInv' /\ CallsInv' /\ MintedInv'
  <2>1. /\ minting' = minting \ {m} /\ asked' = [asked EXCEPT ![m] = {}]
        /\ entry' = [entry EXCEPT ![m] = {}] /\ deaths < MaxDeaths /\ deaths' = deaths + 1
        /\ UNCHANGED <<minted, mints>>
    BY <1>6 DEF MintDies
  <2>2. CASE UNCHANGED <<ledger, unended>>
    <3>1. IdTypeOK'
      BY <2>1, <2>2, <1>t DEF IdTypeOK
    <3> QED
      BY <2>1, <2>2, <3>1, <1>t
         DEF IdTypeOK, LedgerInv, CallsInv, MintedInv, Undamaged, Fresh, OnLedger
  <2>3. CASE m \in minting /\ ledger' = Extended(Broken) /\ unended' = TRUE
    <3>1. /\ ledger' \in Seq(Entry \cup {Broken}) /\ ledger' # <<>>
          /\ ~Undamaged' /\ ledger'[Len(ledger')] = Broken
          /\ \A i \in DOMAIN ledger' :
               ledger'[i] # Broken => i \in DOMAIN ledger /\ ledger[i] = ledger'[i]
      BY <2>3, <1>t, ExtendedLedger
    <3>2. IdTypeOK'
      BY <2>1, <2>3, <3>1, <1>t DEF IdTypeOK
    <3>3. LedgerInv'
      BY <3>1, <1>t DEF LedgerInv
    <3>4. CallsInv' /\ MintedInv'
      BY <2>1, <2>3, <3>1, <1>t DEF IdTypeOK, CallsInv, MintedInv
    <3> QED
      BY <3>2, <3>3, <3>4
  <2>4. CASE m \in minting /\ (\E e \in entry[m] : ledger' = Extended(e)) /\ unended' = FALSE
    <3>1. PICK e \in entry[m] : ledger' = Extended(e)
      BY <2>4
    <3>2. PICK r \in asked[m] : TRUE
      BY <2>4, <1>t DEF CallsInv
    <3>3. e \in Entry /\ Fresh(e)
      BY <2>4, <3>1, <3>2, <1>t DEF IdTypeOK, CallsInv
    <3>4. /\ ledger' \in Seq(Entry \cup {Broken})
          /\ Undamaged' => Undamaged /\ ledger' = Append(ledger, e)
          /\ \A i \in DOMAIN ledger' :
               ledger'[i] # Broken =>
                 \/ i \in DOMAIN ledger /\ ledger[i] = ledger'[i]
                 \/ i = Len(ledger) + 1 /\ ledger'[i] = e
      BY <3>1, <3>3, <1>t, ExtendedLedger
    <3>a. minting' \in SUBSET Minters /\ unended' \in BOOLEAN
      BY <2>1, <2>4, <1>t DEF IdTypeOK
    <3>b. /\ asked' \in [Minters -> SUBSET Request] /\ entry' \in [Minters -> SUBSET Entry]
          /\ deaths' \in 0 .. MaxDeaths
      BY <2>1, <1>t DEF IdTypeOK
    <3>5. IdTypeOK'
      BY <2>1, <3>4, <3>a, <3>b, <1>t DEF IdTypeOK
    <3>6. LedgerInv'
      BY <2>4, <3>3, <3>4, <1>t DEF LedgerInv, Fresh, SameEntity
    <3>7. minting' = {}
      BY <2>1, <2>4, <1>t DEF CallsInv
    <3>8. CallsInv'
      BY <2>1, <3>7, <1>t DEF IdTypeOK, CallsInv
    <3>9. MintedInv'
      <4> SUFFICES ASSUME Undamaged', NEW c \in minted, c.how # "chosen", c.key # NoKey
                   PROVE  OnLedger(c)'
        BY <2>1 DEF MintedInv
      <4>1. /\ Undamaged /\ \A i \in DOMAIN ledger : i \in DOMAIN ledger' /\ ledger'[i] = ledger[i]
        BY <3>3, <3>4, <1>t DEF IdTypeOK
      <4> QED
        BY <4>1, <1>t DEF MintedInv, OnLedger
    <3> QED
      BY <3>5, <3>6, <3>8, <3>9
  <2> QED
    BY <1>6, <2>2, <2>3, <2>4 DEF MintDies
<1> QED
  BY <1>1, <1>2, <1>3, <1>4, <1>5, <1>6 DEF IdNext

\* However many calls mint at once, and whenever they die: as long as no line of the
\* ledger is broken, the ids that calls have returned for a natural key, found or
\* newly recorded, are one per entity and one entity per id (IdAllocator.mint).
\* Of a ledger with a broken line nothing is claimed: its record is lost, and its
\* entity is given another id.
THEOREM IdsAreUnique == IdSpec => []OneIdPerKey
<1>1. IdInv => OneIdPerKey
  <2> SUFFICES ASSUME IdInv, Undamaged,
                      NEW a \in minted, a.how # "chosen", a.key # NoKey,
                      NEW b \in minted, b.how # "chosen", b.key # NoKey
               PROVE  a.id = b.id <=> (a.type = b.type /\ a.key = b.key)
    BY DEF OneIdPerKey
  <2>1. PICK i \in DOMAIN ledger :
          ledger[i] # Broken /\ ledger[i].id = a.id /\ ledger[i].type = a.type /\ ledger[i].key = a.key
    BY DEF IdInv, MintedInv, OnLedger
  <2>2. PICK j \in DOMAIN ledger :
          ledger[j] # Broken /\ ledger[j].id = b.id /\ ledger[j].type = b.type /\ ledger[j].key = b.key
    BY DEF IdInv, MintedInv, OnLedger
  <2> QED
    BY <2>1, <2>2 DEF IdInv, LedgerInv, SameEntity
<1> QED
  BY <1>1, IdInvInit, IdInvNext, PTL DEF IdSpec
================================================================================

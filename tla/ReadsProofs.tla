------------------------------ MODULE ReadsProofs ------------------------------
(***************************************************************************)
(* Theorems of Reads, for every policy, vault, set of paths and limit: the *)
(* cache is coherent; grants only widen; what an answer shows was decided, *)
(* put on record and read during the call; its access label is that of the *)
(* decisions on record; a graph is well formed and says what it leaves     *)
(* out; and the two halves of the digest agree when nothing changes        *)
(* between them.                                                           *)
(***************************************************************************)
EXTENDS Reads, FiniteSetTheorems, WellFoundedInduction, TLAPS

Entries == [path : Path, card : Card]
Signatures == SUBSET (Path \X Nat)

RetrieverType ==
  /\ disk \in [Path -> [card : Card \cup {Absent}, stamp : Nat]]
  /\ clock \in Nat
  /\ rd \in [at : {"idle", "walk", "load", "done", "failed"}, left : SUBSET Path,
             sig : Signatures, got : SUBSET Entries]
  /\ cards # None => cards \in SUBSET Entries /\ signature \in Signatures

\* No stamp is ahead of the clock, so the next one is new to every signature.
StampsAreOld ==
  /\ \A p \in Path : disk[p].stamp <= clock
  /\ \A s \in rd.sig : s[2] <= clock
  /\ cards # None => \A s \in signature : s[2] <= clock

\* The cards got describe the paths that still are as the signature says,
\* those left to load excepted.
Agrees(sig, got, left) ==
  \A p \in Present :
    <<p, disk[p].stamp>> \in sig =>
      {e \in got : e.path = p} = IF p \in left THEN {} ELSE {Entry(p, disk[p].card)}

CacheInv ==
  /\ RetrieverType
  /\ StampsAreOld
  /\ rd.at = "walk" => rd.got = {}
  /\ rd.at = "load" => Agrees(rd.sig, rd.got, rd.left)
  /\ cards # None => Agrees(signature, cards, {})

LEMMA CacheInit == Init => CacheInv
<1> SUFFICES ASSUME Init PROVE CacheInv
  OBVIOUS
<1> USE DEF Init, RetrieverInit
<1>1. PICK v \in Vaults : disk = [p \in Path |-> [card |-> v[p], stamp |-> 0]]
  OBVIOUS
<1>2. v \in [Path -> Card \cup {Absent}]
  BY <1>1, VaultsAssumption DEF VaultsAssumption
<1>3. RetrieverType
  BY <1>1, <1>2 DEF RetrieverType, NoRead, Entries, Signatures
<1>4. StampsAreOld
  BY <1>1 DEF StampsAreOld, NoRead
<1> QED
  BY <1>3, <1>4 DEF CacheInv, NoRead

\* A step of the retriever.
LEMMA CacheReading == CacheInv /\ Reading => CacheInv'
<1> SUFFICES ASSUME CacheInv, Reading PROVE CacheInv'
  OBVIOUS
<1> USE DEF CacheInv
<1>1. CASE Call
  BY <1>1 DEF Call, NoRead, RetrieverType, StampsAreOld, Agrees, Present, Entries, Signatures, Entry
<1>2. CASE Stat
  <2> DEFINE p == First(rd.left)
  <2>a. rd' = [rd EXCEPT !.left = @ \ {p},
                         !.sig = IF p \in Present THEN @ \cup {<<p, disk[p].stamp>>} ELSE @]
    BY <1>2 DEF Stat
  <2>b. p \in Present => <<p, disk[p].stamp>> \in Path \X Nat
    BY DEF RetrieverType, Present
  <2>c. (rd.left \ {p}) \subseteq Path
        /\ (IF p \in Present THEN rd.sig \cup {<<p, disk[p].stamp>>} ELSE rd.sig) \in Signatures
    <3> HIDE DEF p
    <3> QED
      BY <2>b DEF RetrieverType, Signatures
  <2>1. RetrieverType'
    <3> HIDE DEF p
    <3> QED
      BY <1>2, <2>a, <2>c DEF Stat, RetrieverType
  <2>2. StampsAreOld'
    BY <1>2 DEF Stat, RetrieverType, StampsAreOld, Present
  <2> QED
    BY <1>2, <2>1, <2>2 DEF Stat, RetrieverType, Agrees, Present, Entry
<1>3. CASE Hit
  BY <1>3 DEF Hit, RetrieverType, StampsAreOld, Agrees, Present, Entry
<1>4. CASE Miss
  <2>1. RetrieverType' /\ StampsAreOld'
    BY <1>4 DEF Miss, RetrieverType, StampsAreOld, Present
  <2>2. Agrees(rd.sig, rd.got, rd.left)'
    BY <1>4 DEF Miss, RetrieverType, Agrees, Present, Entry
  <2> QED
    BY <1>4, <2>1, <2>2 DEF Miss, RetrieverType, Agrees, Present, Entry
<1>5. CASE Load
  <2> DEFINE p == First(rd.left)
  <2>1. UNCHANGED <<disk, clock, cards, signature>>
    BY <1>5 DEF Load
  <2>2. CASE p \in Present
    <3>1. rd' = [rd EXCEPT !.left = @ \ {p}, !.got = @ \cup {Entry(p, disk[p].card)}]
      BY <1>5, <2>2 DEF Load
    <3>a. Entry(p, disk[p].card) \in Entries
      BY <2>2 DEF RetrieverType, Present, Entries, Entry
    <3>2. RetrieverType'
      <4> HIDE DEF p
      <4> QED
        BY <2>1, <3>1, <3>a DEF RetrieverType
    <3>3. rd'.at = "load" /\ rd'.sig = rd.sig /\ rd'.left = rd.left \ {p}
          /\ rd'.got = rd.got \cup {Entry(p, disk[p].card)}
      BY <1>5, <3>1 DEF Load, RetrieverType
    <3>4. StampsAreOld'
      BY <2>1, <3>3 DEF StampsAreOld
    <3>5. ASSUME NEW q \in Present, <<q, disk[q].stamp>> \in rd.sig
          PROVE  {e \in rd'.got : e.path = q}
                   = IF q \in rd'.left THEN {} ELSE {Entry(q, disk[q].card)}
      <4>1. {e \in rd.got : e.path = q}
              = IF q \in rd.left THEN {} ELSE {Entry(q, disk[q].card)}
        BY <1>5, <3>5 DEF Load, Agrees
      <4>2. CASE q = p
        BY <3>3, <4>1, <4>2 DEF Entry
      <4>3. CASE q # p
        BY <3>3, <4>1, <4>3 DEF Entry
      <4> QED
        BY <4>2, <4>3
    <3>6. Agrees(rd.sig, rd.got, rd.left)'
      BY <2>1, <3>3, <3>5 DEF Agrees, Present
    <3> QED
      BY <2>1, <3>2, <3>3, <3>4, <3>6 DEF Agrees, Present
  <2>3. CASE p \notin Present
    <3>1. rd' = [rd EXCEPT !.at = "failed"]
      BY <1>5, <2>3 DEF Load
    <3> QED
      BY <2>1, <3>1 DEF RetrieverType, StampsAreOld, Agrees, Present
  <2> QED
    BY <2>2, <2>3
<1>6. CASE Loaded
  <2>1. RetrieverType' /\ StampsAreOld'
    BY <1>6 DEF Loaded, RetrieverType, StampsAreOld
  <2>2. Agrees(signature, cards, {})'
    BY <1>6 DEF Loaded, RetrieverType, Agrees, Present
  <2> QED
    BY <1>6, <2>1, <2>2 DEF Loaded, RetrieverType
<1> QED
  BY <1>1, <1>2, <1>3, <1>4, <1>5, <1>6 DEF Reading

\* What changes on the disk, changes paths no signature describes.
LEMMA AgreesKept ==
  ASSUME CacheInv, UNCHANGED <<cards, signature, rd>>,
         \A q \in Present' :
           (\/ rd.at = "load" /\ <<q, disk'[q].stamp>> \in rd.sig
            \/ cards # None /\ <<q, disk'[q].stamp>> \in signature)
           => q \in Present /\ disk'[q] = disk[q]
  PROVE  /\ (rd.at = "load" => Agrees(rd.sig, rd.got, rd.left))'
         /\ (cards # None => Agrees(signature, cards, {}))'
<1>1. rd.at = "load" =>
        \A q \in Present' : <<q, disk'[q].stamp>> \in rd.sig =>
          {e \in rd.got : e.path = q} = IF q \in rd.left THEN {} ELSE {Entry(q, disk'[q].card)}
  <2> SUFFICES ASSUME rd.at = "load", NEW q \in Present', <<q, disk'[q].stamp>> \in rd.sig
               PROVE  {e \in rd.got : e.path = q}
                        = IF q \in rd.left THEN {} ELSE {Entry(q, disk'[q].card)}
    OBVIOUS
  <2>1. q \in Present /\ disk'[q] = disk[q]
    OBVIOUS
  <2>2. Agrees(rd.sig, rd.got, rd.left)
    BY DEF CacheInv
  <2> QED
    BY <2>1, <2>2 DEF Agrees
<1>2. cards # None =>
        \A q \in Present' : <<q, disk'[q].stamp>> \in signature =>
          {e \in cards : e.path = q} = IF q \in {} THEN {} ELSE {Entry(q, disk'[q].card)}
  <2> SUFFICES ASSUME cards # None, NEW q \in Present', <<q, disk'[q].stamp>> \in signature
               PROVE  {e \in cards : e.path = q}
                        = IF q \in {} THEN {} ELSE {Entry(q, disk'[q].card)}
    OBVIOUS
  <2>1. q \in Present /\ disk'[q] = disk[q]
    OBVIOUS
  <2>2. Agrees(signature, cards, {})
    BY DEF CacheInv
  <2> QED
    BY <2>1, <2>2 DEF Agrees
<1> QED
  BY <1>1, <1>2 DEF Agrees, Entry

\* Somebody writes or deletes a card.
LEMMA CacheEdit ==
  ASSUME CacheInv, NEW p \in Path, (\E c \in Card : Write(p, c)) \/ Delete(p)
  PROVE  CacheInv'
<1> USE DEF CacheInv
<1>1. ASSUME NEW c \in Card, Write(p, c) PROVE CacheInv'
  <2>1. disk' = [disk EXCEPT ![p] = [card |-> c, stamp |-> clock + 1]]
        /\ clock' = clock + 1 /\ UNCHANGED <<cards, signature, rd>>
    BY <1>1 DEF Write
  <2>2. RetrieverType'
    BY <2>1 DEF RetrieverType
  <2>3. StampsAreOld'
    BY <2>1 DEF StampsAreOld, RetrieverType, Signatures
  <2>4. \A q \in Present' :
          (rd.at = "load" /\ <<q, disk'[q].stamp>> \in rd.sig)
            => q \in Present /\ disk'[q] = disk[q]
    BY <2>1 DEF RetrieverType, StampsAreOld, Present
  <2>5. \A q \in Present' :
          (cards # None /\ <<q, disk'[q].stamp>> \in signature)
            => q \in Present /\ disk'[q] = disk[q]
    BY <2>1 DEF RetrieverType, StampsAreOld, Present
  <2> QED
    BY <2>1, <2>2, <2>3, <2>4, <2>5, AgreesKept DEF RetrieverType
<1>2. CASE Delete(p)
  <2>1. p \in Path /\ disk' = [disk EXCEPT ![p].card = Absent]
        /\ UNCHANGED <<clock, cards, signature, rd>>
    BY <1>2 DEF Delete, Present
  <2>2. RetrieverType' /\ StampsAreOld'
    BY <2>1 DEF RetrieverType, StampsAreOld
  <2>3. \A q \in Present' : q \in Present /\ disk'[q] = disk[q]
    BY <2>1 DEF Present, RetrieverType
  <2> QED
    BY <2>1, <2>2, <2>3, AgreesKept DEF RetrieverType
<1> QED
  BY <1>1, <1>2

\* The facade uses what a call of cards() returned, and gives it back.
LEMMA CacheServe ==
  ASSUME CacheInv, UNCHANGED <<disk, clock, cards, signature>>, rd' = rd \/ rd' = NoRead
  PROVE  CacheInv'
<1>1. CASE rd' = rd
  BY <1>1 DEF CacheInv, RetrieverType, StampsAreOld, Agrees, Present, Entry
<1>2. CASE rd' = NoRead
  <2>1. RetrieverType' /\ StampsAreOld'
    BY <1>2 DEF CacheInv, RetrieverType, StampsAreOld, NoRead, Signatures
  <2>2. cards # None => Agrees(signature, cards, {})'
    BY DEF CacheInv, Agrees, Present, Entry
  <2> QED
    BY <1>2, <2>1, <2>2 DEF CacheInv, NoRead
<1> QED
  BY <1>1, <1>2

\* Every step of the facade leaves the vault and the cache alone.
LEMMA ServeLeavesCache ==
  Serve => UNCHANGED <<disk, clock, cards, signature>> /\ (rd' = rd \/ rd' = NoRead)
<1> USE DEF Use, Step, retrieverVars
<1>1. CountCandidates \/ Unresolved \/ ListOptions \/ Resolved \/ Gate
        => UNCHANGED <<disk, clock, cards, signature>> /\ rd' = NoRead
  BY DEF CountCandidates, Unresolved, ListOptions, Resolved, Gate
<1>2. List \/ Link \/ Target \/ Metrics \/ Raise
        => UNCHANGED <<disk, clock, cards, signature>> /\ rd' = NoRead
  BY DEF List, Link, Target, Metrics, Raise
<1>3. Decide \/ NextAccount \/ LeadsDone \/ DealsDone \/ SignalDone \/ Finish
        => UNCHANGED <<disk, clock, cards, signature, rd>>
  BY DEF Decide, NextAccount, LeadsDone, DealsDone, SignalDone, Finish, EndOf
<1> QED
  BY <1>1, <1>2, <1>3 DEF Serve

LEMMA CacheNext == CacheInv /\ [Next]_vars => CacheInv'
<1> SUFFICES ASSUME CacheInv, [Next]_vars PROVE CacheInv'
  OBVIOUS
<1>1. CASE UNCHANGED vars
  BY <1>1, CacheServe DEF vars, retrieverVars
<1>2. ASSUME NEW tool, NEW q, Ask(tool, q) PROVE CacheInv'
  BY <1>2, CacheServe DEF Ask, retrieverVars
<1>3. CASE Read
  BY <1>3, CacheReading DEF Read
<1>4. CASE Serve
  BY <1>4, ServeLeavesCache, CacheServe
<1>5. ASSUME NEW p \in Path, Edit(p) PROVE CacheInv'
  <2>1. (\E c \in Card : Write(p, c)) \/ Delete(p)
    BY <1>5, FilingAssumption DEF Edit
  <2> QED
    BY <2>1, CacheEdit
<1>6. ASSUME NEW g \in Grants, MoveGrant(g) PROVE CacheInv'
  BY <1>6, CacheServe DEF MoveGrant, retrieverVars
<1> QED
  BY <1>1, <1>2, <1>3, <1>4, <1>5, <1>6 DEF Next

\* However edits of the vault fall between the stat walk and the load of any
\* call, a card the kept signature still describes is cached as it is.
THEOREM CacheIsCurrent == Spec => []CachedCardIsCurrent
<1>1. CacheInv => CachedCardIsCurrent
  BY DEF CacheInv, CachedCardIsCurrent, Agrees
<1> QED
  BY CacheInit, CacheNext, <1>1, PTL DEF Spec

--------------------------------------------------------------------------------
\* A grant in force opens what it names and touches no other decision.
LEMMA OneGrant ==
  ASSUME NEW G, NEW g, g = <<g[1], g[2], g[3]>>, NEW a, NEW r
  PROVE  LET before == CanRead(a, r, G)
             after == CanRead(a, r, G \cup {g})
         IN IF a.id = g[1] /\ g[2] \in {r.id, r.company} /\ g[3] = r.boundary
            THEN after = "allow" ELSE after = before
<1>1. CASE a.id = g[1] /\ g[2] \in {r.id, r.company} /\ g[3] = r.boundary
  <2>1. Granted(a, r, G \cup {g})
    BY <1>1 DEF Granted
  <2> QED
    BY <1>1, <2>1 DEF CanRead
<1>2. CASE ~(a.id = g[1] /\ g[2] \in {r.id, r.company} /\ g[3] = r.boundary)
  <2>1. Granted(a, r, G \cup {g}) <=> Granted(a, r, G)
    BY <1>2 DEF Granted
  <2> QED
    BY <1>2, <2>1 DEF CanRead
<1> QED
  BY <1>1, <1>2

\* Whatever the policy, a grant coming into force never narrows anybody's
\* reading and opens only what it names.
THEOREM GrantsWiden == Spec => GrantsOnlyWiden
<1>1. [Next]_vars =>
        [\A g \in Grants : grants' = grants \cup {g} =>
           \A a \in Actors, p \in Present :
             LET r == Resource(Entry(p, disk[p].card))
                 before == CanRead(a, r, grants)
                 after == CanRead(a, r, grants')
             IN IF a.id = g[1] /\ g[2] \in {r.id, r.company} /\ g[3] = r.boundary
                THEN after = "allow" ELSE after = before]_vars
  BY OneGrant, GrantsAssumption
<1> QED
  BY <1>1, PTL DEF Spec, GrantsOnlyWiden

--------------------------------------------------------------------------------
\* Cards are where people file them.
Filed(entries) == \A e \in entries : e.path \in Path /\ e.card \in CardsAt[e.path]

FiledInv ==
  /\ \A p \in Present : disk[p].card \in CardsAt[p]
  /\ Filed(rd.got)
  /\ cards # None => Filed(cards)

LEMMA FiledInit == Init => FiledInv
<1> SUFFICES ASSUME Init PROVE FiledInv
  OBVIOUS
<1>1. PICK v \in Vaults : disk = [p \in Path |-> [card |-> v[p], stamp |-> 0]]
  BY DEF Init, RetrieverInit
<1>2. \A p \in Present : disk[p].card \in CardsAt[p]
  BY <1>1, FilingAssumption DEF Present
<1> QED
  BY <1>2 DEF FiledInv, Filed, Init, RetrieverInit, NoRead

LEMMA FiledNext == CacheInv /\ FiledInv /\ [Next]_vars => FiledInv'
<1> SUFFICES ASSUME CacheInv, FiledInv, [Next]_vars PROVE FiledInv'
  OBVIOUS
<1> USE DEF FiledInv
<1>1. ASSUME UNCHANGED <<disk, clock, cards, signature>>, rd' = rd \/ rd' = NoRead
      PROVE  FiledInv'
  BY <1>1 DEF Filed, Present, NoRead
<1>2. CASE Reading
  <2>1. CASE Call \/ Stat \/ Miss
    BY <2>1 DEF Call, Stat, Miss, NoRead, Filed, Present, CacheInv, RetrieverType
  <2>2. CASE Hit
    BY <2>2 DEF Hit, Filed, Present, CacheInv, RetrieverType
  <2>3. CASE Load
    <3> DEFINE p == First(rd.left)
    <3>1. UNCHANGED <<disk, clock, cards, signature>>
          /\ (\/ rd'.got = rd.got
              \/ p \in Present /\ rd'.got = rd.got \cup {Entry(p, disk[p].card)})
      <4>1. UNCHANGED <<disk, clock, cards, signature>>
            /\ rd' = IF p \in Present
                     THEN [rd EXCEPT !.left = @ \ {p}, !.got = @ \cup {Entry(p, disk[p].card)}]
                     ELSE [rd EXCEPT !.at = "failed"]
        BY <2>3 DEF Load
      <4> HIDE DEF p
      <4>2. CASE p \in Present
        BY <4>1, <4>2 DEF CacheInv, RetrieverType
      <4>3. CASE p \notin Present
        <5>1. rd' = [rd EXCEPT !.at = "failed"]
          BY <4>1, <4>3
        <5> QED
          BY <4>1, <5>1 DEF CacheInv, RetrieverType
      <4> QED
        BY <4>1, <4>2, <4>3
    <3> HIDE DEF p
    <3> QED
      BY <3>1 DEF Filed, Present, Entry
  <2>4. CASE Loaded
    BY <2>4 DEF Loaded, Filed, Present, CacheInv, RetrieverType
  <2> QED
    BY <1>2, <2>1, <2>2, <2>3, <2>4 DEF Reading
<1>3. ASSUME NEW p \in Path, Edit(p) PROVE FiledInv'
  <2>1. CASE \E c \in CardsAt[p] : Write(p, c)
    BY <2>1 DEF Write, Filed, Present, CacheInv, RetrieverType
  <2>2. CASE Delete(p)
    BY <2>2 DEF Delete, Filed, Present, CacheInv, RetrieverType
  <2> QED
    BY <1>3, <2>1, <2>2 DEF Edit
<1>4. CASE UNCHANGED vars
  BY <1>1, <1>4 DEF vars, retrieverVars
<1>5. ASSUME NEW tool, NEW q, Ask(tool, q) PROVE FiledInv'
  BY <1>1, <1>5 DEF Ask, retrieverVars
<1>6. CASE Serve
  BY <1>1, <1>6, ServeLeavesCache
<1>7. ASSUME NEW g \in Grants, MoveGrant(g) PROVE FiledInv'
  BY <1>1, <1>7 DEF MoveGrant, retrieverVars
<1>8. CASE Read
  BY <1>2, <1>8 DEF Read
<1> QED
  BY <1>3, <1>4, <1>5, <1>6, <1>7, <1>8 DEF Next

\* A name resolves to a card the read returned, of the type asked for.
LEMMA FindReturns ==
  ASSUME NEW got, NEW q, NEW type, Find(got, q, type) # None
  PROVE  /\ Find(got, q, type) \in got
         /\ Find(got, q, type).card.type = type
<1> DEFINE found == Candidates(got, q, type)
<1>1. Cardinality(found) = 1 /\ Find(got, q, type) = CHOOSE e \in found : TRUE
  BY DEF Find
<1>2. found # {}
  BY <1>1, FS_EmptySet
<1>3. Find(got, q, type) \in found
  BY <1>1, <1>2
<1>4. \A e \in found : e \in got /\ e.card.type = type
  BY DEF Candidates, OfType
<1> QED
  BY <1>3, <1>4

\* What opens a brief was allowed, but for the company of a company brief, which
\* nothing but a block stops.
LEMMA OpenedWasDecided ==
  ASSUME NEW e, NEW tool \in Gated, Opens(tool, e)
  PROVE  Effect(e) = "allow" \/ (Effect(e) = "handle" /\ tool = "company_brief")
<1>1. Effect(e) \in {"allow", "handle", "block"}
  BY DEF Effect, CanRead, BaseDecision
<1>2. CASE tool = "company_brief"
  BY <1>1, <1>2 DEF Opens
<1>3. CASE tool # "company_brief"
  BY <1>3 DEF Opens
<1> QED
  BY <1>2, <1>3

--------------------------------------------------------------------------------
(***************************************************************************)
(* What an answer says of itself.                                          *)
(***************************************************************************)
Fields == {"tool", "part", "q", "at", "about", "options", "names", "todo", "log", "shown",
           "held", "missing", "rolled", "access", "quiet", "span"}
Shaped(o) == Fields \subseteq DOMAIN o

\* The listings a tool goes through.
Listings == {"company_search", "company_brief", "entity_graph", "deal_risk", "lead_priority",
             "content_opportunities", "call_prep"}

Sections(tool) ==
  CASE tool = "my_day" -> {"lead_priority", "deal_risk"}
    [] tool = "pipeline_risk_digest" -> {"deal_risk"}
    [] tool = "dashboard" -> {"dashboard", "account"}
    [] tool = "event_brief" -> {"signal"}
    [] OTHER -> {tool} \cap Listings

Fresh(o) == o.log = {} /\ o.shown = {} /\ o.held = FALSE /\ o.missing = FALSE

\* Which tools pass through which points, and that nothing is decided before a
\* name is resolved.
Control(o) ==
  /\ Shaped(o)
  /\ o.held \in BOOLEAN /\ o.missing \in BOOLEAN
  /\ o.at \in {"idle", "answered", "decide"} \cup ReadPoints
  /\ o.at \in {"candidates", "find", "options"} =>
       o.tool \in OverOne \ {"company_search"} /\ o.part = o.tool /\ Fresh(o)
  /\ o.at = "candidates" => o.tool = "entity_graph"
  /\ o.at = "options" => o.tool = "company_brief"
  /\ o.at \in {"list", "decide"} => o.part \in Sections(o.tool)
  /\ o.at = "link" =>
       \/ o.part = "lead_priority" /\ o.tool \in {"lead_priority", "my_day"}
       \/ o.part = "event_brief" /\ o.tool = "event_brief"
  /\ o.at = "target" => o.tool = "event_brief" /\ o.part = "event_brief"
  /\ o.at = "metrics" => o.tool = "pipeline_risk_digest"

\* Nothing decided so far was withheld.
Open(o) ==
  \A d \in o.log : d.effect = "allow" \/ (d.effect = "handle" /\ Briefed(o, d.entry))

Labelled(o) ==
  /\ o.tool \in {"company_brief", "entity_graph"} /\ o.at \in {"list", "decide"} =>
       IF o.held THEN \E d \in o.log : d.effect # "allow" ELSE Open(o)
  /\ o.tool = "call_prep" /\ o.at = "list" => o.shown = {}
  /\ o.at = "answered" =>
       /\ (\/ o.access \in {"blocked", "ambiguous", "not-found", "error"}
           \/ o.tool = "deal_risk" /\ o.access = "aggregated"
           \/ o.tool = "call_prep" /\ o.access = "sanitized")
          => o.shown = {}
       /\ o.tool \in {"company_brief", "entity_graph"} =>
            /\ o.access = "allowed" => Open(o)
            /\ o.access = "sanitized" => \E d \in o.log : d.effect # "allow"
       /\ o.tool = "deal_risk" /\ o.access = "allowed" => o.shown # {}

\* The records of a graph can be told apart and are few enough.
Sound(shown) ==
  /\ \A s, t \in shown :
       /\ s.entry.card.id # Nobody
       /\ s.entry.card.id = t.entry.card.id => s = t
  /\ IsFiniteSet(shown) /\ Cardinality(shown) <= MaxEvidence

\* The root is there, and no allowed card is missing without a word.
Complete(o) ==
  /\ \E s \in o.shown : s.entry.card.id = o.about
  /\ \A d \in o.log : d.effect = "allow" => Content(d.entry) \in o.shown \/ o.missing = TRUE

Graphed(o) ==
  o.tool = "entity_graph" =>
    /\ o.at \in {"list", "decide"} => Sound(o.shown) /\ Complete(o)
    /\ o.at = "answered" =>
         Sound(o.shown) /\ (o.access \in {"allowed", "sanitized"} => Complete(o))

Tells(o) == Control(o) /\ Labelled(o) /\ Graphed(o)

LEMMA SoundEmpty == Sound({})
BY FS_EmptySet, LimitsAssumption DEF Sound

LEMMA AnswerFields ==
  ASSUME NEW o, Shaped(o), NEW access
  PROVE  /\ Shaped(Answer(o, access))
         /\ Answer(o, access).at = "answered" /\ Answer(o, access).access = access
         /\ Answer(o, access).tool = o.tool /\ Answer(o, access).about = o.about
         /\ Answer(o, access).log = o.log /\ Answer(o, access).shown = o.shown
         /\ Answer(o, access).held = o.held /\ Answer(o, access).missing = o.missing
BY DEF Answer, Shaped, Fields

LEMMA DecidedFields ==
  ASSUME NEW o, Shaped(o), NEW e
  PROVE  /\ Shaped(Decided(o, e))
         /\ Decided(o, e).log = o.log \cup {[entry |-> e, effect |-> Effect(e)]}
         /\ Decided(o, e).at = o.at /\ Decided(o, e).tool = o.tool
         /\ Decided(o, e).part = o.part /\ Decided(o, e).about = o.about
         /\ Decided(o, e).shown = o.shown
         /\ Decided(o, e).held = o.held /\ Decided(o, e).missing = o.missing
BY DEF Decided, Shaped, Fields

\* An answer that refuses, before anything was decided.
LEMMA RefusalTells ==
  ASSUME NEW o, Control(o), Fresh(o), NEW access \in {"ambiguous", "not-found"}
  PROVE  Tells(Answer(o, access))
<1> DEFINE a == Answer(o, access)
<1>1. /\ Shaped(a) /\ a.at = "answered" /\ a.access = access /\ a.tool = o.tool
      /\ a.log = {} /\ a.shown = {} /\ a.held = FALSE /\ a.missing = FALSE
  BY AnswerFields DEF Control, Fresh
<1> HIDE DEF a
<1>2. Control(a)
  BY <1>1 DEF Control, ReadPoints
<1>3. Labelled(a)
  BY <1>1 DEF Labelled
<1>4. Graphed(a)
  BY <1>1, SoundEmpty DEF Graphed
<1> QED
  BY <1>2, <1>3, <1>4 DEF Tells, a

\* An answer of a tool that makes no claim about what it left out.
LEMMA PlainTells ==
  ASSUME NEW o, Shaped(o), o.held \in BOOLEAN, o.missing \in BOOLEAN,
         o.tool \notin {"company_brief", "entity_graph", "deal_risk", "call_prep"},
         NEW access \in {"ok", "allowed", "aggregated"}
  PROVE  Tells(Answer(o, access))
<1> DEFINE a == Answer(o, access)
<1>1. /\ Shaped(a) /\ a.at = "answered" /\ a.access = access /\ a.tool = o.tool
      /\ a.held = o.held /\ a.missing = o.missing
  BY AnswerFields
<1> HIDE DEF a
<1>2. Control(a)
  BY <1>1 DEF Control, ReadPoints
<1>3. Labelled(a)
  BY <1>1 DEF Labelled
<1>4. Graphed(a)
  BY <1>1 DEF Graphed
<1> QED
  BY <1>2, <1>3, <1>4 DEF Tells, a

LEMMA TargetTells ==
  ASSUME NEW o, Shaped(o), o.held \in BOOLEAN, o.missing \in BOOLEAN, o.tool = "event_brief"
  PROVE  Tells(NextTarget(o))
<1>1. CASE o.names = <<>>
  BY <1>1, PlainTells DEF NextTarget
<1>2. CASE o.names # <<>>
  <2> DEFINE n == [o EXCEPT !.at = "target", !.part = "event_brief"]
  <2>1. /\ Shaped(n) /\ n.at = "target" /\ n.tool = o.tool /\ n.part = "event_brief"
        /\ n.held = o.held /\ n.missing = o.missing
    BY DEF Shaped, Fields
  <2>2. NextTarget(o) = n
    BY <1>2 DEF NextTarget
  <2> HIDE DEF n
  <2> QED
    BY <2>1, <2>2 DEF Tells, Control, Labelled, Graphed, ReadPoints
<1> QED
  BY <1>1, <1>2

\* A name is resolved, or is not.
LEMMA ResolvingTells ==
  ASSUME Tells(op), CountCandidates \/ Unresolved \/ ListOptions \/ Resolved
  PROVE  Tells(op')
<1> USE DEF Tells
<1>1. CASE CountCandidates
  <2>1. /\ Shaped(op') /\ op'.at = "find" /\ op'.tool = op.tool /\ op'.part = op.part
        /\ op'.log = op.log /\ op'.shown = op.shown
        /\ op'.held = op.held /\ op'.missing = op.missing /\ op.at = "candidates"
    BY <1>1 DEF CountCandidates, Use, Control, Shaped, Fields
  <2>2. Control(op') /\ Labelled(op') /\ Graphed(op')
    BY <2>1 DEF Control, Labelled, Graphed, Fresh, ReadPoints
  <2> QED
    BY <2>2
<1>2. CASE Unresolved
  <2>1. Fresh(op) /\ op.at = "find"
    BY <1>2 DEF Unresolved, Use, Control
  <2>2. CASE op.tool = "company_brief"
    <3>1. /\ Shaped(op') /\ op'.at = "options" /\ op'.tool = op.tool /\ op'.part = op.part
          /\ op'.log = op.log /\ op'.shown = op.shown
          /\ op'.held = op.held /\ op'.missing = op.missing
      BY <1>2, <2>2 DEF Unresolved, Control, Shaped, Fields
    <3>2. Control(op') /\ Labelled(op') /\ Graphed(op')
      BY <2>1, <2>2, <3>1 DEF Control, Labelled, Graphed, Fresh, ReadPoints
    <3> QED
      BY <3>2
  <2>3. CASE op.tool # "company_brief"
    BY <1>2, <2>1, <2>3, RefusalTells DEF Unresolved
  <2> QED
    BY <2>2, <2>3
<1>3. CASE ListOptions
  BY <1>3, RefusalTells DEF ListOptions, Use, Control
<1>4. CASE Resolved
  <2>1. /\ Shaped(op') /\ op'.at = "list" /\ op'.tool = op.tool /\ op'.part = op.part
        /\ op'.log = op.log /\ op'.shown = op.shown
        /\ op'.held = op.held /\ op'.missing = op.missing
        /\ op.at = "find" /\ op.tool \notin Gated
    BY <1>4 DEF Resolved, Use, Control, Shaped, Fields
  <2>2. op.tool \in {"deal_risk", "call_prep", "lead_priority"}
    BY <2>1 DEF Control, OverOne, Gated
  <2>3. Control(op')
    BY <2>1, <2>2 DEF Control, Fresh, Sections, Listings, ReadPoints
  <2>4. Labelled(op') /\ Graphed(op')
    BY <2>1, <2>2 DEF Control, Labelled, Graphed, Fresh
  <2> QED
    BY <2>3, <2>4
<1> QED
  BY <1>1, <1>2, <1>3, <1>4

\* The card a brief is about is decided first.
LEMMA GateTells ==
  ASSUME FiledInv, Tells(op), Gate
  PROVE  Tells(op')
<1> USE DEF Tells
<1> DEFINE e == Find(rd.got, op.q, Sought(op.tool))
           d == Decided(op, e)
           opened == [d EXCEPT !.shown = {Content(e)}, !.about = e.card.id]
<1>1. /\ op.tool \in Gated /\ e # None /\ op.at = "find"
      /\ op' = CASE ~Opens(op.tool, e) -> Answer(d, "blocked")
                 [] Opens(op.tool, e) /\ op.tool = "event_brief" ->
                      NextTarget([opened EXCEPT !.names = e.card.targets])
                 [] OTHER -> [opened EXCEPT !.at = "list"]
  BY DEF Gate, Use
<1>2. e.path \in Path /\ e.card \in CardsAt[e.path] /\ e.card.type = Sought(op.tool)
  BY <1>1, FindReturns DEF FiledInv, Filed
<1> HIDE DEF e
<1>3. /\ Shaped(d) /\ d.log = {[entry |-> e, effect |-> Effect(e)]}
      /\ d.at = "find" /\ d.tool = op.tool /\ d.part = op.tool /\ d.shown = {}
      /\ d.held = FALSE /\ d.missing = FALSE
  BY <1>1, DecidedFields DEF Control, Fresh
<1> HIDE DEF d
<1>4. CASE ~Opens(op.tool, e)
  <2>1. /\ Shaped(op') /\ op'.at = "answered" /\ op'.access = "blocked" /\ op'.tool = op.tool
        /\ op'.shown = {} /\ op'.held = FALSE /\ op'.missing = FALSE
    BY <1>1, <1>3, <1>4, AnswerFields
  <2>2. Control(op') /\ Labelled(op')
    BY <2>1 DEF Control, Labelled, ReadPoints
  <2>3. Graphed(op')
    BY <2>1, SoundEmpty DEF Graphed
  <2> QED
    BY <2>2, <2>3
<1>5. CASE Opens(op.tool, e)
  <2>1. Effect(e) = "allow" \/ (Effect(e) = "handle" /\ op.tool = "company_brief")
    BY <1>1, <1>5, OpenedWasDecided
  <2>2. /\ Shaped(opened) /\ opened.log = d.log /\ opened.shown = {Content(e)}
        /\ opened.about = e.card.id /\ opened.tool = op.tool /\ opened.part = op.tool
        /\ opened.held = FALSE /\ opened.missing = FALSE
    BY <1>3 DEF Shaped, Fields
  <2> HIDE DEF opened
  <2>3. CASE op.tool = "event_brief"
    <3> DEFINE n == [opened EXCEPT !.names = e.card.targets]
    <3>1. Shaped(n) /\ n.held = FALSE /\ n.missing = FALSE /\ n.tool = "event_brief"
      BY <2>2, <2>3 DEF Shaped, Fields
    <3>2. op' = NextTarget(n)
      BY <1>1, <1>5, <2>3
    <3> HIDE DEF n
    <3> QED
      BY <3>1, <3>2, TargetTells
  <2>4. CASE op.tool # "event_brief"
    <3>1. op' = [opened EXCEPT !.at = "list"]
      BY <1>1, <1>5, <2>4
    <3>2. /\ Shaped(op') /\ op'.at = "list" /\ op'.log = {[entry |-> e, effect |-> Effect(e)]}
          /\ op'.shown = {Content(e)} /\ op'.about = e.card.id
          /\ op'.tool = op.tool /\ op'.part = op.tool
          /\ op'.held = FALSE /\ op'.missing = FALSE
      BY <1>3, <2>2, <3>1 DEF Shaped, Fields
    <3>3. op.tool \in {"company_brief", "entity_graph"}
      BY <1>1, <2>4 DEF Gated
    <3>4. Control(op')
      BY <3>2, <3>3 DEF Control, ReadPoints, Sections, Listings
    <3>5. Labelled(op')
      <4>1. op.tool = "company_brief" => Briefed(op', e)
        BY <1>2, <3>2 DEF Briefed, Sought
      <4>2. Open(op')
        BY <2>1, <3>2, <4>1 DEF Open
      <4> QED
        BY <3>2, <3>3, <4>2 DEF Labelled
    <3>6. ASSUME op.tool = "entity_graph" PROVE Sound({Content(e)})
      <4>1. e.card.id # Nobody
        BY <1>5, <3>6 DEF Opens
      <4>2. IsFiniteSet({Content(e)}) /\ Cardinality({Content(e)}) = 1
        BY FS_Singleton
      <4> QED
        BY <4>1, <4>2, LimitsAssumption DEF Sound, Content
    <3>7. Complete(op')
      BY <3>2 DEF Complete, Content
    <3>8. Graphed(op')
      BY <3>2, <3>6, <3>7 DEF Graphed
    <3> QED
      BY <3>4, <3>5, <3>8
  <2> QED
    BY <2>3, <2>4
<1> QED
  BY <1>4, <1>5

LEMMA ListTells ==
  ASSUME Tells(op), List
  PROVE  Tells(op')
<1> USE DEF Tells
<1>1. CASE op.part = "call_prep" /\ Listed(rd.got) = {}
  <2>1. op' = Answer(op, "not-found") /\ op.at = "list"
    BY <1>1 DEF List, Use
  <2>2. op.tool = "call_prep" /\ op.shown = {}
    BY <1>1, <2>1 DEF Control, Sections, Listings, Labelled
  <2>3. /\ Shaped(op') /\ op'.at = "answered" /\ op'.access = "not-found"
        /\ op'.tool = "call_prep" /\ op'.shown = {}
        /\ op'.held = op.held /\ op'.missing = op.missing
    BY <2>1, <2>2, AnswerFields DEF Control
  <2> QED
    BY <2>3 DEF Control, Labelled, Graphed, ReadPoints
<1>2. CASE ~(op.part = "call_prep" /\ Listed(rd.got) = {})
  <2>1. op' = [op EXCEPT !.at = "decide", !.todo = Listed(rd.got)] /\ op.at = "list"
    BY <1>2 DEF List, Use
  <2>2. /\ Shaped(op') /\ op'.at = "decide" /\ op'.tool = op.tool /\ op'.part = op.part
        /\ op'.about = op.about /\ op'.log = op.log /\ op'.shown = op.shown
        /\ op'.held = op.held /\ op'.missing = op.missing
    BY <2>1 DEF Control, Shaped, Fields
  <2>a. Open(op') <=> Open(op)
    BY <2>2 DEF Open, Briefed
  <2>3. Control(op') /\ Labelled(op') /\ Graphed(op')
    BY <2>1, <2>2, <2>a DEF Control, Labelled, Graphed, Complete, ReadPoints
  <2> QED
    BY <2>3
<1> QED
  BY <1>1, <1>2

\* A graph with a card more is as good as before.
LEMMA SoundAdd ==
  ASSUME NEW shown, Sound(shown), NEW e, e.card.id # Nobody,
         \A s \in shown : s.entry.card.id # e.card.id, Cardinality(shown) < MaxEvidence
  PROVE  Sound(shown \cup {Content(e)})
<1>1. \A s, t \in shown \cup {Content(e)} :
        /\ s.entry.card.id # Nobody
        /\ s.entry.card.id = t.entry.card.id => s = t
  BY DEF Sound, Content
<1>2. IsFiniteSet(shown \cup {Content(e)})
      /\ Cardinality(shown \cup {Content(e)}) \in {Cardinality(shown), Cardinality(shown) + 1}
  BY FS_AddElement, FS_CardinalityType DEF Sound
<1>3. Cardinality(shown) \in Nat
  BY FS_CardinalityType DEF Sound
<1> QED
  BY <1>1, <1>2, <1>3, LimitsAssumption DEF Sound

LEMMA DecideTells ==
  ASSUME Tells(op), Decide
  PROVE  Tells(op')
<1> USE DEF Tells
<1> DEFINE e == FirstEntry(op.todo)
           lead == op.part = "lead_priority" /\ Effect(e) = "allow"
<1>1. /\ op.at = "decide" /\ Shaped(op')
      /\ op'.log = op.log \cup {[entry |-> e, effect |-> Effect(e)]}
      /\ op'.shown = op.shown \cup Emitted(e)
      /\ op'.held = (op.held \/ Effect(e) # "allow")
      /\ op'.missing = (op.missing \/ (Effect(e) = "allow" /\ Emitted(e) = {}))
      /\ op'.tool = op.tool /\ op'.part = op.part
      /\ op'.at = (IF lead THEN "link" ELSE "decide")
      /\ op'.about = (IF lead THEN e.card.company ELSE op.about)
  <2> DEFINE d == Decided(op, e)
  <2>1. /\ op.at = "decide"
        /\ op' = [d EXCEPT
                 !.todo = IF Satisfied(e) THEN {} ELSE @ \ {e},
                 !.shown = @ \cup Emitted(e),
                 !.held = @ \/ Effect(e) # "allow",
                 !.missing = @ \/ (Effect(e) = "allow" /\ Emitted(e) = {}),
                 !.names = IF op.part = "dashboard" /\ Effect(e) = "allow"
                           THEN Append(@, e.card.id) ELSE @,
                 !.at = IF lead THEN "link" ELSE @,
                 !.about = IF lead THEN e.card.company ELSE @]
    BY DEF Decide
  <2>2. /\ Shaped(d) /\ d.log = op.log \cup {[entry |-> e, effect |-> Effect(e)]}
        /\ d.at = op.at /\ d.tool = op.tool /\ d.part = op.part /\ d.about = op.about
        /\ d.shown = op.shown /\ d.held = op.held /\ d.missing = op.missing
    BY DecidedFields DEF Control
  <2> HIDE DEF d, e, lead
  <2> QED
    BY <2>1, <2>2 DEF Shaped, Fields
<1> HIDE DEF e
<1>2. op.part \in Sections(op.tool)
  BY <1>1 DEF Control
<1>3. Control(op')
  <2>1. op'.held \in BOOLEAN /\ op'.missing \in BOOLEAN
    BY <1>1
  <2>2. CASE lead
    <3>1. op.tool \in {"lead_priority", "my_day"}
      BY <1>2, <2>2 DEF Sections, Listings
    <3> QED
      BY <1>1, <2>1, <2>2, <3>1 DEF Control, ReadPoints
  <2>3. CASE ~lead
    BY <1>1, <1>2, <2>1, <2>3 DEF Control, ReadPoints
  <2> QED
    BY <2>2, <2>3
<1>4. CASE op.tool \in {"company_brief", "entity_graph"}
  <2>1. ~lead /\ op.part = op.tool
    BY <1>2, <1>4 DEF Sections, Listings
  <2>2. Labelled(op')
    <3> DEFINE d1 == [entry |-> e, effect |-> Effect(e)]
    <3>1. IF op.held THEN \E d \in op.log : d.effect # "allow" ELSE Open(op)
      BY <1>1, <1>4 DEF Labelled
    <3>2. op'.held <=> (op.held \/ Effect(e) # "allow")
      BY <1>1
    <3>3. op'.log = op.log \cup {d1} /\ d1.effect = Effect(e)
      BY <1>1
    <3> HIDE DEF d1
    <3>4. op'.at = "decide" /\ op'.tool # "call_prep"
          /\ op'.tool = op.tool /\ op'.about = op.about
      BY <1>1, <1>4, <2>1
    <3>5. op'.held => \E d \in op'.log : d.effect # "allow"
      BY <3>1, <3>2, <3>3
    <3>6. ~op'.held => Open(op')
      <4>1. SUFFICES ASSUME ~op'.held PROVE Open(op')
        OBVIOUS
      <4>2. Open(op) /\ d1.effect = "allow"
        BY <3>1, <3>2, <3>3, <4>1
      <4>3. \A x : Briefed(op', x) <=> Briefed(op, x)
        BY <3>4 DEF Briefed
      <4> QED
        BY <3>3, <4>2, <4>3 DEF Open
    <3> QED
      BY <3>4, <3>5, <3>6 DEF Labelled
  <2>3. ASSUME op.tool = "entity_graph" PROVE Sound(op'.shown) /\ Complete(op')
    <3>1. Sound(op.shown) /\ Complete(op)
      BY <1>1, <2>3 DEF Graphed
    <3>2. \/ Emitted(e) = {} /\ op'.shown = op.shown
             /\ (Effect(e) = "allow" => op'.missing = TRUE)
          \/ Emitted(e) = {Content(e)} /\ Projects(e)
      BY <1>1, <2>1, <2>3 DEF Emitted
    <3>3. Sound(op'.shown)
      BY <1>1, <3>1, <3>2, SoundAdd DEF Projects
    <3>4. Complete(op')
      <4>1. \E s \in op'.shown : s.entry.card.id = op'.about
        BY <1>1, <2>1, <3>1 DEF Complete
      <4>2. op.missing = TRUE => op'.missing = TRUE
        BY <1>1 DEF Control
      <4>3. \A d \in op.log :
              d.effect = "allow" => Content(d.entry) \in op'.shown \/ op'.missing = TRUE
        BY <1>1, <3>1, <4>2 DEF Complete
      <4>4. Effect(e) = "allow" => Content(e) \in op'.shown \/ op'.missing = TRUE
        BY <1>1, <3>2
      <4> QED
        BY <1>1, <4>1, <4>3, <4>4 DEF Complete
    <3> QED
      BY <3>3, <3>4
  <2>4. Graphed(op')
    BY <1>1, <2>1, <2>3 DEF Graphed
  <2> QED
    BY <1>3, <2>2, <2>4
<1>5. CASE op.tool \notin {"company_brief", "entity_graph"}
  BY <1>1, <1>3, <1>5 DEF Labelled, Graphed
<1> QED
  BY <1>4, <1>5

LEMMA LinkTells ==
  ASSUME Tells(op), Link
  PROVE  Tells(op')
<1> USE DEF Tells
<1> DEFINE deals == RelatedByType(rd.got, op.about, "deal")
           e == FirstEntry(deals)
           shows == Effect(e) = "allow" /\ e.card.telling
           after == IF deals = {} THEN op
                    ELSE [Decided(op, e) EXCEPT
                            !.shown = IF shows THEN @ \cup {Content(e)} ELSE @]
<1>1. /\ op.at = "link"
      /\ op' = CASE op.part = "lead_priority" -> [after EXCEPT !.at = "decide"]
              [] op.part # "lead_priority" /\ deals # {} /\ ~shows ->
                   [after EXCEPT !.at = "list", !.part = "signal"]
              [] OTHER -> NextTarget(after)
  BY DEF Link, Use
<1> HIDE DEF deals, e
<1>2. /\ Shaped(after) /\ after.tool = op.tool /\ after.part = op.part
      /\ after.held = op.held /\ after.missing = op.missing
  BY DecidedFields DEF Control, Shaped, Fields
<1> HIDE DEF after, shows
<1>3. CASE op.part = "lead_priority"
  <2>1. /\ Shaped(op') /\ op'.at = "decide" /\ op'.tool = op.tool /\ op'.part = "lead_priority"
        /\ op'.held = op.held /\ op'.missing = op.missing
    BY <1>1, <1>2, <1>3 DEF Shaped, Fields
  <2>2. op.tool \in {"lead_priority", "my_day"}
    BY <1>1, <1>3 DEF Control
  <2>3. Control(op')
    BY <2>1, <2>2 DEF Control, ReadPoints, Sections, Listings
  <2> QED
    BY <2>1, <2>2, <2>3 DEF Labelled, Graphed
<1>4. CASE op.part # "lead_priority" /\ deals # {} /\ ~shows
  <2>1. /\ Shaped(op') /\ op'.at = "list" /\ op'.tool = op.tool /\ op'.part = "signal"
        /\ op'.held = op.held /\ op'.missing = op.missing
    BY <1>1, <1>2, <1>4 DEF Shaped, Fields
  <2>2. op.tool = "event_brief"
    BY <1>1, <1>4 DEF Control
  <2>3. Control(op')
    BY <2>1, <2>2 DEF Control, ReadPoints, Sections, Listings
  <2> QED
    BY <2>1, <2>2, <2>3 DEF Labelled, Graphed
<1>5. CASE op.part # "lead_priority" /\ ~(deals # {} /\ ~shows)
  <2>1. op.tool = "event_brief" /\ op' = NextTarget(after)
    BY <1>1, <1>5 DEF Control
  <2> QED
    BY <1>2, <2>1, TargetTells DEF Control
<1> QED
  BY <1>3, <1>4, <1>5

LEMMA TargetStepTells ==
  ASSUME Tells(op), Target
  PROVE  Tells(op')
<1> USE DEF Tells
<1> DEFINE e == Find(rd.got, Head(op.names), "company")
           rest == [op EXCEPT !.names = Tail(@)]
<1>1. /\ op.at = "target"
      /\ op' = IF e = None THEN NextTarget(rest)
               ELSE [rest EXCEPT !.at = "link", !.about = e.card.id]
  BY DEF Target, Use
<1> HIDE DEF e
<1>2. /\ Shaped(rest) /\ rest.tool = "event_brief" /\ rest.part = op.part
      /\ rest.held = op.held /\ rest.missing = op.missing
  BY <1>1 DEF Control, Shaped, Fields
<1> HIDE DEF rest
<1>3. CASE e = None
  BY <1>1, <1>2, <1>3, TargetTells DEF Control
<1>4. CASE e # None
  <2>1. /\ Shaped(op') /\ op'.at = "link" /\ op'.tool = "event_brief" /\ op'.part = op.part
        /\ op'.held = op.held /\ op'.missing = op.missing
    BY <1>1, <1>2, <1>4 DEF Shaped, Fields
  <2>2. op.part = "event_brief"
    BY <1>1 DEF Control
  <2>3. Control(op')
    BY <2>1, <2>2 DEF Control, ReadPoints
  <2> QED
    BY <2>1, <2>3 DEF Labelled, Graphed
<1> QED
  BY <1>3, <1>4

\* A listing ends.
LEMMA EndTells ==
  ASSUME Tells(op), NextAccount \/ LeadsDone \/ DealsDone \/ SignalDone \/ Finish
  PROVE  Tells(op')
<1> USE DEF Tells
<1>1. op.at = "decide" /\ op.part \in Sections(op.tool) /\ Control(op)
  BY DEF NextAccount, LeadsDone, DealsDone, SignalDone, Finish, EndOf, Control
<1>2. CASE NextAccount
  <2>1. op.tool = "dashboard"
    BY <1>1, <1>2 DEF NextAccount, EndOf, Sections, Listings
  <2>2. CASE op.names = <<>>
    BY <1>2, <2>1, <2>2, PlainTells DEF NextAccount, Control
  <2>3. CASE op.names # <<>>
    <3>1. op' = [op EXCEPT !.at = "list", !.part = "account",
                           !.about = Head(op.names), !.names = Tail(@)]
      BY <1>2, <2>3 DEF NextAccount
    <3>2. /\ Shaped(op') /\ op'.at = "list" /\ op'.part = "account" /\ op'.tool = "dashboard"
          /\ op'.held = op.held /\ op'.missing = op.missing
      BY <2>1, <3>1 DEF Control, Shaped, Fields
    <3>3. Control(op')
      BY <3>2 DEF Control, Sections, Listings, ReadPoints
    <3> QED
      BY <3>2, <3>3 DEF Labelled, Graphed
  <2> QED
    BY <2>2, <2>3
<1>3. CASE LeadsDone
  <2>1. op.tool \in {"lead_priority", "my_day"}
    BY <1>1, <1>3 DEF LeadsDone, EndOf, Sections, Listings
  <2>2. CASE op.tool = "lead_priority"
    BY <1>3, <2>2, PlainTells DEF LeadsDone, Control
  <2>3. CASE op.tool = "my_day"
    <3>1. op' = [op EXCEPT !.at = "list", !.part = "deal_risk", !.about = None]
      BY <1>3, <2>3 DEF LeadsDone
    <3>2. /\ Shaped(op') /\ op'.at = "list" /\ op'.part = "deal_risk" /\ op'.tool = "my_day"
          /\ op'.held = op.held /\ op'.missing = op.missing
      BY <2>3, <3>1 DEF Control, Shaped, Fields
    <3>3. Control(op')
      BY <3>2 DEF Control, Sections, Listings, ReadPoints
    <3> QED
      BY <3>2, <3>3 DEF Labelled, Graphed
  <2> QED
    BY <2>1, <2>2, <2>3
<1>4. CASE DealsDone
  <2>1. op.tool \in {"deal_risk", "my_day", "pipeline_risk_digest"}
    BY <1>1, <1>4 DEF DealsDone, EndOf, Sections, Listings
  <2>2. CASE op.tool = "pipeline_risk_digest"
    <3>1. op' = [op EXCEPT !.at = "metrics"]
      BY <1>4, <2>2 DEF DealsDone
    <3>2. /\ Shaped(op') /\ op'.at = "metrics" /\ op'.tool = "pipeline_risk_digest"
          /\ op'.held = op.held /\ op'.missing = op.missing
      BY <2>2, <3>1 DEF Control, Shaped, Fields
    <3>3. Control(op')
      BY <3>2 DEF Control, ReadPoints
    <3> QED
      BY <3>2, <3>3 DEF Labelled, Graphed
  <2>3. CASE op.tool = "my_day"
    BY <1>4, <2>3, PlainTells DEF DealsDone, Control
  <2>4. CASE op.tool = "deal_risk"
    <3>1. op' = Answer(op, EndAccess(op))
      BY <1>4, <2>4 DEF DealsDone
    <3>2. /\ Shaped(op') /\ op'.at = "answered" /\ op'.access = EndAccess(op)
          /\ op'.tool = "deal_risk" /\ op'.shown = op.shown
          /\ op'.held = op.held /\ op'.missing = op.missing
      BY <2>4, <3>1, AnswerFields DEF Control
    <3>3. EndAccess(op) = "allowed" <=> op.shown # {}
      BY <2>4 DEF EndAccess
    <3>4. EndAccess(op) \in {"allowed", "aggregated", "blocked"}
      BY <2>4 DEF EndAccess
    <3>5. Control(op')
      BY <3>2 DEF Control, ReadPoints
    <3> QED
      BY <3>2, <3>3, <3>4, <3>5 DEF Labelled, Graphed
  <2> QED
    BY <2>1, <2>2, <2>3, <2>4
<1>5. CASE SignalDone
  <2>1. op.tool = "event_brief"
    BY <1>1, <1>5 DEF SignalDone, EndOf, Sections, Listings
  <2> QED
    BY <1>5, <2>1, TargetTells DEF SignalDone, Control
<1>6. CASE Finish
  <2>1. op.tool \in {"company_search", "company_brief", "entity_graph",
                     "content_opportunities", "call_prep"}
    BY <1>1, <1>6 DEF Finish, EndOf, Sections, Listings
  <2>2. op' = Answer(op, EndAccess(op))
    BY <1>6 DEF Finish
  <2>3. /\ Shaped(op') /\ op'.at = "answered" /\ op'.access = EndAccess(op)
        /\ op'.tool = op.tool /\ op'.shown = op.shown /\ op'.log = op.log
        /\ op'.about = op.about /\ op'.held = op.held /\ op'.missing = op.missing
    BY <2>2, AnswerFields DEF Control
  <2>4. Control(op')
    BY <2>3 DEF Control, ReadPoints
  <2>5. CASE op.tool \in {"company_search", "content_opportunities"}
    BY <2>2, <2>5, PlainTells DEF EndAccess, Control
  <2>6. CASE op.tool = "call_prep"
    BY <2>3, <2>4, <2>6 DEF EndAccess, Labelled, Graphed
  <2>7. CASE op.tool \in {"company_brief", "entity_graph"}
    <3>1. EndAccess(op) = IF op.held THEN "sanitized" ELSE "allowed"
      BY <2>7 DEF EndAccess
    <3>2. IF op.held THEN \E d \in op.log : d.effect # "allow" ELSE Open(op)
      BY <1>1, <2>7 DEF Labelled
    <3>a. Open(op') <=> Open(op)
      BY <2>3 DEF Open, Briefed
    <3>3. Labelled(op')
      BY <2>3, <2>7, <3>1, <3>2, <3>a DEF Labelled
    <3>4. Graphed(op')
      BY <1>1, <2>3 DEF Graphed, Complete
    <3> QED
      BY <2>4, <3>3, <3>4
  <2> QED
    BY <2>1, <2>5, <2>6, <2>7
<1> QED
  BY <1>2, <1>3, <1>4, <1>5, <1>6

LEMMA MetricsTells ==
  ASSUME Tells(op), Metrics
  PROVE  Tells(op')
<1> DEFINE rolled == {e \in OfType(rd.got, "deal") : Effect(e) = "allow"}
           o == [op EXCEPT !.rolled = rolled]
<1>1. op' = Answer(o, IF rolled # {} THEN "allowed" ELSE "aggregated") /\ op.at = "metrics"
  BY DEF Metrics, Use
<1> HIDE DEF rolled
<1>2. /\ Shaped(o) /\ o.tool = "pipeline_risk_digest"
      /\ o.held \in BOOLEAN /\ o.missing \in BOOLEAN
  BY <1>1 DEF Tells, Control, Shaped, Fields
<1> HIDE DEF o
<1> QED
  BY <1>1, <1>2, PlainTells

LEMMA RaiseTells ==
  ASSUME Tells(op), Raise
  PROVE  Tells(op')
<1> DEFINE o == [op EXCEPT !.shown = {}]
<1>1. op' = Answer(o, "error")
  BY DEF Raise
<1>2. Shaped(o) /\ o.shown = {} /\ o.held = op.held /\ o.missing = op.missing
  BY DEF Tells, Control, Shaped, Fields
<1> HIDE DEF o
<1>3. /\ Shaped(op') /\ op'.at = "answered" /\ op'.access = "error" /\ op'.shown = {}
      /\ op'.held = op.held /\ op'.missing = op.missing
  BY <1>1, <1>2, AnswerFields
<1>4. Control(op')
  BY <1>3 DEF Tells, Control, ReadPoints
<1>5. Labelled(op')
  BY <1>3 DEF Labelled
<1>6. Graphed(op')
  BY <1>3, SoundEmpty DEF Graphed
<1> QED
  BY <1>4, <1>5, <1>6 DEF Tells

LEMMA AskTells ==
  ASSUME NEW tool, NEW q, Ask(tool, q),
         \/ tool \in OverAll /\ q = None
         \/ tool \in OverOne /\ q \in Queries
  PROVE  Tells(op')
<1>1. /\ Shaped(op') /\ Fresh(op') /\ op'.tool = tool
      /\ op'.part = (CASE tool = "my_day" -> "lead_priority"
                       [] tool = "pipeline_risk_digest" -> "deal_risk"
                       [] OTHER -> tool)
      /\ op'.at = (CASE q = None \/ tool = "company_search" -> "list"
                     [] tool = "entity_graph" -> "candidates"
                     [] OTHER -> "find")
  BY DEF Ask, Begin, NoCall, Shaped, Fields, Fresh
<1>2. CASE tool \in OverAll /\ q = None
  <2>1. op'.at = "list" /\ op'.part \in Sections(tool)
    BY <1>1, <1>2 DEF OverAll, Sections, Listings
  <2>2. tool \notin {"company_brief", "entity_graph", "call_prep"}
    BY <1>2 DEF OverAll
  <2>3. Control(op')
    BY <1>1, <2>1 DEF Control, Fresh, ReadPoints
  <2> QED
    BY <1>1, <2>1, <2>2, <2>3 DEF Tells, Labelled, Graphed
<1>3. CASE tool \in OverOne /\ q \in Queries
  <2>1. q # None
    BY <1>3, QueriesAssumption
  <2>2. op'.part = tool
    BY <1>1, <1>3 DEF OverOne
  <2>3. \/ tool = "company_search" /\ op'.at = "list" /\ op'.part \in Sections(tool)
        \/ tool = "entity_graph" /\ op'.at = "candidates"
        \/ tool \notin {"company_search", "entity_graph"} /\ op'.at = "find"
    BY <1>1, <2>1, <2>2 DEF Sections, Listings
  <2>4. Control(op')
    BY <1>1, <1>3, <2>2, <2>3 DEF Control, Fresh, ReadPoints
  <2> QED
    BY <1>1, <2>3, <2>4 DEF Tells, Labelled, Graphed
<1> QED
  BY <1>2, <1>3

LEMMA TellsNext == FiledInv /\ Tells(op) /\ [Next]_vars => Tells(op')
<1> SUFFICES ASSUME FiledInv, Tells(op), [Next]_vars PROVE Tells(op')
  OBVIOUS
<1>1. CASE Serve
  BY <1>1, ResolvingTells, GateTells, ListTells, DecideTells, LinkTells, TargetStepTells,
     EndTells, MetricsTells, RaiseTells DEF Serve
<1>2. ASSUME NEW tool, NEW q, Ask(tool, q),
             \/ tool \in OverAll /\ q = None
             \/ tool \in OverOne /\ q \in Queries
      PROVE  Tells(op')
  BY <1>2, AskTells
<1>3. ASSUME NEW entries, Noticed(entries) PROVE Tells(op')
  <2>1. CASE op' = op
    BY <2>1
  <2>2. CASE op' # op
    <3>1. /\ Shaped(op') /\ op'.at = op.at /\ op'.tool = op.tool /\ op'.part = op.part
          /\ op'.about = op.about /\ op'.access = op.access /\ op'.log = op.log
          /\ op'.shown = op.shown /\ op'.held = op.held /\ op'.missing = op.missing
      BY <1>3, <2>2 DEF Noticed, Tells, Control, Shaped, Fields
    <3>2. Control(op')
      BY <3>1 DEF Tells, Control, Fresh
    <3>a. Open(op') <=> Open(op)
      BY <3>1 DEF Open, Briefed
    <3>3. Labelled(op')
      BY <3>1, <3>a DEF Tells, Labelled
    <3>4. Graphed(op')
      BY <3>1 DEF Tells, Graphed, Complete
    <3> QED
      BY <3>2, <3>3, <3>4 DEF Tells
  <2> QED
    BY <2>1, <2>2
<1>4. CASE UNCHANGED op
  BY <1>4
<1> QED
  BY <1>1, <1>2, <1>3, <1>4 DEF Next, Edit, MoveGrant, Read, vars, facadeVars

LEMMA InvariantTells == Spec => [](CacheInv /\ FiledInv /\ Tells(op))
<1> DEFINE All == CacheInv /\ FiledInv /\ Tells(op)
<1>1. Init => Tells(op)
  BY DEF Init, NoCall, Tells, Control, Labelled, Graphed, Shaped, Fields, ReadPoints
<1>2. Init => All
  BY CacheInit, FiledInit, <1>1
<1>3. All /\ [Next]_vars => All'
  BY CacheNext, FiledNext, TellsNext
<1> HIDE DEF All
<1>4. Spec => []All
  BY <1>2, <1>3, PTL DEF Spec
<1> QED
  BY <1>4 DEF All

\* An answer's access label tells the truth about the answer, whatever changed while
\* it was put together; a company that a brief shows on a handle counts as shown, not
\* as withheld (service.py:220, 265, 303, 337; graph.py:205).
THEOREM LabelsAreHonest == Spec => []LabelIsHonest
<1>1. Tells(op) => LabelIsHonest
  BY DEF Tells, Labelled, Open, LabelIsHonest
<1> QED
  BY InvariantTells, <1>1, PTL

\* A graph passes its own validation and announces what it leaves out, for every
\* evidence limit and every vault (graph.py:160-197, 448-490).
THEOREM GraphsStandUp == Spec => []GraphStandsUp
<1>1. Tells(op) => GraphStandsUp
  BY DEF Tells, Control, Graphed, Sound, Complete, GraphStandsUp
<1> QED
  BY InvariantTells, <1>1, PTL

--------------------------------------------------------------------------------
(***************************************************************************)
(* Answers rest on recorded decisions.                                     *)
(***************************************************************************)
\* A call whose shown cards are all decided as they are shown.
OnRecord(o, s) ==
  \E effect \in Grounds(o, s) : [entry |-> s.entry, effect |-> effect] \in o.log

Backed(o) == Shaped(o) /\ \A s \in o.shown : OnRecord(o, s)

\* What shows nothing new, forgets nothing and is about the same card.
LEMMA BackedStays ==
  ASSUME NEW o, Backed(o), NEW n, Shaped(n), n.tool = o.tool,
         n.shown \subseteq o.shown, o.log \subseteq n.log,
         o.tool = "company_brief" => n.about = o.about
  PROVE  Backed(n)
<1>1. ASSUME NEW s \in n.shown PROVE OnRecord(n, s)
  <2>1. OnRecord(o, s)
    BY DEF Backed
  <2>2. Briefed(n, s.entry) <=> Briefed(o, s.entry)
    BY DEF Briefed
  <2>3. Grounds(n, s) = Grounds(o, s)
    BY <2>2 DEF Grounds
  <2> QED
    BY <2>1, <2>3 DEF OnRecord
<1> QED
  BY <1>1 DEF Backed

\* What a decision adds to an answer is what it decided.
LEMMA EmittedIsDecided ==
  ASSUME NEW e, NEW s \in Emitted(e)
  PROVE  /\ s.entry = e /\ s.form \in {"content", "handle"}
         /\ Effect(e) = IF s.form = "content" THEN "allow" ELSE "handle"
BY DEF Emitted, Content, Handle

\* A card more, on its own decision.
LEMMA BackedAdds ==
  ASSUME NEW o, Backed(o), NEW n, Shaped(n), n.tool = o.tool,
         o.tool = "company_brief" => n.about = o.about,
         NEW e, n.log = o.log \cup {[entry |-> e, effect |-> Effect(e)]},
         n.shown \subseteq o.shown \cup Emitted(e)
  PROVE  Backed(n)
<1> DEFINE d == [entry |-> e, effect |-> Effect(e)]
<1>1. ASSUME NEW s \in n.shown PROVE OnRecord(n, s)
  <2>1. CASE s \in o.shown
    <3>1. OnRecord(o, s)
      BY <2>1 DEF Backed
    <3>2. Briefed(n, s.entry) <=> Briefed(o, s.entry)
      BY DEF Briefed
    <3>3. Grounds(n, s) = Grounds(o, s)
      BY <3>2 DEF Grounds
    <3> QED
      BY <3>1, <3>3 DEF OnRecord
  <2>2. CASE s \in Emitted(e)
    <3>1. s.entry = e /\ Effect(e) = (IF s.form = "content" THEN "allow" ELSE "handle")
          /\ s.form \in {"content", "handle"}
      BY <2>2, EmittedIsDecided
    <3>2. Effect(e) \in Grounds(n, s)
      BY <3>1 DEF Grounds
    <3> QED
      BY <3>1, <3>2 DEF OnRecord
  <2> QED
    BY <2>1, <2>2
<1> QED
  BY <1>1 DEF Backed

LEMMA BackedAnswer ==
  ASSUME NEW o, Backed(o), NEW access PROVE Backed(Answer(o, access))
BY BackedStays, AnswerFields DEF Backed

LEMMA BackedTarget ==
  ASSUME NEW o, Backed(o), o.tool = "event_brief" PROVE Backed(NextTarget(o))
<1>1. CASE o.names = <<>>
  BY <1>1, BackedAnswer DEF NextTarget
<1>2. CASE o.names # <<>>
  <2> DEFINE n == [o EXCEPT !.at = "target", !.part = "event_brief"]
  <2>1. Shaped(n) /\ n.tool = o.tool /\ n.shown = o.shown /\ n.log = o.log
    BY DEF Backed, Shaped, Fields
  <2>2. NextTarget(o) = n
    BY <1>2 DEF NextTarget
  <2> HIDE DEF n
  <2> QED
    BY <2>1, <2>2, BackedStays
<1> QED
  BY <1>1, <1>2

LEMMA BackedGate == Tells(op) /\ Backed(op) /\ Gate => Backed(op')
<1> SUFFICES ASSUME Tells(op), Backed(op), Gate PROVE Backed(op')
  OBVIOUS
<1> DEFINE e == Find(rd.got, op.q, Sought(op.tool))
           d == Decided(op, e)
           opened == [d EXCEPT !.shown = {Content(e)}, !.about = e.card.id]
<1>1. /\ op.tool \in Gated /\ e # None /\ op.at = "find"
      /\ op' = CASE ~Opens(op.tool, e) -> Answer(d, "blocked")
                 [] Opens(op.tool, e) /\ op.tool = "event_brief" ->
                      NextTarget([opened EXCEPT !.names = e.card.targets])
                 [] OTHER -> [opened EXCEPT !.at = "list"]
  BY DEF Gate, Use
<1>2. e.card.type = Sought(op.tool)
  BY <1>1, FindReturns
<1> HIDE DEF e
<1>3. /\ Shaped(d) /\ d.log = op.log \cup {[entry |-> e, effect |-> Effect(e)]}
      /\ d.tool = op.tool /\ d.about = op.about /\ d.shown = {}
  BY <1>1, DecidedFields DEF Tells, Control, Fresh
<1> HIDE DEF d
<1>4. CASE ~Opens(op.tool, e)
  <2>1. Backed(d)
    BY <1>3 DEF Backed
  <2> QED
    BY <1>1, <1>4, <2>1, BackedAnswer
<1>5. CASE Opens(op.tool, e)
  <2>1. /\ Shaped(opened) /\ opened.log = d.log /\ opened.shown = {Content(e)}
        /\ opened.about = e.card.id /\ opened.tool = op.tool
    BY <1>3 DEF Shaped, Fields
  <2> HIDE DEF opened
  <2>2. Effect(e) = "allow" \/ (Effect(e) = "handle" /\ op.tool = "company_brief")
    BY <1>1, <1>5, OpenedWasDecided
  <2>3. op.tool = "company_brief" => Briefed(opened, e)
    BY <1>2, <2>1 DEF Briefed, Sought
  <2>4. Effect(e) \in Grounds(opened, Content(e))
    BY <2>2, <2>3 DEF Grounds, Content
  <2>5. OnRecord(opened, Content(e))
    BY <1>3, <2>1, <2>4 DEF OnRecord, Content
  <2>6. Backed(opened)
    BY <2>1, <2>5 DEF Backed
  <2>7. CASE op.tool = "event_brief"
    <3> DEFINE n == [opened EXCEPT !.names = e.card.targets]
    <3>1. /\ Shaped(n) /\ n.tool = opened.tool /\ n.shown = opened.shown
          /\ n.log = opened.log /\ n.about = opened.about
      BY <2>1 DEF Shaped, Fields
    <3>2. op' = NextTarget(n)
      BY <1>1, <1>5, <2>7
    <3> HIDE DEF n
    <3>3. Backed(n)
      BY <2>6, <3>1, BackedStays
    <3> QED
      BY <2>1, <2>7, <3>1, <3>2, <3>3, BackedTarget
  <2>8. CASE op.tool # "event_brief"
    <3>1. op' = [opened EXCEPT !.at = "list"]
      BY <1>1, <1>5, <2>8
    <3>2. /\ Shaped(op') /\ op'.tool = opened.tool /\ op'.shown = opened.shown
          /\ op'.log = opened.log /\ op'.about = opened.about
      BY <2>1, <3>1 DEF Shaped, Fields
    <3> QED
      BY <2>6, <3>2, BackedStays
  <2> QED
    BY <2>7, <2>8
<1> QED
  BY <1>4, <1>5

LEMMA BackedDecide == Tells(op) /\ Backed(op) /\ Decide => Backed(op')
<1> SUFFICES ASSUME Tells(op), Backed(op), Decide PROVE Backed(op')
  OBVIOUS
<1> DEFINE e == FirstEntry(op.todo)
           lead == op.part = "lead_priority" /\ Effect(e) = "allow"
<1>1. /\ op.at = "decide" /\ Shaped(op') /\ op'.tool = op.tool
      /\ op'.log = op.log \cup {[entry |-> e, effect |-> Effect(e)]}
      /\ op'.shown = op.shown \cup Emitted(e)
      /\ op'.about = (IF lead THEN e.card.company ELSE op.about)
  <2> DEFINE d == Decided(op, e)
  <2>1. /\ op.at = "decide"
        /\ op' = [d EXCEPT
                 !.todo = IF Satisfied(e) THEN {} ELSE @ \ {e},
                 !.shown = @ \cup Emitted(e),
                 !.held = @ \/ Effect(e) # "allow",
                 !.missing = @ \/ (Effect(e) = "allow" /\ Emitted(e) = {}),
                 !.names = IF op.part = "dashboard" /\ Effect(e) = "allow"
                           THEN Append(@, e.card.id) ELSE @,
                 !.at = IF lead THEN "link" ELSE @,
                 !.about = IF lead THEN e.card.company ELSE @]
    BY DEF Decide
  <2>2. /\ Shaped(d) /\ d.log = op.log \cup {[entry |-> e, effect |-> Effect(e)]}
        /\ d.tool = op.tool /\ d.about = op.about /\ d.shown = op.shown
    BY DecidedFields DEF Tells, Control
  <2> HIDE DEF d, e, lead
  <2> QED
    BY <2>1, <2>2 DEF Shaped, Fields
<1> HIDE DEF e
<1>2. op.tool = "company_brief" => ~lead
  BY <1>1 DEF Tells, Control, Sections, Listings
<1> QED
  BY <1>1, <1>2, BackedAdds

LEMMA BackedLink == Tells(op) /\ Backed(op) /\ Link => Backed(op')
<1> SUFFICES ASSUME Tells(op), Backed(op), Link PROVE Backed(op')
  OBVIOUS
<1> DEFINE deals == RelatedByType(rd.got, op.about, "deal")
           e == FirstEntry(deals)
           shows == Effect(e) = "allow" /\ e.card.telling
           d == Decided(op, e)
           after == IF deals = {} THEN op
                    ELSE [d EXCEPT !.shown = IF shows THEN @ \cup {Content(e)} ELSE @]
<1>1. /\ op.at = "link"
      /\ op' = CASE op.part = "lead_priority" -> [after EXCEPT !.at = "decide"]
              [] op.part # "lead_priority" /\ deals # {} /\ ~shows ->
                   [after EXCEPT !.at = "list", !.part = "signal"]
              [] OTHER -> NextTarget(after)
  BY DEF Link, Use
<1> HIDE DEF deals, e
<1>2. op.tool # "company_brief" /\ (op.part # "lead_priority" => op.tool = "event_brief")
  BY <1>1 DEF Tells, Control
<1>3. Backed(after) /\ after.tool = op.tool
  <2>1. CASE deals = {}
    BY <2>1
  <2>2. CASE deals # {}
    <3>1. /\ Shaped(d) /\ d.tool = op.tool /\ d.shown = op.shown
          /\ d.log = op.log \cup {[entry |-> e, effect |-> Effect(e)]}
      BY DecidedFields DEF Tells, Control
    <3>2. Backed(d)
      BY <1>2, <3>1, BackedAdds
    <3> HIDE DEF d
    <3>3. /\ Shaped(after) /\ after.tool = d.tool /\ after.log = d.log
          /\ after.shown = (IF shows THEN d.shown \cup {Content(e)} ELSE d.shown)
      BY <2>2, <3>1 DEF Shaped, Fields
    <3> HIDE DEF after
    <3>4. ASSUME NEW s \in after.shown PROVE OnRecord(after, s)
      <4>1. CASE s \in d.shown
        BY <1>2, <3>1, <3>2, <3>3, <4>1 DEF Backed, OnRecord, Grounds, Briefed
      <4>2. CASE s \notin d.shown
        <5>1. s = Content(e) /\ Effect(e) = "allow"
          BY <3>3, <4>2
        <5>2. "allow" \in Grounds(after, s)
          BY <5>1 DEF Grounds, Content
        <5> QED
          BY <3>1, <3>3, <5>1, <5>2 DEF OnRecord, Content
      <4> QED
        BY <4>1, <4>2
    <3> QED
      BY <3>1, <3>3, <3>4 DEF Backed
  <2> QED
    BY <2>1, <2>2
<1> HIDE DEF after, shows
<1>4. LET n == [after EXCEPT !.at = "list", !.part = "signal"] IN
        /\ Shaped(n) /\ n.tool = after.tool /\ n.shown = after.shown /\ n.log = after.log
  BY <1>3 DEF Backed, Shaped, Fields
<1>5. LET n == [after EXCEPT !.at = "decide"] IN
        /\ Shaped(n) /\ n.tool = after.tool /\ n.shown = after.shown /\ n.log = after.log
  BY <1>3 DEF Backed, Shaped, Fields
<1>6. CASE op.part = "lead_priority"
  BY <1>1, <1>2, <1>3, <1>5, <1>6, BackedStays
<1>7. CASE op.part # "lead_priority" /\ deals # {} /\ ~shows
  BY <1>1, <1>2, <1>3, <1>4, <1>7, BackedStays
<1>8. CASE op.part # "lead_priority" /\ ~(deals # {} /\ ~shows)
  BY <1>1, <1>2, <1>3, <1>8, BackedTarget
<1> QED
  BY <1>6, <1>7, <1>8

LEMMA BackedTargetStep == Tells(op) /\ Backed(op) /\ Target => Backed(op')
<1> SUFFICES ASSUME Tells(op), Backed(op), Target PROVE Backed(op')
  OBVIOUS
<1> DEFINE e == Find(rd.got, Head(op.names), "company")
           rest == [op EXCEPT !.names = Tail(@)]
<1>1. /\ op.at = "target"
      /\ op' = IF e = None THEN NextTarget(rest)
               ELSE [rest EXCEPT !.at = "link", !.about = e.card.id]
  BY DEF Target, Use
<1> HIDE DEF e
<1>2. /\ Shaped(rest) /\ rest.tool = op.tool /\ op.tool = "event_brief"
      /\ rest.shown = op.shown /\ rest.log = op.log
  BY <1>1 DEF Tells, Control, Shaped, Fields
<1> HIDE DEF rest
<1>3. Backed(rest)
  BY <1>2, BackedStays
<1>4. CASE e = None
  BY <1>1, <1>2, <1>3, <1>4, BackedTarget
<1>5. CASE e # None
  <2>1. /\ Shaped(op') /\ op'.tool = rest.tool /\ op'.shown = rest.shown /\ op'.log = rest.log
    BY <1>1, <1>2, <1>5 DEF Shaped, Fields
  <2> QED
    BY <1>2, <1>3, <2>1, BackedStays
<1> QED
  BY <1>4, <1>5

\* Every other step shows nothing more.
LEMMA BackedOther ==
  ASSUME Tells(op), Backed(op), Serve, ~Gate, ~Decide, ~Link, ~Target
  PROVE  Backed(op')
<1> USE DEF Tells, Control
<1>1. CASE CountCandidates
  <2>1. /\ Shaped(op') /\ op'.tool = op.tool /\ op'.shown = op.shown /\ op'.log = op.log
        /\ op'.about = op.about
    BY <1>1 DEF CountCandidates, Shaped, Fields
  <2> QED
    BY <2>1, BackedStays
<1>2. CASE Unresolved
  <2>1. LET n == [op EXCEPT !.at = "options"] IN
          /\ Shaped(n) /\ n.tool = op.tool /\ n.shown = op.shown /\ n.log = op.log
          /\ n.about = op.about
    BY DEF Shaped, Fields
  <2>2. Backed([op EXCEPT !.at = "options"])
    BY <2>1, BackedStays
  <2> QED
    BY <1>2, <2>2, BackedAnswer DEF Unresolved
<1>3. CASE ListOptions
  BY <1>3, BackedAnswer DEF ListOptions
<1>4. CASE Resolved
  <2>1. /\ Shaped(op') /\ op'.tool = op.tool /\ op'.shown = op.shown /\ op'.log = op.log
        /\ op.tool # "company_brief"
    BY <1>4 DEF Resolved, Gated, Shaped, Fields
  <2> QED
    BY <2>1, BackedStays
<1>5. CASE List
  <2>1. LET n == [op EXCEPT !.at = "decide", !.todo = Listed(rd.got)] IN
          /\ Shaped(n) /\ n.tool = op.tool /\ n.shown = op.shown /\ n.log = op.log
          /\ n.about = op.about
    BY DEF Shaped, Fields
  <2>2. Backed([op EXCEPT !.at = "decide", !.todo = Listed(rd.got)])
    BY <2>1, BackedStays
  <2> QED
    BY <1>5, <2>2, BackedAnswer DEF List
<1>6. CASE NextAccount \/ LeadsDone \/ DealsDone
  <2>1. op.tool # "company_brief"
    BY <1>6 DEF NextAccount, LeadsDone, DealsDone, EndOf, Sections, Listings
  <2>2. \/ \E access : op' = Answer(op, access)
        \/ /\ Shaped(op') /\ op'.tool = op.tool
           /\ op'.shown = op.shown /\ op'.log = op.log
    BY <1>6 DEF NextAccount, LeadsDone, DealsDone, Shaped, Fields
  <2> QED
    BY <2>1, <2>2, BackedAnswer, BackedStays
<1>7. CASE SignalDone
  <2>1. op.tool = "event_brief"
    BY <1>7 DEF SignalDone, EndOf, Sections, Listings
  <2> QED
    BY <1>7, <2>1, BackedTarget DEF SignalDone
<1>8. CASE Finish
  BY <1>8, BackedAnswer DEF Finish
<1>9. CASE Metrics
  <2> DEFINE rolled == {e \in OfType(rd.got, "deal") : Effect(e) = "allow"}
             o == [op EXCEPT !.rolled = rolled]
  <2>1. op' = Answer(o, IF rolled # {} THEN "allowed" ELSE "aggregated")
    BY <1>9 DEF Metrics
  <2> HIDE DEF rolled
  <2>2. /\ Shaped(o) /\ o.tool = op.tool /\ o.shown = op.shown /\ o.log = op.log
        /\ o.about = op.about
    BY DEF Shaped, Fields
  <2> HIDE DEF o
  <2> QED
    BY <2>1, <2>2, BackedStays, BackedAnswer
<1>10. CASE Raise
  <2> DEFINE o == [op EXCEPT !.shown = {}]
  <2>1. op' = Answer(o, "error")
    BY <1>10 DEF Raise
  <2>2. Shaped(o) /\ o.shown = {}
    BY DEF Shaped, Fields
  <2> HIDE DEF o
  <2>3. Backed(o)
    BY <2>2 DEF Backed
  <2> QED
    BY <2>1, <2>3, BackedAnswer
<1> QED
  BY <1>1, <1>2, <1>3, <1>4, <1>5, <1>6, <1>7, <1>8, <1>9, <1>10 DEF Serve

LEMMA BackedNext == Tells(op) /\ Backed(op) /\ [Next]_vars => Backed(op')
<1> SUFFICES ASSUME Tells(op), Backed(op), [Next]_vars PROVE Backed(op')
  OBVIOUS
<1>1. CASE UNCHANGED op
  BY <1>1
<1>2. ASSUME NEW tool, NEW q, Ask(tool, q) PROVE Backed(op')
  BY <1>2 DEF Ask, Begin, NoCall, Backed, Shaped, Fields
<1>3. CASE Serve
  BY <1>3, BackedGate, BackedDecide, BackedLink, BackedTargetStep, BackedOther
<1>4. ASSUME NEW entries, Noticed(entries) PROVE Backed(op')
  <2>1. CASE op' = op
    BY <2>1
  <2>2. CASE op' # op
    <3>1. /\ Shaped(op') /\ op'.tool = op.tool /\ op'.shown = op.shown
          /\ op'.log = op.log /\ op'.about = op.about
      BY <1>4, <2>2 DEF Noticed, Tells, Control, Shaped, Fields
    <3> QED
      BY <3>1, BackedStays
  <2> QED
    BY <2>1, <2>2
<1>5. CASE UNCHANGED vars \/ Read
  BY <1>1, <1>5 DEF vars, facadeVars, Read
<1> QED
  BY <1>2, <1>3, <1>4, <1>5 DEF Next, Edit, MoveGrant

\* Whatever changes under a call, it shows no card but by a decision it took on that
\* very card and put on record: an allow, a handle for what it shows as a handle,
\* or a handle for the company of a company brief (service.py:220, 829-837).
THEOREM AnswersAreOnRecord == Spec => []ShownWasDecided
<1>1. Init => Backed(op)
  BY DEF Init, NoCall, Backed, Shaped, Fields
<1>2. Backed(op) => ShownWasDecided
  BY DEF Backed, OnRecord, ShownWasDecided
<1> DEFINE Told == CacheInv /\ FiledInv /\ Tells(op)
           OnFile == Backed(op)
<1>3. Told /\ OnFile /\ [Next]_vars => OnFile'
  BY BackedNext
<1>4. Spec => []Told
  BY InvariantTells
<1> HIDE DEF Told, OnFile
<1>5. Init => OnFile
  BY <1>1 DEF OnFile
<1>6. OnFile => ShownWasDecided
  BY <1>2 DEF OnFile
<1> QED
  BY <1>3, <1>4, <1>5, <1>6, PTL DEF Spec

--------------------------------------------------------------------------------
(***************************************************************************)
(* What an answer shows was there during the call.                         *)
(***************************************************************************)
LEMMA LeastNatural ==
  ASSUME NEW T \in SUBSET Nat, T # {}
  PROVE  \E x \in T : \A y \in T : x <= y
<1> DEFINE R == {ss \in Nat \X Nat : ss[1] < ss[2]}
<1>1. IsWellFoundedOn(R, Nat)
  BY NatLessThanWellFounded DEF OpToRel
<1> HIDE DEF R
<1>2. PICK x \in T : \A y \in T : ~(<<y, x>> \in R)
  BY <1>1, WFMin
<1>3. \A y \in T : ~(y < x)
  BY <1>2 DEF R
<1> QED
  BY <1>3

LEMMA FirstIsOne ==
  ASSUME NEW paths \in SUBSET Path, paths # {}
  PROVE  First(paths) \in paths
BY LeastNatural, PathAssumption DEF First

LEMMA FirstEntryIsOne ==
  ASSUME NEW entries \in SUBSET Entries, entries # {}
  PROVE  FirstEntry(entries) \in entries
<1> DEFINE T == {e.path : e \in entries}
<1>1. T \in SUBSET Nat /\ T # {}
  BY PathAssumption DEF Entries
<1>2. \E x \in T : \A y \in T : x <= y
  BY <1>1, LeastNatural
<1>3. \E e \in entries : \A f \in entries : e.path <= f.path
  BY <1>2
<1> QED
  BY <1>3 DEF FirstEntry

\* The card was on the disk in the course of the call, or its path was empty.
Seen(e) == e \in op.span \/ Entry(e.path, Absent) \in op.span

\* The walk has found each path it is through with, or found it empty; and where it
\* found what the kept signature says, the cached card is the one on the disk.
WalkSeen ==
  rd.at = "walk" =>
    /\ \A p \in Path :
         p \in rd.left \/ (\E s \in rd.sig : s[1] = p) \/ Entry(p, Absent) \in op.span
    /\ cards # None =>
         \A s \in rd.sig, e \in cards : s \in signature /\ e.path = s[1] => Seen(e)

SpanInv ==
  /\ op.at \notin ReadPoints => rd = NoRead
  /\ Busy => \A p \in Path : Entry(p, disk[p].card) \in op.span
  /\ \A e \in rd.got : Seen(e)
  /\ WalkSeen
  /\ op.todo \subseteq Entries
  /\ \A e \in op.todo : Seen(e)
  /\ \A s \in op.shown : Seen(s.entry)

LEMMA SpanRead ==
  ASSUME CacheInv, SpanInv, Read
  PROVE  SpanInv'
<1> USE DEF CacheInv, SpanInv
<1>1. UNCHANGED <<op, disk>> /\ Busy /\ Reading
  BY DEF Read, facadeVars, Reading, Call, Stat, Hit, Miss, Load, Loaded, Busy, ReadPoints
<1>2. ASSUME \A e \in rd'.got : Seen(e), WalkSeen' PROVE SpanInv'
  BY <1>1, <1>2 DEF Seen, Busy, Read
<1>3. CASE Call
  <2>1. rd' = [NoRead EXCEPT !.at = "walk", !.left = Present]
    BY <1>3 DEF Call
  <2>2. rd'.got = {} /\ rd'.left = Present /\ rd'.sig = {}
    BY <2>1 DEF NoRead
  <2>3. \A p \in Path : p \in Present \/ Entry(p, Absent) \in op.span
    BY <1>1 DEF Present, Entry
  <2> QED
    BY <1>1, <1>2, <2>2, <2>3 DEF WalkSeen
<1>4. CASE Stat
  <2> DEFINE p == First(rd.left)
             sig == IF p \in Present THEN rd.sig \cup {<<p, disk[p].stamp>>} ELSE rd.sig
  <2>1. p \in rd.left /\ p \in Path
    BY <1>4, FirstIsOne DEF Stat, RetrieverType
  <2>2. /\ rd.at = "walk" /\ UNCHANGED <<cards, signature>>
        /\ rd'.at = "walk" /\ rd'.got = rd.got /\ rd'.left = rd.left \ {p} /\ rd'.sig = sig
    <3>1. rd' = [rd EXCEPT !.left = @ \ {p},
                        !.sig = IF p \in Present THEN @ \cup {<<p, disk[p].stamp>>} ELSE @]
      BY <1>4 DEF Stat
    <3> HIDE DEF p
    <3> QED
      BY <1>4, <3>1 DEF Stat, RetrieverType
  <2> HIDE DEF p
  <2>3. ASSUME NEW q \in Path
        PROVE  q \in rd'.left \/ (\E s \in rd'.sig : s[1] = q) \/ Entry(q, Absent) \in op.span
    <3>1. CASE q = p
      <4>1. CASE p \in Present
        <5>1. <<p, disk[p].stamp>> \in rd'.sig
          BY <2>2, <4>1
        <5> QED
          BY <3>1, <5>1
      <4>2. CASE p \notin Present
        BY <1>1, <2>1, <3>1, <4>2 DEF Present, Entry
      <4> QED
        BY <4>1, <4>2
    <3>2. CASE q # p
      BY <2>2, <3>2 DEF WalkSeen
    <3> QED
      BY <3>1, <3>2
  <2>4. ASSUME cards # None, NEW s \in rd'.sig, NEW e \in cards, s \in signature, e.path = s[1]
        PROVE  Seen(e)
    <3>1. CASE s \in rd.sig
      BY <2>2, <2>4, <3>1 DEF WalkSeen
    <3>2. CASE s = <<p, disk[p].stamp>> /\ p \in Present
      <4>1. {x \in cards : x.path = p} = {Entry(p, disk[p].card)}
        BY <2>4, <3>2 DEF Agrees
      <4>2. e = Entry(p, disk[p].card)
        BY <2>4, <3>2, <4>1
      <4> QED
        BY <1>1, <2>1, <4>2 DEF Seen
    <3> QED
      BY <2>2, <2>4, <3>1, <3>2
  <2> QED
    BY <1>1, <1>2, <2>2, <2>3, <2>4 DEF WalkSeen, Seen
<1>5. CASE Hit
  <2>1. /\ rd.at = "walk" /\ rd.left = {} /\ cards # None /\ rd.sig = signature
        /\ rd'.got = cards /\ rd'.at = "done"
    BY <1>5 DEF Hit, RetrieverType
  <2>2. ASSUME NEW e \in cards PROVE Seen(e)
    <3>1. e.path \in Path
      BY <2>1 DEF RetrieverType, Entries
    <3> QED
      BY <2>1, <3>1 DEF WalkSeen, Seen
  <2> QED
    BY <1>2, <2>1, <2>2 DEF WalkSeen
<1>6. CASE Miss
  <2>1. rd'.at = "load" /\ rd'.got = rd.got
    BY <1>6 DEF Miss, RetrieverType
  <2> QED
    BY <1>2, <2>1 DEF WalkSeen
<1>7. CASE Load
  <2> DEFINE p == First(rd.left)
  <2>1. /\ rd'.at # "walk"
        /\ \/ rd'.got = rd.got
           \/ p \in Present /\ rd'.got = rd.got \cup {Entry(p, disk[p].card)}
    <3>1. rd.at = "load" /\ rd' = IF p \in Present
             THEN [rd EXCEPT !.left = @ \ {p}, !.got = @ \cup {Entry(p, disk[p].card)}]
             ELSE [rd EXCEPT !.at = "failed"]
      BY <1>7 DEF Load
    <3> HIDE DEF p
    <3> QED
      BY <3>1 DEF RetrieverType
  <2> HIDE DEF p
  <2>2. \A e \in rd'.got : Seen(e)
    BY <1>1, <2>1 DEF Present, Seen
  <2> QED
    BY <1>2, <2>1, <2>2 DEF WalkSeen
<1>8. CASE Loaded
  <2>1. rd'.at = "done" /\ rd'.got = rd.got
    BY <1>8 DEF Loaded, RetrieverType
  <2> QED
    BY <1>2, <2>1 DEF WalkSeen
<1> QED
  BY <1>1, <1>3, <1>4, <1>5, <1>6, <1>7, <1>8 DEF Reading

\* A step of the facade goes on with the same call, and shows and lists only cards it
\* has read or listed.
TakesFrom(o, n, cardsAtHand) ==
  /\ n.span = o.span /\ n.tool = o.tool /\ n.quiet = o.quiet
  /\ n.todo \subseteq cardsAtHand
  /\ \A s \in n.shown : s \in o.shown \/ s.entry \in cardsAtHand

LEMMA TakesTarget ==
  ASSUME NEW o, NEW n, NEW E, Shaped(n), TakesFrom(o, n, E)
  PROVE  TakesFrom(o, NextTarget(n), E) /\ \A a : TakesFrom(o, Answer(n, a), E)
BY DEF TakesFrom, NextTarget, Answer, Shaped, Fields

\* Nothing is found but in what was read.
LEMMA ListedIsRead ==
  ASSUME CacheInv, op.part \in {"company_search", "company_brief", "account", "entity_graph",
            "deal_risk", "lead_priority", "content_opportunities", "dashboard", "signal",
            "call_prep"}
  PROVE  Listed(rd.got) \subseteq rd.got
<1>1. \A id, type : /\ OfType(rd.got, type) \subseteq rd.got
                    /\ Related(rd.got, id) \subseteq rd.got
                    /\ RelatedByType(rd.got, id, type) \subseteq rd.got
  BY DEF OfType, Related, RelatedByType
<1>2. \A q, type : Candidates(rd.got, q, type) \subseteq rd.got
  BY DEF Candidates, OfType
<1>3. CASE op.part = "call_prep"
  <2> DEFINE calls1 == IF op.about = None THEN OfType(rd.got, "call")
                       ELSE RelatedByType(rd.got, op.about, "call")
  <2>1. calls1 \subseteq rd.got /\ rd.got \subseteq Entries
    BY <1>1 DEF CacheInv, RetrieverType
  <2>2. Listed(rd.got) = IF calls1 = {} THEN {} ELSE {FirstEntry(calls1)}
    BY <1>3 DEF Listed
  <2> HIDE DEF calls1
  <2> QED
    BY <2>1, <2>2, FirstEntryIsOne
<1>4. CASE op.part # "call_prep"
  BY <1>1, <1>2, <1>4 DEF Listed
<1> QED
  BY <1>3, <1>4

LEMMA ServeTakes ==
  ASSUME CacheInv, SpanInv, Tells(op), Serve
  PROVE  /\ Busy /\ rd' = NoRead /\ UNCHANGED disk
         /\ TakesFrom(op, op', op.todo \cup rd.got)
<1> USE DEF SpanInv, CacheInv
<1> DEFINE E == op.todo \cup rd.got
<1>1. Shaped(op) /\ TakesFrom(op, op, E)
  BY DEF Tells, Control, TakesFrom
<1>2. Busy
  BY DEF Serve, Use, EndOf, CountCandidates, Unresolved, ListOptions, Resolved, Gate, List,
         Decide, Link, Target, NextAccount, LeadsDone, DealsDone, SignalDone, Finish, Metrics,
         Raise, Busy, ReadPoints, NoRead
<1>3. UNCHANGED disk /\ rd' = NoRead
  <2>1. UNCHANGED disk /\ (rd' = NoRead \/ (rd' = rd /\ op.at = "decide"))
    BY DEF Serve, Use, EndOf, Step, CountCandidates, Unresolved, ListOptions, Resolved, Gate,
           List, Decide, Link, Target, NextAccount, LeadsDone, DealsDone, SignalDone, Finish,
           Metrics, Raise, retrieverVars
  <2> QED
    BY <2>1 DEF ReadPoints
<1>a. op.todo \subseteq E /\ rd.got \subseteq E
  OBVIOUS
<1> HIDE DEF E
<1>4. ASSUME CountCandidates \/ Resolved PROVE TakesFrom(op, op', E)
  <2>1. PICK at, options, about :
          op' = [op EXCEPT !.at = at, !.options = options]
          \/ op' = [op EXCEPT !.at = at, !.about = about]
    BY <1>4 DEF CountCandidates, Resolved
  <2> QED
    BY <1>1, <2>1 DEF TakesFrom, Shaped, Fields
<1>5. ASSUME Unresolved \/ ListOptions PROVE TakesFrom(op, op', E)
  <2>1. TakesFrom(op, [op EXCEPT !.at = "options"], E)
    BY <1>1 DEF TakesFrom, Shaped, Fields
  <2> QED
    BY <1>1, <1>5, <2>1, TakesTarget DEF Unresolved, ListOptions
<1>6. ASSUME Gate PROVE TakesFrom(op, op', E)
  <2> DEFINE e == Find(rd.got, op.q, Sought(op.tool))
             d == Decided(op, e)
             opened == [d EXCEPT !.shown = {Content(e)}, !.about = e.card.id]
  <2>1. /\ e # None
        /\ op' = CASE ~Opens(op.tool, e) -> Answer(d, "blocked")
                   [] Opens(op.tool, e) /\ op.tool = "event_brief" ->
                        NextTarget([opened EXCEPT !.names = e.card.targets])
                   [] OTHER -> [opened EXCEPT !.at = "list"]
    BY <1>6 DEF Gate
  <2>2. e \in rd.got
    BY <2>1, FindReturns
  <2> HIDE DEF e
  <2>3. Shaped(d) /\ TakesFrom(op, d, E)
    BY <1>1 DEF Decided, TakesFrom, Shaped, Fields
  <2> HIDE DEF d
  <2>4. Shaped(opened) /\ TakesFrom(op, opened, E)
    BY <1>a, <2>2, <2>3 DEF TakesFrom, Content, Shaped, Fields
  <2> HIDE DEF opened
  <2>5. /\ TakesFrom(op, [opened EXCEPT !.at = "list"], E)
        /\ TakesFrom(op, [opened EXCEPT !.names = e.card.targets], E)
        /\ Shaped([opened EXCEPT !.names = e.card.targets])
    BY <2>4 DEF TakesFrom, Shaped, Fields
  <2> QED
    BY <2>1, <2>3, <2>5, TakesTarget
<1>7. ASSUME List PROVE TakesFrom(op, op', E)
  <2>1. Listed(rd.got) \subseteq rd.got
    <3>1. op.part \in Sections(op.tool)
      BY <1>7 DEF List, Use, Tells, Control
    <3>2. op.part \in Listings \cup {"account", "dashboard", "signal"}
      BY <3>1 DEF Sections, Listings
    <3> QED
      BY <3>2, ListedIsRead DEF Listings
  <2>2. TakesFrom(op, [op EXCEPT !.at = "decide", !.todo = Listed(rd.got)], E)
    BY <1>a, <1>1, <2>1 DEF TakesFrom, Shaped, Fields
  <2> QED
    BY <1>1, <1>7, <2>2, TakesTarget DEF List
<1>8. ASSUME Decide PROVE TakesFrom(op, op', E)
  <2> DEFINE e == FirstEntry(op.todo)
             lead == op.part = "lead_priority" /\ Effect(e) = "allow"
             d == Decided(op, e)
  <2>1. e \in op.todo
    BY <1>8, FirstEntryIsOne DEF Decide
  <2>2. op' = [d EXCEPT
                 !.todo = IF Satisfied(e) THEN {} ELSE @ \ {e},
                 !.shown = @ \cup Emitted(e),
                 !.held = @ \/ Effect(e) # "allow",
                 !.missing = @ \/ (Effect(e) = "allow" /\ Emitted(e) = {}),
                 !.names = IF op.part = "dashboard" /\ Effect(e) = "allow"
                           THEN Append(@, e.card.id) ELSE @,
                 !.at = IF lead THEN "link" ELSE @,
                 !.about = IF lead THEN e.card.company ELSE @]
    BY <1>8 DEF Decide
  <2>3. /\ Shaped(d) /\ d.span = op.span /\ d.tool = op.tool /\ d.quiet = op.quiet
        /\ d.todo = op.todo /\ d.shown = op.shown
    BY <1>1 DEF Decided, Shaped, Fields
  <2> HIDE DEF e, d, lead
  <2>4. /\ op'.span = op.span /\ op'.tool = op.tool /\ op'.quiet = op.quiet
        /\ op'.todo \subseteq op.todo
        /\ op'.shown = op.shown \cup Emitted(e)
    BY <2>2, <2>3 DEF Shaped, Fields
  <2> QED
    BY <1>a, <2>1, <2>4, EmittedIsDecided DEF TakesFrom
<1>9. ASSUME Link PROVE TakesFrom(op, op', E)
  <2> DEFINE deals == RelatedByType(rd.got, op.about, "deal")
             e == FirstEntry(deals)
             shows == Effect(e) = "allow" /\ e.card.telling
             after == IF deals = {} THEN op
                      ELSE [Decided(op, e) EXCEPT
                              !.shown = IF shows THEN @ \cup {Content(e)} ELSE @]
  <2>1. op' = CASE op.part = "lead_priority" -> [after EXCEPT !.at = "decide"]
                [] op.part # "lead_priority" /\ deals # {} /\ ~shows ->
                     [after EXCEPT !.at = "list", !.part = "signal"]
                [] OTHER -> NextTarget(after)
    BY <1>9 DEF Link
  <2>2. deals \subseteq rd.got /\ deals \subseteq Entries
    BY DEF RelatedByType, Related, RetrieverType
  <2>3. deals # {} => e \in rd.got
    BY <2>2, FirstEntryIsOne
  <2> HIDE DEF deals, e
  <2>4. Shaped(after) /\ TakesFrom(op, after, E)
    <3>1. CASE deals = {}
      BY <1>1, <3>1
    <3>2. CASE deals # {}
      BY <1>a, <1>1, <2>3, <3>2 DEF Decided, TakesFrom, Content, Shaped, Fields
    <3> QED
      BY <3>1, <3>2
  <2> HIDE DEF after, shows
  <2>5. /\ TakesFrom(op, [after EXCEPT !.at = "decide"], E)
        /\ TakesFrom(op, [after EXCEPT !.at = "list", !.part = "signal"], E)
    BY <2>4 DEF TakesFrom, Shaped, Fields
  <2> QED
    BY <2>1, <2>4, <2>5, TakesTarget
<1>10. ASSUME Target PROVE TakesFrom(op, op', E)
  <2> DEFINE rest == [op EXCEPT !.names = Tail(@)]
  <2>1. Shaped(rest) /\ TakesFrom(op, rest, E)
    BY <1>1 DEF TakesFrom, Shaped, Fields
  <2>2. \A id : TakesFrom(op, [rest EXCEPT !.at = "link", !.about = id], E)
    <3> HIDE DEF rest
    <3> QED
      BY <2>1 DEF TakesFrom, Shaped, Fields
  <2> QED
    BY <1>10, <2>1, <2>2, TakesTarget DEF Target
<1>11. ASSUME NextAccount \/ LeadsDone \/ DealsDone \/ SignalDone \/ Finish PROVE TakesFrom(op, op', E)
  <2>1. /\ TakesFrom(op, [op EXCEPT !.at = "list", !.part = "account",
                                    !.about = Head(op.names), !.names = Tail(@)], E)
        /\ TakesFrom(op, [op EXCEPT !.at = "list", !.part = "deal_risk", !.about = None], E)
        /\ TakesFrom(op, [op EXCEPT !.at = "metrics"], E)
    BY <1>1 DEF TakesFrom, Shaped, Fields
  <2>2. TakesFrom(op, NextTarget(op), E) /\ \A a : TakesFrom(op, Answer(op, a), E)
    BY <1>1, TakesTarget
  <2> QED
    BY <1>11, <2>1, <2>2 DEF NextAccount, LeadsDone, DealsDone, SignalDone, Finish
<1>12. ASSUME Metrics \/ Raise PROVE TakesFrom(op, op', E)
  <2>1. \A rolled : Shaped([op EXCEPT !.rolled = rolled])
                    /\ TakesFrom(op, [op EXCEPT !.rolled = rolled], E)
    BY <1>1 DEF TakesFrom, Shaped, Fields
  <2>2. Shaped([op EXCEPT !.shown = {}]) /\ TakesFrom(op, [op EXCEPT !.shown = {}], E)
    BY <1>1 DEF TakesFrom, Shaped, Fields
  <2> QED
    BY <1>12, <2>1, <2>2, TakesTarget DEF Metrics, Raise
<1>13. TakesFrom(op, op', E)
  BY <1>4, <1>5, <1>6, <1>7, <1>8, <1>9, <1>10, <1>11, <1>12 DEF Serve
<1> QED
  BY <1>2, <1>3, <1>13 DEF E

LEMMA SpanNext == CacheInv /\ Tells(op) /\ SpanInv /\ [Next]_vars => SpanInv'
<1> SUFFICES ASSUME CacheInv, Tells(op), SpanInv, [Next]_vars PROVE SpanInv'
  OBVIOUS
<1>1. CASE Read
  BY <1>1, SpanRead
<1>2. CASE Serve
  <2>1. /\ Busy /\ rd' = NoRead /\ UNCHANGED disk
        /\ TakesFrom(op, op', op.todo \cup rd.got)
    BY <1>2, ServeTakes
  <2>2. op.todo \subseteq Entries /\ rd.got \subseteq Entries
    BY DEF CacheInv, RetrieverType, SpanInv
  <2>3. \A e \in op.todo \cup rd.got : Seen(e)
    BY DEF SpanInv
  <2>4. op'.span = op.span /\ op'.todo \subseteq Entries
    BY <2>1, <2>2 DEF TakesFrom
  <2>5. (\A e \in op'.todo : Seen(e)) /\ (\A s \in op'.shown : Seen(s.entry))
    BY <2>1, <2>3 DEF TakesFrom, SpanInv
  <2> QED
    BY <2>1, <2>4, <2>5 DEF SpanInv, Seen, WalkSeen, NoRead
<1>3. ASSUME NEW tool, NEW q, Ask(tool, q) PROVE SpanInv'
  <2>1. rd = NoRead /\ UNCHANGED <<disk, rd>>
    BY <1>3 DEF Ask, retrieverVars, SpanInv, ReadPoints
  <2>2. /\ op'.span = {Entry(p, disk[p].card) : p \in Path}
        /\ op'.todo = {} /\ op'.shown = {}
    BY <1>3 DEF Ask, Begin, NoCall
  <2> QED
    BY <2>1, <2>2 DEF SpanInv, Seen, WalkSeen, NoRead
<1>4. ASSUME NEW entries, Noticed(entries), UNCHANGED <<cards, signature, rd>>,
             \A p \in Path : disk'[p] = disk[p] \/ Entry(p, disk'[p].card) \in entries
      PROVE  SpanInv'
  <2>1. CASE Busy
    <3>1. /\ op'.span = op.span \cup entries /\ op'.at = op.at
          /\ op'.todo = op.todo /\ op'.shown = op.shown
      BY <1>4, <2>1 DEF Noticed, Tells, Control, Shaped, Fields
    <3>2. \A e : Seen(e) => Seen(e)'
      BY <3>1 DEF Seen
    <3>3. WalkSeen'
      BY <1>4, <3>1, <3>2 DEF SpanInv, WalkSeen
    <3>4. \A p \in Path : Entry(p, disk'[p].card) \in op'.span
      BY <1>4, <2>1, <3>1 DEF SpanInv
    <3> QED
      BY <1>4, <3>1, <3>2, <3>3, <3>4 DEF SpanInv
  <2>2. CASE ~Busy
    <3>1. op' = op
      BY <1>4, <2>2 DEF Noticed
    <3> QED
      BY <1>4, <2>2, <3>1 DEF SpanInv, Seen, WalkSeen, Busy
  <2> QED
    BY <2>1, <2>2
<1>5. ASSUME NEW p \in Path, Edit(p) PROVE SpanInv'
  <2>1. /\ UNCHANGED <<cards, signature, rd>> /\ \A q \in Path \ {p} : disk'[q] = disk[q]
    BY <1>5 DEF Edit, Write, Delete, CacheInv, RetrieverType
  <2> QED
    BY <1>4, <1>5, <2>1 DEF Edit
<1>6. ASSUME NEW g \in Grants, MoveGrant(g) PROVE SpanInv'
  BY <1>4, <1>6 DEF MoveGrant, retrieverVars
<1>7. CASE UNCHANGED vars
  BY <1>7 DEF vars, retrieverVars, facadeVars, SpanInv, Seen, WalkSeen, Busy
<1> QED
  BY <1>1, <1>2, <1>3, <1>5, <1>6, <1>7 DEF Next

LEMMA InvariantSpan == Spec => []SpanInv
<1>1. Init => SpanInv
  BY DEF Init, RetrieverInit, NoCall, NoRead, SpanInv, Seen, WalkSeen, Busy
<1> QED
  BY InvariantTells, SpanNext, <1>1, PTL DEF Spec

\* A card an answer shows was on the disk at some moment of that very call, or its
\* path was empty then: a cache kept from an earlier call brings nothing back that
\* was overwritten before (retrieval.py:83-92).
THEOREM AnswersAreCurrent == Spec => []ShownIsFromThisCall
<1>1. SpanInv => ShownIsFromThisCall
  BY DEF SpanInv, Seen, ShownIsFromThisCall
<1> QED
  BY InvariantSpan, <1>1, PTL

--------------------------------------------------------------------------------
(***************************************************************************)
(* The figures of the digest.                                              *)
(***************************************************************************)
SigOf(paths) == {<<p, disk[p].stamp>> : p \in paths}
EntriesOf(paths) == {Entry(p, disk[p].card) : p \in paths}

\* The next walk confirms the cache.  (Nothing says that None is not a set of cards
\* itself: the vault is then loaded again, and the cards are still the same.)
Confirmed == signature = SigOf(Present) /\ (cards = None => cards = EntriesOf(Present))

\* While nothing changes, a walk signs the vault as it is, a load reads it as it is,
\* and what a call of cards() returns is the cache it leaves.
QuietRead ==
  Busy /\ op.quiet =>
    /\ rd.at \in {"walk", "load"} => rd.left \subseteq Present
    /\ rd.at = "walk" => rd.sig = SigOf(Present \ rd.left)
    /\ rd.at = "load" => rd.sig = SigOf(Present) /\ rd.got = EntriesOf(Present \ rd.left)
    /\ rd.at = "done" => Confirmed /\ rd.got = cards

\* The cards the digest has yet to decide and those it shows are the deals of a cache
\* the next walk confirms.
DigestInv ==
  op.tool = "pipeline_risk_digest" =>
    /\ op.at = "list" => op.about = None /\ op.shown = {}
    /\ op.at = "metrics" => op.todo = {}
    /\ op.at \in {"decide", "metrics"} /\ op.quiet =>
         /\ Confirmed /\ (rd.at = "load" => cards = None)
         /\ op.todo \subseteq OfType(cards, "deal")
         /\ {s.entry : s \in op.shown}
              = {e \in OfType(cards, "deal") \ op.todo : Effect(e) = "allow"}
    /\ op.at = "answered" /\ op.quiet /\ op.access # "error" =>
         op.rolled = {s.entry : s \in op.shown}

LEMMA QuietReading ==
  ASSUME CacheInv, SpanInv, QuietRead, DigestInv, Read
  PROVE  (QuietRead /\ DigestInv)'
<1>1. UNCHANGED <<op, actor, grants, disk>> /\ Busy /\ Busy' /\ Reading
  BY DEF Read, facadeVars, Reading, Call, Stat, Hit, Miss, Load, Loaded, Busy, ReadPoints
<1>2. /\ Present' = Present /\ \A paths : SigOf(paths)' = SigOf(paths)
      /\ \A paths : EntriesOf(paths)' = EntriesOf(paths)
      /\ \A e : Effect(e)' = Effect(e)
  BY <1>1 DEF SigOf, EntriesOf, Present, Effect, Resource
<1> DEFINE Deciding == op.tool = "pipeline_risk_digest" /\ op.at \in {"decide", "metrics"}
<1>3. ASSUME UNCHANGED <<cards, signature>>,
             op.quiet /\ Deciding /\ rd'.at = "load" => cards = None
      PROVE  DigestInv'
  <2>1. Confirmed' = Confirmed
    BY <1>1, <1>3 DEF Confirmed, SigOf, EntriesOf, Present
  <2> QED
    BY <1>1, <1>2, <1>3, <2>1 DEF DigestInv, OfType
<1>4. ASSUME rd'.at = "walk", rd'.left \subseteq Present, rd'.sig = SigOf(Present \ rd'.left)
      PROVE  QuietRead'
  <2>1. SigOf(Present \ rd.left)' = SigOf(Present \ rd'.left)
    BY <1>1 DEF SigOf, Present
  <2> QED
    BY <1>2, <1>4, <2>1 DEF QuietRead
<1>5. ASSUME rd'.at = "load", rd'.left \subseteq Present, rd'.sig = SigOf(Present),
             rd'.got = EntriesOf(Present \ rd'.left)
      PROVE  QuietRead'
  <2>1. /\ SigOf(Present)' = SigOf(Present)
        /\ EntriesOf(Present \ rd.left)' = EntriesOf(Present \ rd'.left)
    BY <1>1 DEF SigOf, EntriesOf, Present
  <2> QED
    BY <1>2, <1>5, <2>1 DEF QuietRead
<1>6. ASSUME rd'.at = "done", rd'.got = cards', signature' = SigOf(Present),
             cards' = None => cards' = EntriesOf(Present)
      PROVE  QuietRead' /\ Confirmed'
  <2>1. SigOf(Present)' = SigOf(Present) /\ EntriesOf(Present)' = EntriesOf(Present)
    BY <1>1 DEF SigOf, EntriesOf, Present
  <2>2. Confirmed'
    BY <1>6, <2>1 DEF Confirmed
  <2> QED
    BY <1>6, <2>2 DEF QuietRead
<1>7. CASE ~op.quiet
  <2>1. QuietRead'
    BY <1>1, <1>7 DEF QuietRead
  <2> QED
    BY <1>1, <1>7, <2>1 DEF DigestInv
<1>8. CASE op.quiet /\ Call
  <2>1. rd' = [NoRead EXCEPT !.at = "walk", !.left = Present]
        /\ UNCHANGED <<cards, signature>>
    BY <1>8 DEF Call
  <2>2. rd'.at = "walk" /\ rd'.left = Present /\ rd'.sig = {}
    BY <2>1 DEF NoRead
  <2>3. SigOf(Present \ rd'.left) = {}
    BY <2>2 DEF SigOf
  <2> QED
    BY <1>3, <1>4, <2>1, <2>2, <2>3
<1>9. CASE op.quiet /\ Stat
  <2> DEFINE p == First(rd.left)
  <2>1. rd.at = "walk" /\ rd.left \subseteq Present /\ rd.sig = SigOf(Present \ rd.left)
    BY <1>1, <1>9 DEF Stat, QuietRead
  <2>2. p \in rd.left /\ p \in Present
    BY <1>9, <2>1, FirstIsOne DEF Stat, CacheInv, RetrieverType
  <2>3. UNCHANGED <<cards, signature>>
        /\ rd' = [rd EXCEPT !.left = @ \ {p},
                       !.sig = IF p \in Present THEN @ \cup {<<p, disk[p].stamp>>} ELSE @]
    BY <1>9 DEF Stat
  <2> HIDE DEF p
  <2>4. /\ rd'.at = "walk" /\ rd'.left = rd.left \ {p}
        /\ rd'.sig = rd.sig \cup {<<p, disk[p].stamp>>}
    BY <2>1, <2>2, <2>3 DEF CacheInv, RetrieverType
  <2>5. Present \ rd'.left = (Present \ rd.left) \cup {p}
    BY <2>1, <2>2, <2>4
  <2>6. rd'.sig = SigOf(Present \ rd'.left)
    BY <2>1, <2>4, <2>5 DEF SigOf
  <2> QED
    BY <1>3, <1>4, <2>1, <2>3, <2>4, <2>6
<1>10. CASE op.quiet /\ Hit
  <2>1. /\ rd.left = {} /\ cards # None /\ rd.sig = signature
        /\ rd'.got = cards /\ rd'.at = "done" /\ UNCHANGED <<cards, signature>>
    BY <1>10 DEF Hit, CacheInv, RetrieverType
  <2>2. rd.sig = SigOf(Present)
    BY <1>1, <1>10, <2>1 DEF Hit, QuietRead
  <2> QED
    BY <1>3, <1>6, <2>1, <2>2
<1>11. CASE op.quiet /\ Miss
  <2>1. /\ rd.at = "walk" /\ rd.left = {} /\ (cards = None \/ rd.sig # signature)
        /\ rd'.sig = rd.sig /\ rd'.at = "load" /\ rd'.left = Present /\ rd'.got = {}
        /\ UNCHANGED <<cards, signature>>
    BY <1>11 DEF Miss, CacheInv, RetrieverType
  <2>2. rd.sig = SigOf(Present)
    BY <1>1, <1>11, <2>1 DEF QuietRead
  <2>3. EntriesOf(Present \ rd'.left) = {}
    BY <2>1 DEF EntriesOf
  <2>4. Deciding => cards = None
    BY <1>11, <2>1, <2>2 DEF DigestInv, Confirmed
  <2> QED
    BY <1>3, <1>5, <2>1, <2>2, <2>3, <2>4
<1>12. CASE op.quiet /\ Load
  <2> DEFINE p == First(rd.left)
  <2>1. /\ rd.at = "load" /\ UNCHANGED <<cards, signature>>
        /\ rd' = IF p \in Present
                 THEN [rd EXCEPT !.left = @ \ {p}, !.got = @ \cup {Entry(p, disk[p].card)}]
                 ELSE [rd EXCEPT !.at = "failed"]
    BY <1>12 DEF Load
  <2>2. /\ rd.left \subseteq Present /\ rd.sig = SigOf(Present)
        /\ rd.got = EntriesOf(Present \ rd.left)
    BY <1>1, <1>12, <2>1 DEF QuietRead
  <2>3. p \in rd.left /\ p \in Present
    BY <1>12, <2>2, FirstIsOne DEF Load, CacheInv, RetrieverType
  <2> HIDE DEF p
  <2>4. /\ rd'.at = "load" /\ rd'.left = rd.left \ {p} /\ rd'.sig = rd.sig
        /\ rd'.got = rd.got \cup {Entry(p, disk[p].card)}
    BY <2>1, <2>3 DEF CacheInv, RetrieverType
  <2>5. Present \ rd'.left = (Present \ rd.left) \cup {p}
    BY <2>2, <2>3, <2>4
  <2>6. rd'.got = EntriesOf(Present \ rd'.left)
    BY <2>2, <2>4, <2>5 DEF EntriesOf
  <2>7. Deciding => cards = None
    BY <1>12, <2>1 DEF DigestInv
  <2> QED
    BY <1>3, <1>5, <2>1, <2>2, <2>4, <2>6, <2>7
<1>13. CASE op.quiet /\ Loaded
  <2>1. /\ rd.at = "load" /\ rd.left = {} /\ cards' = rd.got /\ signature' = rd.sig
        /\ rd'.got = rd.got /\ rd'.at = "done"
    BY <1>13 DEF Loaded, CacheInv, RetrieverType
  <2>2. rd.sig = SigOf(Present) /\ rd.got = EntriesOf(Present)
    BY <1>1, <1>13, <2>1 DEF QuietRead
  <2>3. QuietRead' /\ Confirmed'
    BY <1>6, <2>1, <2>2
  <2>4. Deciding => cards' = cards
    BY <1>13, <2>1, <2>2 DEF DigestInv, Confirmed
  <2> QED
    BY <1>1, <1>2, <2>1, <2>3, <2>4 DEF DigestInv, OfType
<1> QED
  BY <1>1, <1>7, <1>8, <1>9, <1>10, <1>11, <1>12, <1>13 DEF Reading

LEMMA DigestServe ==
  ASSUME CacheInv, SpanInv, Tells(op), QuietRead, DigestInv, Serve,
         op.tool = "pipeline_risk_digest"
  PROVE  DigestInv'
<1>1. /\ UNCHANGED <<disk, cards, signature, actor, grants>> /\ rd' = NoRead
      /\ op'.tool = op.tool /\ op'.quiet = op.quiet
  <2>1. UNCHANGED <<disk, cards, signature, actor, grants>>
    BY DEF Serve, Use, EndOf, Step, CountCandidates, Unresolved, ListOptions, Resolved, Gate,
           List, Decide, Link, Target, NextAccount, LeadsDone, DealsDone, SignalDone, Finish,
           Metrics, Raise, retrieverVars
  <2> QED
    BY <2>1, ServeTakes DEF TakesFrom
<1>2. Confirmed' = Confirmed /\ \A e : Effect(e)' = Effect(e)
  BY <1>1 DEF Confirmed, SigOf, EntriesOf, Present, Effect, Resource
<1>3. List \/ Decide \/ DealsDone \/ Metrics \/ Raise
  <2>1. op.at \in {"idle", "answered", "list", "decide", "metrics"}
    BY DEF Tells, Control, ReadPoints, OverOne
  <2>2. op.at \in {"list", "decide"} => op.part = "deal_risk"
    BY DEF Tells, Control, Sections
  <2> QED
    BY <2>1, <2>2 DEF Serve, Use, EndOf, CountCandidates, Unresolved, ListOptions, Resolved,
         Gate, Link, Target, NextAccount, LeadsDone, SignalDone, Finish
<1>4. Shaped(op)
  BY DEF Tells, Control
<1>5. CASE List
  <2>1. op.at = "list" /\ rd.at = "done" /\ op.part = "deal_risk"
        /\ op.about = None /\ op.shown = {}
    BY <1>5 DEF List, Use, Tells, Control, Sections, DigestInv
  <2>2. Listed(rd.got) = OfType(rd.got, "deal")
    BY <2>1 DEF Listed
  <2>3. op'.at = "decide" /\ op'.todo = OfType(rd.got, "deal") /\ op'.shown = {}
    BY <1>4, <1>5, <2>1, <2>2 DEF List, Shaped, Fields
  <2>4. op.quiet => Confirmed /\ rd.got = cards
    BY <2>1 DEF QuietRead, Busy
  <2> QED
    BY <1>1, <1>2, <2>3, <2>4 DEF DigestInv, NoRead, OfType
<1>6. CASE Decide
  <2> DEFINE e == FirstEntry(op.todo)
             d == Decided(op, e)
  <2>1. op.at = "decide" /\ op.part = "deal_risk" /\ e \in op.todo
    BY <1>6, FirstEntryIsOne DEF Decide, Tells, Control, Sections, SpanInv
  <2>2. op' = [d EXCEPT
                 !.todo = IF Satisfied(e) THEN {} ELSE @ \ {e},
                 !.shown = @ \cup Emitted(e),
                 !.held = @ \/ Effect(e) # "allow",
                 !.missing = @ \/ (Effect(e) = "allow" /\ Emitted(e) = {}),
                 !.names = @, !.at = @, !.about = @]
    BY <1>6, <2>1 DEF Decide
  <2>3. ~Satisfied(e) /\ Emitted(e) = IF Effect(e) = "allow" THEN {Content(e)} ELSE {}
    BY <2>1 DEF Satisfied, Emitted
  <2>4. Shaped(d) /\ d.at = op.at /\ d.todo = op.todo /\ d.shown = op.shown
    BY <1>4 DEF Decided, Shaped, Fields
  <2> HIDE DEF e, d
  <2>5. /\ op'.at = "decide" /\ op'.todo = op.todo \ {e}
        /\ op'.shown = op.shown \cup IF Effect(e) = "allow" THEN {Content(e)} ELSE {}
    BY <2>1, <2>2, <2>3, <2>4 DEF Shaped, Fields
  <2>6. {s.entry : s \in op'.shown}
          = {s.entry : s \in op.shown} \cup IF Effect(e) = "allow" THEN {e} ELSE {}
    <3>1. Content(e).entry = e
      BY DEF Content
    <3>2. CASE Effect(e) = "allow"
      BY <2>5, <3>1, <3>2
    <3>3. CASE Effect(e) # "allow"
      BY <2>5, <3>3
    <3> QED
      BY <3>2, <3>3
  <2>7. ASSUME op.quiet
        PROVE  {s.entry : s \in op'.shown}
                 = {x \in OfType(cards, "deal") \ op'.todo : Effect(x) = "allow"}
    <3>1. /\ op.todo \subseteq OfType(cards, "deal")
          /\ {s.entry : s \in op.shown}
               = {x \in OfType(cards, "deal") \ op.todo : Effect(x) = "allow"}
      BY <2>1, <2>7 DEF DigestInv
    <3> QED
      BY <2>1, <2>5, <2>6, <3>1
  <2> QED
    BY <1>1, <1>2, <2>1, <2>5, <2>7 DEF DigestInv, NoRead, OfType
<1>7. CASE DealsDone
  <2>1. op.at = "decide" /\ op.todo = {} /\ op' = [op EXCEPT !.at = "metrics"]
    BY <1>7 DEF DealsDone, EndOf
  <2>2. op'.at = "metrics" /\ op'.todo = {} /\ op'.shown = op.shown
    BY <1>4, <2>1 DEF Shaped, Fields
  <2> QED
    BY <1>1, <1>2, <2>1, <2>2 DEF DigestInv, NoRead, OfType
<1>8. CASE Metrics
  <2> DEFINE rolled == {e \in OfType(rd.got, "deal") : Effect(e) = "allow"}
             label == IF rolled # {} THEN "allowed" ELSE "aggregated"
  <2>1. op.at = "metrics" /\ rd.at = "done" /\ op' = Answer([op EXCEPT !.rolled = rolled], label)
    BY <1>8 DEF Metrics, Use
  <2>2. op.quiet => rolled = {s.entry : s \in op.shown}
    BY <2>1 DEF DigestInv, QuietRead, Busy
  <2> HIDE DEF rolled, label
  <2>3. op'.at = "answered" /\ op'.rolled = rolled /\ op'.shown = op.shown
    BY <1>4, <2>1 DEF Answer, Shaped, Fields
  <2> QED
    BY <1>1, <2>2, <2>3 DEF DigestInv
<1>9. CASE Raise
  <2>1. op'.at = "answered" /\ op'.access = "error"
    BY <1>4, <1>9 DEF Raise, Answer, Shaped, Fields
  <2> QED
    BY <2>1 DEF DigestInv
<1> QED
  BY <1>3, <1>5, <1>6, <1>7, <1>8, <1>9

LEMMA DigestNext ==
  CacheInv /\ SpanInv /\ Tells(op) /\ QuietRead /\ DigestInv /\ [Next]_vars
    => QuietRead' /\ DigestInv'
<1> SUFFICES ASSUME CacheInv, SpanInv, Tells(op), QuietRead, DigestInv, [Next]_vars
             PROVE  QuietRead' /\ DigestInv'
  OBVIOUS
<1>1. CASE Read
  BY <1>1, QuietReading
<1>2. CASE Serve
  <2>1. rd' = NoRead /\ op'.tool = op.tool
    BY <1>2, ServeTakes DEF TakesFrom
  <2>2. QuietRead'
    BY <2>1 DEF QuietRead, NoRead
  <2>3. CASE op.tool = "pipeline_risk_digest"
    BY <1>2, <2>2, <2>3, DigestServe
  <2>4. CASE op.tool # "pipeline_risk_digest"
    BY <2>1, <2>2, <2>4 DEF DigestInv
  <2> QED
    BY <2>3, <2>4
<1>3. ASSUME NEW tool, NEW q, Ask(tool, q) PROVE QuietRead' /\ DigestInv'
  <2>1. rd' = NoRead
    BY <1>3 DEF Ask, retrieverVars, SpanInv, ReadPoints
  <2>2. op'.shown = {} /\ op'.about = None /\ op'.at \in {"list", "candidates", "find"}
    BY <1>3 DEF Ask, Begin, NoCall
  <2> QED
    BY <2>1, <2>2 DEF QuietRead, DigestInv, NoRead
<1>4. ASSUME NEW entries, Noticed(entries), UNCHANGED rd PROVE QuietRead' /\ DigestInv'
  <2>1. CASE Busy
    <3>1. /\ op'.quiet = FALSE /\ op'.at = op.at /\ op'.tool = op.tool
          /\ op'.todo = op.todo /\ op'.shown = op.shown /\ op'.about = op.about
      BY <1>4, <2>1 DEF Noticed, Tells, Control, Shaped, Fields
    <3> QED
      BY <3>1 DEF QuietRead, DigestInv
  <2>2. CASE ~Busy
    <3>1. op' = op
      BY <1>4, <2>2 DEF Noticed
    <3> QED
      BY <2>2, <3>1 DEF QuietRead, DigestInv, Busy
  <2> QED
    BY <2>1, <2>2
<1>5. CASE (\E p \in Path : Edit(p)) \/ (\E g \in Grants : MoveGrant(g))
  BY <1>4, <1>5 DEF Edit, Write, Delete, MoveGrant, retrieverVars
<1>6. CASE UNCHANGED vars
  <2>1. UNCHANGED <<disk, cards, signature, rd, actor, grants, op>>
    BY <1>6 DEF vars, retrieverVars, facadeVars
  <2>2. /\ Present' = Present /\ Confirmed' = Confirmed /\ \A e : Effect(e)' = Effect(e)
        /\ SigOf(Present)' = SigOf(Present) /\ SigOf(Present \ rd.left)' = SigOf(Present \ rd.left)
        /\ EntriesOf(Present \ rd.left)' = EntriesOf(Present \ rd.left)
    BY <2>1 DEF Confirmed, SigOf, EntriesOf, Present, Effect, Resource
  <2>3. QuietRead'
    BY <2>1, <2>2 DEF QuietRead, Busy
  <2>4. DigestInv'
    BY <2>1, <2>2 DEF DigestInv, OfType
  <2> QED
    BY <2>3, <2>4
<1> QED
  BY <1>1, <1>2, <1>3, <1>5, <1>6 DEF Next

\* The figures of the pipeline digest are over the deals it shows, unless the vault or
\* a grant changed while it was put together: its two readings of the vault are then
\* answered from one and the same cache (service.py:671-681).
THEOREM DigestAgrees == Spec => []DigestAgreesWhenQuiet
<1>1. Init => QuietRead /\ DigestInv
  BY DEF Init, NoCall, QuietRead, DigestInv, Busy
<1>2. DigestInv => DigestAgreesWhenQuiet
  BY DEF DigestInv, DigestAgreesWhenQuiet
<1> QED
  BY InvariantTells, InvariantSpan, DigestNext, <1>1, <1>2, PTL DEF Spec
================================================================================

------------------------------- MODULE Retriever -------------------------------
(***************************************************************************)
(* The card cache of a long-running gateway (retrieval.py).                *)
(*                                                                         *)
(* cards() walks the vault, stats every card, and reuses the cards it has  *)
(* when paths, times and sizes are those of the walk before its last load; *)
(* otherwise it reads every card again.  Nothing is locked: the vault is a *)
(* directory that people, the worker and sync tools change at any moment,  *)
(* so both walks take one file per step.                                   *)
(*                                                                         *)
(* Abstractions: a path is a number and sorts as one; the listing of a     *)
(* walk is taken at once; the pair (mtime, size) is one stamp, never used  *)
(* twice.  Where a write keeps both, in one tick of the file system's      *)
(* clock or by a rename that carries an old file back, the code has no     *)
(* means to see it and nothing below holds.                                *)
(***************************************************************************)
EXTENDS Naturals, FiniteSets

CONSTANTS
  Path,      \* paths below the vault root
  Card,      \* what the file at a path can say
  Absent,    \* no file at the path
  Vaults,    \* what the vault may hold when the process starts
  None       \* absent value

ASSUME PathAssumption == Path \subseteq Nat
ASSUME AbsentAssumption == Absent \notin Card
ASSUME VaultsAssumption == Vaults \subseteq [Path -> Card \cup {Absent}]

VARIABLES
  disk,       \* the vault: the card and the stamp of every path
  clock,      \* stamps given out
  cards,      \* Retriever._cards
  signature,  \* Retriever._signature
  rd          \* the call of cards() in progress

retrieverVars == <<disk, clock, cards, signature, rd>>

Entry(p, c) == [path |-> p, card |-> c]
Present == {p \in Path : disk[p].card # Absent}
First(paths) == CHOOSE p \in paths : \A q \in paths : p <= q

NoRead == [at |-> "idle", left |-> {}, sig |-> {}, got |-> {}]

RetrieverInit ==
  /\ \E v \in Vaults : disk = [p \in Path |-> [card |-> v[p], stamp |-> 0]]
  /\ clock = 0
  /\ cards = None
  /\ signature = None
  /\ rd = NoRead

--------------------------------------------------------------------------------
\* cards() begins: the listing of the stat walk.
Call ==
  /\ rd.at = "idle"
  /\ rd' = [NoRead EXCEPT !.at = "walk", !.left = Present]
  /\ UNCHANGED <<disk, clock, cards, signature>>

\* One stat; a file gone since the listing is left out.
Stat ==
  /\ rd.at = "walk" /\ rd.left # {}
  /\ LET p == First(rd.left) IN
       rd' = [rd EXCEPT !.left = @ \ {p},
                        !.sig = IF p \in Present THEN @ \cup {<<p, disk[p].stamp>>} ELSE @]
  /\ UNCHANGED <<disk, clock, cards, signature>>

\* Faulty: only the paths are compared.
FaultyHit ==
  /\ rd.at = "walk" /\ rd.left = {}
  /\ cards # None /\ {s[1] : s \in rd.sig} = {s[1] : s \in signature}
  /\ rd' = [rd EXCEPT !.at = "done", !.got = cards]
  /\ UNCHANGED <<disk, clock, cards, signature>>

\* The signature is the one of the last load: its cards are returned.
Hit ==
  /\ rd.at = "walk" /\ rd.left = {}
  /\ cards # None /\ rd.sig = signature
  /\ rd' = [rd EXCEPT !.at = "done", !.got = cards]
  /\ UNCHANGED <<disk, clock, cards, signature>>

\* It is not, and _load lists the vault again.
Miss ==
  /\ rd.at = "walk" /\ rd.left = {}
  /\ cards = None \/ rd.sig # signature
  /\ rd' = [rd EXCEPT !.at = "load", !.left = Present]
  /\ UNCHANGED <<disk, clock, cards, signature>>

\* One file is read and parsed.  A file gone since the listing raises, and
\* the cache stays as it was.
Load ==
  /\ rd.at = "load" /\ rd.left # {}
  /\ LET p == First(rd.left) IN
       rd' = IF p \in Present
             THEN [rd EXCEPT !.left = @ \ {p}, !.got = @ \cup {Entry(p, disk[p].card)}]
             ELSE [rd EXCEPT !.at = "failed"]
  /\ UNCHANGED <<disk, clock, cards, signature>>

\* Faulty: the signature taken after the load.
FaultyLoaded ==
  /\ rd.at = "load" /\ rd.left = {}
  /\ cards' = rd.got
  /\ signature' = {<<p, disk[p].stamp>> : p \in Present}
  /\ rd' = [rd EXCEPT !.at = "done"]
  /\ UNCHANGED <<disk, clock>>

\* The signature kept is the one taken BEFORE the load.
Loaded ==
  /\ rd.at = "load" /\ rd.left = {}
  /\ cards' = rd.got
  /\ signature' = rd.sig
  /\ rd' = [rd EXCEPT !.at = "done"]
  /\ UNCHANGED <<disk, clock>>

Reading == Call \/ Stat \/ Hit \/ Miss \/ Load \/ Loaded

--------------------------------------------------------------------------------
\* Somebody writes or creates the card at p.
Write(p, c) ==
  /\ c # disk[p].card
  /\ disk' = [disk EXCEPT ![p] = [card |-> c, stamp |-> clock + 1]]
  /\ clock' = clock + 1
  /\ UNCHANGED <<cards, signature, rd>>

\* Somebody deletes it, or moves it away.
Delete(p) ==
  /\ p \in Present
  /\ disk' = [disk EXCEPT ![p].card = Absent]
  /\ UNCHANGED <<clock, cards, signature, rd>>

--------------------------------------------------------------------------------
(* Safety. *)

\* A card the kept signature still describes is in the cache as it is on the
\* disk, and in no other form: however edits fell between the walk and the
\* load (retrieval.py:83-92), the next call that finds this path unchanged
\* reuses its current content.
CachedCardIsCurrent ==
  cards # None =>
    \A p \in Present :
      <<p, disk[p].stamp>> \in signature =>
        {e \in cards : e.path = p} = {Entry(p, disk[p].card)}

\* What the comment of retrieval.py:84-87 promises: if the vault is as the
\* kept signature describes it, so that the next call reuses the cache, the
\* cache is the vault.
NeverAStaleHit ==
  (cards # None /\ signature = {<<p, disk[p].stamp>> : p \in Present})
    => cards = {Entry(p, disk[p].card) : p \in Present}
================================================================================

-------------------------------- MODULE MCReads --------------------------------
(***************************************************************************)
(* An instance of Reads for TLC: two accounts that share a name, a deal, a *)
(* personal-data reference, and a lead, an event or a source; and a vault  *)
(* where an account is filed under personal-data by mistake, beside a call *)
(* under sales-confidential.  Three roles of schemas/access-policy.json.   *)
(***************************************************************************)
EXTENDS Reads, TLC

CONSTANTS sam, mia, ada, north, south

MCBoundaries ==
  [sales |-> {"broad", "sales-confidential"}, marketing |-> {"broad"},
   admin |-> {"broad", "sales-confidential", "personal-data"}]

MCConstraint ==
  [sales |-> [b \in {"sales-confidential"} |-> "assigned"],
   marketing |-> <<>>, admin |-> <<>>]

MCActors ==
  {[id |-> sam, role |-> "sales", team |-> north, owns |-> {}],
   [id |-> mia, role |-> "marketing", team |-> south, owns |-> {}],
   [id |-> ada, role |-> "admin", team |-> south, owns |-> {}]}

OneActor == {a \in MCActors : a.id = mia}

MCPath == 1 .. 4
MCBoundaryOf == <<"broad", "broad", "sales-confidential", "personal-data">>

Blank(type, id) ==
  [type |-> type, id |-> id, label |-> id, words |-> {}, owner |-> Nobody, team |-> Nobody,
   company |-> Nobody, targets |-> <<>>, telling |-> TRUE]

Acme == [Blank("company", "acme") EXCEPT !.label = "Acme", !.words = {"ac"}]
Namesake == [Blank("company", "acme-2") EXCEPT !.label = "Acme", !.words = {"ac"}]
Deal(id, owner) == [Blank("deal", id) EXCEPT !.company = "acme", !.owner = owner]
Lead == [Blank("lead", "lead-1") EXCEPT !.company = "acme"]
Source == [Blank("source", "deal-1") EXCEPT !.company = "acme"]
Event == [Blank("event", "expo") EXCEPT !.words = {"ac"}, !.targets = <<"Acme">>]
Person == [Blank("personal-data-ref", "person-1") EXCEPT !.company = "acme"]
CallNote == [Blank("call", "call-1") EXCEPT !.company = "acme"]

MCCardsAt ==
  <<{Acme}, {Namesake, Lead, Source, Event},
    {Deal("deal-1", sam), Deal("deal-1", mia), CallNote}, {Person, Acme}>>
MCCard == UNION {MCCardsAt[p] : p \in MCPath}

Misfiled == <<Absent, Absent, CallNote, Acme>>

MCVaults ==
  {<<Acme, c, Deal("deal-1", sam), Person>> : c \in MCCardsAt[2] \cup {Absent}}
    \cup {Misfiled}

MCGrants == {<<mia, "acme", "sales-confidential">>}
================================================================================

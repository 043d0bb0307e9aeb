------------------------------ MODULE OwnerPages ------------------------------
(***************************************************************************)
(* What an owner's page is shown of the owner's microgrids and deals       *)
(* (me.ts, MyAgentPage.tsx, meApi.ts).  The page sends its requests at     *)
(* once and shows their answers together; each is answered by queries of   *)
(* its own, at its own time, with the microgrids the owner has then, and   *)
(* the queries of one request are one step here.  A request that fails is  *)
(* replaced by a default.  /trades reads the settlements' transfers, and   *)
(* /audit finds deals as the negotiation list does.                        *)
(***************************************************************************)
EXTENDS Integers, Sequences, FiniteSets, Functions

CONSTANTS
  Deals,      \* negotiations in the order they are created, numbers from 1
  Own,        \* those whose rows name a microgrid of the owner as a side, as
              \* the seed's do: the broker creates its negotiations without
  DealRounds, \* what the keys of a negotiation's settlements differ in: the
              \* round, for those the broker makes, or the seed's number
  PageSize    \* limit=10

ASSUME DealAssumption ==
  /\ Deals \subseteq Nat /\ IsFiniteSet(Deals) /\ Own \subseteq Deals
  /\ PageSize \in Nat \ {0}

VARIABLES
  provisioned, \* the owner has a membership, of a microgrid with its assets
  dealt,       \* negotiation.status
  settlements, \* settlements in creation order: each names its negotiation and
               \* the two sides that took part, `own` if one is the owner's
  awaited,     \* the load under way: the sections not yet answered
  sections,    \* the answers of the last load
  guessed,     \* history: a request of it failed
  meanwhile,   \* history: the deals of Own that changed since it began
  past         \* history: the settlements there were when it began

pageVars == <<provisioned, dealt, settlements, awaited, sections, guessed, meanwhile, past>>

Active == {"NEGOTIATING", "SAFETY_VERIFIED"}
BrokenOff == {"WALKED_AWAY", "MAX_ROUNDS_REACHED"}
Rejected == {"FAILED"}  \* stands for STABILITY_FAILED and GRID_FAILED too
Sections == {"assets", "negotiations", "settlements", "analytics"}
NoSections == [assets |-> FALSE, negotiations |-> {}, settlements |-> {},
               analytics |-> [active |-> 0, committed |-> 0, assets |-> FALSE]]

PagesInit ==
  /\ provisioned = FALSE
  /\ dealt = [d \in Deals |-> "none"]
  /\ settlements = <<>>
  /\ awaited = {} /\ sections = NoSections
  /\ guessed = FALSE /\ meanwhile = {} /\ past = 0

-------------------------------------------------------------------------------
(* The deals.  A negotiation may be started again by its id, whatever its  *)
(* status, by any two agents: the start leaves the row as it is, and what  *)
(* the handlers write later does not look at the status before, nor at the *)
(* sides that the row names.  A settlement's sides are the participants'.  *)
Deal(d, status) ==
  /\ dealt' = [dealt EXCEPT ![d] = status]
  /\ meanwhile' = IF d \in Own THEN meanwhile \cup {d} ELSE meanwhile
  /\ UNCHANGED <<provisioned, awaited, sections, guessed, past>>

Provision ==
  /\ ~provisioned /\ provisioned' = TRUE
  /\ meanwhile' = Own
  /\ UNCHANGED <<dealt, settlements, awaited, sections, guessed, past>>

(* A row that names a microgrid needs it.                                  *)
CreateDeal(d) ==
  /\ dealt[d] = "none" /\ \A e \in Deals : e < d => dealt[e] # "none"
  /\ d \in Own => provisioned
  /\ Deal(d, "NEGOTIATING") /\ UNCHANGED settlements

(* WALK_AWAY, or an offer after the last round.                            *)
EndDeal(d) ==
  /\ dealt[d] # "none" /\ UNCHANGED settlements
  /\ \E status \in BrokenOff : Deal(d, status)

(* handleCommit marks the deal verified before it asks the gate.           *)
VerifyDeal(d) ==
  /\ dealt[d] # "none" /\ UNCHANGED settlements
  /\ Deal(d, "SAFETY_VERIFIED")

(* The gate rejects it, or what follows throws, with or without a          *)
(* settlement: commitSettlement may commit unheard.                        *)
RejectDeal(d) ==
  /\ dealt[d] # "none" /\ UNCHANGED settlements
  /\ Deal(d, "FAILED")

(* commitSettlement, one transaction.  When the key has a settlement       *)
(* already, it is returned and nothing is written.                         *)
CommitDeal(d, round, own) ==
  /\ dealt[d] # "none" /\ (own => provisioned)
  /\ \A s \in Range(settlements) : <<s.deal, s.round>> # <<d, round>>
  /\ Deal(d, "COMMITTED")
  /\ settlements' = Append(settlements, [deal |-> d, round |-> round, own |-> own])

-------------------------------------------------------------------------------
(* The answers.                                                            *)
(* ORDER BY created_at DESC LIMIT 10, of rows numbered as they are created. *)
Newest(rows) == {i \in rows : Cardinality({j \in rows : j > i}) < PageSize}

(* getAuthorizedMicrogridIds finds the owner's microgrid.                  *)
Authorized == provisioned

(* The deals of the owner, for their rows' sides, and the settlements.     *)
Sided == {d \in Own : Authorized /\ dealt[d] # "none"}
SettledByOwner == {i \in DOMAIN settlements : Authorized /\ settlements[i].own}

MyAssets == Authorized
MyNegotiations == {[deal |-> d, status |-> dealt[d]] : d \in Newest(Sided)}
MySettlements == Newest(SettledByOwner)

(* Mutant: a verified negotiation is not counted as active.                *)
CountUnverified == [active    |-> Cardinality({d \in Sided : dealt[d] = "NEGOTIATING"}),
                    committed |-> Cardinality(SettledByOwner),
                    assets    |-> Authorized]

MyAnalytics == [active    |-> Cardinality({d \in Sided : dealt[d] \in Active}),
                committed |-> Cardinality(SettledByOwner),
                assets    |-> Authorized]

(* loadDashboardData, when the page is opened.                             *)
LoadPage ==
  /\ awaited = {}
  /\ awaited' = Sections /\ sections' = NoSections
  /\ guessed' = FALSE /\ meanwhile' = {} /\ past' = Len(settlements)
  /\ UNCHANGED <<provisioned, dealt, settlements>>

AnswerSection(s) ==
  /\ s \in awaited /\ awaited' = awaited \ {s}
  /\ sections' = CASE s = "assets"       -> [sections EXCEPT !.assets = MyAssets]
                   [] s = "negotiations" -> [sections EXCEPT !.negotiations = MyNegotiations]
                   [] s = "settlements"  -> [sections EXCEPT !.settlements = MySettlements]
                   [] s = "analytics"    -> [sections EXCEPT !.analytics = MyAnalytics]
  /\ UNCHANGED <<provisioned, dealt, settlements, guessed, meanwhile, past>>

(* A request fails: the section shows what an owner without deals sees.    *)
SectionFails(s) ==
  /\ s \in awaited /\ awaited' = awaited \ {s}
  /\ guessed' = TRUE
  /\ UNCHANGED <<provisioned, dealt, settlements, sections, meanwhile, past>>

PagesNext ==
  \/ Provision \/ LoadPage
  \/ \E d \in Deals :
       \/ CreateDeal(d) \/ EndDeal(d) \/ VerifyDeal(d) \/ RejectDeal(d)
       \/ \E round \in DealRounds, own \in BOOLEAN : CommitDeal(d, round, own)
  \/ \E s \in Sections : AnswerSection(s) \/ SectionFails(s)

PagesSpec == PagesInit /\ [][PagesNext]_pageVars

-------------------------------------------------------------------------------
PagesTypeOK ==
  /\ provisioned \in BOOLEAN /\ awaited \subseteq Sections /\ guessed \in BOOLEAN
  /\ dealt \in [Deals -> Active \cup BrokenOff \cup Rejected \cup {"none", "COMMITTED"}]
  /\ settlements \in Seq([deal : Deals, round : DealRounds, own : BOOLEAN])
  /\ Cardinality(sections.settlements) <= PageSize
  /\ \A i \in sections.settlements : i \in DOMAIN settlements /\ settlements[i].own
  /\ Cardinality(sections.negotiations) <= PageSize
  /\ \A n \in sections.negotiations : n.deal \in Own

(* me.ts:217-252, 357-380, 462-500.  The sections of a page, read at four  *)
(* times by queries of their own, tell of the same deals but for what      *)
(* changed while it loaded: the counts are those of the lists while a list *)
(* is not full; a deal listed as committed has a settlement, and those it  *)
(* has with the owner are listed; a deal whose settlement is listed, if    *)
(* its row names the owner, is listed too and not as one still bargained   *)
(* for, however often it was started again.                                *)
SectionsAgree ==
  awaited = {} /\ ~guessed =>
    LET listed   == sections.negotiations
        active   == Cardinality({n \in listed : n.status \in Active})
        settled  == sections.settlements
        counts   == sections.analytics
        complete(list) == Cardinality(list) < PageSize
        near(m, n, k) == m <= n + k /\ n <= m + k
    IN /\ complete(listed) => near(active, counts.active, Cardinality(meanwhile))
       /\ complete(settled) =>
            near(Cardinality(settled), counts.committed, Len(settlements) - past)
       /\ complete(settled) =>
            \A n \in listed : n.deal \notin meanwhile /\ n.status = "COMMITTED" =>
              LET its == {i \in DOMAIN settlements : settlements[i].deal = n.deal}
              IN  its # {} /\ \A i \in its : settlements[i].own => i \in settled
       /\ complete(listed) =>
            \A i \in settled : settlements[i].deal \in Own \ meanwhile =>
              \E n \in listed : n.deal = settlements[i].deal /\ n.status # "NEGOTIATING"
       /\ sections.assets = counts.assets \/ meanwhile = Own
===============================================================================

----------------------------- MODULE Explanations -----------------------------
(***************************************************************************)
(* How an owner's decisions are explained (explainabilityService.ts):      *)
(* each round of the owner's negotiations is set against the owner's own   *)
(* limits and assets, as they are now, and the evidence about the deal.    *)
(*                                                                         *)
(* Belief updates and reasoning deficits are looked up by negotiation.     *)
(* None is ever stored for a negotiation between agents: the first belong  *)
(* to the ORACLE negotiation, and nothing writes the second.               *)
(***************************************************************************)
EXTENDS Integers, Sequences, FiniteSets, Functions

CONSTANTS
  Histories,    \* sequences of negotiations, the newest first
  Profiles,     \* what a microgrid's owner has set and has: minSale, maxBuy,
                \* reserve, charge of the battery, solar
  Sites,        \* microgrids
  DefaultPrice, \* 0.12
  Nothing       \* null

(* Identifiers are unique, and times can be compared.                      *)
ASSUME ExplainAssumption ==
  /\ Nothing \notin Sites
  /\ \A history \in Histories :
       /\ history \in Seq(Range(history))
       /\ IsInjective([i \in DOMAIN history |-> history[i].id])
       /\ \A i \in DOMAIN history :
            /\ history[i].rounds \in Seq(Range(history[i].rounds))
            /\ \A round \in Range(history[i].rounds) : round.at \in Int
            /\ history[i].settledAt # Nothing => history[i].settledTime \in Int

VARIABLE explained   \* the last request and its answer
explainVars == <<explained>>

NoExplanation == [history |-> <<>>, owned |-> {}, profiles |-> Nothing, list |-> <<>>]

(* Mutant: an owner's negotiation is explained for its seller.             *)
SellerSide(neg, owned) ==
  IF {neg.seller, neg.buyer} \cap owned = {} THEN "none"
  ELSE IF neg.seller # Nothing THEN "seller" ELSE "buyer"

(* Mutant: the owner of the buyer is not told.                             *)
SellersOnly(neg, owned) ==
  IF neg.seller # Nothing /\ neg.seller \in owned THEN "seller" ELSE "none"

(* The microgrid a negotiation is explained for: the seller's, when the    *)
(* owner has it, otherwise the buyer's; none, when the owner has neither.  *)
OwnSide(neg, owned) ==
  IF neg.seller # Nothing /\ neg.seller \in owned THEN "seller"
  ELSE IF neg.buyer # Nothing /\ neg.buyer \in owned THEN "buyer"
  ELSE "none"

(* A settled negotiation without rounds is given one.                      *)
Rounds(neg) ==
  IF neg.rounds = <<>> /\ neg.settledAt # Nothing
  THEN <<[action |-> "ACCEPT", at |-> neg.settledTime]>> ELSE neg.rounds

(* Every round is shown at the price of the settlement, or at a default.   *)
Price(neg) == IF neg.settledAt = Nothing THEN DefaultPrice ELSE neg.settledAt

(* The seller's minimum, if the owner sells and has set one, otherwise the *)
(* maximum of the same profile, if the owner buys.                         *)
PriceLimit(neg, owned, own) ==
  LET judgedAs(side, limit) == neg[side] # Nothing /\ neg[side] \in owned /\ limit # Nothing
  IN  IF judgedAs("seller", own.minSale)
      THEN IF Price(neg) < own.minSale THEN "violated" ELSE "met"
      ELSE IF judgedAs("buyer", own.maxBuy)
      THEN IF Price(neg) > own.maxBuy THEN "violated" ELSE "met"
      ELSE "none"

Reserve(own) ==
  IF own.charge = Nothing THEN "none" ELSE IF own.charge < own.reserve THEN "violated" ELSE "met"

ExplainRound(neg, owned, own, i) ==
  [neg |-> neg.id, round |-> i, decision |-> Rounds(neg)[i].action, at |-> Rounds(neg)[i].at,
   price |-> Price(neg), limit |-> PriceLimit(neg, owned, own), battery |-> Reserve(own),
   solar |-> own.solar, stability |-> neg.stability, grid |-> neg.grid,
   satisfied |-> "violated" \notin {PriceLimit(neg, owned, own), Reserve(own)}]

(* buildNegotiationExplanations                                            *)
Explain(neg, owned, profiles, i) ==
  LET side == OwnSide(neg, owned) IN ExplainRound(neg, owned, profiles[neg[side]], i)

(* The rounds an owner is told of, each as <<its negotiation, its number>>. *)
OwnRounds(history, owned) ==
  LET own == {n \in DOMAIN history : OwnSide(history[n], owned) # "none"}
  IN  UNION {{n} \X DOMAIN Rounds(history[n]) : n \in own}

(* The sort by time: the latest round first, those of one time as they are. *)
At(history, p) == Rounds(history[p[1]])[p[2]].at
Precedes(history, p, q) ==
  \/ At(history, p) > At(history, q)
  \/ /\ At(history, p) = At(history, q)
     /\ p[1] < q[1] \/ (p[1] = q[1] /\ p[2] < q[2])

Place(history, told, p) == 1 + Cardinality({q \in told : Precedes(history, q, p)})
LatestFirst(history, told) ==
  [k \in 1 .. Cardinality(told) |-> CHOOSE p \in told : Place(history, told, p) = k]

(* getExplanationsForOwner                                                 *)
ExplainAll(history, owned, profiles) ==
  LET order == LatestFirst(history, OwnRounds(history, owned))
  IN  [k \in DOMAIN order |-> Explain(history[order[k][1]], owned, profiles, order[k][2])]

ExplainInit == explained = NoExplanation

(* GET /explanations, of all the owner's negotiations.  Asked about one,   *)
(* it lists that negotiation's rounds alone, in their order.               *)
ExplainToOwner ==
  \E history \in Histories, owned \in SUBSET Sites, profiles \in [Sites -> Profiles] :
    explained' = [history |-> history, owned |-> owned, profiles |-> profiles,
                  list |-> ExplainAll(history, owned, profiles)]

ExplainNext == explained = NoExplanation /\ ExplainToOwner
ExplainSpec == ExplainInit /\ [][ExplainNext]_explainVars

-------------------------------------------------------------------------------
(* explainabilityService.ts:103-133, me.ts:699-752: "No private opponent   *)
(* strategy leakage".  What an owner is told is the same whatever the      *)
(* limits and the assets of the microgrids are that the owner does not     *)
(* have: over all the negotiations of a list, an owner of both sides       *)
(* included.                                                               *)
OpponentStaysPrivate ==
  \A profile \in Profiles, m \in Sites \ explained.owned :
    explained.list # <<>> =>
      explained.list = ExplainAll(explained.history, explained.owned,
                                  [explained.profiles EXCEPT ![m] = profile])

(* explainabilityService.ts:103-110.  An owner is told of every deal that  *)
(* a microgrid of the owner's is on either side of, and of no other.       *)
OwnDealsAreTold ==
  \A i \in DOMAIN explained.history : LET neg == explained.history[i] IN
    ({neg.seller, neg.buyer} \cap explained.owned # {} /\ Rounds(neg) # <<>>)
      <=> \E e \in Range(explained.list) : e.neg = neg.id
===============================================================================

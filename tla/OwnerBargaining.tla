--------------------------- MODULE OwnerBargaining ----------------------------
(***************************************************************************)
(* Two provisioned owners' agents bargain: the strategy of                 *)
(* agentRuntimeService.ts on both sides, against the rules of the broker   *)
(* that accepts or refuses what they send (negotiate.ts, and the limits of *)
(* preferenceService.ts on price and size; the daily quota and the battery *)
(* reserve, which the strategy does not look at, are left out).  Between a *)
(* decision and its validation an owner may change the preferences.        *)
(*                                                                         *)
(* Prices are in cents.  Stored prices have four decimals, so toFixed(4)   *)
(* changes none.  The agents answer their turns one after the other;       *)
(* TurnDelivery has the delivery of turns.                                 *)
(***************************************************************************)
EXTENDS Integers, FiniteSets

CONSTANTS
  TypePairs,        \* the types the two may have
  Limits,           \* the preferences an owner can store
  HalfSurplus,      \* what is asked for when there is no request yet
  BargainRounds,    \* MAX_ROUNDS
  MaxEdits,         \* bound: changes of preferences in a behaviour
  Null

(* What preferenceService.ts stores: no price below zero, and no empty     *)
(* trade; parseNegotiationInit asks for a surplus above zero.              *)
ASSUME BargainAssumption ==
  /\ \A l \in Limits :
       /\ l.enabled \in BOOLEAN
       /\ l.minSale \in Nat \cup {Null} /\ l.maxBuy \in Nat \cup {Null}
       /\ l.maxKwh \in (Nat \ {0}) \cup {Null}
  /\ HalfSurplus \in Nat \ {0} /\ MaxEdits \in Nat
  /\ BargainRounds \in Nat /\ BargainRounds >= 3
  /\ Null \notin Int

VARIABLES
  types,     \* type of the first and the second agent
  limits,    \* the stored preferences of each
  bargain,   \* the NegotiationState
  pending,   \* the action sent and not yet validated
  edits      \* history: changes of preferences so far

bargainVars == <<types, limits, bargain, pending, edits>>

Seats == {1, 2}
Other(i) == 3 - i
Lesser(a, b) == IF a <= b THEN a ELSE b
Greater(a, b) == IF a >= b THEN a ELSE b
Default(v, d) == IF v = Null THEN d ELSE v
Increment == 2

BargainInit ==
  /\ types = Null /\ limits = Null
  /\ bargain = [active |-> 1, round |-> 1, price |-> Null, kwh |-> Null, status |-> "none"]
  /\ pending = Null
  /\ edits = 0

OpenBargain ==
  /\ bargain.status = "none"
  /\ bargain' = [bargain EXCEPT !.status = "open"]
  /\ types' \in TypePairs /\ limits' \in [Seats -> Limits]
  /\ UNCHANGED <<pending, edits>>

-------------------------------------------------------------------------------
(* computeDecision.  It knows two types of seller, SELLER and GENERATOR.   *)
SellsAtRuntime(i) == types[i] \in {"SELLER", "GENERATOR"}

AskedKwh(i) ==
  Lesser(Default(bargain.kwh, HalfSurplus), Default(limits[i].maxKwh, 100))

WalkAway == [action |-> "WALK_AWAY", price |-> Null, kwh |-> Null]

(* Mutant: a buyer may bid above its maximum.                              *)
DecideOverMaximum(i) ==
  LET minPrice == Default(limits[i].minSale, 5)
      maxPrice == Default(limits[i].maxBuy, 35)
      accept == [action |-> "ACCEPT", price |-> bargain.price, kwh |-> AskedKwh(i)]
      counter(p) == [action |-> "COUNTER_OFFER", price |-> p, kwh |-> AskedKwh(i)]
  IN  IF ~limits[i].enabled THEN WalkAway
      ELSE IF SellsAtRuntime(i)
           THEN IF bargain.price # Null /\ bargain.price >= minPrice THEN accept
                ELSE counter(Greater(minPrice, Default(bargain.price, minPrice) + Increment))
           ELSE IF bargain.price # Null /\ bargain.price <= maxPrice THEN accept
                ELSE counter(Greater(maxPrice, Default(bargain.price, maxPrice) - Increment))

(* A seller accepts from its minimum on, and otherwise asks a little more  *)
(* than was offered; a buyer the other way round.                          *)
Decision(i) ==
  LET minPrice == Default(limits[i].minSale, 5)
      maxPrice == Default(limits[i].maxBuy, 35)
      accept == [action |-> "ACCEPT", price |-> bargain.price, kwh |-> AskedKwh(i)]
      counter(p) == [action |-> "COUNTER_OFFER", price |-> p, kwh |-> AskedKwh(i)]
  IN  IF ~limits[i].enabled THEN WalkAway
      ELSE IF SellsAtRuntime(i)
           THEN IF bargain.price # Null /\ bargain.price >= minPrice THEN accept
                ELSE counter(Greater(minPrice, Default(bargain.price, minPrice) + Increment))
           ELSE IF bargain.price # Null /\ bargain.price <= maxPrice THEN accept
                ELSE counter(Lesser(maxPrice, Default(bargain.price, maxPrice) - Increment))

(* handleTurn: an agent that cannot read its owner's limits, or finds the  *)
(* owner suspended, walks away.                                            *)
DecideTurn ==
  /\ bargain.status = "open" /\ pending = Null
  /\ pending' \in {Decision(bargain.active), WalkAway}
  /\ UNCHANGED <<types, limits, bargain, edits>>

-------------------------------------------------------------------------------
(* The broker knows three: PRODUCER as well.                               *)
SellsAtBroker(i) == types[i] \in {"SELLER", "PRODUCER", "GENERATOR"}

(* validateActionAgainstPreferences, with the limits of seat i.            *)
SatisfiedFor(i, act) ==
  /\ limits[i].enabled
  /\ limits[i].maxKwh # Null => act.kwh <= limits[i].maxKwh
  /\ IF SellsAtBroker(i)
     THEN limits[i].minSale # Null => act.price >= limits[i].minSale
     ELSE limits[i].maxBuy # Null => act.price <= limits[i].maxBuy

(* parseNegotiationAction, then the limits of the owner who acts, and of   *)
(* the other one when an offer is accepted.                                *)
Admissible(i, act) ==
  act.action = "WALK_AWAY" \/
    /\ act.price >= 0 /\ act.kwh > 0
    /\ SatisfiedFor(i, act)
    /\ act.action = "ACCEPT" => SatisfiedFor(Other(i), act)

(* The action arrives.  An inadmissible one leaves the turn where it is,   *)
(* and the agent, which is not asked again, never moves: a stall.          *)
ReceiveAction ==
  /\ pending # Null
  /\ bargain' =
       IF ~Admissible(bargain.active, pending) THEN [bargain EXCEPT !.status = "stalled"]
       ELSE IF pending.action = "WALK_AWAY" THEN [bargain EXCEPT !.status = "walked"]
       ELSE IF pending.action = "ACCEPT"
            THEN [bargain EXCEPT !.status = "accepted", !.price = pending.price,
                                 !.kwh = pending.kwh]
       ELSE [active |-> Other(bargain.active), round |-> bargain.round + 1,
             price |-> pending.price, kwh |-> pending.kwh,
             status |-> IF bargain.round + 1 > BargainRounds THEN "max_rounds" ELSE "open"]
  /\ pending' = Null
  /\ UNCHANGED <<types, limits, edits>>

(* updatePreferences by the owner of one of the two microgrids.            *)
EditLimits ==
  /\ edits < MaxEdits /\ bargain.status = "open"
  /\ \E i \in Seats, l \in Limits : l # limits[i] /\ limits' = [limits EXCEPT ![i] = l]
  /\ edits' = edits + 1
  /\ UNCHANGED <<types, bargain, pending>>

BargainNext == OpenBargain \/ DecideTurn \/ ReceiveAction \/ EditLimits
BargainSpec == BargainInit /\ [][BargainNext]_bargainVars

-------------------------------------------------------------------------------
BargainTypeOK ==
  /\ types \in TypePairs \cup {Null} /\ limits \in [Seats -> Limits] \cup {Null}
  /\ edits \in 0 .. MaxEdits
  /\ bargain.round \in 1 .. BargainRounds + 1 /\ bargain.active \in Seats
  /\ bargain.status \in {"none", "open", "accepted", "walked", "max_rounds", "stalled"}

(* A seat for which runtime and broker mean the same side, and a pair that *)
(* has one of each side.                                                   *)
Understood == \A i \in Seats : SellsAtRuntime(i) <=> SellsAtBroker(i)
Matched == Understood /\ (SellsAtRuntime(1) <=> ~SellsAtRuntime(2))
Seller == IF SellsAtRuntime(1) THEN 1 ELSE 2
Floor == Default(limits[Seller].minSale, 5)
Ceiling == Default(limits[Other(Seller)].maxBuy, 35)

(* agentRuntimeService.ts:273-306, negotiate.ts:471-520.  The bargain of   *)
(* two strategies does not stall on an action that the broker refuses,     *)
(* unless the limits changed meanwhile, the broker takes the agent for the *)
(* other side, or a buyer's limit is so low that its bid is below zero.    *)
(* While the limits stay, the deal is within both owners', and when those  *)
(* meet there is a deal, by the third round.                               *)
DealWithinLimits ==
  /\ bargain.status = "stalled" =>
       \/ edits > 0
       \/ ~Understood
       \/ ~SellsAtRuntime(bargain.active)
          /\ Default(limits[bargain.active].maxBuy, 35) < Increment
  /\ bargain.status # "none" /\ edits = 0 /\ Matched /\ limits[1].enabled /\ limits[2].enabled =>
       /\ bargain.status = "accepted" =>
            /\ Floor <= bargain.price /\ bargain.price <= Ceiling
            /\ \A i \in Seats : bargain.kwh <= Default(limits[i].maxKwh, 100)
       /\ Floor <= Ceiling => bargain.status # "max_rounds" /\ bargain.round <= 3
===============================================================================

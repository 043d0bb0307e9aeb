----------------------------- MODULE GatePayload ------------------------------
(***************************************************************************)
(* What a grid job carries: the power each bus injects and draws when a    *)
(* coalition trades, as jointGatePayload.ts and gridGate.ts work it out.   *)
(* A trade lasts an hour, so its energy in kWh is its power in kW.  A      *)
(* bus's power is kept as the numerator of a fraction whose denominator is *)
(* the capacity of that side of the coalition.                             *)
(***************************************************************************)
EXTENDS Integers, Sequences, FiniteSets, Functions, FiniteSetsExt

CONSTANTS
  Coalitions,   \* sequences of agents: type, microgrid, capacity, priced
  Topologies,   \* sequences of buses: the microgrids mapped to each
  Trades        \* energies traded

(* Ratings are sums over assets; the topology has the buses of the seed.   *)
ASSUME PayloadAssumption ==
  /\ Trades \subseteq Nat
  /\ \A coalition \in Coalitions :
       /\ coalition \in Seq(Range(coalition))
       /\ \A a \in Range(coalition) : a.capacity \in Nat
  /\ \A buses \in Topologies :
       buses \in Seq(Range(buses)) /\ buses # <<>> /\ \A bus \in Range(buses) : IsFiniteSet(bus)

VARIABLE payload   \* the last payload built
payloadVars == <<payload>>

Sides == {"gen", "load"}
NoPayload == [kind |-> "none", coalition |-> <<>>, buses |-> <<>>, kwh |-> 0, nodes |-> <<>>]

(* The joint payload takes whoever is no seller for a buyer; the grid gate *)
(* leaves out whoever is neither.                                          *)
OnSide(kind, side, agent) ==
  CASE side = "gen"                    -> agent.type = "SELLER"
    [] side = "load" /\ kind = "joint" -> agent.type # "SELLER"
    [] side = "load" /\ kind = "grid"  -> agent.type = "BUYER"

(* The members of a side, by their places in the coalition.                *)
Members(kind, side, coalition) == {i \in DOMAIN coalition : OnSide(kind, side, coalition[i])}

TotalCapacity(kind, side, coalition) ==
  SumFunctionOnSet([i \in DOMAIN coalition |-> coalition[i].capacity], Members(kind, side, coalition))

(* sellerCapacities, buyerCapacities: a map from microgrids to capacities, *)
(* in which a second agent of a microgrid replaces the first.              *)
CapacityAt(kind, side, coalition, m) ==
  LET there == {i \in Members(kind, side, coalition) : coalition[i].microgrid = m}
  IN  IF there = {} THEN 0 ELSE coalition[Max(there)].capacity

(* Mutant: of the microgrids on a bus, one counts.                         *)
PowerOfOne(kind, side, coalition, bus, kwh) ==
  IF bus = {} THEN 0 ELSE kwh * CapacityAt(kind, side, coalition, CHOOSE m \in bus : TRUE)

(* The share of the traded power a bus carries on a side.                  *)
Power(kind, side, coalition, bus, kwh) ==
  SumFunction([m \in bus |-> kwh * CapacityAt(kind, side, coalition, m)])

Nodes(kind, coalition, buses, kwh) ==
  [i \in DOMAIN buses |->
     [slack |-> i = 1,
      gen   |-> Power(kind, "gen", coalition, buses[i], kwh),
      load  |-> Power(kind, "load", coalition, buses[i], kwh)]]

(* assertFinitePositive: a buyer without a maximum price has no value for  *)
(* the energy, and the joint payload is refused.                           *)
Refused(kind, coalition) ==
  kind = "joint" /\ \E i \in Members(kind, "load", coalition) : ~coalition[i].priced

PayloadInit == payload = NoPayload

BuildPayload ==
  \E kind \in {"joint", "grid"}, coalition \in Coalitions, buses \in Topologies, kwh \in Trades :
    /\ ~Refused(kind, coalition)
    /\ payload' = [kind |-> kind, coalition |-> coalition, buses |-> buses, kwh |-> kwh,
                   nodes |-> Nodes(kind, coalition, buses, kwh)]

PayloadNext == payload = NoPayload /\ BuildPayload
PayloadSpec == PayloadInit /\ [][PayloadNext]_payloadVars

-------------------------------------------------------------------------------
(* Every member of a side has a microgrid of its own, on one bus.          *)
OwnBus(side) ==
  LET members == Members(payload.kind, side, payload.coalition)
      site(i) == payload.coalition[i].microgrid
  IN  /\ \A i, j \in members : site(i) = site(j) => i = j
      /\ \A i \in members : Cardinality({k \in DOMAIN payload.buses : site(i) \in payload.buses[k]}) = 1
      /\ TotalCapacity(payload.kind, side, payload.coalition) > 0

(* jointGatePayload.ts:106-127, gridGate.ts:76-103.  What is injected and  *)
(* what is drawn is each the whole of the traded power, however many       *)
(* agents, capacities and shared buses there are, and one bus, the slack,  *)
(* takes the remainder: else the power flow judges another trade.          *)
PowerIsTraded ==
  payload.kind # "none" =>
    /\ \A side \in Sides : OwnBus(side) =>
         SumFunction([i \in DOMAIN payload.nodes |-> payload.nodes[i][side]])
           = payload.kwh * TotalCapacity(payload.kind, side, payload.coalition)
    /\ Cardinality({i \in DOMAIN payload.nodes : payload.nodes[i].slack}) = 1
===============================================================================

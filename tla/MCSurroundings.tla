---------------------------- MODULE MCSurroundings ----------------------------
(* Instances of the components around the negotiation.                     *)
EXTENDS Surroundings

CONSTANTS a1, a2, m1, m2, m3

MCBelievers == <<a1, a2>>
MCAttempts == [joint |-> 2, stability |-> 2, grid |-> 2]

(* Coalitions of up to four agents at three microgrids.                    *)
Agent(type, microgrid, capacity, priced) ==
  [type |-> type, microgrid |-> microgrid, capacity |-> capacity, priced |-> priced]
MCCoalitions ==
  LET pool == {Agent(t, m, c, p) : t \in {"SELLER", "BUYER", "STORAGE"}, m \in {m1, m2},
                                   c \in {0, 2}, p \in BOOLEAN}
  IN  {<<Agent("SELLER", m1, 3, FALSE), x, y>> : x \in pool, y \in pool}
      \cup {<<Agent("SELLER", m1, 3, FALSE), x, y, Agent("BUYER", m3, 1, TRUE)>> :
              x \in pool, y \in {Agent("SELLER", m2, 2, FALSE), Agent("BUYER", m2, 2, TRUE)}}
MCTopologies == {<<{m1}, {m2}, {m3}>>, <<{}, {m1, m2}, {m3}>>, <<{m2, m3}, {m1}>>}

(* Preferences, in cents and kWh.                                          *)
Limit(minSale, maxBuy, maxKwh) ==
  [enabled |-> TRUE, minSale |-> minSale, maxBuy |-> maxBuy, maxKwh |-> maxKwh]
MCLimits == {Limit(Null, Null, Null), Limit(10, 12, 5), Limit(30, 40, 20), Limit(40, 1, Null),
             Limit(2, 3, 1), Limit(34, 34, Null),
             [Limit(Null, Null, Null) EXCEPT !.enabled = FALSE]}
MCTypePairs == {<<"SELLER", "BUYER">>, <<"BUYER", "GENERATOR">>, <<"PRODUCER", "BUYER">>,
                <<"SELLER", "PRODUCER">>, <<"BUYER", "BUYER">>}

MCTables == <<"auditevents", "settlements">>

(* Negotiations in the order the newest first; prices in cents.            *)
Negotiation(id, seller, buyer, rounds, settledAt, stability, grid) ==
  [id |-> id, seller |-> seller, buyer |-> buyer, rounds |-> rounds, settledAt |-> settledAt,
   settledTime |-> 10 * id, stability |-> stability, grid |-> grid]
MCHistories ==
  LET round(action, at) == [action |-> action, at |-> at]
      rounds(id) == {<<>>, <<round("COUNTER_OFFER", 10 * id + 1), round("ACCEPT", 10 * id + 5)>>}
      first  == {Negotiation(1, s, m2, r, p, v, "FEASIBLE") :
                   s \in {m1, Nothing}, r \in rounds(1), p \in {Nothing, 9},
                   v \in {"STABLE", "NOT_EVALUATED"}}
      second == {Negotiation(2, m2, b, r, p, "STABLE", "FEASIBLE") :
                   b \in {m3, Nothing}, r \in rounds(2), p \in {Nothing, 14}}
  IN  {<<n2, n1>> : n1 \in first, n2 \in second} \cup {<<n1>> : n1 \in first}
Profile(minSale, maxBuy, reserve, charge, solar) ==
  [minSale |-> minSale, maxBuy |-> maxBuy, reserve |-> reserve, charge |-> charge, solar |-> solar]
MCProfiles == {Profile(Nothing, 13, 20, Nothing, TRUE), Profile(12, 8, 20, 10, FALSE)}
===============================================================================

--------------------------- MODULE MCNegotiation ---------------------------
(***************************************************************************)
(* Small instances of Negotiation: one seller and one buyer with a         *)
(* microgrid each, two possible terms, and owners that switch between      *)
(* preferences which disagree on the terms.                                *)
(***************************************************************************)
EXTENDS Negotiation, TLC

CONSTANTS alice, bob, mgA, mgB, small, large

MCAgents == {alice, bob}
MCMicrogrids == {mgA, mgB}
MCMicrogridOf == (alice :> mgA) @@ (bob :> mgB)
MCType == (alice :> "SELLER") @@ (bob :> "BUYER")
MCTerms == {small, large}
MCKwh == [t \in Terms |-> IF t = small THEN 1 ELSE 2]

(***************************************************************************)
(* An owner that takes any terms, and one that trades small quantities     *)
(* only.  With a daily limit of 2 kWh the seller's day is over after one   *)
(* large settlement or two small ones.                                     *)
(***************************************************************************)
open == [tradingEnabled |-> TRUE, allowed |-> [r \in Roles |-> Terms],
         maximumDailyExportKwh |-> 2]
cautious == [tradingEnabled |-> TRUE, allowed |-> [r \in Roles |-> {small}],
             maximumDailyExportKwh |-> 1]
absent == [tradingEnabled |-> FALSE, allowed |-> [r \in Roles |-> {}],
           maximumDailyExportKwh |-> 0]

OpenPolicy == {open}
TwoPolicies == {open, cautious}
ThreePolicies == {open, cautious, absent}

HandlerSymmetry == Permutations(Sessions) \cup Permutations(Calls)
=============================================================================

SPECIFICATION FairSpec
CONSTANTS
  alice = alice
  bob = bob
  mgA = mgA
  mgB = mgB
  small = small
  large = large
  Agents <- MCAgents
  Microgrids <- MCMicrogrids
  MicrogridOf <- MCMicrogridOf
  Type <- MCType
  Terms = {small}
  Kwh <- MCKwh
  Policies <- OpenPolicy
  Suspendable = {}
  NegIds = {n1}
  Sessions = {s1, s2}
  Starts = {h1}
  Calls = {c1}
  MAX_ROUNDS = 3
  TurnTaking = TRUE
  Faults = TRUE
  LossesUntil = 1
  EvidenceRecorded = TRUE
  None = None
INVARIANTS TypeOK SettledOnce AlternatingOffers NoOrphan
PROPERTIES AcceptedDealResolves LedgerSpec

SPECIFICATION Spec
CONSTANTS
  alice = alice
  bob = bob
  mgA = mgA
  mgB = mgB
  small = small
  large = large
  Agents <- MCAgents
  Microgrids <- MCMicrogrids
  MicrogridOf <- MCMicrogridOf
  Type <- MCType
  Terms = {small}
  Kwh <- MCKwh
  Policies <- OpenPolicy
  Suspendable = {}
  NegIds = {n1}
  Sessions = {s1}
  Starts = {h1}
  Calls = {c1}
  MAX_ROUNDS = 3
  TurnTaking = TRUE
  Faults = FALSE
  LossesUntil = 1
  EvidenceRecorded = FALSE
  None = None
INVARIANT PassedDealsSettle

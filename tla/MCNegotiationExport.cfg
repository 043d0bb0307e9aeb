SPECIFICATION Spec
CONSTANTS
  alice = alice
  bob = bob
  mgA = mgA
  mgB = mgB
  small = small
  large = large
  Agents <- MCAgents
  Microgrids <- MCMicrogrids
  MicrogridOf <- MCMicrogridOf
  Type <- MCType
  Terms = {large}
  Kwh <- MCKwh
  Policies <- OpenPolicy
  Suspendable = {}
  NegIds = {n1, n2}
  Sessions = {s1, s2}
  Starts = {h1}
  Calls = {c1, c2}
  MAX_ROUNDS = 1
  TurnTaking = TRUE
  Faults = FALSE
  LossesUntil = 1
  EvidenceRecorded = TRUE
  None = None
INVARIANT DailyExportRespected

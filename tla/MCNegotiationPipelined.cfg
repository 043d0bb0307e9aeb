SPECIFICATION Spec
CONSTANTS
  alice = alice
  bob = bob
  mgA = mgA
  mgB = mgB
  small = small
  large = large
  Agents <- MCAgents
  Microgrids <- MCMicrogrids
  MicrogridOf <- MCMicrogridOf
  Type <- MCType
  Terms <- MCTerms
  Kwh <- MCKwh
  Policies <- OpenPolicy
  Suspendable = {}
  NegIds = {n1}
  Sessions = {s1, s2}
  Starts = {h1}
  Calls = {c1, c2}
  MAX_ROUNDS = 1
  TurnTaking = FALSE
  Faults = FALSE
  LossesUntil = 1
  EvidenceRecorded = TRUE
  None = None
SYMMETRY HandlerSymmetry
INVARIANTS SettlementsGated SettlementsAccepted

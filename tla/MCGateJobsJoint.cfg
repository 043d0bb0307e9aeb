CONSTANTS
  Checks = {c1, c2}
  Crowded = {"joint"}
  Takers = 2
  Attempts <- MCAttempts
  EngineReliable = TRUE
  JointAnswersInFull = FALSE
SPECIFICATION GateSpec
CHECK_DEADLOCK FALSE
INVARIANTS
  JointCheckIsAnswered

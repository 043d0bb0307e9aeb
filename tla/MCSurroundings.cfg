CONSTANTS
  a1 = a1
  a2 = a2
  m1 = m1
  m2 = m2
  m3 = m3
  Workers = {w1, w2}
  Believers <- MCBelievers
  Confidences = {1000}
  Scale = 1000
  MaxTicks = 2
  MaxFaults = 1
  Checks = {c1, c2}
  Crowded = {"joint"}
  Takers = 1
  Attempts <- MCAttempts
  EngineReliable = FALSE
  JointAnswersInFull = TRUE
  Coalitions <- MCCoalitions
  Topologies <- MCTopologies
  Trades = {4}
  TypePairs <- MCTypePairs
  Limits <- MCLimits
  HalfSurplus = 10
  BargainRounds = 5
  MaxEdits = 1
  Null = Null
  Objects = {1, 2}
  MaxSessions = 2
  MaxTurns = 3
  MaxStops = 1
  Tables <- MCTables
  RowIds = {1, 2}
  MaxRowChanges = 3
  MaxNights = 2
  Contents = {k1}
  Copies = {1, 2}
  Requests = {1, 2, 3}
  Filters = {"all", "active", "revoked"}
  MaxFetches = 3
  MaxChanges = 2
  Applications = {p1, p2}
  MaxInspections = 2
  NoApplication = NoApplication
  Tabs = {t1}
  MaxSent = 2
  Deals = {1}
  Own = {1}
  DealRounds = {1, 2}
  PageSize = 2
  Talks = {1, 2}
  MaxEvents = 3
  MaxPackets = 3
  Histories <- MCHistories
  Profiles <- MCProfiles
  Sites = {m1, m2, m3}
  DefaultPrice = 12
  Nothing = Nothing
  Screens = {s1, s2}
  Accounts = {b1, b2}
  DemoMode = TRUE
  Nobody = Nobody
SPECIFICATION Spec
CHECK_DEADLOCK FALSE
INVARIANTS
  TypeOK
  SerialCyclesFollowOn
  ReportedUpdatesStored
  PassIsBacked
  ExhaustedIsAlerted
  PowerIsTraded
  DealWithinLimits
  StallNeedsLoss
  AnswersFitTheirRound
  CompletedVouches
  AlarmIsExplained
  StatusFollowsTrail
  ListMatchesFilter
  ReviewIsOfPressed
  PauseHolds
  SectionsAgree
  FeedFollows
  OpponentStaysPrivate
  
  ShownUserOwnsToken
PROPERTIES
  BroadcastsEnd
  ChecksEnd

CONSTANTS
  TextOf <- SmallTextOf
  NameOf <- SmallNameOf
  HighConfidence = 80
  TextsOf <- SmallTextsOf
  Sources <- SmallSources
  Category <- SmallCategory
  Questions <- SmallQuestions
  Earlier <- SmallEarlier
  DistanceOf <- SmallDistanceOf
  TopKs = {1, 2}
  Multiplier = 2
  MaxCandidates = 3
  MaxChanges = 1
  Intents <- SmallIntents
  MainPriority <- SmallMain
  FollowUpPriority <- SmallFollowUp
  Pool <- SmallPool
  Written <- SmallWritten
  IntentsOf <- SmallIntentsOf
  Resembles <- SmallResembles
  Focused <- SmallWritten
  Planned = 2
  MaxFollowUps = 2
  Payloads <- SmallPayloads
  Safe <- SmallSafe
  Blank = "blank"
  SizeOf <- SmallSizeOf
  Exchanges = {4, 12, 30}
  Furthers <- SmallFurthers
  Budget = 24
  Frame = 2
  RefSize = 1
  NoteSize = 2
  Requests = {r1, r2, r3, r4}
  Window = 2
  Limit = 2
  MaxTime = 3
  Processes <- TwoWorkers
  PoolOf <- TwoConnections
  MaxHeld = 2
  MaxDays = 2
  MaxCrashes = 1
  Tasks = {k1, k2}
  NoTask = none
  MaxPolls = 2
  MaxMounts = 2
  MaxAttempts = 3
  JobIds = {j1, j2, j3}
  NoId = none
  Activators = {p1, p2}
  MaxTries = 2
SPECIFICATION CompanionsSpec
INVARIANT EvidenceIsTrusted
INVARIANT SufficientIsComplete
INVARIANT NoFacetLost
INVARIANT FallbackRemains
INVARIANT IntentsAdvance
INVARIANT ContextAccounts
INVARIANT ConfirmedIsShown
INVARIANT WithinRate
INVARIANT PassesExclusive
INVARIANT TasksFollowed
INVARIANT StoredIsCharged
INVARIANT ActiveKept
INVARIANT AnsweredOnce
CHECK_DEADLOCK FALSE

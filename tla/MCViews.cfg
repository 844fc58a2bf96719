SPECIFICATION MCSpec
CONSTANTS
  Refused = Refused
  Nobody = Nobody
  Unmade = Unmade
  Answers <- MCAnswers
  ProblemPodLimit = 2
  TopListLimit = 2
  EventLimit = 2
  Templates = {"t1", "t2", "t3"}
  Images <- MCImages
  Day = 2
  LastTick = 7
  LastRevision = 4
INVARIANTS
  ViewsTypeOK
  UnknownIsNotMissing
  ReportsAgree
  AllClearServes
  RequestsCoverPods
  CapacityAddsUp
  WorstNeverHidden
  TrailTrue
PROPERTY HarmNeverHelps
CHECK_DEADLOCK FALSE

SPECIFICATION JudgedSpec
CONSTANTS
  Scenes <- MCScenes
  MaxTracks = 2
  MaxUnseen = 2
  Stray = 6
  Fresh = 1
  Reach = 8
  Budget = 1
  Latch = 2
  Hold = 2
  Horizons = {1, 2}
  Period = 2
  TakeoffWindow = 1
  HoldStep = 1
  HoldLimit = 2
  CrossFrames = 3
  CrossJump = 2
  Clearance = 3
  Ascent = 3
  CommitFrames = 3
  CommitSlack = 1
  MaxLines <- MCLines
  Judged = {"rankings"}
  Modes = {"speedrun", "collector"}
  MaxScore = 1
  Defer = 0
  PlanAge = 1
  GoalAge = 2
  MaxPlans = 2
CHECK_DEADLOCK FALSE
INVARIANTS
  LearningHonest
  HuntSound
PROPERTIES
  CreditIsOwn
  PhasesInOrder
  JudgmentCurrent

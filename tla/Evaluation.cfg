SPECIFICATION EvaluationSpec
CONSTANTS
  gate = gate
  plan = plan
  report = report
  c1 = c1
  c2 = c2
  Decisions = {gate, plan}
  MaxDecisions = 1
  RecentCapacity = 1
  SampleEvery = 2
  Bounds <- MCBounds
  Latencies <- MCLatencies
  MaxCalls = 3
  Evaluators = {c1, c2}
  Models <- MCModels
  Fields <- MCFields
  Tokens <- MCTokens
  NoReport = NoReport
  Unset = Unset
SYMMETRY Symmetry
INVARIANTS
  StatsTrue
  UsageOnce

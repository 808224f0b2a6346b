SPECIFICATION PollSpec
CONSTANTS
  Ecus = {0, 1}
  Quiet = 1
  ReqMax = 3
  MinStart = 2
  Cap = 2
  Span = 2
  MidTop = 3
  MaxCfs = 2
  SnMod = 16
  Cars <- MCCars
  ReplyTimeout = 2
  Gap = 1
  BackoffMax = 4
  MissCap = 2
  PeriodMin = 2
  PeriodMax = 4
  PlanMax = 3
  OnDebounce = 1
  OffDebounce = 5
  EndMargin = 1
  StartBudget = 8
  QueueLen = 2
  MaxPolls = 2
INVARIANTS  CompleteIsHonest
PROPERTIES EachOnce NeverFaster EndBeforeOff

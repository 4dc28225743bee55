SPECIFICATION Spec
CONSTANTS
  s1 = s1
  s2 = s2
  asha = asha
  ravi = ravi
  meera = meera
  Sessions = {s1, s2}
  Students = {asha, ravi, meera}
  Plan <- MCPlan
  Limits <- MCLimits
  Asked <- MCAsked
  Keys <- MCKeys
  System = 600
  MaxTurns = 3
  LastTick = 2
  FailureWindow = 0
  HourWindow = 0
  DayWindow = 1
  MonthWindow = 2
SYMMETRY EitherSession
INVARIANT SpendIsBounded
INVARIANT AttemptsAreRationed
CHECK_DEADLOCK FALSE

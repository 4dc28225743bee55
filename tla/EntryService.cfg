SPECIFICATION FairSpec
CONSTANTS
  e1 = e1
  e2 = e2
  s1 = s1
  r1 = r1
  r2 = r2
  Events = {e1, e2}
  Students = {s1}
  Sender <- OneSender
  Requests = {r1, r2}
  DailyLimit = 1
  MaxCalls = 2
  MaxCrashes = 1
  MaxFailures = 1
INVARIANTS
  TypeOK
  WorkExecutesOnce
  OneAnswerPerQuestion
  RepliesAreRepeatedByFailureOnly
  SoftLimitHolds
PROPERTIES
  ImplementsAnswerOnce
  MessagesAreAnswered
\* Every message has been handled: the system rests.
CHECK_DEADLOCK FALSE

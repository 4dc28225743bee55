SPECIFICATION Spec
CONSTANTS
  r1 = r1
  w1 = w1
  s1 = s1
  c1 = c1
  Students = {s1}
  Contents = {c1}
  Media <- OneAttachment
  Owner <- OneOwner
  ContentOf <- SameContent
  Pages = {1}
  Planned <- FirstPage
  Voice = {}
  Requests = {r1}
  Workers = {w1}
  Serverless = FALSE
  PolicyMax = 2
  Ceiling = 1
  MaxVisionPages = 1
  DispatchTries = 2
  MaxCrashes = 2
  MaxOps = 1
PROPERTIES
  RetriedJobsAreTried
\* Every message has been handled and every task is gone: the system rests.
CHECK_DEADLOCK FALSE

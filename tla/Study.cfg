SPECIFICATION Spec
CONSTANTS
  s1 = s1
  s2 = s2
  Desks = {"cards", "papers", "homework", "memory", "progress", "answers", "library", "files"}
  Sessions = {s1, s2}
  Cards = {"force", "energy"}
  FirstCards <- OldCards
  Paper <- AllPaper
  Submissions <- AllSubmissions
  Replies <- AllReplies
  Hundredth = 10
  Topics = {"algebra", "optics"}
  Candidates <- AllCandidates
  Sheets <- AllSheets
  Days = 2
  MaxSteps <- WritesPerDesk
  Readers = {s1, s2}
  Documents <- AllDocuments
  Requests <- AllRequests
  Questions <- AllQuestions
  Models = {"small", "large"}
  Window = 500
  MaxCommits = 3
  Workers = {s1, s2}
  Contents <- AllContents
  Uploads <- AllUploads
  Environments <- AllEnvironments
  RetentionDays = 1
  Batch = 2
  LastDay = 3
  MaxReadings = 3
SYMMETRY EitherSession
INVARIANTS
  TypeOK
  CardsFollowTheirLog
  MarksAddUp
  TwinsArePractice
  OutputsAreEarned
  IngestedIsFound
  EvidenceIsTheAskers
  KeptBytesHaveAnExpiry
  NoPageIsPaidForAgain
\* A student may stop at any time, and the bounds end every behaviour.
CHECK_DEADLOCK FALSE

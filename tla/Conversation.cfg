CONSTANTS
  Sessions = {s1, s2}
  Requests = {r1, r2, r3}
  NoSession = NoSession
  Absent = Absent
  NoObject = NoObject
SPECIFICATION FairSpec
INVARIANTS
  ContextIsComplete
  AnswersTellTheTruth
  RuntimeFollowsStore
PROPERTIES
  DeletedStaysDeleted
  SessionBecomesFree

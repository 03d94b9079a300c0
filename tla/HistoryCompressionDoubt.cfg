CONSTANTS
  Sessions = {s1}
  Requests = {r1, r2}
  NoSession = NoSession
  Absent = Absent
  NoObject = NoObject
SPECIFICATION CompressionSpec
PROPERTIES
  DoubtIsReadBack

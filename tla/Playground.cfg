CONSTANTS
  t1 = t1
  t2 = t2
  s1 = s1
  s2 = s2
  s3 = s3
  m1 = m1
  m2 = m2
  m3 = m3
  Tasks = {t1, t2}
  Sessions = {s1, s2, s3}
  Sends = {m1, m2}
  Presets <- MCPresets
  Architectures = {MVI, MVVM}
  None = None
  MaxRevision = 6
  MaxBinding = 2
  Nodes <- CheckoutNodes
  InitialNode = "PLANNING_REQUIREMENTS"
  TerminalNodes = {"DONE"}
  Transitions <- CheckoutV2
SPECIFICATION PlaygroundPartsSpec
SYMMETRY Symmetry
INVARIANTS
  TasksAreWhole
  SendsTellTheTruth
PROPERTIES
  SavedUnderItsSources
  KeepsThePromise


SPECIFICATION Spec
CONSTANTS
  Workers = {w1, w2}
  m1 = m1
  m2 = m2
  Miners = {m1, m2}
  Reports <- MCReports
  Ids <- MCIds
  NoRow = NoRow
  NoWorker = NoWorker
INVARIANTS
  RollbackLinksAgree
  AnswersAreTrue
PROPERTIES
  ImplementsLedger
  RollbackIsAnswered
CHECK_DEADLOCK FALSE

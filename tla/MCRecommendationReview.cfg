CONSTANTS
  Call = {c1, c2, c3}
  Actor = {a1, a2}
  Recommendation = {r1}
  Payload <- MCPayload
  NoActor = NoActor
  NoReview = NoReview
SPECIFICATION Spec
SYMMETRY Symmetry
INVARIANTS
  TypeOK
  FourEyes
  RowCoherent
  AuditFollowsWrite
  RefusedHasNoEffect
PROPERTIES
  OutcomeNeverReopened
  ImplementsLedger
CHECK_DEADLOCK FALSE

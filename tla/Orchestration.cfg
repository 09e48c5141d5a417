SPECIFICATION MCSpec
CONSTANTS
  Roles <- Triad
  MaxIterations = 2
  MaxTurns = 11
  Findings = {"f1", "f2"}
  Panes = {p1, p2}
SYMMETRY Symmetry
INVARIANTS
  CompletionNeedsApproval
  SendBackBound
  OpenTurnIsFresh
  StateIsConsistent
PROPERTIES
  RecoveryIsSafe
CHECK_DEADLOCK FALSE

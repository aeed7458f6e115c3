SPECIFICATION Spec
CONSTANTS
  Contents = {a, b, c}
  None = None
  Torn = Torn
  Down = Down
SYMMETRY Symmetry
INVARIANTS PreviousSurvives RollBackRestores SelectedIsApplied

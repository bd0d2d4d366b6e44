CONSTANTS
  d1 = d1
  d2 = d2
  Intents = {"order", "push", "quote"}
  Kind <- MCKindOf
  Deliveries = {d1, d2}
  MaxRepeats = 2
  MaxFaults = 1
SPECIFICATION Spec
SYMMETRY Symmetry
INVARIANTS AnswersTrue ForwardedInFull StagedOnce

SPECIFICATION FairJobSpec
CONSTANTS
  w1 = w1
  w2 = w2
  c1 = c1
  c2 = c2
  Worker = {w1, w2}
  Call = {c1, c2}
  MaxJobs = 2
  Kind = {"good", "invalid", "poison"}
  MaxLosses = 2
INVARIANTS
  OneHolder
  NoJobStranded
  CancelAnswers
PROPERTIES
  ImplementsJobBoard
  JobsEndUnlessPoisoned
  CallsAnswered
CHECK_DEADLOCK FALSE

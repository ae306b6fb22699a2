CONSTANTS
  Object = {"p", "q"}
  Child = {1, 2}
  MaxCapture = 2
  PipeCapacity = 2
  Output <- MCOutput
SPECIFICATION Spec
CHECK_DEADLOCK FALSE
INVARIANTS
  TypeOK
  CaptureExact
  NothingOutlives
PROPERTIES
  WritesGoThrough
  CallsReturn

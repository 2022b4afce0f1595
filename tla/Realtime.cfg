SPECIFICATION Spec
CONSTANTS
  Delay = {1, 4}
  MaxBusy = 2
  MaxOver = 1
  MaxLag = 1
  Slice = 2
  MaxTicks = 2
  MaxCalls = 2
INVARIANTS TypeOK NeverAheadOfSchedule LatenessIsBounded NoBursts NoMessageIsLost CancelEndsSleep CancelEndsCall
PROPERTY AsyncYieldsBetweenSteps
CHECK_DEADLOCK FALSE

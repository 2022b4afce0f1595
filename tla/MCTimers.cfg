SPECIFICATION HSpec
CONSTANTS
  TimerName = {"a", "b"}
  Delay = {1, 3}
  LatestTime = 6
  FloatAdd <- MCFloatAdd
  MaxEvents = 6
INVARIANTS TimersTypeOK MeasuresFromStart ClockMovesForward
CHECK_DEADLOCK FALSE

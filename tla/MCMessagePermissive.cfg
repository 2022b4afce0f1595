SPECIFICATION MessageSpec
CONSTANTS
  TimerName = {"unused"}
  Delay = {1}
  LatestTime = 2
  FloatAdd <- ExactAdd
  Schema <- StrictSchema
  FieldOrder <- StrictOrder
  Strict = FALSE
  Placement <- PermissivePlacement
INVARIANT UnrecognisedPathsHaveNoOpinion
CHECK_DEADLOCK FALSE

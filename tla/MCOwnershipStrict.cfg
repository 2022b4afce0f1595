SPECIFICATION HSpec
CONSTANTS
  TimerName = {"liveB", "liveC"}
  Delay = {1}
  LatestTime = 2
  MaxEvents = 6
  FloatAdd <- ExactAdd
  Schema <- StrictSchema
  FieldOrder <- StrictOrder
  Strict = TRUE
  Placement <- FillPlacement
INVARIANT StrictMessageConforms
PROPERTY PublishesWhatWasAuthored
CHECK_DEADLOCK FALSE

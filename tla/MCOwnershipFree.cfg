SPECIFICATION HSpec
CONSTANTS
  TimerName = {"root", "inner", "leaf", "side"}
  Delay = {1}
  LatestTime = 3
  MaxEvents = 4
  FloatAdd <- ExactAdd
  Schema <- NoSchema
  FieldOrder <- NoSchema
  Strict = FALSE
  Placement <- FreePlacement
INVARIANTS MessageTypeOK LiveAntichain StaticsFollowBindings
PROPERTY PublishesWhatWasAuthored
CHECK_DEADLOCK FALSE

SPECIFICATION HSpec
CONSTANTS
  Programs <- SchemaPrograms
  TimerName <- SchemaTimerName
  Placement <- SchemaPlacement
  Delay = {1, 2}
  LatestTime = 7
  FloatAdd <- ExactAdd
  Schema <- StrictSchema
  FieldOrder <- StrictOrder
  Strict = TRUE
  StepBudget = 12
  MinPeriod = 1
  MaxHzPeriod = 1
PROPERTY RunPublishesWhatWasAuthored

SPECIFICATION HSpec
CONSTANTS
  Programs <- HiddenPrograms
  TimerName <- HiddenTimerName
  Placement = {}
  Delay = {1, 2}
  LatestTime = 8
  FloatAdd <- ExactAdd
  Schema <- NoSchema
  FieldOrder <- NoFields
  Strict = FALSE
  StepBudget = 12
  MinPeriod = 1
  MaxHzPeriod = 1
INVARIANT LoopsRunAsOftenAsWritten

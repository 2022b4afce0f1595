SPECIFICATION HSpec
CONSTANTS
  Programs <- AllPrograms
  TimerName <- AllTimerName
  Placement <- AllPlacement
  Delay = {1, 2}
  LatestTime = 8
  FloatAdd <- ExactAdd
  Schema <- NoSchema
  FieldOrder <- NoFields
  Strict = FALSE
  StepBudget = 12
  MinPeriod = 1
  MaxHzPeriod = 1
INVARIANTS RunTypeOK LiveTimersExist SendInProgress BindingStartsAfresh
INVARIANTS ResultsAreATimeline SendsCoverTheirDuration LoopsRunAsOftenAsWritten CountersLastAsLongAsLoops
PROPERTIES EndedRunsStayAsTheyAre TimeMovesWithResults StepReturns RunPublishesWhatWasAuthored

SPECIFICATION MCSpec
CONSTANTS
  Sources <- RangeSources
  MaxExpanded = 8
INVARIANT NamesReferAsWritten
CHECK_DEADLOCK FALSE

SPECIFICATION MCSpec
CONSTANTS
  Sources <- MCSources
  MaxExpanded = 8
INVARIANTS NamesReferAsWritten NestingIsBounded ParsedAsWrittenOut
CHECK_DEADLOCK FALSE

SPECIFICATION Spec
CONSTANTS
  File <- MCFile
  MaxActive = 1
  MaxPending = 1
  MaxFaults = 2
INVARIANTS
  TypeOK
  SentFileExists
  NothingIsLeaked
PROPERTIES
  LateResultsAreHarmless
  OnlyWhatWasAsked
  EventuallySettled
CHECK_DEADLOCK FALSE

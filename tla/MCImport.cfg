SPECIFICATION Spec
CONSTANTS
  MaxAccounts = 4
  Faults = TRUE
INVARIANTS
  OldSurvives
  RecoveryNeverRefuses
  ResultIsTrue
PROPERTY ForgottenWhenWhole

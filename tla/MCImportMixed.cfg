SPECIFICATION Spec
CONSTANTS
  MaxAccounts = 4
  Faults = FALSE
INVARIANT NeverMixed

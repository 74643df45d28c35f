\* One error, from where it is raised to where it is read.
SPECIFICATION Spec
CONSTANTS
  Kinds <- SomeKinds
  Texts <- SomeTexts
  Defaults <- SomeDefaults
  None = None
INVARIANTS ReasonStays RunIdKept StoredIsShown SpecialClassWins DefaultHolds
\* The error has been read.
CHECK_DEADLOCK FALSE

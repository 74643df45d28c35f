\* One request while the table is loaded.
SPECIFICATION Spec
CONSTANTS
  Years <- TwoYears
  Questions <- SomeQuestions
  Drafts <- SomeDrafts
  NoPlan = NoPlan
  Amounts <- SomeAmounts
  MaxLoads = 2
  MaxRows = 3
  Room = 4
  AggRows = 4
  Shown = 2
  Bars = 1
  Unit = 2
  DefaultDay = 1
INVARIANTS TypeOK ExecutedSuits AsOfCoversRows SumOfListed PageKept FileAgrees
\* The request ends.
CHECK_DEADLOCK FALSE

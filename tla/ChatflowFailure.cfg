\* A failed execution.
SPECIFICATION Spec
CONSTANT Runs = {r1}
INVARIANTS FailureText
\* Every turn ends.
CHECK_DEADLOCK FALSE

\* 16 rows, two cycles of the code's hash, in a field of 97 elements.
CONSTANTS
  P = 97
  Rounds = 7
  Cycle = 8
  InitLength = 16
  Inputs <- MCInputs
SPECIFICATION Spec
INVARIANT ExampleAccepted

SPECIFICATION Spec
CONSTANTS
  NL = NL
  NULL = NULL
  Term <- Terms
  MaxWords = 6
  MaxParts = 3
  Callers = {"do_index", "tests"}
INVARIANTS TypeOK WellLinked TermCountsExact TestsCountDocument
PROPERTIES SumOfParts CombineEnds
\* A count that is done, or undefined, takes no step.
CHECK_DEADLOCK FALSE

SPECIFICATION Spec
CONSTANTS
  NL = NL
  NULL = NULL
  Term <- Terms
  MaxWords = 4
  MaxParts = 2
  Callers = {"do_index"}
INVARIANT ServerCountsDocument
\* A count that is done, or undefined, takes no step.
CHECK_DEADLOCK FALSE

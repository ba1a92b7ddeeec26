SPECIFICATION Spec
CONSTANTS
  Term <- Terms
  Doc <- Docs
  Count <- Counts
  MaxTerms = 3
  n = 4
  limit = 2
  NameLen <- NameLens
  Chunk = 100
INVARIANT ResultsHaveAllTerms
\* A search that is answered takes no step.
CHECK_DEADLOCK FALSE

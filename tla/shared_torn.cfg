SPECIFICATION Spec
CONSTANTS
  NULL = NULL
  Doc <- Docs
  Reg = {"c1"}
  Before <- OneClient
  Term <- Terms3
  Naming <- Names
  Contents <- Parts
  Count <- Counts
INVARIANT DumpsLoadBack
\* No connection has to arrive, and an undefined server takes no step.
CHECK_DEADLOCK FALSE

CONSTANTS
  s1 = s1
  s2 = s2
  s3 = s3
  n1 = n1
  n2 = n2
  n3 = n3
  NULL = NULL
  Sockets = {s1, s2, s3}
  Names = {n1, n2, n3}
  Failures = {"early", "late"}
SYMMETRY Symmetry
SPECIFICATION Spec
CHECK_DEADLOCK FALSE
INVARIANTS QueuesExact ClientsKnown AcceptersAwake

SPECIFICATION Spec
CONSTANTS
  Participant = {ann}
  Objection = {o1}
  Request = {q1}
  Scope = {"global", "thread"}
  Time = {1}
  MaxReviews = 1
INVARIANTS RevocationsBite
CHECK_DEADLOCK FALSE

\* Ingested or appended: one request, an objection, two participants.
SPECIFICATION Spec
CONSTANTS
  Participant = {ann, bob}
  Objection = {o1}
  Request = {q1}
  Scope = {"thread"}
  Time = {1, 2}
  MaxReviews = 3
SYMMETRY Alike
INVARIANTS EligibilityDecides StandsOnLastWords
CHECK_DEADLOCK FALSE

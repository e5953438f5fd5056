SPECIFICATION MCSpec
CONSTANTS
  p = p
  q = q
  g = g
  x = x
  w1 = w1
  w2 = w2
  l = l
  n = n
  o = o
  s = s
  f1 = f1
  f2 = f2
  Participant = {p, q}
  Grant = {g}
  Execution = {x}
  Work = {w1, w2}
  Limit = {l}
  Scope = {"thread"}
  Time = {1, 2}
  Outcome = {o}
  Learning = {s}
  Effect = {f1, f2}
  Note = {n}
  MaxFacts = 4
INVARIANTS ShownIsUsable OutcomeShownIsUsable LearningRests
PROPERTIES FrozenWithItsAuthority DisputeIsFinal
CONSTRAINT Bound
SYMMETRY Symmetry
CHECK_DEADLOCK FALSE

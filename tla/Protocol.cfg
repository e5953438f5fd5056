\* Recovery: two recoveries and two reviews, a plan, a repair, seven events.
\* Merges: two forks, a claim and an objection, two requests, two ids of completions, a
\* reviewer, seven events.
\* Amendments: an outcome, two signals, a recommendation, two amendments, seven events.
\* Store: two processes, three commands, six events, kills at any call.
\* Exchange: a packet of a source of two events, edited or not, a run here, three events.
SPECIFICATION Spec
CONSTANTS
  c1 = c1
  c2 = c2
  v1 = v1
  v2 = v2
  Recovery = {c1, c2}
  Review = {v1, v2}
  PlanReview <- MCPlanReview
  EmergencyReview <- MCEmergencyReview
  Plan = {p1}
  Repair = {a1}
  MaxHeight = 7
  Fork = {f, g}
  Claim = {c}
  Objection = {o}
  Request = {r, s}
  Completion = {x, y}
  Conflict = {k}
  Reviewer = {m}
  MergeHeight = 7
  Outcome = {o1}
  Signal = {s1, s2}
  Advice = {r1}
  Amendment = {a, b}
  Decider = {d}
  Process = {p, q}
  Actor = {u}
  MaxRecords = 6
  MaxJobs = 3
  Runner = {run}
  Amended = {d1}
  MaxVersion = 2
  MaxLength = 2
  MaxPackets = 1
  MaxEntries = 3
CONSTRAINT Bound
SYMMETRY Symmetry
INVARIANTS
  RepairsStandOnReview ShownPendingIsPending
  JudgedIsShown DissentKept
  CitedIsShown ShownAsSettled
  FlawsHaveCauses
  StateFromEvents NoSilentDowngrade
CHECK_DEADLOCK FALSE

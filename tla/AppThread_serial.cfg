\* Threads: one request at a time, any of which may die; two decisions or three;
\* orphans are purged.  Inbox: two requests at a time, by two humans, either of
\* which may die.
SPECIFICATION SpecParts
CONSTANTS
  Request = {r1}
  Batch <- AnyBatch
  Appended = {"participant", "created", "request", "merge", "objection", "trigger"}
  MaxLength = 8
  Item = {i1, i2}
  Thread = {old, t1, t2}
  Old = {old}
  Triage = {q1, q2}
  Human = {ann, bob}
  MaxApprovals = 2
INVARIANTS
  IndexInSync TriggerIsFlagged NoContradictedDecision OneTriggerPerEpoch
  ApprovedIsRecorded TracedFromItem AtMostOnce
PROPERTY RegisteredAppendOnly
CHECK_DEADLOCK FALSE

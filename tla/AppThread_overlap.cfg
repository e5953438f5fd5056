\* Two requests at a time, until the log is full.
SPECIFICATION SpecUnpurged
CONSTANTS
  Request = {r1, r2}
  Batch <- AnyBatch
  Appended = {"participant", "created", "request", "merge", "objection", "trigger"}
  MaxLength = 6
SYMMETRY RequestSymmetry
INVARIANT ListedAsItWas
CHECK_DEADLOCK FALSE

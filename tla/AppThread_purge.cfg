\* A purge that overlaps the request that creates the thread.
SPECIFICATION Spec
CONSTANTS
  Request = {r1, r2}
  Batch <- GenesisOnly
  Appended = {"participant", "created", "request", "merge", "objection", "trigger"}
  MaxLength = 3
PROPERTY RegisteredAppendOnly
CHECK_DEADLOCK FALSE

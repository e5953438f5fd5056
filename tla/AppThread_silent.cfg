\* One request at a time: triggers that clients append or ingest.
SPECIFICATION SpecUnpurged
CONSTANTS
  Request = {r1}
  Batch <- AnyBatch
  Appended = {"participant", "created", "request", "merge", "objection", "trigger"}
  MaxLength = 6
INVARIANT NoSilentFlip
CHECK_DEADLOCK FALSE

\* Two processes on one store, one of which goes through the gate.
SPECIFICATION Spec
CONSTANTS
  Process = {p, q}
  Actor = {a}
  MaxRecords = 6
  MaxJobs = 3
INVARIANT WitnessNeverCorrupts
CHECK_DEADLOCK FALSE

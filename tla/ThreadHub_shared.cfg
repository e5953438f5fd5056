\* Two processes on one database file, one thread, one identity of each kind.
SPECIFICATION Spec
CONSTANTS
  Process = {p1, p2}
  Thread = {t1}
  Slug = {"slug"}
  Identity = {"troy", "octopus"}
  HubKey = {"kHub"}
  ClientKey = {"kClient"}
  Kind = {"genesis", "clista.event"}
  Payload = {"x"}
  MaxSeq = 2
  MaxSigned = 2
  MaxIngest = 0
SYMMETRY ProcessSymmetry
INVARIANTS ChainsVerify AckedIsRecorded Attribution
PROPERTY ImplementsLedger
CHECK_DEADLOCK FALSE

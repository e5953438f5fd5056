\* One process (the Durable Object, or a server nobody runs the CLI beside).
SPECIFICATION Spec
CONSTANTS
  Process = {p1}
  Thread = {t1, t2}
  Slug = {s1, s2}
  Identity = {"troy", "octopus"}
  HubKey = {"kHub"}
  ClientKey = {"kClient"}
  Kind = {"genesis", "clista.event"}
  Payload = {"x"}
  MaxSeq = 2
  MaxSigned = 1
  MaxIngest = 2
SYMMETRY ThreadSymmetry
INVARIANTS IInv GenesisHashIsSeqZero
CHECK_DEADLOCK FALSE

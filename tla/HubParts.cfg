\* Import: two threads and slugs, chains of three, two exports cut anywhere.
\* Limiter: three addresses, a table that is cleared at two, restarts.
\* Reads: two names, up to four records each, any order of publishing acts.
\* Sandbox: capacity for three threads, the demo among them or not; a time to live
\* of one tick, a sweep every two; the object may be lost before its alarm is set.
SPECIFICATION SpecParts
CONSTANTS
  Thread = {t1, t2}
  Slug = {s1, s2}
  MaxSeq = 2
  MaxDumps = 2
  Ip = {a, b, c}
  Max = 2
  Window = 2
  MaxWindows = 1
  MaxTime = 3
  MaxHistory = 8
  MaxLength = 4
  TryThread = {t3, t4, t5}
  Writer = {w1, w2, w3}
  TrySlug = {u1, u2, u3}
  DemoSlug = {demo}
  MaxThreads = 3
  Ttl = 1
  Sweep = 2
SYMMETRY IpSymmetry
INVARIANTS
  TargetVerifies ImportedIsThere
  QuotaHolds
  Indistinguishable
  NoOrphans GoneAtNextSweep
PROPERTIES CitableUntilWithdrawn DemoStays ArmedMeansSwept
CHECK_DEADLOCK FALSE

------------------------------ MODULE HubParts ------------------------------
(***************************************************************************)
(* Four parts of a hub beside its notary, checked side by side: the write  *)
(* limiter, the public reads, the import and the sandbox.  They share no   *)
(* state, so a behaviour of this module is a behaviour of one of them      *)
(* while the others stay as they start.                                    *)
(***************************************************************************)
EXTENDS HubImport

CONSTANTS
  Ip, Max, Window, MaxWindows, MaxTime, MaxHistory,                   \* RateLimiter
  MaxLength,                                                         \* PublicReads
  TryThread, Writer, TrySlug, DemoSlug, MaxThreads, Ttl, Sweep       \* Sandbox

VARIABLES
  part,  \* the part this behaviour is of
  now, windows, history,             \* RateLimiter
  log,                               \* PublicReads
  store, alarm, pc, lost             \* Sandbox

limiterVars == <<now, windows, history>>
sandboxVars == <<store, alarm, pc, lost>>

Limiter == INSTANCE RateLimiter
Reads   == INSTANCE PublicReads
Box     == INSTANCE Sandbox WITH Thread <- TryThread

ASSUME PartsAssumption ==
  /\ {Max, Window, MaxThreads, Sweep} \subseteq Nat \ {0}
  /\ {MaxWindows, MaxTime, MaxHistory, MaxLength, Ttl} \subseteq Nat
  /\ Ip \cap Limiter!Loss = {}
  /\ TrySlug \cap DemoSlug = {}

InitParts ==
  /\ part \in {"import", "limiter", "reads", "sandbox"}
  /\ Init
  /\ Limiter!Init
  /\ Reads!Init
  /\ Box!Init

NextImport ==
  part = "import" /\ Next /\ UNCHANGED <<part, limiterVars, log, sandboxVars>>

NextLimiter ==
  part = "limiter" /\ Limiter!Next /\ UNCHANGED <<part, vars, log, sandboxVars>>

NextReads ==
  part = "reads" /\ Reads!Next /\ UNCHANGED <<part, vars, limiterVars, sandboxVars>>

NextSandbox ==
  part = "sandbox" /\ Box!Next /\ UNCHANGED <<part, vars, limiterVars, log>>

NextParts == NextImport \/ NextLimiter \/ NextReads \/ NextSandbox

allVars == <<part, vars, limiterVars, log, sandboxVars>>

\* Box!Fairness, where the behaviour is one of the sandbox.
Fairness ==
  /\ WF_allVars(part = "sandbox" /\ Box!Tick /\ UNCHANGED <<part, vars, limiterVars, log>>)
  /\ WF_allVars(part = "sandbox" /\ Box!Alarm /\ UNCHANGED <<part, vars, limiterVars, log>>)
  /\ WF_allVars(part = "sandbox" /\ Box!EnsureAlarm /\ UNCHANGED <<part, vars, limiterVars, log>>)

SpecParts == InitParts /\ [][NextParts]_allVars /\ Fairness

-----------------------------------------------------------------------------

\* RateLimiter: less than two quotas in a window's length, one more for each loss of
\* the table, and the table is cleared again only after it was filled again.
QuotaHolds == Limiter!QuotaHolds

\* PublicReads: unpublished and nonexistent threads look the same to a reader.
Indistinguishable == Reads!Indistinguishable

\* PublicReads: a public record stays citable until its thread withdraws it.
CitableUntilWithdrawn == Reads!CitableUntilWithdrawn

\* Sandbox: the sweep leaves no record, slug or writer without its thread.
NoOrphans == Box!NoOrphans

\* Sandbox: a try has an alarm, and the first one after its time to live takes it.
GoneAtNextSweep == Box!GoneAtNextSweep

\* Sandbox: the pinned demo is never swept.
DemoStays == Box!DemoStays

\* Sandbox: where the alarm is set, every try is swept in the end.
ArmedMeansSwept ==
  \A t \in TryThread :
    (part = "sandbox" /\ Box!Try(t) /\ alarm # Box!NoAlarm) ~> ~ Box!Try(t)
=============================================================================

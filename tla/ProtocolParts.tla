--------------------------- MODULE ProtocolParts ----------------------------
(***************************************************************************)
(* Five parts of the protocol package beside the life of a decision,       *)
(* checked side by side: reviews and recovery, forks and merges,           *)
(* amendments, the local store, the exchange of packets.  Each is about    *)
(* events of its own in a log of its own, so a behaviour of this module is *)
(* a behaviour of one of them while the others stay as they start.         *)
(***************************************************************************)
EXTENDS Naturals, FiniteSets

CONSTANTS
  Recovery, Review, Plan, Repair, MaxHeight,                         \* Recovery
  PlanReview, EmergencyReview,
  Fork, Claim, Objection, Request, Completion, Conflict, Reviewer,   \* ForkMerge
  MergeHeight,
  Outcome, Signal, Advice, Amendment, Decider,                       \* Amendments
  Process, Actor, MaxRecords, MaxJobs,                               \* LocalStore
  Runner, Amended, MaxVersion, MaxLength, MaxPackets, MaxEntries     \* Exchange

VARIABLES
  part,           \* the part this behaviour is of
  height, valid,  \* its log: of any part but the store
  reviews, facts, requests, plans, quarantines, repairs, verified, entries, read,
  forks, objects, reopened, proposed, judgements, conflicts, completions, merges, known,
  owners, seen, last,
  audits, signals, advice, declared, strays, proposals, status, shown, deciders,
  exists, file, proc, made, jobs, acked, linked, overtaken, forked, late, cut, thrown,
  source, versions, exported, stored, importer, asked, notes, terms, references, tasks, killed,
  kept

recoveryVars == <<reviews, facts, requests, plans, quarantines, repairs, verified, entries, read>>
mergeVars    == <<forks, objects, reopened, proposed, judgements, conflicts, completions,
                  merges, known, owners, seen, last>>
amendVars    == <<audits, signals, advice, declared, strays, proposals, status, shown, deciders>>
storeVars    == <<exists, file, proc, made, jobs, acked, linked, overtaken, forked, late, cut,
                  thrown>>
exchangeVars == <<source, versions, exported, stored, importer, asked, notes, terms, references, tasks,
                  killed, kept>>

ASSUME ProtocolAssumption ==
  /\ PlanReview \in [Recovery -> Review]
  /\ EmergencyReview \in [Recovery -> Review]
  /\ {"trunk", "none"} \cap Fork = {}
  /\ Claim \cap Objection = {}
  /\ "none" \notin Completion

Restoring == INSTANCE Recovery

Merging == INSTANCE ForkMerge WITH
  Participant <- Reviewer, Time <- {1}, ReusedIds <- FALSE, MaxHeight <- MergeHeight,
  requests <- proposed, reviews <- judgements

Amending == INSTANCE Amendments WITH Participant <- Decider, owners <- deciders

Storing == INSTANCE LocalStore

Exchanging == INSTANCE Exchange WITH
  Process <- Runner, Amendment <- Amended, Named <- {},
  requests <- asked, entries <- kept

Init ==
  /\ part \in {"recovery", "merges", "amendments", "store", "exchange"}
  /\ Restoring!Init /\ Merging!Init /\ Amending!Init /\ Storing!Init /\ Exchanging!Init
  \* A part starts in any of its ways where it is the one that moves.
  /\ part # "merges" => known = {}
  /\ part # "amendments" => deciders = {}
  /\ part # "exchange" => ~ source.legacy

NextRecovery ==
  /\ part = "recovery"
  /\ Restoring!Next
  /\ UNCHANGED <<part, mergeVars, amendVars, storeVars, exchangeVars>>

NextMerges ==
  /\ part = "merges"
  /\ Merging!Next
  /\ UNCHANGED <<part, recoveryVars, amendVars, storeVars, exchangeVars>>

NextAmendments ==
  /\ part = "amendments"
  /\ Amending!Next
  /\ UNCHANGED <<part, recoveryVars, mergeVars, storeVars, exchangeVars>>

NextStore ==
  /\ part = "store"
  /\ Storing!Next
  /\ UNCHANGED <<part, height, valid, recoveryVars, mergeVars, amendVars, exchangeVars>>

NextExchange ==
  /\ part = "exchange"
  /\ Exchanging!Next
  /\ UNCHANGED <<part, height, recoveryVars, mergeVars, amendVars, storeVars>>

Next == NextRecovery \/ NextMerges \/ NextAmendments \/ NextStore \/ NextExchange

partsVars == <<part, height, valid, recoveryVars, mergeVars, amendVars, storeVars, exchangeVars>>

Spec == Init /\ [][Next]_partsVars

-----------------------------------------------------------------------------

\* Recovery: what is quarantined or applied rests on a completed review.
RepairsStandOnReview == part = "recovery" => Restoring!RepairsStandOnReview

\* Recovery: the reviews that are shown as pending are pending for the validator.
ShownPendingIsPending == part = "recovery" => Restoring!ShownPendingIsPending

\* ForkMerge: what merges are judged by is what is shown.
JudgedIsShown == part = "merges" => Merging!JudgedIsShown

\* ForkMerge: no merge erases dissent.
DissentKept == part = "merges" => Merging!DissentKept

\* Amendments: what an amendment cites is shown, down to the outcomes.
CitedIsShown == part = "amendments" => Amending!CitedIsShown

\* Amendments: what is shown of an amendment is what was settled by authority.
ShownAsSettled == part = "amendments" => Amending!ShownAsSettled

\* LocalStore: what is wrong with a log has its cause, and a fork shows.
FlawsHaveCauses == part = "store" => Storing!FlawsHaveCauses

\* Exchange: a state that is taken is what the projector here makes of its own events.
StateFromEvents == part = "exchange" => Exchanging!StateFromEvents

\* Exchange: a negotiation that degrades anything says so and asks for review.
NoSilentDowngrade == part = "exchange" => Exchanging!NoSilentDowngrade
=============================================================================

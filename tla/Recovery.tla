------------------------------- MODULE Recovery -------------------------------
(***************************************************************************)
(* Reviews a change must go through, and the recovery of trusted state     *)
(* that rests on them (packages/protocol/src/review.js, recovery.js, their *)
(* validators in validator/ and their commands in cli/).                   *)
(*                                                                         *)
(* A review is required or opened of a subject, and completed; it may be   *)
(* opened again under the id it was required with, and disputed by         *)
(* anybody.  A recovery is requested, planned under a review of the        *)
(* request, its subject quarantined, repairs applied, and what is restored *)
(* verified against what the log holds by then.                            *)
(*                                                                         *)
(* The validator keeps a status per review (reviews); the projection ranks *)
(* the kinds of records there are of it (facts).  As in Delegation, events *)
(* are submitted with validation or appended by a command without.  What   *)
(* an event must have in its fields is taken to be there (how a blank one  *)
(* ends a log is in Delegation): a name, a reason, a checkpoint that was   *)
(* verified, an artifact's hash; so are the participants it names.         *)
(***************************************************************************)
EXTENDS Naturals, FiniteSets

CONSTANTS
  Recovery,        \* ids of recovery requests
  Review,          \* ids of reviews
  Plan,            \* ids of recovery plans
  Repair,          \* ids of applications
  MaxHeight,       \* bound: events of the log
  \* The id of a review is a hash of what it is for: the one that recovery plan
  \* requires where no option names one, and the one of an emergency quarantine.
  PlanReview, EmergencyReview

\* Something else than a recovery that may be reviewed.
Elsewhere == "elsewhere"

VARIABLES
  reviews,      \* protocolReviews: the validator's view, by id
  facts,        \* what the projection collects of reviews, by kind
  requests,     \* recoveryRequests
  plans,        \* recoveryPlans, by id
  quarantines,  \* recoveryQuarantines
  repairs,      \* recoveryApplications
  verified,     \* recoveryVerifications
  entries,      \* recoveryEvents: how many; the log only grows, so this is its hash
  height,       \* events of the log; for the same reason, the hash of its head
  read,         \* what a client has last read of a recovery
  valid         \* the log is valid

recoveryVars == <<requests, plans, quarantines, repairs, verified, entries>>
vars == <<reviews, facts, recoveryVars, height, read, valid>>

NoReview == [status |-> "none"]
NoPlan   == [review |-> "none"]
NoRead   == [head |-> 0]

-----------------------------------------------------------------------------
(* Events *)

ReviewEvent == [type: {"ReviewRequired"}, id: Review, about: Recovery \cup {Elsewhere}]
OpenEvent   == [type: {"ReviewOpened"}, id: Review, of: Review, about: Recovery \cup {Elsewhere}]
CloseEvent  == [type: {"ReviewCompleted", "ReviewDisputed", "ReviewViolationRecorded"}, of: Review]

RequestEvent    == [type: {"RecoveryRequested"}, of: Recovery]
PlanEvent       == [type: {"RecoveryPlanCreated"}, id: Plan, of: Recovery, review: Review]
QuarantineEvent == [type: {"RecoveryQuarantined"}, of: Recovery, plan: Plan, review: Review,
                    emergency: BOOLEAN]
ApplyEvent      == [type: {"RecoveryApplied"}, id: Repair, of: Recovery, plan: Plan,
                    review: Review]
BreachEvent     == [type: {"RecoveryViolationRecorded"}, of: Recovery]

\* restoredStateMaterial: a mark per quarantine, and the repairs.
Restored(c) ==
  [marks  |-> Cardinality({q \in quarantines : q.of = c}),
   applied |-> {a.id : a \in {b \in repairs : b.of = c}}]

\* What a verification of c has to quote.
Reading(c) == [of |-> c, head |-> height, entries |-> entries, restored |-> Restored(c)]

\* buildRecoveryVerification, of what was read.
VerifyEvent(reading) ==
  IF reading = NoRead THEN {}
  ELSE {[type |-> "RecoveryVerified", of |-> reading.of, repair |-> a, review |-> v,
         quotes |-> reading] : a \in Repair, v \in Review}

-----------------------------------------------------------------------------
(* The projection *)

Said(type, v) == [type |-> type, of |-> v] \in facts

\* Mutant: a completion does not show.
ReviewShown_NoCompletion(v) ==
  IF reviews[v] = NoReview THEN "none"
  ELSE IF Said("ReviewViolationRecorded", v) THEN "violated"
  ELSE IF Said("ReviewDisputed", v) THEN "disputed"
  ELSE IF Said("ReviewOpened", v) THEN "open" ELSE "required"

\* projectReview: a completion counts for ever, whatever was opened since.
ReviewShown(v) ==
  IF reviews[v] = NoReview THEN "none"
  ELSE IF Said("ReviewViolationRecorded", v) THEN "violated"
  ELSE IF Said("ReviewDisputed", v) THEN "disputed"
  ELSE IF Said("ReviewCompleted", v) THEN "reviewed"
  ELSE IF Said("ReviewOpened", v) THEN "open" ELSE "required"

\* projectReview: the required reviews that are still to be completed.
PendingShown == {v \in Review : reviews[v] # NoReview /\ reviews[v].required
                                /\ ~ Said("ReviewCompleted", v)}

-----------------------------------------------------------------------------
(* The validator *)

\* validateReviewSubject
Exists(about) == about = Elsewhere \/ about \in requests

Pending(v)   == reviews[v].status \in {"required", "open"}
Completed(v) == reviews[v].status = "reviewed"

RequireAccepted(e) == Exists(e.about) /\ reviews[e.id] = NoReview

\* validateReviewMatchesRequired: of is the id itself where none is named.
OpenAccepted(e) ==
  /\ Exists(e.about)
  /\ reviews[e.id] # NoReview => e.of = e.id
  /\ e.of # e.id => reviews[e.of] # NoReview
  /\ reviews[e.of] # NoReview => e.about = reviews[e.of].about

\* Completed again, disputed, violated: only that there is a review.
CloseAccepted(e) == reviews[e.of] # NoReview

RequestAccepted(e) == e.of \notin requests

\* validateRecoveryReviewMatchesRequest
ReviewOf(v, c) == reviews[v] # NoReview /\ reviews[v].about = c

PlanOf(p, c) == plans[p] # NoPlan /\ plans[p].of = c

PlanAccepted(e) ==
  /\ e.of \in requests
  /\ ReviewOf(e.review, e.of)
  /\ plans[e.id] = NoPlan

\* validateRecoveryReviewReference: an emergency rests on a review to come.
QuarantineAccepted(e) ==
  /\ e.of \in requests
  /\ PlanOf(e.plan, e.of)
  /\ ReviewOf(e.review, e.of)
  /\ IF e.emergency THEN Pending(e.review) ELSE Completed(e.review)

ApplyAccepted(e) ==
  /\ e.of \in requests
  /\ PlanOf(e.plan, e.of)
  /\ ReviewOf(e.review, e.of)
  /\ Completed(e.review)
  /\ \A a \in repairs : a.id # e.id

\* Mutant: what was read may be out of date.
VerifyAccepted_Stale(e) ==
  /\ e.of \in requests
  /\ \E a \in repairs : a.id = e.repair /\ a.of = e.of
  /\ Completed(e.review)

\* The head, the recovery log and what is restored as they are now; the review
\* may be of anything.
VerifyAccepted(e) ==
  /\ e.of \in requests
  /\ \E a \in repairs : a.id = e.repair /\ a.of = e.of
  /\ Completed(e.review)
  /\ e.quotes = Reading(e.of)

BreachAccepted(e) == e.of \in requests

Accepted(e) ==
  CASE e.type = "ReviewRequired"           -> RequireAccepted(e)
    [] e.type = "ReviewOpened"             -> OpenAccepted(e)
    [] e.type \in {"ReviewCompleted", "ReviewDisputed", "ReviewViolationRecorded"} ->
         CloseAccepted(e)
    [] e.type = "RecoveryRequested"        -> RequestAccepted(e)
    [] e.type = "RecoveryPlanCreated"      -> PlanAccepted(e)
    [] e.type = "RecoveryQuarantined"      -> QuarantineAccepted(e)
    [] e.type = "RecoveryApplied"          -> ApplyAccepted(e)
    [] e.type = "RecoveryVerified"         -> VerifyAccepted(e)
    [] e.type = "RecoveryViolationRecorded" -> BreachAccepted(e)

-----------------------------------------------------------------------------
(* What an event leaves, valid or not *)

Fact(type, v) == facts' = facts \cup {[type |-> type, of |-> v]}

Require(v, about) ==
  reviews' = [reviews EXCEPT ![v] = [about |-> about, required |-> TRUE, status |-> "required"]]

Required(e) == Require(e.id, e.about) /\ UNCHANGED <<facts, recoveryVars>>

\* mergeReviewRecord: what was required stays so; the status starts anew.
Opened(e) ==
  /\ reviews' = [reviews EXCEPT ![e.id] =
                   [about |-> e.about, required |-> @ # NoReview /\ @.required,
                    status |-> "open"]]
  /\ Fact(e.type, e.id)
  /\ UNCHANGED recoveryVars

\* The validator keeps disputes and violations, and no status of them.
Closed(e) ==
  /\ reviews' = IF e.type = "ReviewCompleted" /\ reviews[e.of] # NoReview
                THEN [reviews EXCEPT ![e.of].status = "reviewed"] ELSE reviews
  /\ Fact(e.type, e.of)
  /\ UNCHANGED recoveryVars

Requested(e) ==
  requests' = requests \cup {e.of} /\ UNCHANGED <<plans, quarantines, repairs, verified>>

Planned(e) ==
  /\ plans' = [plans EXCEPT ![e.id] = [of |-> e.of, review |-> e.review]]
  /\ UNCHANGED <<requests, quarantines, repairs, verified>>

Quarantined(e) ==
  /\ quarantines' = quarantines \cup
       {[of |-> e.of, plan |-> e.plan, review |-> e.review, emergency |-> e.emergency,
         at |-> height']}
  /\ UNCHANGED <<requests, plans, repairs, verified>>

Applied(e) ==
  /\ repairs' = repairs \cup
       {[id |-> e.id, of |-> e.of, plan |-> e.plan, review |-> e.review, at |-> height']}
  /\ UNCHANGED <<requests, plans, quarantines, verified>>

Verified(e) ==
  /\ verified' = verified \cup
       {[of |-> e.of, repair |-> e.repair, review |-> e.review, restored |-> e.quotes.restored,
         at |-> height']}
  /\ UNCHANGED <<requests, plans, quarantines, repairs>>

Recovered(e) ==
  /\ \/ e.type = "RecoveryRequested"   /\ Requested(e)
     \/ e.type = "RecoveryPlanCreated" /\ Planned(e)
     \/ e.type = "RecoveryQuarantined" /\ Quarantined(e)
     \/ e.type = "RecoveryApplied"     /\ Applied(e)
     \/ e.type = "RecoveryVerified"    /\ Verified(e)
     \/ e.type = "RecoveryViolationRecorded"
          /\ UNCHANGED <<requests, plans, quarantines, repairs, verified>>
  /\ entries' = entries + 1

Recorded(e) ==
  \/ e.type = "ReviewRequired" /\ Required(e)
  \/ e.type = "ReviewOpened" /\ Opened(e)
  \/ e.type \in {"ReviewCompleted", "ReviewDisputed", "ReviewViolationRecorded"} /\ Closed(e)
  \/ Recovered(e) /\ UNCHANGED <<reviews, facts>>

-----------------------------------------------------------------------------
(* Commands *)

\* recoveryRecordForCli: of a recovery there is, with a plan of its own.
PlansOf(c) == {p \in Plan : PlanOf(p, c)}

\* reviewRecordForCli: of a review there is; reviewOpen: as it was required.
ReviewCommands ==
  {e \in OpenEvent : e.id = e.of /\ (reviews[e.id] # NoReview => e.about = reviews[e.id].about)}
    \cup {e \in CloseEvent : reviews[e.of] # NoReview}

\* recoveryPlan, of a review that is named.
PlanCommands == {e \in PlanEvent : e.of \in requests}

\* recoveryQuarantine: an emergency takes a review that is not shown as reviewed.
QuarantineCommands ==
  {e \in QuarantineEvent :
     e.plan \in PlansOf(e.of) /\ (e.emergency => ReviewShown(e.review) # "reviewed")}

\* recoveryApply: the review must be shown as reviewed.
ApplyCommands ==
  {e \in ApplyEvent : e.plan \in PlansOf(e.of) /\ ReviewShown(e.review) = "reviewed"}

\* recoveryVerifyRecord reads, builds and appends in one run.
VerifyCommands ==
  UNION {{e \in VerifyEvent(Reading(c)) :
            (\E a \in repairs : a.id = e.repair /\ a.of = c)
              /\ ReviewShown(e.review) = "reviewed"} : c \in requests}

RecoveryCommands ==
  UNION {ReviewCommands, PlanCommands, QuarantineCommands, ApplyCommands, VerifyCommands,
         {e \in BreachEvent : e.of \in requests}}

-----------------------------------------------------------------------------

Init ==
  /\ reviews = [v \in Review |-> NoReview]
  /\ facts = {}
  /\ requests = {}
  /\ plans = [p \in Plan |-> NoPlan]
  /\ quarantines = {}
  /\ repairs = {}
  /\ verified = {}
  /\ entries = 0
  /\ height = 1
  /\ read = NoRead
  /\ valid = TRUE

\* The log grows by n events.
Grown(n) == height + n <= MaxHeight /\ height' = height + n

Submit(e) ==
  /\ valid
  /\ Accepted(e)
  /\ Grown(1)
  /\ Recorded(e)
  /\ UNCHANGED <<read, valid>>

Append(e) ==
  /\ Grown(1)
  /\ Recorded(e)
  /\ valid' = (valid /\ Accepted(e))
  /\ UNCHANGED read

Command == valid /\ \E e \in RecoveryCommands : Append(e)

\* reviewRequire, and recoveryRequest with an explicit checkpoint, read no log.
BlindCommand == \E e \in ReviewEvent \cup RequestEvent : Append(e)

\* appendRecoveryReviewRequirement: a review of c under its own id, and on it the
\* event; that the id may be taken is not asked.
RequireFirst(v, c, e) ==
  /\ valid
  /\ Grown(2)
  /\ Require(v, c)
  /\ Recovered(e)
  /\ UNCHANGED <<facts, read>>

Requirable(v, c) == RequireAccepted([id |-> v, about |-> c])

\* The plan is held against the log with the review and without itself.
PlanCommand(p, c) ==
  /\ c \in requests
  /\ RequireFirst(PlanReview[c], c,
       [type |-> "RecoveryPlanCreated", id |-> p, of |-> c, review |-> PlanReview[c]])
  /\ valid' = (Requirable(PlanReview[c], c) /\ ReviewOf(PlanReview[c], c)' /\ plans[p] = NoPlan)

EmergencyCommand(p, c) ==
  /\ p \in PlansOf(c)
  /\ ReviewShown(plans[p].review) = "reviewed"
  /\ RequireFirst(EmergencyReview[c], c,
       [type |-> "RecoveryQuarantined", of |-> c, plan |-> p, review |-> EmergencyReview[c],
        emergency |-> TRUE])
  /\ valid' = /\ Requirable(EmergencyReview[c], c)
              /\ ReviewOf(EmergencyReview[c], c)' /\ Pending(EmergencyReview[c])'

\* A client reads what its verification is to quote.
Read(c) ==
  /\ valid
  /\ c \in requests
  /\ read' = Reading(c)
  /\ UNCHANGED <<reviews, facts, recoveryVars, height, valid>>

Next ==
  \/ \E e \in ReviewEvent \cup OpenEvent \cup CloseEvent : Submit(e)
  \/ \E e \in RequestEvent \cup PlanEvent \cup QuarantineEvent \cup ApplyEvent \cup BreachEvent :
       Submit(e)
  \/ \E e \in VerifyEvent(read) : Submit(e)
  \/ Command
  \/ BlindCommand
  \/ \E p \in Plan, c \in Recovery : PlanCommand(p, c) \/ EmergencyCommand(p, c)
  \/ \E c \in Recovery : Read(c)

Spec == Init /\ [][Next]_vars

-----------------------------------------------------------------------------

(***************************************************************************)
(* "RecoveryApplied and RecoveryVerified require completed M23 review"     *)
(* (milestone-24.md), and a review is not bound to its subject but by its  *)
(* own record, which is opened again and again.  In a valid log whatever   *)
(* was quarantined or applied rests on a plan of its own recovery and on a *)
(* review of that recovery, which was completed unless in an emergency;    *)
(* and what was verified restores exactly the quarantines and repairs that *)
(* come before it in the log, however long ago its client read them.       *)
(***************************************************************************)
RepairsStandOnReview ==
  valid =>
    /\ \A q \in quarantines \cup repairs :
         /\ PlanOf(q.plan, q.of) /\ ReviewOf(q.review, q.of)
         /\ ReviewOf(plans[q.plan].review, q.of)
         /\ (q \in quarantines /\ q.emergency) \/ Said("ReviewCompleted", q.review)
    /\ \A v \in verified :
         /\ v.restored.marks = Cardinality({q \in quarantines : q.of = v.of /\ q.at < v.at})
         /\ v.restored.applied =
              {a.id : a \in {b \in repairs : b.of = v.of /\ b.at < v.at}}
         /\ v.repair \in v.restored.applied

(***************************************************************************)
(* The lists that clista review and recovery print are all a participant   *)
(* sees of what is still to be reviewed.  A review that the projection     *)
(* shows as required or open, or among the pending ones, is pending for    *)
(* the validator, so that an emergency quarantine may rest on it; and one  *)
(* that the validator holds for completed shows as completed, unless it    *)
(* was disputed or violated.                                               *)
(***************************************************************************)
ShownPendingIsPending ==
  valid =>
    \A v \in Review :
      /\ ReviewShown(v) \in {"required", "open"} => reviews[v].status = ReviewShown(v)
      /\ v \in PendingShown => Pending(v)
      /\ Completed(v) => ReviewShown(v) \in {"reviewed", "disputed", "violated"}
=============================================================================

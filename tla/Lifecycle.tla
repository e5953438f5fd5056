------------------------------ MODULE Lifecycle -----------------------------
(***************************************************************************)
(* From a question to a decision: what validateEvents lets into the log of *)
(* one thread (packages/protocol/src/validator.js, validator/decision.js,  *)
(* validator/thread.js, validator/participant.js) and what governance.js   *)
(* says of a request.                                                      *)
(*                                                                         *)
(* Every event is held against those before it; validateFinalDecision-     *)
(* Integrity holds the whole log against itself at the end.  A log that is *)
(* ingested (ThreadDO.ingest, importCommand) meets it once, after its last *)
(* event; an event that is appended (ThreadDO.append) meets it there and   *)
(* then.                                                                   *)
(*                                                                         *)
(* Ids are minted (newId) and never used twice.  Participants have been    *)
(* declared and the thread created.  The evidence, claims and assumptions  *)
(* a request or a decision cites are there: data no property tells apart.  *)
(***************************************************************************)
EXTENDS Integers, Sequences

CONSTANTS
  Participant,  \* declared participants of the thread
  Objection,    \* ids of objections
  Request,      \* ids of decision requests; a decision goes by its request
  Scope,        \* the scopes of the authorities granted in a model run
  Time,         \* what a reviewer's clock may read
  MaxReviews    \* bound: reviews in a model run

\* Where an authority may hold: everywhere; everywhere though this thread was
\* named when it was granted (--scope global --thread); on this thread.
AnyScope == {"global", "global, named", "thread"}

ASSUME LifecycleAssumption ==
  /\ Scope \subseteq AnyScope
  /\ Time \subseteq Nat
  /\ MaxReviews \in Nat

VARIABLES
  active,      \* keys of activeAuthorities for decision_owner
  inert,       \* some revocation went through and withdrew nothing
  objections,  \* objections[o]: who raised it, whether it blocks, its status
  requests,    \* requests[q]: the objections it lists, the reviewers it needs
  reviews,     \* all reviews, in the order of the log
  decisions,   \* decisions[q]: which objections the decision preserves
  reported,    \* reported[q]: the objections its minority reports carry
  ingesting    \* the log is being ingested, and not yet accepted

vars == <<active, inert, objections, requests, reviews, decisions, reported, ingesting>>

NoObjection == [status |-> "none"]
NoRequest   == [opened |-> FALSE]
NoDecision  == [decided |-> FALSE]

-----------------------------------------------------------------------------
(* identity.js *)

AuthorityKey == Participant \X Scope

\* participantHasAuthority on this thread.
Owner(p) == \E s \in Scope : <<p, s>> \in active

\* participantHasAuthority, asked with the thread id of a revocation: one of
\* scope global that names no thread is held against global records only.
ActiveFor(p, scope) ==
  \/ <<p, "global">> \in active
  \/ <<p, "global, named">> \in active
  \/ scope # "global" /\ <<p, "thread">> \in active

Owners == {p \in Participant : Owner(p)}

-----------------------------------------------------------------------------
(* governance.js *)

Known(o) == objections[o] # NoObjection

\* isBlockingObjection
Blocking(o) == Known(o) /\ objections[o].blocking /\ objections[o].status = "open"

ReviewsOf(q) == {n \in DOMAIN reviews : reviews[n].request = q}

\* latestReviewsByReviewer: by the time the review claims; the first of those
\* that claim the same.
Latest(q, n) ==
  /\ n \in ReviewsOf(q)
  /\ \A k \in ReviewsOf(q) :
       (k # n /\ reviews[k].by = reviews[n].by) =>
         \/ reviews[k].at < reviews[n].at
         \/ reviews[k].at = reviews[n].at /\ n < k

Approvers(q) ==
  {p \in Participant :
     \E n \in ReviewsOf(q) :
       Latest(q, n) /\ reviews[n].by = p /\ reviews[n].status = "approve"}

\* Mutant: an approval is enough, whatever the others ask for.
Reviewed_AnyApproval(q) ==
  IF requests[q].required = {} THEN Approvers(q) # {}
  ELSE requests[q].required \subseteq Approvers(q)

\* evaluateReviewRequirements
Reviewed(q) ==
  /\ IF requests[q].required = {} THEN Approvers(q) # {}
     ELSE requests[q].required \subseteq Approvers(q)
  /\ \A n \in ReviewsOf(q) : Latest(q, n) => reviews[n].status # "request_changes"

\* evaluateObjectionRequirements
Answered(q, preserved) ==
  \A o \in requests[q].objections : Blocking(o) => o \in preserved

Open(q) == requests[q] # NoRequest /\ decisions[q] = NoDecision

\* evaluateDecisionEligibility of a request, with no decision in hand (the
\* eligibility command).
Eligible(q) ==
  /\ Open(q)
  /\ Owners # {}
  /\ Reviewed(q)
  /\ Answered(q, {})

-----------------------------------------------------------------------------
(* validator/decision.js *)

\* validateDecisionMerged
Mergeable(q, decider, preserved) ==
  /\ Open(q)
  /\ Owner(decider)
  /\ \A o \in preserved : Known(o)
  /\ Reviewed(q)
  /\ Answered(q, preserved)

Decision(preserved) == [decided |-> TRUE, preserved |-> preserved]

\* Mutant: a blocking objection is preserved without a minority report.
FinalIntegrity_NoReport(ds) ==
  \A q \in Request : ds[q] # NoDecision =>
    \A o \in requests[q].objections : Blocking(o) => o \in ds[q].preserved

\* validateFinalDecisionIntegrity, of a log with these decisions.
FinalIntegrity(ds) ==
  \A q \in Request : ds[q] # NoDecision =>
    /\ \A o \in requests[q].objections : Blocking(o) => o \in ds[q].preserved
    /\ \A o \in ds[q].preserved : Blocking(o) => o \in reported[q]

-----------------------------------------------------------------------------

Init ==
  /\ active = {}
  /\ inert = FALSE
  /\ objections = [o \in Objection |-> NoObjection]
  /\ requests = [q \in Request |-> NoRequest]
  /\ reviews = <<>>
  /\ decisions = [q \in Request |-> NoDecision]
  /\ reported = [q \in Request |-> {}]
  /\ ingesting \in BOOLEAN

\* validateParticipantAuthorityGranted
Grant(p, scope) ==
  /\ active' = active \cup {<<p, scope>>}
  /\ UNCHANGED <<inert, objections, requests, reviews, decisions, reported>>

\* validateParticipantAuthorityRevoked, applyAuthorityRevocation
Revoke(p, scope) ==
  /\ ActiveFor(p, scope)
  /\ active' = active \ {<<p, scope>>}
  /\ inert' = (inert \/ <<p, scope>> \notin active)
  /\ UNCHANGED <<objections, requests, reviews, decisions, reported>>

\* validateObjectionRaised
RaiseObjection(o, p, blocking) ==
  /\ ~ Known(o)
  /\ objections' = [objections EXCEPT ![o] =
                      [by |-> p, blocking |-> blocking, status |-> "open"]]
  /\ UNCHANGED <<active, inert, requests, reviews, decisions, reported>>

\* validateObjectionResolved; resolving again changes nothing here.
ResolveObjection(o, p) ==
  /\ Known(o)
  /\ p = objections[o].by \/ Owner(p)
  /\ objections' = [objections EXCEPT ![o].status = "resolved"]
  /\ UNCHANGED <<active, inert, requests, reviews, decisions, reported>>

\* validateDecisionRequestOpened
OpenRequest(q, listed, required) ==
  /\ requests[q] = NoRequest
  /\ \A o \in listed : Known(o)
  /\ requests' = [requests EXCEPT ![q] =
                    [opened |-> TRUE, objections |-> listed, required |-> required]]
  /\ UNCHANGED <<active, inert, objections, reviews, decisions, reported>>

\* validateReviewSubmitted
SubmitReview(q, p, status, at) ==
  /\ Len(reviews) < MaxReviews
  /\ Open(q)
  /\ reviews' = Append(reviews, [request |-> q, by |-> p, status |-> status, at |-> at])
  /\ UNCHANGED <<active, inert, objections, requests, decisions, reported>>

MergeDecision(q, decider, preserved) ==
  /\ Mergeable(q, decider, preserved)
  /\ decisions' = [decisions EXCEPT ![q] = Decision(preserved)]
  /\ UNCHANGED <<active, inert, objections, requests, reviews, reported>>

\* validateMinorityReportFiled
FileMinorityReport(q, carried) ==
  /\ decisions[q] # NoDecision
  /\ \A o \in carried : Known(o)
  /\ reported' = [reported EXCEPT ![q] = @ \cup carried]
  /\ UNCHANGED <<active, inert, objections, requests, reviews, decisions>>

\* An event that passes the validation of its own kind.
Event ==
  \/ \E p \in Participant, s \in Scope : Grant(p, s) \/ Revoke(p, s)
  \/ \E o \in Objection, p \in Participant :
       \/ \E blocking \in BOOLEAN : RaiseObjection(o, p, blocking)
       \/ ResolveObjection(o, p)
  \/ \E q \in Request :
       \/ \E listed \in SUBSET Objection, required \in SUBSET Participant :
            OpenRequest(q, listed, required)
       \/ \E p \in Participant, at \in Time :
            \E status \in {"approve", "request_changes", "comment"} :
              SubmitReview(q, p, status, at)
       \/ \E p \in Participant, preserved \in SUBSET Objection :
            MergeDecision(q, p, preserved)
       \/ \E carried \in SUBSET Objection : FileMinorityReport(q, carried)

\* One more event of a log that is being ingested.
IngestEvent == ingesting /\ Event /\ UNCHANGED ingesting

\* The end of the log: it is taken whole, or (no step) not at all.
Ingested ==
  /\ ingesting
  /\ FinalIntegrity(decisions)
  /\ ingesting' = FALSE
  /\ UNCHANGED <<active, inert, objections, requests, reviews, decisions, reported>>

\* append: the event and the log it makes are valid, or nothing changes.
AppendEvent ==
  /\ ~ ingesting
  /\ Event
  /\ FinalIntegrity(decisions)'
  /\ UNCHANGED ingesting

Next == IngestEvent \/ Ingested \/ AppendEvent

Spec == Init /\ [][Next]_vars

-----------------------------------------------------------------------------

(***************************************************************************)
(* What the eligibility command says of a request is what an append will   *)
(* do: the request is eligible if and only if somebody can merge a         *)
(* decision on it.  So preserving a blocking objection helps nobody who    *)
(* appends: the minority report it calls for cannot be filed before the    *)
(* decision, nor the decision merged before the report.                    *)
(***************************************************************************)
EligibilityDecides ==
  ~ ingesting =>
    \A q \in Request :
      Eligible(q) <=>
        \E p \in Participant, preserved \in SUBSET Objection :
          /\ Mergeable(q, p, preserved)
          /\ FinalIntegrity([decisions EXCEPT ![q] = Decision(preserved)])

\* The last review of its reviewer, in the order of the log.
LastWord(q, n) ==
  n \in ReviewsOf(q) /\ \A k \in ReviewsOf(q) : reviews[k].by = reviews[n].by => k <= n

\* Each reviewer of q claims later and later times.
ClocksAdvance(q) ==
  \A n, k \in ReviewsOf(q) :
    (reviews[n].by = reviews[k].by /\ n < k) => reviews[n].at < reviews[k].at

\* No reviewer's last word on q asks for changes.
NoChangesRequested(q) ==
  \A n \in ReviewsOf(q) : LastWord(q, n) => reviews[n].status # "request_changes"

(***************************************************************************)
(* A decision stands on its reviewers' last words: none asks for changes,  *)
(* and whoever was required approves, whatever was said before and what    *)
(* others said in between, if each reviewer's own clock advances           *)
(* (latestReviewsByReviewer, milestone-2.md).                              *)
(***************************************************************************)
StandsOnLastWords ==
  \A q \in Request :
    (decisions[q] # NoDecision /\ ClocksAdvance(q)) =>
      /\ NoChangesRequested(q)
      /\ \A p \in requests[q].required : \E n \in ReviewsOf(q) :
           LastWord(q, n) /\ reviews[n].by = p /\ reviews[n].status = "approve"

(***************************************************************************)
(* Logs are rejected when "authority revocations reference inactive        *)
(* authorities" (milestone-8.md): a revocation that is accepted withdraws  *)
(* what it names.                                                          *)
(***************************************************************************)
RevocationsBite == ~ inert
=============================================================================

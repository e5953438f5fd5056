--------------------------- MODULE LifecycleProofs --------------------------
(***************************************************************************)
(* For any participants, objections, requests, scopes and clocks, and logs *)
(* of any length: what the eligibility command says of a request is what   *)
(* an append does, and decisions stand on the last words of reviewers      *)
(* whose clocks advance.                                                   *)
(***************************************************************************)
EXTENDS Lifecycle, TLAPS

Review == [request : Request, by : Participant,
           status : {"approve", "request_changes", "comment"}, at : Time]

\* What the variables the properties speak of may be.
Typed ==
  /\ requests \in [Request -> {NoRequest} \cup
       [opened : {TRUE}, objections : SUBSET Objection, required : SUBSET Participant]]
  /\ reviews \in Seq(Review)
  /\ decisions \in [Request -> {NoDecision} \cup
       [decided : {TRUE}, preserved : SUBSET Objection]]
  /\ reported \in [Request -> SUBSET Objection]

\* Nothing is reported on what is not decided (validateMinorityReportFiled).
ReportsFollow == \A q \in Request : decisions[q] = NoDecision => reported[q] = {}

\* What was reviewed enough to be merged still is: no review is taken after.
StaysReviewed ==
  \A q \in Request : decisions[q] # NoDecision => requests[q] # NoRequest /\ Reviewed(q)

\* A log that was taken is whole: validateFinalDecisionIntegrity holds of it.
Whole == ~ ingesting => FinalIntegrity(decisions)

Inductive == Typed /\ ReportsFollow /\ StaysReviewed /\ Whole

-----------------------------------------------------------------------------

LEMMA InitInductive == Init => Inductive
  BY DEF Init, Inductive, Typed, ReportsFollow, StaysReviewed, Whole, FinalIntegrity,
         NoDecision, NoRequest

\* The events keep the variables in their types.
LEMMA EventTyped ==
  ASSUME Typed, Event
  PROVE  Typed'
<1>1. ASSUME NEW p \in Participant, NEW s \in Scope, Grant(p, s) \/ Revoke(p, s)
      PROVE  Typed'
  BY <1>1 DEF Grant, Revoke, Typed
<1>2. ASSUME NEW o \in Objection, NEW p \in Participant, NEW blocking \in BOOLEAN,
             RaiseObjection(o, p, blocking)
      PROVE  Typed'
  BY <1>2 DEF RaiseObjection, Typed
<1>3. ASSUME NEW o \in Objection, NEW p \in Participant, ResolveObjection(o, p)
      PROVE  Typed'
  BY <1>3 DEF ResolveObjection, Typed
<1>4. ASSUME NEW q \in Request, NEW listed \in SUBSET Objection,
             NEW required \in SUBSET Participant, OpenRequest(q, listed, required)
      PROVE  Typed'
  BY <1>4 DEF OpenRequest, Typed
<1>5. ASSUME NEW q \in Request, NEW p \in Participant, NEW at \in Time,
             NEW status \in {"approve", "request_changes", "comment"},
             SubmitReview(q, p, status, at)
      PROVE  Typed'
  <2>1. [request |-> q, by |-> p, status |-> status, at |-> at] \in Review
    BY DEF Review
  <2>2. reviews' \in Seq(Review)
    BY <1>5, <2>1 DEF SubmitReview, Typed
  <2> QED
    BY <1>5, <2>2 DEF SubmitReview, Typed
<1>6. ASSUME NEW q \in Request, NEW p \in Participant, NEW preserved \in SUBSET Objection,
             MergeDecision(q, p, preserved)
      PROVE  Typed'
  BY <1>6 DEF MergeDecision, Decision, Typed
<1>7. ASSUME NEW q \in Request, NEW carried \in SUBSET Objection,
             FileMinorityReport(q, carried)
      PROVE  Typed'
  BY <1>7 DEF FileMinorityReport, Typed
<1> QED
  BY <1>1, <1>2, <1>3, <1>4, <1>5, <1>6, <1>7 DEF Event

\* A report needs a decision, and a decision stays.
LEMMA EventReportsFollow ==
  ASSUME Typed, ReportsFollow, Event
  PROVE  ReportsFollow'
<1> USE DEF Typed, ReportsFollow
<1>1. ASSUME NEW q \in Request, NEW p \in Participant, NEW preserved \in SUBSET Objection,
             MergeDecision(q, p, preserved)
      PROVE  ReportsFollow'
  BY <1>1 DEF MergeDecision, Decision, NoDecision
<1>2. ASSUME NEW q \in Request, NEW carried \in SUBSET Objection,
             FileMinorityReport(q, carried)
      PROVE  ReportsFollow'
  BY <1>2 DEF FileMinorityReport
<1>3. CASE UNCHANGED <<decisions, reported>>
  BY <1>3
<1> QED
  BY <1>1, <1>2, <1>3 DEF Event, Grant, Revoke, RaiseObjection, ResolveObjection,
     OpenRequest, SubmitReview

\* Whether a request is reviewed depends on what it requires and on its own
\* reviews: a review of another changes nothing.
LEMMA ReviewOfAnother ==
  ASSUME Typed, NEW q \in Request, NEW r \in Review, r.request # q, Reviewed(q),
         requests' = requests, reviews' = Append(reviews, r)
  PROVE  Reviewed(q)'
<1>1. /\ DOMAIN reviews = 1 .. Len(reviews)
      /\ DOMAIN reviews' = 1 .. Len(reviews) + 1
      /\ \A n \in DOMAIN reviews : reviews'[n] = reviews[n]
      /\ reviews'[Len(reviews) + 1] = r
      /\ Len(reviews) \in Nat
  BY DEF Typed
<1>2. ReviewsOf(q)' = ReviewsOf(q)
  BY <1>1 DEF ReviewsOf
<1>3. \A n \in ReviewsOf(q) : reviews'[n] = reviews[n]
  BY <1>1 DEF ReviewsOf
<1>4. \A n \in ReviewsOf(q) : Latest(q, n)' <=> Latest(q, n)
  BY <1>2, <1>3 DEF Latest
<1>5. Approvers(q)' = Approvers(q)
  BY <1>2, <1>3, <1>4 DEF Approvers
<1> QED
  BY <1>2, <1>3, <1>4, <1>5 DEF Reviewed

\* Nothing that happens after a decision touches what it was reviewed on.
LEMMA EventStaysReviewed ==
  ASSUME Typed, StaysReviewed, Event
  PROVE  StaysReviewed'
<1> USE DEF StaysReviewed
<1>1. ASSUME NEW q \in Request, NEW listed \in SUBSET Objection,
             NEW required \in SUBSET Participant, OpenRequest(q, listed, required)
      PROVE  StaysReviewed'
  <2> SUFFICES ASSUME NEW d \in Request, decisions'[d] # NoDecision
               PROVE  requests'[d] # NoRequest /\ Reviewed(d)'
    OBVIOUS
  <2>1. requests[d] # NoRequest /\ Reviewed(d)
    BY <1>1 DEF OpenRequest
  <2>2. d # q /\ requests'[d] = requests[d] /\ reviews' = reviews
    BY <1>1, <2>1 DEF OpenRequest, Typed
  <2> QED
    BY <2>1, <2>2 DEF Reviewed, Approvers, Latest, ReviewsOf
<1>2. ASSUME NEW q \in Request, NEW p \in Participant, NEW at \in Time,
             NEW status \in {"approve", "request_changes", "comment"},
             SubmitReview(q, p, status, at)
      PROVE  StaysReviewed'
  <2> DEFINE r == [request |-> q, by |-> p, status |-> status, at |-> at]
  <2> SUFFICES ASSUME NEW d \in Request, decisions'[d] # NoDecision
               PROVE  requests'[d] # NoRequest /\ Reviewed(d)'
    OBVIOUS
  <2>1. decisions[d] # NoDecision /\ requests[d] # NoRequest /\ Reviewed(d)
    BY <1>2 DEF SubmitReview
  <2>2. requests' = requests /\ reviews' = Append(reviews, r)
    BY <1>2 DEF SubmitReview
  <2>3. r \in Review /\ r.request # d
    BY <1>2, <2>1 DEF SubmitReview, Open, Review
  <2>4. Reviewed(d)'
    BY <2>1, <2>2, <2>3, ReviewOfAnother
  <2> QED
    BY <2>1, <2>2, <2>4
<1>3. ASSUME NEW q \in Request, NEW p \in Participant, NEW preserved \in SUBSET Objection,
             MergeDecision(q, p, preserved)
      PROVE  StaysReviewed'
  <2>1. requests' = requests /\ reviews' = reviews
    BY <1>3 DEF MergeDecision
  <2>2. requests[q] # NoRequest /\ Reviewed(q)
    BY <1>3 DEF MergeDecision, Mergeable, Open
  <2>3. \A d \in Request : d # q => decisions'[d] = decisions[d]
    BY <1>3 DEF MergeDecision, Typed
  <2> QED
    BY <2>1, <2>2, <2>3 DEF Reviewed, Approvers, Latest, ReviewsOf
<1>4. CASE UNCHANGED <<decisions, requests, reviews>>
  BY <1>4 DEF Reviewed, Approvers, Latest, ReviewsOf
<1> QED
  BY <1>1, <1>2, <1>3, <1>4 DEF Event, Grant, Revoke, RaiseObjection, ResolveObjection,
     FileMinorityReport

LEMMA NextInductive == Inductive /\ [Next]_vars => Inductive'
<1> SUFFICES ASSUME Inductive, [Next]_vars
             PROVE  Inductive'
  OBVIOUS
<1>1. ASSUME Event
      PROVE  Typed' /\ ReportsFollow' /\ StaysReviewed'
  BY <1>1, EventTyped, EventReportsFollow, EventStaysReviewed DEF Inductive
<1>2. CASE IngestEvent
  BY <1>1, <1>2 DEF IngestEvent, Inductive, Whole
<1>3. CASE AppendEvent
  BY <1>1, <1>3 DEF AppendEvent, Inductive, Whole
<1>4. ASSUME UNCHANGED <<active, objections, requests, reviews, decisions, reported>>
      PROVE  /\ Typed' /\ ReportsFollow' /\ StaysReviewed'
             /\ FinalIntegrity(decisions) => FinalIntegrity(decisions)'
  <2>1. Typed' /\ ReportsFollow'
    BY <1>4 DEF Inductive, Typed, ReportsFollow
  <2>2. StaysReviewed'
    BY <1>4 DEF Inductive, StaysReviewed, Reviewed, Approvers, Latest, ReviewsOf
  <2>3. FinalIntegrity(decisions) => FinalIntegrity(decisions)'
    BY <1>4 DEF FinalIntegrity, Blocking, Known
  <2> QED
    BY <2>1, <2>2, <2>3
<1>5. CASE Ingested
  BY <1>4, <1>5 DEF Ingested, Inductive, Whole
<1>6. CASE UNCHANGED vars
  BY <1>4, <1>6 DEF vars, Inductive, Whole
<1> QED
  BY <1>2, <1>3, <1>5, <1>6 DEF Next

\* The invariant the two properties rest on.
THEOREM Invariance == Spec => []Inductive
  BY InitInductive, NextInductive, PTL DEF Spec

-----------------------------------------------------------------------------

\* Of a log that was taken, the eligibility command and validateDecisionMerged
\* with validateFinalDecisionIntegrity say the same.
LEMMA Agreement == Inductive => EligibilityDecides
<1> SUFFICES ASSUME Inductive, ~ ingesting, NEW q \in Request
             PROVE  Eligible(q) <=>
                      \E p \in Participant, preserved \in SUBSET Objection :
                        /\ Mergeable(q, p, preserved)
                        /\ FinalIntegrity([decisions EXCEPT ![q] = Decision(preserved)])
  BY DEF EligibilityDecides
<1>1. FinalIntegrity(decisions)
  BY DEF Inductive, Whole
<1>2. ASSUME Eligible(q)
      PROVE  \E p \in Participant, preserved \in SUBSET Objection :
               /\ Mergeable(q, p, preserved)
               /\ FinalIntegrity([decisions EXCEPT ![q] = Decision(preserved)])
  <2>1. PICK p \in Participant : Owner(p)
    BY <1>2 DEF Eligible, Owners
  <2>2. Mergeable(q, p, {})
    BY <1>2, <2>1 DEF Eligible, Mergeable
  <2>3. FinalIntegrity([decisions EXCEPT ![q] = Decision({})])
    BY <1>1, <1>2 DEF FinalIntegrity, Eligible, Answered, Decision, Inductive, Typed
  <2> QED
    BY <2>2, <2>3
<1>3. ASSUME NEW p \in Participant, NEW preserved \in SUBSET Objection,
             Mergeable(q, p, preserved),
             FinalIntegrity([decisions EXCEPT ![q] = Decision(preserved)])
      PROVE  Eligible(q)
  <2>1. Open(q) /\ Owner(p) /\ Reviewed(q) /\ Answered(q, preserved)
    BY <1>3 DEF Mergeable
  <2>2. reported[q] = {}
    BY <2>1 DEF Open, Inductive, ReportsFollow
  <2>3. \A o \in preserved : Blocking(o) => o \in reported[q]
    BY <1>3 DEF FinalIntegrity, Decision, NoDecision, Inductive, Typed
  <2>4. Answered(q, {})
    BY <2>1, <2>2, <2>3 DEF Answered
  <2> QED
    BY <2>1, <2>4 DEF Eligible, Owners
<1> QED
  BY <1>2, <1>3

\* A request the eligibility command finds eligible, and no other, can be
\* merged by an append (evaluateDecisionEligibility, ThreadDO.append).
THEOREM Eligibility == Spec => []EligibilityDecides
  BY Invariance, Agreement, PTL

\* Where clocks advance, latestReviewsByReviewer finds each reviewer's last word.
LEMMA LatestIsLast ==
  ASSUME Typed, NEW q \in Request, ClocksAdvance(q), NEW n \in ReviewsOf(q)
  PROVE  Latest(q, n) <=> LastWord(q, n)
<1>1. \A k \in ReviewsOf(q) : k \in Nat /\ reviews[k].at \in Nat
  <2> SUFFICES ASSUME NEW k \in ReviewsOf(q)
               PROVE  k \in Nat /\ reviews[k].at \in Nat
    OBVIOUS
  <2>1. k \in DOMAIN reviews /\ k \in Nat
    BY DEF Typed, ReviewsOf
  <2>2. reviews[k] \in Review
    BY <2>1 DEF Typed
  <2> QED
    BY <2>1, <2>2, LifecycleAssumption DEF Review
<1>2. ASSUME Latest(q, n)
      PROVE  LastWord(q, n)
  <2> SUFFICES ASSUME NEW k \in ReviewsOf(q), reviews[k].by = reviews[n].by, n < k
               PROVE  FALSE
    BY <1>1 DEF LastWord
  <2>1. reviews[n].at < reviews[k].at
    BY DEF ClocksAdvance
  <2> QED
    BY <1>1, <1>2, <2>1 DEF Latest
<1>3. ASSUME LastWord(q, n)
      PROVE  Latest(q, n)
  <2> SUFFICES ASSUME NEW k \in ReviewsOf(q), k # n, reviews[k].by = reviews[n].by
               PROVE  reviews[k].at < reviews[n].at
    BY DEF Latest
  <2>1. k < n
    BY <1>1, <1>3 DEF LastWord
  <2> QED
    BY <2>1 DEF ClocksAdvance
<1> QED
  BY <1>2, <1>3

LEMMA ReviewedLastWords == Inductive => StandsOnLastWords
<1> SUFFICES ASSUME Inductive, NEW q \in Request, decisions[q] # NoDecision, ClocksAdvance(q)
             PROVE  /\ NoChangesRequested(q)
                    /\ \A p \in requests[q].required : \E n \in ReviewsOf(q) :
                         LastWord(q, n) /\ reviews[n].by = p /\ reviews[n].status = "approve"
  BY DEF StandsOnLastWords
<1>1. Typed /\ Reviewed(q)
  BY DEF Inductive, StaysReviewed
<1>2. \A n \in ReviewsOf(q) : Latest(q, n) <=> LastWord(q, n)
  BY <1>1, LatestIsLast
<1>3. NoChangesRequested(q)
  BY <1>1, <1>2 DEF NoChangesRequested, Reviewed
<1>4. requests[q].required \subseteq Approvers(q)
  BY <1>1 DEF Reviewed
<1> QED
  BY <1>2, <1>3, <1>4 DEF Approvers

\* A decision rests on the last words of its reviewers (evaluateReviewRequirements),
\* however many they are, as long as each one's clock advances.
THEOREM LastWords == Spec => []StandsOnLastWords
  BY Invariance, ReviewedLastWords, PTL
=============================================================================

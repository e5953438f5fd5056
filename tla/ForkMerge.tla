----------------------------- MODULE ForkMerge ------------------------------
(***************************************************************************)
(* Forks of threads and their governed merges: merges.js, validator/       *)
(* merge.js, the fork rules of validator.js and validator/thread.js, the   *)
(* fork and merge parts of projector.js, cli/merge.js, cli/thread.js.      *)
(*                                                                         *)
(* A fork inherits its parent's objects through a boundary event and goes  *)
(* on alone.  A merge request proposes objects of a fork to a thread it    *)
(* descends from; it is reviewed, conflicts of it are declared and         *)
(* resolved, and an owner of the target completes it.                      *)
(*                                                                         *)
(* Two readings of the log find out what a thread holds: Judged is the one *)
(* eligibility is judged by (merges.js), Shown the one that clista state   *)
(* shows (projector.js), and each gives an object a status of its own:     *)
(* status and shows.  Both replay the log through the boundary for what is *)
(* inherited; here a client has read that reading when the parent was at   *)
(* the boundary (seen), and a fork keeps it.                               *)
(***************************************************************************)
EXTENDS Naturals, Sequences, FiniteSets

CONSTANTS
  Fork,         \* ids of threads that may be forked
  Claim,        \* ids of objects that are not objections
  Objection,    \* ids of objections
  Request,      \* ids of merge requests
  Completion,   \* ids of their completions, which may be given twice
  Conflict,     \* ids of conflicts
  Participant,  \* who may review and complete
  Time,         \* instants a review may be dated at
  ReusedIds,    \* an id may be given to an object of another thread (newId never does)
  MaxHeight     \* bound: events of the log

Trunk  == "trunk"
Thread == {Trunk} \cup Fork
Object == Claim \cup Objection

VARIABLES
  forks,      \* threads and forks: what a fork was made of
  objects,    \* the objects, by id, each of one thread
  reopened,   \* objections that were resolved when a decision preserved them
  requests,   \* mergeRequests, by id
  reviews,    \* by request and reviewer, the review with the latest date
  conflicts,  \* mergeConflicts, with the resolution that was recorded last
  completions,  \* mergeCompletionsByRequest
  merges,     \* the projection's mergeCompletions, as the requests they complete
  known,      \* participants in the log
  owners,     \* those with decision_owner authority, and where
  seen,       \* what a thread held when its last event was the log's head
  last,       \* thread of the log's last event
  height,     \* events of the log
  valid       \* the log is valid

vars == <<forks, objects, reopened, requests, reviews, conflicts, completions, merges,
          known, owners, seen, last, height, valid>>

NoFork       == [parent |-> "none"]
NoObject     == [status |-> "none", shows |-> "none", blocking |-> FALSE]
NoRequest    == [source |-> "none"]
NoReview     == [says |-> "none"]
NoConflict   == [of |-> "none"]
NoCompletion == [id |-> "none"]
NoReading    == [judged |-> {}]

\* A valid log's threads.
Is(t) == t \in Fork => forks[t] # NoFork

-----------------------------------------------------------------------------
(* What a thread holds *)

\* directObjectsForThread, valuesForThread
Direct(t) == [o \in Object |-> IF objects[o] # NoObject /\ objects[o].thread = t
                               THEN objects[o] ELSE NoObject]

\* mergeScopedObjects: of two of an id, the right one is found.
Over(left, right) == [o \in Object |-> IF right[o] = NoObject THEN left[o] ELSE right[o]]

\* Mutant: the parent's objects are read as they are now.
Judged_Live(t) == IF t = Trunk THEN Direct(t) ELSE Over(Direct(forks[t].parent), Direct(t))

\* merges.js, objectsForThreadScope
Judged(t) == IF t = Trunk THEN Direct(t) ELSE Over(forks[t].judged, Direct(t))

JudgedIds(t) == {o \in Object : Judged(t)[o] # NoObject}

\* What o is in the target, once it was accepted in the source by r's completion.
Carried(r, o, object) ==
  [object EXCEPT !.thread = requests[r].target,
                 !.shows = IF o \in completions[r].preserved \cap Objection
                           THEN "preserved" ELSE @]

\* What t shows of itself and through its boundary.
Own(t) == IF t = Trunk THEN Direct(t) ELSE Over(forks[t].shown, Direct(t))

\* Completion n brings o to t, where shown is what each thread shows.
Brings(shown, n, t, o) ==
  /\ requests[merges[n]].target = t
  /\ o \in completions[merges[n]].accepted
  /\ LET there == shown[requests[merges[n]].source][o]
     IN there # NoObject /\ there.from # t

MergedInto(shown, t) ==
  [o \in Object |->
     LET by == {n \in DOMAIN merges : Brings(shown, n, t, o)}
     IN IF by = {} THEN NoObject
        ELSE LET r == merges[CHOOSE n \in by : \A k \in by : n <= k]
             IN Carried(r, o, shown[requests[r].source][o])]

\* mergedValuesForThread: what is there already stays.
Prefer(own, merged) == Over(merged, own)

\* projector.js, valuesForThreadScope: what is merged is read in the source as
\* it is now.  A source descends from its target, so this ends.
ShownOf[t \in Thread] == Prefer(Own(t), MergedInto(ShownOf, t))

Shown(t) == ShownOf[t]

\* What a fork of t shows of it: inheritedFromThreadId.
Inherited(t) ==
  [o \in Object |-> IF Shown(t)[o] # NoObject /\ Shown(t)[o].from = "none"
                    THEN [Shown(t)[o] EXCEPT !.from = t] ELSE Shown(t)[o]]

\* collectInheritedObjectIdsThroughBoundary: the parent's own objects, and not
\* what the parent inherits itself.
Locked(t) == {o \in Object : Direct(t)[o] # NoObject}

Reading(t) == [judged |-> Judged(t), shown |-> Inherited(t), locked |-> Locked(t)]

\* threadDescendsFrom: what every set holds that holds t's parent and the parent
\* of each fork in it.
Ancestors(t) ==
  {a \in Thread : \A S \in SUBSET Thread :
     (\A s \in ({t} \cup S) \cap Fork : forks[s].parent \in S \cup {"none"}) => a \in S}

-----------------------------------------------------------------------------
(* Events.  What each must say (a title, a summary, a rationale, a known   *)
(* participant, thread ids that agree) is taken to be said.                *)

ForkEvent    == [type : {"ThreadForked"}, thread : Fork, parent : Thread]

\* An objection is raised against a claim or against the thread.
RaiseEvent   == [type : {"ObjectionRaised"}, thread : Thread, object : Objection,
                 against : Claim \cup {"thread"}, blocking : BOOLEAN]
                  \cup [type : {"ClaimCreated"}, thread : Thread, object : Claim]
ResolveEvent == [type : {"ObjectionResolved"}, thread : Thread, object : Objection]

\* DecisionMerged with a minority report for each objection it preserves; that it
\* may be merged otherwise is Lifecycle's.
DecideEvent  == [type : {"DecisionMerged"}, thread : Thread, preserved : SUBSET Objection]

OpenEvent == [type : {"MergeRequestOpened"}, id : Request, source : Fork, thread : Thread,
              proposed : SUBSET Claim, objections : SUBSET Object]

\* request_changes and reject weigh the same.
ReviewEvent == [type : {"MergeReviewSubmitted"}, of : Request, by : Participant,
                says : {"approve", "reject"}, at : Time]

ConflictEvent == [type : {"MergeConflictDeclared"}, id : Conflict, of : Request,
                  inParent : Object, inFork : Object]

\* So do the resolutions that are not reject_fork.
SettleEvent == [type : {"MergeConflictResolved"}, of : Request, conflict : Conflict,
                as : {"reject_fork", "preserve_both"}]

CompleteEvent == [type : {"MergeCompleted"}, id : Completion, of : Request, by : Participant,
                  accepted : SUBSET Object, preserved : SUBSET Objection,
                  rejected : SUBSET Object]

ThreadOf(e) == IF "thread" \in DOMAIN e THEN e.thread ELSE requests[e.of].target

-----------------------------------------------------------------------------
(* The validator *)

\* validateForkEvent
LeavesParent(t, touched) == t \in Fork => touched \cap forks[t].locked = {}

\* The boundary is an event of the parent, and before this one.
ForkAccepted(e) == ~ Is(e.thread) /\ Is(e.parent) /\ seen[e.parent] # NoReading

\* validateObjectionRaised, validateClaimCreated: that the id is free is not asked,
\* nor of which thread a claim is that is objected to.
RaiseAccepted(e) ==
  /\ Is(e.thread)
  /\ LeavesParent(e.thread, {e.object})
  /\ (e.type = "ObjectionRaised" /\ e.against \in Claim) => objects[e.against] # NoObject

\* validateObjectionResolved: of whichever thread the objection is.
ResolveAccepted(e) ==
  /\ Is(e.thread)
  /\ LeavesParent(e.thread, {e.object})
  /\ objects[e.object] # NoObject

\* validateDecisionMerged: open or resolved, and of whichever thread.
DecideAccepted(e) ==
  /\ Is(e.thread)
  /\ LeavesParent(e.thread, e.preserved)
  /\ \A o \in e.preserved : objects[o] # NoObject

OpenAccepted(e) ==
  /\ requests[e.id] = NoRequest
  /\ Is(e.thread)
  /\ Is(e.source)
  /\ e.thread \in Ancestors(e.source)
  /\ e.proposed \cup e.objections \subseteq JudgedIds(e.source)

ReviewAccepted(e) == requests[e.of] # NoRequest /\ e.by \in known

ConflictAccepted(e) ==
  /\ requests[e.of] # NoRequest
  /\ e.inParent \in JudgedIds(requests[e.of].target)
  /\ e.inFork \in JudgedIds(requests[e.of].source)
  /\ conflicts[e.id] = NoConflict

SettleAccepted(e) ==
  /\ requests[e.of] # NoRequest
  /\ conflicts[e.conflict] # NoConflict
  /\ conflicts[e.conflict].of = e.of

Completed(r) == completions[r] # NoCompletion

ConflictsOf(r) == {k \in Conflict : conflicts[k] # NoConflict /\ conflicts[k].of = r}

\* evaluateMergeEligibility, of no completion: what merge eligibility prints.
Eligible(r) ==
  /\ requests[r] # NoRequest
  /\ ~ Completed(r)
  /\ \E p \in Participant : <<p, requests[r].target>> \in owners
  /\ \A p \in Participant : reviews[r][p].says # "reject"
  /\ \A k \in ConflictsOf(r) : conflicts[k].as # "open"

\* rejectionRationaleObjectIds
Rationales(r) == {conflicts[k].inFork : k \in {j \in ConflictsOf(r) :
                                                 conflicts[j].as = "reject_fork"}}

\* isBlockingObjection throws for what is no objection of the source.
Blocking(r) ==
  {o \in requests[r].objections \cap Objection :
     LET there == Judged(requests[r].source)[o]
     IN there.blocking /\ there.status \in {"open", "preserved"}}

Throws(r) == ~ (requests[r].objections \subseteq Objection \cap JudgedIds(requests[r].source))

\* Mutant: a rejection needs no rationale.
KeepsDissent_NoRationale(e) ==
  Blocking(e.of) \subseteq e.accepted \cup e.preserved \cup e.rejected

\* evaluateBlockingObjections
KeepsDissent(e) ==
  Blocking(e.of) \subseteq e.accepted \cup e.preserved
                             \cup (e.rejected \cap Rationales(e.of))

CompleteAccepted(e) ==
  /\ Eligible(e.of)
  /\ <<e.by, requests[e.of].target>> \in owners
  /\ e.accepted \cup e.rejected \subseteq JudgedIds(requests[e.of].source)
  /\ ~ Throws(e.of)
  /\ KeepsDissent(e)

Accepted(e) ==
  CASE e.type = "ThreadForked"          -> ForkAccepted(e)
    [] e.type \in {"ObjectionRaised", "ClaimCreated"} -> RaiseAccepted(e)
    [] e.type = "ObjectionResolved"     -> ResolveAccepted(e)
    [] e.type = "DecisionMerged"        -> DecideAccepted(e)
    [] e.type = "MergeRequestOpened"    -> OpenAccepted(e)
    [] e.type = "MergeReviewSubmitted"  -> ReviewAccepted(e)
    [] e.type = "MergeConflictDeclared" -> ConflictAccepted(e)
    [] e.type = "MergeConflictResolved" -> SettleAccepted(e)
    [] e.type = "MergeCompleted"        -> CompleteAccepted(e)

-----------------------------------------------------------------------------
(* What a valid event leaves *)

objectVars == <<objects, reopened>>
mergeVars  == <<requests, reviews, conflicts, completions, merges, known, owners>>

Forked(e) ==
  /\ forks' = [forks EXCEPT ![e.thread] =
                 [parent |-> e.parent, judged |-> seen[e.parent].judged,
                  shown |-> seen[e.parent].shown, locked |-> seen[e.parent].locked]]
  /\ UNCHANGED <<objectVars, mergeVars>>

\* An object as it is raised.  markClaimContested: the claim it is raised against
\* is contested from then on, for the projector, if it is of the same thread.
New(e) ==
  LET status == IF e.type = "ClaimCreated" THEN "held" ELSE "open"
  IN [thread |-> e.thread, from |-> "none", status |-> status, shows |-> status,
      blocking |-> e.type = "ObjectionRaised" /\ e.blocking]

Contests(e, o) ==
  e.type = "ObjectionRaised" /\ o = e.against /\ o \in Claim /\ objects[o].thread = e.thread

Raised(e) ==
  /\ objects' = [o \in Object |->
                   IF o = e.object THEN New(e)
                   ELSE IF Contests(e, o) THEN [objects[o] EXCEPT !.shows = "contested"]
                   ELSE objects[o]]
  /\ UNCHANGED <<forks, reopened, mergeVars>>

\* resolveObjection, applyObjectionResolution: an objection of the event's thread.
Resolved(e) ==
  /\ objects' = IF objects[e.object].thread = e.thread
                THEN [objects EXCEPT ![e.object].status = "resolved",
                                     ![e.object].shows = "resolved"]
                ELSE objects
  /\ UNCHANGED <<forks, reopened, mergeVars>>

\* applyDecisionRecord: the projector's alone, whatever became of the objection.
Decided(e) ==
  LET preserved == {o \in e.preserved : objects[o].thread = e.thread}
  IN /\ objects' = [o \in Object |-> IF o \in preserved
                                     THEN [objects[o] EXCEPT !.shows = "preserved"]
                                     ELSE objects[o]]
     /\ reopened' = reopened \cup {o \in preserved : objects[o].status = "resolved"}
     /\ UNCHANGED <<forks, mergeVars>>

Opened(e) ==
  /\ requests' = [requests EXCEPT ![e.id] = [source |-> e.source, target |-> e.thread,
                                             proposed |-> e.proposed,
                                             objections |-> e.objections]]
  /\ UNCHANGED <<forks, objectVars, reviews, conflicts, completions, merges, known, owners>>

\* latestMergeReviewsByReviewer: of one date, the first.
Reviewed(e) ==
  /\ reviews' = IF reviews[e.of][e.by] = NoReview \/ reviews[e.of][e.by].at < e.at
                THEN [reviews EXCEPT ![e.of][e.by] = [says |-> e.says, at |-> e.at]]
                ELSE reviews
  /\ UNCHANGED <<forks, objectVars, requests, conflicts, completions, merges, known, owners>>

Declared(e) ==
  /\ conflicts' = [conflicts EXCEPT ![e.id] = [of |-> e.of, inFork |-> e.inFork, as |-> "open"]]
  /\ UNCHANGED <<forks, objectVars, requests, reviews, completions, merges, known, owners>>

Settled(e) ==
  /\ conflicts' = [conflicts EXCEPT ![e.conflict].as = e.as]
  /\ UNCHANGED <<forks, objectVars, requests, reviews, completions, merges, known, owners>>

\* What a source shows to be open dissent.
Dissent(r) ==
  {o \in requests[r].objections :
     LET there == Shown(requests[r].source)[o]
     IN there.blocking /\ there.shows \in {"open", "preserved"}}

\* Under an id that is taken, a completion takes the other's place in the projection.
\* dissent and rationales, what stood then, are for the properties.
Merged(e) ==
  /\ merges' = IF \E n \in DOMAIN merges : completions[merges[n]].id = e.id
               THEN [n \in DOMAIN merges |-> IF completions[merges[n]].id = e.id
                                             THEN e.of ELSE merges[n]]
               ELSE Append(merges, e.of)
  /\ completions' = [completions EXCEPT ![e.of] =
       [id |-> e.id, accepted |-> e.accepted, preserved |-> e.preserved,
        rejected |-> e.rejected, dissent |-> Dissent(e.of), rationales |-> Rationales(e.of)]]
  /\ UNCHANGED <<forks, objectVars, requests, reviews, conflicts, known, owners>>

Recorded(e) ==
  \/ e.type = "ThreadForked" /\ Forked(e)
  \/ e.type \in {"ObjectionRaised", "ClaimCreated"} /\ Raised(e)
  \/ e.type = "ObjectionResolved" /\ Resolved(e)
  \/ e.type = "DecisionMerged" /\ Decided(e)
  \/ e.type = "MergeRequestOpened" /\ Opened(e)
  \/ e.type = "MergeReviewSubmitted" /\ Reviewed(e)
  \/ e.type = "MergeConflictDeclared" /\ Declared(e)
  \/ e.type = "MergeConflictResolved" /\ Settled(e)
  \/ e.type = "MergeCompleted" /\ Merged(e)

-----------------------------------------------------------------------------

Init ==
  /\ forks = [f \in Fork |-> NoFork]
  /\ objects = [o \in Object |-> NoObject]
  /\ reopened = {}
  /\ requests = [r \in Request |-> NoRequest]
  /\ reviews = [r \in Request |-> [p \in Participant |-> NoReview]]
  /\ conflicts = [k \in Conflict |-> NoConflict]
  /\ completions = [r \in Request |-> NoCompletion]
  /\ merges = <<>>
  /\ known \in SUBSET Participant
  /\ owners \in SUBSET (known \X {Trunk})
  /\ seen = [t \in Thread |-> NoReading]
  /\ last = Trunk
  /\ height = 1
  /\ valid = TRUE

\* A client that names its own ids, or one that has them from newId.
FreshId(e) ==
  IF ReusedIds \/ e.type \notin {"ObjectionRaised", "ClaimCreated"} THEN TRUE
  ELSE objects[e.object] # NoObject => objects[e.object].thread = e.thread

Submit(e) ==
  /\ valid
  /\ height < MaxHeight
  /\ FreshId(e)
  /\ Accepted(e)
  /\ Recorded(e)
  /\ last' = ThreadOf(e)
  /\ height' = height + 1
  /\ UNCHANGED <<seen, valid>>

\* What a command appends without validation: of a request that is there, or by
\* thread fork and merge open.  mergeComplete appends whatever the eligibility
\* it prints, but is stopped by one that throws.
Asks(e) ==
  IF e.type \in {"ThreadForked", "MergeRequestOpened"} THEN TRUE
  ELSE /\ e.type \in {"MergeReviewSubmitted", "MergeConflictDeclared",
                      "MergeConflictResolved", "MergeCompleted"}
       /\ requests[e.of] # NoRequest
       /\ e.type = "MergeCompleted" => ~ Throws(e.of)

\* The log is not valid any more, and nothing else is asked of it.
Spoil(e) ==
  /\ valid
  /\ height < MaxHeight
  /\ Asks(e)
  /\ ~ Accepted(e)
  /\ valid' = FALSE
  /\ UNCHANGED <<forks, objectVars, mergeVars, seen, last, height>>

\* appendParticipant, the first event of a command by somebody who is not in the
\* log yet; who is to complete a merge is introduced as an owner of its target.
Introduce(p, r, owning) ==
  /\ valid
  /\ height < MaxHeight
  /\ requests[r] # NoRequest
  /\ p \notin known
  /\ known' = known \cup {p}
  /\ owners' = IF owning THEN owners \cup {<<p, requests[r].target>>} ELSE owners
  /\ last' = requests[r].target
  /\ height' = height + 1
  /\ UNCHANGED <<forks, objectVars, requests, reviews, conflicts, completions, merges,
                 seen, valid>>

\* A client reads a thread whose event is the head of the log.
Read(t) ==
  /\ valid
  /\ Is(t)
  /\ last = t
  /\ seen' = [seen EXCEPT ![t] = Reading(t)]
  /\ UNCHANGED <<forks, objectVars, mergeVars, last, height, valid>>

Next ==
  \/ \E e \in ForkEvent \cup RaiseEvent \cup ResolveEvent \cup DecideEvent : Submit(e)
  \/ \E e \in OpenEvent \cup CompleteEvent : Submit(e)
  \/ \E e \in ReviewEvent \cup ConflictEvent \cup SettleEvent : Submit(e)
  \/ \E e \in ForkEvent \cup OpenEvent \cup CompleteEvent : Spoil(e)
  \/ \E e \in ReviewEvent \cup ConflictEvent \cup SettleEvent : Spoil(e)
  \/ \E p \in Participant, r \in Request, owning \in BOOLEAN : Introduce(p, r, owning)
  \/ \E t \in Thread : Read(t)

Spec == Init /\ [][Next]_vars

-----------------------------------------------------------------------------

\* A decision's preserved objections and contested claims are the projector's alone.
Alike(judged, shown, o) ==
  \/ shown = judged
  \/ judged = "held" /\ shown = "contested"
  \/ shown = "preserved" /\ (judged = "open" \/ (judged = "resolved" /\ o \in reopened))

(***************************************************************************)
(* Merges are judged by one reading of the log (merges.js) and decided by  *)
(* people who see another (projector.js).  What the judge finds in a       *)
(* thread is there for all to see, and what is shown beyond that was       *)
(* accepted by a merge.  Their states may differ, but not so that either   *)
(* takes a resolved objection for an open one, unless a decision preserved *)
(* it after it was resolved.                                               *)
(***************************************************************************)
JudgedIsShown ==
  valid =>
    \A t \in Thread, o \in Object :
      Is(t) =>
        IF Judged(t)[o] # NoObject
        THEN Shown(t)[o] # NoObject /\ Alike(Judged(t)[o].status, Shown(t)[o].shows, o)
        ELSE Shown(t)[o] # NoObject =>
               \E r \in Request : Completed(r) /\ o \in completions[r].accepted

(***************************************************************************)
(* "Merges prove governed integration without dissent erasure"             *)
(* (milestone-5.md).  Whatever comes after a merge, what it accepted shows *)
(* in its target, as long as no other completion was given its id; what it *)
(* preserved is still found in its source; and an objection that was       *)
(* proposed and shown to be open was accepted or preserved, or rejected    *)
(* while a rationale for it stood, or is a resolved one that a decision    *)
(* has preserved.                                                          *)
(***************************************************************************)
DissentKept ==
  valid =>
    \A r \in {s \in Request : Completed(s)} :
      LET c == completions[r]  q == requests[r]
      IN /\ \E n \in DOMAIN merges :
              /\ completions[merges[n]].id = c.id
              /\ merges[n] = r => \A o \in c.accepted : Shown(q.target)[o] # NoObject
         /\ \A o \in c.preserved \cap q.objections : Shown(q.source)[o] # NoObject
         /\ c.dissent \subseteq c.accepted \cup c.preserved
                                  \cup (c.rejected \cap c.rationales) \cup reopened
=============================================================================

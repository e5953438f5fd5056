----------------------------- MODULE WorkProofs ------------------------------
(***************************************************************************)
(* For any participants, delegations, executions and outcomes, and logs of *)
(* any length: the validator's tables and the projection's records say the *)
(* same of what a command may use, work stops with the grant or the        *)
(* authority it is done under, and what is learned rests on what was done. *)
(***************************************************************************)
EXTENDS Outcomes, TLAPS

DelegationEnds == {"DelegationRevoked", "DelegationExpired", "DelegationViolationRecorded"}

ExecutionMoves == {"ExecutionCompleted", "ExecutionFailed", "ExecutionRolledBack",
                   "ExecutionViolationRecorded"}

OutcomeMoves == {"OutcomeObserved", "OutcomeEvaluated", "OutcomeDisputed",
                 "OutcomeViolationRecorded"}

\* What is said is said of something.
Founded ==
  /\ \A g \in Grant, t \in DelegationEnds : Said(t, g) => grants[g] # NoGrant
  /\ \A x \in Execution, t \in ExecutionMoves : Said(t, x) => executions[x] # NoExecution

\* A grant is active in the validator's table exactly while the projection shows
\* it so; of one that has ended the two may give different reasons.
StatusAgrees == \A g \in Grant : status[g] = "active" <=> GrantShown(g) = "active"

\* Of an execution they say the same, always.
ProgressAgrees == \A x \in Execution : progress[x] = ExecutionShown(x)

\* A grant that is in the log was granted in form to somebody who can hold it.
GrantsHold ==
  \A g \in Grant : grants[g] # NoGrant =>
    WellFormedGrant(grants[g]) /\ CanBe(grants[g].to, grants[g].as)

\* The decision was made by somebody who is there.
DecisionHolds == decision.by \in Participant /\ Known(decision.by)

\* An execution keeps to what it was authorized by, but for the status and the
\* time of its grant, and for the authority of its actor.
KeepsTo(r) ==
  IF r.auth = ByDecision
  THEN /\ decision.approved
       /\ r.work \in decision.scope
       /\ decision.conditions \subseteq r.constraints
  ELSE /\ grants[r.auth] # NoGrant
       /\ r.actor = grants[r.auth].to
       /\ r.work = grants[r.auth].work
       /\ grants[r.auth].limits \subseteq r.constraints

ExecutionsHold ==
  \A x \in Execution : executions[x] # NoExecution =>
    /\ WellFormedExecution(executions[x])
    /\ Known(executions[x].actor)
    /\ KeepsTo(executions[x])

\* The invariant of a valid log of delegations and executions.
WorkAgrees ==
  Founded /\ StatusAgrees /\ ProgressAgrees /\ GrantsHold /\ DecisionHolds /\ ExecutionsHold

OutcomeRecord == [execution : Execution, effect : Effect]

OutcomeTypeOK ==
  /\ expected \in [Outcome -> OutcomeRecord \cup {NoOutcome}]
  /\ standing \in [Outcome -> {"none", "pending", "observed", "evaluated", "disputed", "violated"}]
  /\ hashes \in [Outcome -> Hash]
  /\ signals \in [Learning -> SignalRecord \cup {NoLearning}]
  /\ lessons \in [Learning -> LessonRecord \cup {NoLearning}]

OutcomeFounded ==
  \A o \in Outcome, t \in OutcomeMoves : Said(t, o) => expected[o] # NoOutcome

\* Until an outcome is disputed or violated, the two say the same of it.
StandingAgrees ==
  \A o \in Outcome, s \in {"pending", "observed", "evaluated"} :
    standing[o] = s <=> OutcomeShown(o) = s

\* What was evaluated was observed, of an execution that was completed.
EvaluationRests ==
  \A o \in Outcome : Said("OutcomeEvaluated", o) =>
    Said("OutcomeObserved", o) /\ WasCompleted(expected[o].execution)

\* What r says was learned is of an outcome that was evaluated, and of its execution.
Rests(r) ==
  /\ expected[r.outcome] # NoOutcome
  /\ Said("OutcomeEvaluated", r.outcome)
  /\ r.execution = expected[r.outcome].execution

LearnedRests ==
  /\ \A l \in Learning : signals[l] # NoLearning => Rests(signals[l])
  /\ \A l \in Learning : lessons[l] # NoLearning =>
       Rests(lessons[l]) /\ SameOutcome(lessons[l], signals[lessons[l].signal])

OutcomesAgree == OutcomeFounded /\ StandingAgrees /\ EvaluationRests /\ LearnedRests

\* The inductive invariant.
WorkInv ==
  /\ TypeOK
  /\ OutcomeTypeOK
  /\ valid => WorkAgrees /\ OutcomesAgree

-----------------------------------------------------------------------------
(* What is there differs from what stands for nothing. *)

LEMMA NothingIsThere ==
  /\ NoGrant \notin GrantRecord
  /\ NoExecution \notin ExecutionRecord
  /\ NoOutcome \notin OutcomeRecord
  /\ NoLearning \notin SignalRecord \cup LessonRecord
<1>1. \A r \in GrantRecord : r.expires = r.expires /\ "expires" \in DOMAIN r
  BY DEF GrantRecord
<1>2. \A r \in ExecutionRecord : "auth" \in DOMAIN r
  BY DEF ExecutionRecord
<1>3. \A r \in OutcomeRecord : "execution" \in DOMAIN r
  BY DEF OutcomeRecord
<1>4. \A r \in SignalRecord \cup LessonRecord : "outcome" \in DOMAIN r
  BY DEF SignalRecord, LessonRecord
<1> QED
  BY <1>1, <1>2, <1>3, <1>4 DEF NoGrant, NoExecution, NoOutcome, NoLearning

-----------------------------------------------------------------------------
(* Types *)

LEMMA InitTyped == OutcomeInit => TypeOK /\ OutcomeTypeOK
  BY DEF OutcomeInit, Init, TypeOK, OutcomeTypeOK, Hash

\* Whatever a delegation event leaves is typed, valid or not.
LEMMA RecordedTyped ==
  ASSUME TypeOK, NEW e, Recorded(e)
  PROVE  /\ grants' \in [Grant -> GrantRecord \cup {NoGrant}]
         /\ status' \in [Grant -> {"none", "active", "revoked", "expired", "violated"}]
         /\ executions' \in [Execution -> ExecutionRecord \cup {NoExecution}]
         /\ progress' \in [Execution -> {"none", "active", "completed", "failed",
                                         "rolled_back", "violated"}]
<1> USE DEF TypeOK
<1>1. CASE e \in GrantEvent /\ Granted(e)
  BY <1>1 DEF GrantEvent, Granted
<1>2. CASE e \in StartEvent /\ Started(e)
  BY <1>2 DEF StartEvent, Started
<1>3. CASE e \in ActionEvent /\ Acted(e)
  BY <1>3 DEF Acted
<1>4. CASE e \in ControlEvent \cup ExpiryEvent /\ Ended(e)
  <2>1. StatusAfter[e.type] \in {"revoked", "expired", "violated"}
    BY <1>4 DEF ControlEvent, ExpiryEvent, StatusAfter
  <2> QED
    BY <1>4, <2>1 DEF ControlEvent, ExpiryEvent, Ended
<1>5. CASE e \in MoveEvent \cup BreachEvent /\ Moved(e)
  <2>1. StatusAfter[e.type] \in {"completed", "failed", "rolled_back", "violated"}
    BY <1>5 DEF MoveEvent, BreachEvent, StatusAfter
  <2> QED
    BY <1>5, <2>1 DEF MoveEvent, BreachEvent, Moved
<1> QED
  BY <1>1, <1>2, <1>3, <1>4, <1>5 DEF Recorded

\* So are the people a command introduces.
LEMMA IntroducedTyped ==
  ASSUME TypeOK, NEW by \in Participant, NEW to \in Participant, NEW as \in DelegateTypes,
         Introduced(by, to, as)
  PROVE  /\ people' \in [Participant -> Kinds \cup {"stranger"}]
         /\ owners' \subseteq Participant \X Scope
<1>1. DefaultKind(as) \in Kinds
  BY DEF DefaultKind, DelegateTypes, Kinds
<1>2. people' \in [Participant -> Kinds \cup {"stranger"}]
  BY <1>1 DEF Introduced, TypeOK, Kinds
<1>3. owners' \subseteq Participant \X Scope
  BY DelegationAssumption DEF Introduced, TypeOK
<1> QED
  BY <1>2, <1>3

-----------------------------------------------------------------------------
(* The validator and the projection agree on delegations and executions *)

\* Who is in the log stays who they are; owners may come and go.
PeopleStay ==
  /\ \A p \in Participant : Known(p) => people'[p] = people[p]
  /\ decision' = decision

\* What holds of grants and executions does not depend on who else is there.
LEMMA HoldersStay ==
  ASSUME TypeOK, TypeOK', PeopleStay, GrantsHold, DecisionHolds, ExecutionsHold,
         UNCHANGED <<grants, executions>>
  PROVE  GrantsHold' /\ DecisionHolds' /\ ExecutionsHold'
<1>1. \A p \in Participant : Known(p) => Known(p)'
  BY DEF PeopleStay, Known
<1>2. ASSUME NEW g \in Grant, grants[g] # NoGrant
      PROVE  CanBe(grants[g].to, grants[g].as)'
  <2>1. grants[g].to \in Participant
    BY <1>2 DEF TypeOK, GrantRecord
  <2> QED
    BY <1>1, <1>2, <2>1 DEF GrantsHold, CanBe, PeopleStay
<1>3. GrantsHold'
  BY <1>2 DEF GrantsHold, WellFormedGrant
<1>4. ASSUME NEW x \in Execution, executions[x] # NoExecution
      PROVE  Known(executions[x].actor)' /\ KeepsTo(executions[x])'
  <2>1. executions[x].actor \in Participant
    BY <1>4 DEF TypeOK, ExecutionRecord
  <2> QED
    BY <1>1, <1>4, <2>1 DEF ExecutionsHold, KeepsTo, PeopleStay
<1>5. ExecutionsHold'
  BY <1>4 DEF ExecutionsHold, WellFormedExecution
<1>6. DecisionHolds'
  BY <1>1 DEF DecisionHolds, PeopleStay
<1> QED
  BY <1>3, <1>5, <1>6

\* Events of no delegation and no execution change nothing of them.
LEMMA OthersAgree ==
  ASSUME TypeOK, TypeOK', WorkAgrees, PeopleStay,
         UNCHANGED <<grants, status, executions, progress>>,
         \A t \in DelegationEnds \cup ExecutionMoves : \A id : Said(t, id)' <=> Said(t, id)
  PROVE  WorkAgrees'
<1>1. GrantsHold' /\ DecisionHolds' /\ ExecutionsHold'
  BY HoldersStay DEF WorkAgrees
<1>2. Founded'
  BY DEF WorkAgrees, Founded
<1>3. \A g \in Grant : GrantShown(g)' = GrantShown(g)
  BY DEF GrantShown, DelegationEnds
<1>4. \A x \in Execution : ExecutionShown(x)' = ExecutionShown(x)
  BY DEF ExecutionShown, ExecutionMoves
<1> QED
  BY <1>1, <1>2, <1>3, <1>4 DEF WorkAgrees, StatusAgrees, ProgressAgrees

\* A grant under an id that was free.
LEMMA GrantAgrees ==
  ASSUME TypeOK, TypeOK', WorkAgrees, PeopleStay, NEW e \in GrantEvent, Granted(e),
         grants[e.id] = NoGrant, WellFormedGrant(e.record),
         CanBe(e.record.to, e.record.as)'
  PROVE  WorkAgrees'
<1> DEFINE g0 == e.id
<1>1. g0 \in Grant /\ e.record \in GrantRecord /\ e.record # NoGrant
  BY NothingIsThere DEF GrantEvent
<1>2. /\ \A t, id : Said(t, id)' <=> Said(t, id)
      /\ \A x \in Execution : ExecutionShown(x)' = ExecutionShown(x)
  BY DEF Granted, Said, ExecutionShown
<1>3. /\ \A g \in Grant \ {g0} : grants'[g] = grants[g] /\ status'[g] = status[g]
      /\ grants'[g0] = e.record
      /\ status'[g0] = "active"
      /\ executions' = executions /\ progress' = progress
  BY <1>1 DEF Granted, TypeOK
<1>4. Founded'
  BY <1>1, <1>2, <1>3 DEF WorkAgrees, Founded
<1>5. GrantShown(g0)' = "active"
  BY <1>1, <1>2, <1>3 DEF WorkAgrees, Founded, GrantShown, DelegationEnds
<1>6. \A g \in Grant \ {g0} : GrantShown(g)' = GrantShown(g)
  BY <1>2, <1>3 DEF GrantShown
<1>7. StatusAgrees'
  BY <1>3, <1>5, <1>6 DEF WorkAgrees, StatusAgrees
<1>8. ProgressAgrees'
  BY <1>2, <1>3 DEF WorkAgrees, ProgressAgrees
<1>9. \A p \in Participant : Known(p) => Known(p)'
  BY DEF PeopleStay, Known
<1>10. GrantsHold'
  <2>1. ASSUME NEW g \in Grant \ {g0}, grants[g] # NoGrant
        PROVE  WellFormedGrant(grants[g])' /\ CanBe(grants[g].to, grants[g].as)'
    <3>1. grants[g].to \in Participant
      BY <2>1 DEF TypeOK, GrantRecord
    <3> QED
      BY <1>3, <1>9, <2>1, <3>1 DEF WorkAgrees, GrantsHold, CanBe, PeopleStay, WellFormedGrant
  <2>2. WellFormedGrant(grants[g0])' /\ CanBe(grants[g0].to, grants[g0].as)'
    BY <1>3 DEF WellFormedGrant, CanBe
  <2> QED
    BY <1>3, <2>1, <2>2 DEF GrantsHold
<1>11. ExecutionsHold'
  <2>1. ASSUME NEW x \in Execution, executions[x] # NoExecution
        PROVE  Known(executions[x].actor)' /\ KeepsTo(executions[x])'
    <3>1. executions[x].actor \in Participant /\ executions[x].auth \in Grant \cup {ByDecision}
      BY <2>1 DEF TypeOK, ExecutionRecord
    <3>2. executions[x].auth # ByDecision =>
            grants[executions[x].auth] # NoGrant /\ executions[x].auth # g0
      BY <2>1 DEF WorkAgrees, ExecutionsHold, KeepsTo
    <3> QED
      BY <1>3, <1>9, <2>1, <3>1, <3>2 DEF WorkAgrees, ExecutionsHold, KeepsTo, PeopleStay
  <2> QED
    BY <1>3, <2>1 DEF WorkAgrees, ExecutionsHold, WellFormedExecution
<1>12. DecisionHolds'
  BY <1>9 DEF WorkAgrees, DecisionHolds, PeopleStay
<1> QED
  BY <1>4, <1>7, <1>8, <1>10, <1>11, <1>12 DEF WorkAgrees

\* A record more says what it says.
LEMMA SaidCollected ==
  ASSUME NEW e, Collected(e)
  PROVE  \A t, id : Said(t, id)' <=> Said(t, id) \/ (t = e.type /\ id = e.of)
<1> DEFINE f0 == [type |-> e.type, of |-> e.of]
<1>1. f0.type = e.type /\ f0.of = e.of
  OBVIOUS
<1>2. \A f : f \in facts' <=> f \in facts \/ f = f0
  BY DEF Collected
<1> HIDE DEF f0
<1> QED
  BY <1>1, <1>2 DEF Said

LEMMA SaidNoted ==
  ASSUME NEW e, Noted(e)
  PROVE  \A t, id : Said(t, id)' <=> Said(t, id) \/ (t = e.type /\ id = e.of)
<1> DEFINE f0 == [type |-> e.type, of |-> e.of, id |-> e.id]
<1>1. f0.type = e.type /\ f0.of = e.of
  OBVIOUS
<1>2. \A f : f \in facts' <=> f \in facts \/ f = f0
  BY DEF Noted
<1> HIDE DEF f0
<1> QED
  BY <1>1, <1>2 DEF Said

\* The end of a grant: revoked or expired while it was active, violated any time.
LEMMA EndAgrees ==
  ASSUME TypeOK, TypeOK', WorkAgrees, PeopleStay, NEW e, Ended(e),
         e.type \in DelegationEnds, e.of \in Grant, grants[e.of] # NoGrant
  PROVE  WorkAgrees'
<1> DEFINE g0 == e.of
<1>1. \A t, id : Said(t, id)' <=> Said(t, id) \/ (t = e.type /\ id = g0)
  BY SaidCollected DEF Ended
<1>2. /\ \A g \in Grant \ {g0} : status'[g] = status[g]
      /\ grants' = grants /\ executions' = executions /\ progress' = progress
      /\ status'[g0] # "active"
  <2>1. StatusAfter[e.type] \in {"revoked", "expired", "violated"}
    BY DEF DelegationEnds, StatusAfter
  <2> QED
    BY <2>1 DEF Ended, TypeOK
<1>3. GrantsHold' /\ DecisionHolds' /\ ExecutionsHold'
  BY <1>2, HoldersStay DEF WorkAgrees
<1>4. Founded'
  BY <1>1, <1>2 DEF WorkAgrees, Founded, DelegationEnds, ExecutionMoves
<1>5. GrantShown(g0)' # "active"
  BY <1>1, <1>2 DEF GrantShown, DelegationEnds
<1>6. \A g \in Grant \ {g0} : GrantShown(g)' = GrantShown(g)
  BY <1>1, <1>2 DEF GrantShown
<1>7. \A x \in Execution : ExecutionShown(x)' = ExecutionShown(x)
  BY <1>1, <1>2 DEF ExecutionShown, DelegationEnds
<1> QED
  BY <1>2, <1>3, <1>4, <1>5, <1>6, <1>7 DEF WorkAgrees, StatusAgrees, ProgressAgrees

\* An execution under an id that was free.
LEMMA StartAgrees ==
  ASSUME TypeOK, TypeOK', WorkAgrees, PeopleStay, NEW e \in StartEvent, Started(e),
         StartAccepted(e)
  PROVE  WorkAgrees'
<1> DEFINE x0 == e.id
<1>1. /\ x0 \in Execution /\ e.record \in ExecutionRecord /\ e.record # NoExecution
      /\ executions[x0] = NoExecution
  BY NothingIsThere DEF StartEvent, StartAccepted
<1>2. /\ \A t, id : Said(t, id)' <=> Said(t, id)
      /\ \A g \in Grant : GrantShown(g)' = GrantShown(g)
  BY DEF Started, Said, GrantShown
<1>3. /\ \A x \in Execution \ {x0} : executions'[x] = executions[x] /\ progress'[x] = progress[x]
      /\ executions'[x0] = e.record
      /\ progress'[x0] = "active"
      /\ grants' = grants /\ status' = status
  BY <1>1 DEF Started, TypeOK
<1>4. Founded'
  BY <1>1, <1>2, <1>3 DEF WorkAgrees, Founded
<1>5. ExecutionShown(x0)' = "active"
  BY <1>1, <1>2, <1>3 DEF WorkAgrees, Founded, ExecutionShown, ExecutionMoves
<1>6. \A x \in Execution \ {x0} : ExecutionShown(x)' = ExecutionShown(x)
  BY <1>2, <1>3 DEF ExecutionShown
<1>7. \A p \in Participant : Known(p) => Known(p)'
  BY DEF PeopleStay, Known
<1>8. GrantsHold'
  <2>1. ASSUME NEW g \in Grant, grants[g] # NoGrant
        PROVE  CanBe(grants[g].to, grants[g].as)'
    <3>1. grants[g].to \in Participant
      BY <2>1 DEF TypeOK, GrantRecord
    <3> QED
      BY <1>3, <1>7, <2>1, <3>1 DEF WorkAgrees, GrantsHold, CanBe, PeopleStay
  <2> QED
    BY <1>3, <2>1 DEF WorkAgrees, GrantsHold, WellFormedGrant
<1>9. ASSUME NEW x \in Execution \ {x0}, executions[x] # NoExecution
      PROVE  WellFormedExecution(executions[x])' /\ Known(executions[x].actor)'
               /\ KeepsTo(executions[x])'
  <2>1. executions[x].actor \in Participant
    BY <1>9 DEF TypeOK, ExecutionRecord
  <2> QED
    BY <1>3, <1>7, <1>9, <2>1
    DEF WorkAgrees, ExecutionsHold, WellFormedExecution, KeepsTo, PeopleStay
<1>10. WellFormedExecution(e.record)' /\ Known(e.record.actor)' /\ KeepsTo(e.record)'
  <2>1. e.record.actor \in Participant /\ e.record.auth \in Grant \cup {ByDecision}
    BY <1>1 DEF ExecutionRecord
  <2>2. e.record.auth # ByDecision => grants[e.record.auth] # NoGrant
    BY <2>1 DEF StartAccepted, Authorized, WorkAgrees, StatusAgrees, GrantShown
  <2> QED
    BY <1>3, <1>7, <2>1, <2>2
    DEF StartAccepted, Authorized, WellFormedExecution, KeepsTo, PeopleStay
<1>11. ExecutionsHold'
  BY <1>3, <1>9, <1>10 DEF ExecutionsHold
<1>12. DecisionHolds'
  BY <1>7 DEF WorkAgrees, DecisionHolds, PeopleStay
<1> QED
  BY <1>2, <1>3, <1>4, <1>5, <1>6, <1>8, <1>11, <1>12
  DEF WorkAgrees, StatusAgrees, ProgressAgrees

\* A transition out of a status it may leave, or a violation any time.
LEMMA MoveAgrees ==
  ASSUME TypeOK, TypeOK', WorkAgrees, PeopleStay, NEW e, Moved(e),
         e.type \in ExecutionMoves, e.of \in Execution, executions[e.of] # NoExecution,
         e.type # "ExecutionViolationRecorded" => progress[e.of] \in LeftBy(e.type)
  PROVE  WorkAgrees'
<1> DEFINE x0 == e.of
<1>1. \A t, id : Said(t, id)' <=> Said(t, id) \/ (t = e.type /\ id = x0)
  BY SaidCollected, SaidNoted DEF Moved
<1>2. /\ \A x \in Execution \ {x0} : progress'[x] = progress[x]
      /\ grants' = grants /\ executions' = executions /\ status' = status
      /\ progress'[x0] = StatusAfter[e.type]
  BY DEF Moved, TypeOK
<1>3. GrantsHold' /\ DecisionHolds' /\ ExecutionsHold'
  BY <1>2, HoldersStay DEF WorkAgrees
<1>4. Founded'
  BY <1>1, <1>2 DEF WorkAgrees, Founded, DelegationEnds, ExecutionMoves
<1>5. \A g \in Grant : GrantShown(g)' = GrantShown(g)
  BY <1>1, <1>2 DEF GrantShown, ExecutionMoves
<1>6. \A x \in Execution \ {x0} : ExecutionShown(x)' = ExecutionShown(x)
  BY <1>1, <1>2 DEF ExecutionShown
<1>7. ExecutionShown(x0)' = StatusAfter[e.type]
  <2>1. progress[x0] = ExecutionShown(x0)
    BY DEF WorkAgrees, ProgressAgrees
  <2>2. CASE e.type = "ExecutionViolationRecorded"
    BY <1>1, <1>2, <2>2 DEF ExecutionShown, StatusAfter
  <2>3. CASE e.type \in {"ExecutionCompleted", "ExecutionFailed"}
    BY <1>1, <1>2, <2>1, <2>3 DEF ExecutionShown, StatusAfter, LeftBy
  <2>4. CASE e.type = "ExecutionRolledBack"
    BY <1>1, <1>2, <2>1, <2>4 DEF ExecutionShown, StatusAfter, LeftBy
  <2> QED
    BY <2>2, <2>3, <2>4 DEF ExecutionMoves
<1> QED
  BY <1>2, <1>3, <1>4, <1>5, <1>6, <1>7 DEF WorkAgrees, StatusAgrees, ProgressAgrees

\* The validator's question, by the kind of event.
LEMMA AcceptedByKind ==
  ASSUME NEW e, Accepted(e)
  PROVE  /\ e \in GrantEvent => GrantAccepted(e)
         /\ e \in ControlEvent => ControlAccepted(e)
         /\ e \in ExpiryEvent => ExpiryAccepted(e)
         /\ e \in StartEvent => StartAccepted(e)
         /\ e \in MoveEvent => MoveAccepted(e)
         /\ e \in BreachEvent => BreachAccepted(e)
<1>1. e \in GrantEvent => GrantAccepted(e)
  BY DEF Accepted, GrantEvent
<1>2. e \in ControlEvent => ControlAccepted(e)
  BY DEF Accepted, ControlEvent
<1>3. e \in ExpiryEvent => ExpiryAccepted(e)
  BY DEF Accepted, ExpiryEvent
<1>4. e \in StartEvent => StartAccepted(e)
  BY DEF Accepted, StartEvent
<1>5. e \in MoveEvent => MoveAccepted(e)
  BY DEF Accepted, MoveEvent
<1>6. e \in BreachEvent => BreachAccepted(e)
  BY DEF Accepted, BreachEvent
<1> QED
  BY <1>1, <1>2, <1>3, <1>4, <1>5, <1>6

\* An event that is accepted and recorded, by a client or by a command.
LEMMA EventAgrees ==
  ASSUME TypeOK, TypeOK', WorkAgrees, PeopleStay, NEW e, Recorded(e), Accepted(e)
  PROVE  WorkAgrees'
<1>1. CASE e \in GrantEvent /\ Granted(e)
  <2>1. GrantAccepted(e)
    BY <1>1, AcceptedByKind
  <2>2. e.record.to \in Participant
    BY <1>1 DEF GrantEvent, GrantRecord
  <2>3. CanBe(e.record.to, e.record.as)'
    BY <2>1, <2>2 DEF GrantAccepted, MayDelegate, CanBe, Known, PeopleStay
  <2> QED
    BY <1>1, <2>1, <2>3, GrantAgrees DEF GrantAccepted
<1>2. CASE e \in StartEvent /\ Started(e)
  BY <1>2, AcceptedByKind, StartAgrees
<1>3. CASE e \in ActionEvent /\ Acted(e)
  BY <1>3, OthersAgree DEF Acted, Said
<1>4. CASE e \in ControlEvent \cup ExpiryEvent /\ Ended(e)
  <2>1. e.of \in Grant /\ e.type \in DelegationEnds
    BY <1>4 DEF ControlEvent, ExpiryEvent, DelegationEnds
  <2>2. ControlAccepted(e) \/ ExpiryAccepted(e)
    BY <1>4, AcceptedByKind
  <2>3. grants[e.of] # NoGrant
    BY <2>1, <2>2 DEF ControlAccepted, ExpiryAccepted, WorkAgrees, StatusAgrees, GrantShown
  <2> QED
    BY <1>4, <2>1, <2>3, EndAgrees
<1>5. CASE e \in MoveEvent \cup BreachEvent /\ Moved(e)
  <2>1. e.of \in Execution /\ e.type \in ExecutionMoves
    BY <1>5 DEF MoveEvent, BreachEvent, ExecutionMoves
  <2>2. CASE e \in MoveEvent
    <3>1. progress[e.of] \in LeftBy(e.type)
      BY <2>2, AcceptedByKind DEF MoveAccepted
    <3>2. executions[e.of] # NoExecution
      BY <2>1, <3>1 DEF LeftBy, WorkAgrees, ProgressAgrees, ExecutionShown
    <3> QED
      BY <1>5, <2>1, <3>1, <3>2, MoveAgrees
  <2>3. CASE e \in BreachEvent
    <3>1. executions[e.of] # NoExecution /\ e.type = "ExecutionViolationRecorded"
      BY <2>3, AcceptedByKind DEF BreachAccepted, BreachEvent
    <3> QED
      BY <1>5, <2>1, <3>1, MoveAgrees
  <2> QED
    BY <1>5, <2>2, <2>3
<1> QED
  BY <1>1, <1>2, <1>3, <1>4, <1>5 DEF Recorded

LEMMA IntroducedStay ==
  ASSUME NEW by, NEW to, NEW as, Introduced(by, to, as), decision' = decision
  PROVE  PeopleStay
  BY DEF Introduced, PeopleStay

\* A step of the delegations, commands included, that leaves the log valid.
LEMMA NextAgrees ==
  ASSUME TypeOK, TypeOK', Next, valid', valid => WorkAgrees
  PROVE  valid /\ WorkAgrees'
<1>1. ASSUME NEW e, Submit(e)
      PROVE  valid /\ WorkAgrees'
  <2>1. PeopleStay
    BY <1>1 DEF Submit, PeopleStay
  <2> QED
    BY <1>1, <2>1, EventAgrees DEF Submit
<1>2. ASSUME NEW e \in GrantEvent, GrantCommand(e)
      PROVE  valid /\ WorkAgrees'
  <2>1. PeopleStay
    BY <1>2, IntroducedStay DEF GrantCommand
  <2>2. /\ valid /\ WellFormedGrant(e.record) /\ grants[e.id] = NoGrant
        /\ CanBe(e.record.to, e.record.as)'
    BY <1>2 DEF GrantCommand, MayDelegate
  <2> QED
    BY <1>2, <2>1, <2>2, GrantAgrees DEF GrantCommand
<1>3. ASSUME Command
      PROVE  valid /\ WorkAgrees'
  <2>1. PICK e : Append(e)
    BY <1>3 DEF Command
  <2>2. PeopleStay
    BY <1>3 DEF Command, PeopleStay
  <2> QED
    BY <1>3, <2>1, <2>2, EventAgrees DEF Command, Append
<1>4. ASSUME NEW g \in Grant, NEW p \in Participant, NEW worded \in BOOLEAN,
             RevokeCommand(g, p, worded)
      PROVE  valid /\ WorkAgrees'
  <2>1. PeopleStay
    BY <1>4, IntroducedStay DEF RevokeCommand
  <2>2. WorkAgrees'
    BY <1>4, <2>1, EndAgrees DEF RevokeCommand, DelegationEnds
  <2> QED
    BY <1>4, <2>2 DEF RevokeCommand
<1>5. ASSUME Tick
      PROVE  valid /\ WorkAgrees'
  BY <1>5, OthersAgree DEF Tick, PeopleStay, Said
<1>6. ASSUME NEW p \in Participant, NEW kind \in Kinds, NEW owning \in BOOLEAN,
             Declare(p, kind, owning)
      PROVE  valid /\ WorkAgrees'
  <2>1. PeopleStay
    BY <1>6 DEF Declare, PeopleStay, TypeOK
  <2> QED
    BY <1>6, <2>1, OthersAgree DEF Declare, Said
<1>7. ASSUME NEW e \in AuthorityEvent, Authorize(e)
      PROVE  valid /\ WorkAgrees'
  BY <1>7, OthersAgree DEF Authorize, PeopleStay, Said
<1> QED
  BY <1>1, <1>2, <1>3, <1>4, <1>5, <1>6, <1>7 DEF Next

-----------------------------------------------------------------------------
(* Every step is typed *)

\* The events of commands are of the kinds the validator knows.
LEMMA CommandKinds ==
  ASSUME NEW e \in RecordCommands \cup StartCommands \cup DecisionCommands \cup MoveCommands
  PROVE  Accepted(e) \in BOOLEAN
<1>1. e.type \in {"DelegatedActionRecorded", "ExecutionStarted", "ExecutionCompleted",
                  "ExecutionFailed", "ExecutionRolledBack"}
  BY DEF RecordCommands, StartCommands, DecisionCommands, MoveCommands
<1> QED
  BY <1>1 DEF Accepted, ActionAccepted, StartAccepted, MoveAccepted

LEMMA NextTyped ==
  ASSUME TypeOK, Next
  PROVE  TypeOK'
<1>1. ASSUME NEW e, Submit(e)
      PROVE  TypeOK'
  BY <1>1, RecordedTyped DEF Submit, TypeOK
<1>2. ASSUME NEW e \in GrantEvent, GrantCommand(e)
      PROVE  TypeOK'
  <2>1. /\ e.record.by \in Participant /\ e.record.to \in Participant
        /\ e.record.as \in DelegateTypes
        /\ Recorded(e)
    BY <1>2 DEF GrantEvent, GrantRecord, GrantCommand, Recorded
  <2>2. /\ people' \in [Participant -> Kinds \cup {"stranger"}]
        /\ owners' \subseteq Participant \X Scope
    BY <1>2, <2>1, IntroducedTyped DEF GrantCommand
  <2> QED
    BY <1>2, <2>1, <2>2, RecordedTyped DEF GrantCommand, TypeOK
<1>3. ASSUME Command
      PROVE  TypeOK'
  <2>1. PICK e \in RecordCommands \cup StartCommands \cup DecisionCommands \cup MoveCommands :
               Append(e)
    BY <1>3 DEF Command
  <2>2. valid' \in BOOLEAN
    BY <2>1, CommandKinds DEF Append
  <2> QED
    BY <1>3, <2>1, <2>2, RecordedTyped DEF Command, Append, TypeOK
<1>4. ASSUME NEW g \in Grant, NEW p \in Participant, NEW worded \in BOOLEAN,
             RevokeCommand(g, p, worded)
      PROVE  TypeOK'
  <2>1. /\ people' \in [Participant -> Kinds \cup {"stranger"}]
        /\ owners' \subseteq Participant \X Scope
    BY <1>4, IntroducedTyped DEF RevokeCommand, DelegateTypes
  <2> QED
    BY <1>4, <2>1 DEF RevokeCommand, Ended, StatusAfter, TypeOK
<1>5. ASSUME Tick
      PROVE  TypeOK'
  BY <1>5 DEF Tick, TypeOK
<1>6. ASSUME NEW p \in Participant, NEW kind \in Kinds, NEW owning \in BOOLEAN,
             Declare(p, kind, owning)
      PROVE  TypeOK'
  <2>1. owners' \subseteq Participant \X Scope
    BY <1>6, DelegationAssumption DEF Declare, TypeOK
  <2> QED
    BY <1>6, <2>1 DEF Declare, TypeOK
<1>7. ASSUME NEW e \in AuthorityEvent, Authorize(e)
      PROVE  TypeOK'
  <2>1. owners' \subseteq Participant \X Scope
    BY <1>7 DEF Authorize, AuthorityEvent, TypeOK
  <2>2. valid' \in BOOLEAN
    BY <1>7 DEF Authorize
  <2> QED
    BY <1>7, <2>1, <2>2 DEF Authorize, TypeOK
<1> QED
  BY <1>1, <1>2, <1>3, <1>4, <1>5, <1>6, <1>7 DEF Next

LEMMA OutcomeRecordedTyped ==
  ASSUME TypeOK, OutcomeTypeOK, NEW e, OutcomeRecorded(e)
  PROVE  OutcomeTypeOK'
<1> USE DEF OutcomeTypeOK
<1>1. CASE e \in ExpectEvent /\ Expect(e)
  BY <1>1 DEF ExpectEvent, Expect, OutcomeRecord
<1>2. CASE e \in ResultEvent \cup ObjectEvent /\ (Result(e) \/ Object(e))
  <2>1. StandingAfter[e.type] \in {"observed", "evaluated", "disputed", "violated"}
    BY <1>2 DEF ResultEvent, ObjectEvent, StandingAfter
  <2>2. hashes' \in [Outcome -> Hash]
    BY <1>2 DEF Result, Object, ResultEvent, ObjectEvent, Hash
  <2> QED
    BY <1>2, <2>1, <2>2 DEF Stand, Result, Object
<1>3. CASE e \in SignalEvent /\ Signal(e)
  BY <1>3 DEF SignalEvent, Signal, SignalRecord
<1>4. CASE e \in LessonEvent /\ Lesson(e)
  BY <1>4 DEF LessonEvent, Lesson, LessonRecord
<1>5. CASE UNCHANGED outcomeVars
  BY <1>5 DEF outcomeVars
<1> QED
  BY <1>1, <1>2, <1>3, <1>4, <1>5 DEF OutcomeRecorded, Doubt

LEMMA OutcomeKinds ==
  ASSUME NEW e \in OutcomeEvents
  PROVE  /\ e.actor \in Participant
         /\ OutcomeFits(e) \in BOOLEAN
<1>1. /\ e.actor \in Participant
      /\ e.type \in {"OutcomeExpected", "OutcomeObserved", "OutcomeEvaluated",
                     "OutcomeDisputed", "OutcomeViolationRecorded", "LearningSignalDerived",
                     "LessonRecorded", "LearningDisputed", "LearningViolationRecorded"}
  BY DEF OutcomeEvents, ExpectEvent, ResultEvent, ObjectEvent, SignalEvent, LessonEvent,
         DoubtEvent
<1> QED
  BY <1>1 DEF OutcomeFits, ExpectAccepted, ObserveAccepted, EvaluateAccepted, ObjectAccepted,
              SignalAccepted, LessonAccepted, DoubtAccepted

LEMMA OutcomeCommandsAreEvents == OutcomeCommands \subseteq OutcomeEvents
  BY DEF OutcomeCommands, OutcomeEvents, ExpectCommands, ResultCommands, DisputeCommands,
         DeriveCommands, LessonCommands, DoubtCommands

LEMMA OutcomeNextTyped ==
  ASSUME TypeOK, OutcomeTypeOK, OutcomeNext
  PROVE  TypeOK' /\ OutcomeTypeOK'
<1>1. CASE Next /\ UNCHANGED outcomeVars
  BY <1>1, NextTyped DEF outcomeVars, OutcomeTypeOK
<1>2. ASSUME NEW e \in OutcomeEvents, OutcomeSubmit(e)
      PROVE  TypeOK' /\ OutcomeTypeOK'
  BY <1>2, OutcomeRecordedTyped DEF OutcomeSubmit, OutcomeRecorded, TypeOK
<1>3. ASSUME NEW e \in OutcomeCommands, OutcomeCommand(e)
      PROVE  TypeOK' /\ OutcomeTypeOK'
  <2>1. e.actor \in Participant /\ valid' \in BOOLEAN
    BY <1>3, OutcomeCommandsAreEvents, OutcomeKinds DEF OutcomeCommand
  <2> QED
    BY <1>3, <2>1, OutcomeRecordedTyped DEF OutcomeCommand, OutcomeRecorded, TypeOK, Kinds
<1> QED
  BY <1>1, <1>2, <1>3 DEF OutcomeNext

-----------------------------------------------------------------------------
(* The outcomes while the work goes on *)

LEMMA OutcomesStay ==
  ASSUME OutcomeTypeOK, OutcomesAgree, UNCHANGED outcomeVars,
         \A t \in OutcomeMoves : \A id : Said(t, id)' <=> Said(t, id),
         \A x \in Execution : WasCompleted(x) => WasCompleted(x)'
  PROVE  OutcomesAgree'
<1> USE DEF outcomeVars, OutcomeMoves
<1>1. OutcomeFounded'
  BY DEF OutcomesAgree, OutcomeFounded
<1>2. \A o \in Outcome : OutcomeShown(o)' = OutcomeShown(o)
  BY DEF OutcomeShown
<1>3. StandingAgrees'
  BY <1>2 DEF OutcomesAgree, StandingAgrees
<1>4. EvaluationRests'
  <2>1. ASSUME NEW o \in Outcome, Said("OutcomeEvaluated", o)
        PROVE  Said("OutcomeObserved", o)' /\ WasCompleted(expected[o].execution)'
    <3>1. expected[o] \in OutcomeRecord
      BY <2>1 DEF OutcomesAgree, OutcomeFounded, OutcomeTypeOK
    <3> QED
      BY <2>1, <3>1 DEF OutcomesAgree, EvaluationRests, OutcomeRecord, WasCompleted
  <2> QED
    BY <2>1 DEF EvaluationRests
<1>5. LearnedRests'
  BY DEF OutcomesAgree, LearnedRests, Rests, SameOutcome
<1> QED
  BY <1>1, <1>3, <1>4, <1>5 DEF OutcomesAgree

\* Records of delegations and executions are none of an outcome's, and what was
\* completed stays so.
LEMMA RecordedElsewhere ==
  ASSUME NEW e,
         \/ Ended(e) /\ e.type \in DelegationEnds
         \/ Moved(e) /\ e.type \in ExecutionMoves
  PROVE  /\ \A t \in OutcomeMoves : \A id : Said(t, id)' <=> Said(t, id)
         /\ \A x \in Execution : WasCompleted(x) => WasCompleted(x)'
<1>1. \A t, id : Said(t, id)' <=> Said(t, id) \/ (t = e.type /\ id = e.of)
  BY SaidCollected, SaidNoted DEF Ended, Moved
<1>2. executions' = executions
  BY DEF Ended, Moved
<1>3. e.type \notin OutcomeMoves
  BY DEF DelegationEnds, ExecutionMoves, OutcomeMoves
<1> QED
  BY <1>1, <1>2, <1>3 DEF WasCompleted

LEMMA RecordedApart ==
  ASSUME TypeOK, NEW e, Recorded(e)
  PROVE  /\ \A t \in OutcomeMoves : \A id : Said(t, id)' <=> Said(t, id)
         /\ \A x \in Execution : WasCompleted(x) => WasCompleted(x)'
<1>1. CASE e \in GrantEvent /\ Granted(e)
  BY <1>1 DEF Granted, Said, WasCompleted
<1>2. CASE e \in StartEvent /\ Started(e)
  <2>1. e.record # NoExecution
    BY <1>2, NothingIsThere DEF StartEvent
  <2>2. \A x \in Execution : executions[x] # NoExecution => executions'[x] # NoExecution
    BY <1>2, <2>1 DEF Started, TypeOK
  <2> QED
    BY <1>2, <2>2 DEF Started, Said, WasCompleted
<1>3. CASE e \in ActionEvent /\ Acted(e)
  BY <1>3 DEF Acted, Said, WasCompleted
<1>4. CASE e \in ControlEvent \cup ExpiryEvent /\ Ended(e)
  BY <1>4, RecordedElsewhere DEF ControlEvent, ExpiryEvent, DelegationEnds
<1>5. CASE e \in MoveEvent \cup BreachEvent /\ Moved(e)
  BY <1>5, RecordedElsewhere DEF MoveEvent, BreachEvent, ExecutionMoves
<1> QED
  BY <1>1, <1>2, <1>3, <1>4, <1>5 DEF Recorded

LEMMA NextKeepsOutcomes ==
  ASSUME TypeOK, OutcomeTypeOK, OutcomesAgree, Next, UNCHANGED outcomeVars
  PROVE  OutcomesAgree'
<1>1. ASSUME NEW e, Recorded(e)
      PROVE  OutcomesAgree'
  BY <1>1, RecordedApart, OutcomesStay
<1>2. ASSUME NEW g \in Grant, NEW p \in Participant, NEW worded \in BOOLEAN,
             RevokeCommand(g, p, worded)
      PROVE  OutcomesAgree'
  BY <1>2, RecordedElsewhere, OutcomesStay DEF RevokeCommand, DelegationEnds
<1>3. CASE Tick
  BY <1>3, OutcomesStay DEF Tick, Said, WasCompleted
<1>4. ASSUME \/ \E p, kind, owning : Declare(p, kind, owning)
             \/ \E e : Authorize(e)
      PROVE  OutcomesAgree'
  BY <1>4, OutcomesStay DEF Declare, Authorize, Said, WasCompleted
<1> QED
  BY <1>1, <1>2, <1>3, <1>4 DEF Next, Submit, GrantCommand, Command, Append, Recorded

-----------------------------------------------------------------------------
(* Outcome events *)

LEMMA FitsByKind ==
  ASSUME NEW e, OutcomeFits(e)
  PROVE  /\ e \in ExpectEvent => ExpectAccepted(e)
         /\ e \in ResultEvent => IF e.type = "OutcomeObserved" THEN ObserveAccepted(e)
                                 ELSE EvaluateAccepted(e)
         /\ e \in SignalEvent => SignalAccepted(e)
         /\ e \in LessonEvent => LessonAccepted(e)
         /\ e \in ObjectEvent => ObjectAccepted(e)
<1>1. e \in ExpectEvent => ExpectAccepted(e)
  BY DEF OutcomeFits, ExpectEvent
<1>2. e \in ResultEvent => IF e.type = "OutcomeObserved" THEN ObserveAccepted(e)
                           ELSE EvaluateAccepted(e)
  BY DEF OutcomeFits, ResultEvent
<1>3. e \in SignalEvent => SignalAccepted(e)
  BY DEF OutcomeFits, SignalEvent
<1>4. e \in LessonEvent => LessonAccepted(e)
  BY DEF OutcomeFits, LessonEvent
<1>5. e \in ObjectEvent => ObjectAccepted(e)
  BY DEF OutcomeFits, ObjectEvent
<1> QED
  BY <1>1, <1>2, <1>3, <1>4, <1>5

LEMMA LearnedTyped ==
  ASSUME OutcomeTypeOK
  PROVE  \A l \in Learning :
           /\ signals[l] # NoLearning => signals[l] \in SignalRecord
           /\ lessons[l] # NoLearning =>
                lessons[l] \in LessonRecord /\ lessons[l].signal \in Learning
  BY DEF OutcomeTypeOK, LessonRecord

\* An outcome under an id that was free.
LEMMA ExpectAgrees ==
  ASSUME OutcomeTypeOK, OutcomesAgree, UNCHANGED executions,
         NEW e \in ExpectEvent, Expect(e), ExpectAccepted(e)
  PROVE  OutcomesAgree'
<1> DEFINE o0 == e.id
<1>1. /\ o0 \in Outcome /\ expected[o0] = NoOutcome
      /\ \A o \in Outcome \ {o0} : expected'[o] = expected[o] /\ standing'[o] = standing[o]
      /\ expected'[o0] = [execution |-> e.execution, effect |-> e.effect]
      /\ standing'[o0] = "pending"
      /\ signals' = signals /\ lessons' = lessons
  BY DEF Expect, ExpectAccepted, ExpectEvent, OutcomeTypeOK
<1>2. expected'[o0] # NoOutcome
  <2>1. expected'[o0] \in OutcomeRecord
    BY <1>1 DEF ExpectEvent, OutcomeRecord
  <2> QED
    BY <2>1, NothingIsThere
<1>3. \A t, id : Said(t, id)' <=> Said(t, id)
  BY DEF Expect, Said
<1>4. \A t \in OutcomeMoves : ~ Said(t, o0)
  BY <1>1 DEF OutcomesAgree, OutcomeFounded
<1>5. OutcomeFounded'
  BY <1>1, <1>2, <1>3 DEF OutcomesAgree, OutcomeFounded
<1>6. OutcomeShown(o0)' = "pending"
  BY <1>2, <1>3, <1>4 DEF OutcomeShown, OutcomeMoves
<1>7. \A o \in Outcome \ {o0} : OutcomeShown(o)' = OutcomeShown(o)
  BY <1>1, <1>3 DEF OutcomeShown
<1>8. StandingAgrees'
  BY <1>1, <1>6, <1>7 DEF OutcomesAgree, StandingAgrees
<1>9. EvaluationRests'
  BY <1>1, <1>3, <1>4 DEF OutcomesAgree, EvaluationRests, OutcomeMoves, WasCompleted
<1>10. LearnedRests'
  <2>1. ASSUME NEW r \in SignalRecord \cup LessonRecord, Rests(r)
        PROVE  Rests(r)'
    <3>1. r.outcome \in Outcome \ {o0}
      BY <1>1, <2>1 DEF Rests, SignalRecord, LessonRecord
    <3> QED
      BY <1>1, <1>3, <2>1, <3>1 DEF Rests
  <2> QED
    BY <1>1, <2>1, LearnedTyped DEF OutcomesAgree, LearnedRests, SameOutcome
<1> QED
  BY <1>5, <1>8, <1>9, <1>10 DEF OutcomesAgree

\* What is said more of an outcome, and the standing it gets.
LEMMA StandSaid ==
  ASSUME OutcomeTypeOK, NEW e \in ResultEvent \cup ObjectEvent, Result(e) \/ Object(e)
  PROVE  /\ \A t, id : Said(t, id)' <=> Said(t, id) \/ (t = e.type /\ id = e.of)
         /\ e.of \in Outcome
         /\ \A o \in Outcome \ {e.of} : standing'[o] = standing[o]
         /\ standing'[e.of] = StandingAfter[e.type]
         /\ UNCHANGED <<expected, signals, lessons>>
<1>1. \A t, id : Said(t, id)' <=> Said(t, id) \/ (t = e.type /\ id = e.of)
  BY SaidCollected, SaidNoted DEF Result, Object
<1>2. e.of \in Outcome
  BY DEF ResultEvent, ObjectEvent
<1> QED
  BY <1>1, <1>2 DEF Result, Object, Stand, OutcomeTypeOK

LEMMA ResultAgrees ==
  ASSUME OutcomeTypeOK, OutcomesAgree, ProgressAgrees, UNCHANGED executions,
         NEW e \in ResultEvent, Result(e),
         IF e.type = "OutcomeObserved" THEN ObserveAccepted(e) ELSE EvaluateAccepted(e)
  PROVE  OutcomesAgree'
<1> DEFINE o0 == e.of
<1>1. /\ \A t, id : Said(t, id)' <=> Said(t, id) \/ (t = e.type /\ id = o0)
      /\ o0 \in Outcome
      /\ \A o \in Outcome \ {o0} : standing'[o] = standing[o]
      /\ standing'[o0] = StandingAfter[e.type]
      /\ UNCHANGED <<expected, signals, lessons>>
  BY StandSaid
<1>2. /\ expected[o0] # NoOutcome
      /\ e.type \in {"OutcomeObserved", "OutcomeEvaluated"}
      /\ e.execution \in Execution /\ e.execution = expected[o0].execution
  BY DEF ResultEvent, ObserveAccepted, EvaluateAccepted, MatchesExpected
<1>3. OutcomeFounded'
  BY <1>1, <1>2 DEF OutcomesAgree, OutcomeFounded
<1>4. OutcomeShown(o0)' = StandingAfter[e.type]
  <2>1. CASE e.type = "OutcomeObserved"
    <3>1. OutcomeShown(o0) = "pending"
      BY <1>1, <2>1 DEF ObserveAccepted, OutcomesAgree, StandingAgrees
    <3> QED
      BY <1>1, <1>2, <2>1, <3>1 DEF OutcomeShown, StandingAfter
  <2>2. CASE e.type = "OutcomeEvaluated"
    <3>1. OutcomeShown(o0) = "observed"
      BY <1>1, <2>2 DEF EvaluateAccepted, OutcomesAgree, StandingAgrees
    <3> QED
      BY <1>1, <1>2, <2>2, <3>1 DEF OutcomeShown, StandingAfter
  <2> QED
    BY <1>2, <2>1, <2>2
<1>5. \A o \in Outcome \ {o0} : OutcomeShown(o)' = OutcomeShown(o)
  BY <1>1 DEF OutcomeShown
<1>6. StandingAgrees'
  BY <1>1, <1>4, <1>5 DEF OutcomesAgree, StandingAgrees
<1>7. EvaluationRests'
  <2>1. CASE e.type = "OutcomeObserved"
    BY <1>1, <2>1 DEF OutcomesAgree, EvaluationRests, WasCompleted
  <2>2. CASE e.type = "OutcomeEvaluated"
    <3>1. ExecutionShown(e.execution) = "completed"
      BY <1>2, <2>2 DEF EvaluateAccepted, ProgressAgrees
    <3>2. WasCompleted(e.execution)
      BY <3>1 DEF ExecutionShown, WasCompleted
    <3>3. Said("OutcomeObserved", o0)
      BY <2>2 DEF EvaluateAccepted
    <3> QED
      BY <1>1, <1>2, <2>2, <3>2, <3>3 DEF OutcomesAgree, EvaluationRests, WasCompleted
  <2> QED
    BY <1>2, <2>1, <2>2
<1>8. LearnedRests'
  BY <1>1 DEF OutcomesAgree, LearnedRests, Rests, SameOutcome
<1> QED
  BY <1>3, <1>6, <1>7, <1>8 DEF OutcomesAgree

LEMMA ObjectAgrees ==
  ASSUME OutcomeTypeOK, OutcomesAgree, UNCHANGED executions,
         NEW e \in ObjectEvent, Object(e), ObjectAccepted(e)
  PROVE  OutcomesAgree'
<1> DEFINE o0 == e.of
<1>1. /\ \A t, id : Said(t, id)' <=> Said(t, id) \/ (t = e.type /\ id = o0)
      /\ o0 \in Outcome
      /\ \A o \in Outcome \ {o0} : standing'[o] = standing[o]
      /\ standing'[o0] = StandingAfter[e.type]
      /\ UNCHANGED <<expected, signals, lessons>>
  BY StandSaid
<1>2. expected[o0] # NoOutcome /\ e.type \in {"OutcomeDisputed", "OutcomeViolationRecorded"}
  BY DEF ObjectEvent, ObjectAccepted
<1>3. OutcomeFounded'
  BY <1>1, <1>2 DEF OutcomesAgree, OutcomeFounded
<1>4. OutcomeShown(o0)' \in {"disputed", "violated"}
  BY <1>1, <1>2 DEF OutcomeShown
<1>5. standing'[o0] \in {"disputed", "violated"}
  BY <1>1, <1>2 DEF StandingAfter
<1>6. \A o \in Outcome \ {o0} : OutcomeShown(o)' = OutcomeShown(o)
  BY <1>1 DEF OutcomeShown
<1>7. StandingAgrees'
  BY <1>1, <1>4, <1>5, <1>6 DEF OutcomesAgree, StandingAgrees
<1>8. EvaluationRests'
  BY <1>1, <1>2 DEF OutcomesAgree, EvaluationRests, WasCompleted
<1>9. LearnedRests'
  BY <1>1 DEF OutcomesAgree, LearnedRests, Rests, SameOutcome
<1> QED
  BY <1>3, <1>7, <1>8, <1>9 DEF OutcomesAgree

\* A signal under an id that no signal has.
LEMMA SignalAgrees ==
  ASSUME OutcomeTypeOK, OutcomesAgree, UNCHANGED executions,
         NEW e \in SignalEvent, Signal(e), SignalAccepted(e)
  PROVE  OutcomesAgree'
<1> DEFINE r0 == [kind |-> "signal", outcome |-> e.outcome, execution |-> e.execution]
<1>1. r0 \in SignalRecord /\ e.id \in Learning /\ signals[e.id] = NoLearning
  BY DEF SignalEvent, SignalRecord, SignalAccepted
<1>2. Rests(r0)
  BY DEF SignalAccepted, Learnable, Rests
<1> HIDE DEF r0
<1>3. /\ \A l \in Learning \ {e.id} : signals'[l] = signals[l]
      /\ signals'[e.id] = r0
      /\ UNCHANGED <<expected, standing, lessons>>
  BY <1>1 DEF r0, Signal, OutcomeTypeOK
<1>4. \A t, id : Said(t, id)' <=> Said(t, id)
  BY DEF Signal, Said
<1>5. \A r : Rests(r)' <=> Rests(r)
  BY <1>3, <1>4 DEF Rests
<1>6. ASSUME NEW l \in Learning, lessons[l] # NoLearning
      PROVE  SameOutcome(lessons[l], signals[lessons[l].signal])'
  <2>1. lessons[l].signal \in Learning \ {e.id}
    BY <1>1, <1>6, LearnedTyped DEF OutcomesAgree, LearnedRests, SameOutcome
  <2> QED
    BY <1>3, <1>6, <2>1 DEF OutcomesAgree, LearnedRests, SameOutcome
<1>7. LearnedRests'
  BY <1>2, <1>3, <1>5, <1>6 DEF OutcomesAgree, LearnedRests
<1> QED
  BY <1>3, <1>4, <1>7
  DEF OutcomesAgree, OutcomeFounded, StandingAgrees, OutcomeShown, EvaluationRests, WasCompleted

\* A lesson under an id that no lesson has.
LEMMA LessonAgrees ==
  ASSUME OutcomeTypeOK, OutcomesAgree, UNCHANGED executions,
         NEW e \in LessonEvent, Lesson(e), LessonAccepted(e)
  PROVE  OutcomesAgree'
<1> DEFINE r0 == [kind |-> "lesson", signal |-> e.signal, outcome |-> e.outcome,
                  execution |-> e.execution]
<1>1. r0 \in LessonRecord /\ e.id \in Learning
  BY DEF LessonEvent, LessonRecord
<1>2. Rests(r0) /\ SameOutcome(r0, signals[r0.signal])
  BY DEF LessonAccepted, Learnable, Rests, SameOutcome
<1> HIDE DEF r0
<1>3. /\ \A l \in Learning \ {e.id} : lessons'[l] = lessons[l]
      /\ lessons'[e.id] = r0
      /\ UNCHANGED <<expected, standing, signals>>
  BY <1>1 DEF r0, Lesson, OutcomeTypeOK
<1>4. \A t, id : Said(t, id)' <=> Said(t, id)
  BY DEF Lesson, Said
<1>5. \A r : Rests(r)' <=> Rests(r)
  BY <1>3, <1>4 DEF Rests
<1>6. LearnedRests'
  BY <1>2, <1>3, <1>5 DEF OutcomesAgree, LearnedRests, SameOutcome
<1> QED
  BY <1>3, <1>4, <1>6
  DEF OutcomesAgree, OutcomeFounded, StandingAgrees, OutcomeShown, EvaluationRests, WasCompleted

LEMMA OutcomeEventAgrees ==
  ASSUME TypeOK, TypeOK', OutcomeTypeOK, WorkAgrees, OutcomesAgree, PeopleStay,
         NEW e, OutcomeRecorded(e), OutcomeFits(e)
  PROVE  WorkAgrees' /\ OutcomesAgree'
<1>0. UNCHANGED <<grants, status, executions, progress>>
  BY DEF OutcomeRecorded
<1>1. CASE e \in ExpectEvent /\ Expect(e)
  <2>1. WorkAgrees'
    BY <1>0, <1>1, OthersAgree DEF Expect, Said
  <2> QED
    BY <1>0, <1>1, <2>1, FitsByKind, ExpectAgrees
<1>2. ASSUME e \in ResultEvent \cup ObjectEvent, Result(e) \/ Object(e)
      PROVE  WorkAgrees'
  <2>1. e.type \notin DelegationEnds \cup ExecutionMoves
    BY <1>2 DEF ResultEvent, ObjectEvent, DelegationEnds, ExecutionMoves
  <2>2. \A t \in DelegationEnds \cup ExecutionMoves : \A id : Said(t, id)' <=> Said(t, id)
    BY <1>2, <2>1, StandSaid
  <2> QED
    BY <1>0, <2>2, OthersAgree
<1>3. CASE e \in ResultEvent /\ Result(e)
  BY <1>0, <1>2, <1>3, FitsByKind, ResultAgrees DEF WorkAgrees
<1>4. CASE e \in ObjectEvent /\ Object(e)
  BY <1>0, <1>2, <1>4, FitsByKind, ObjectAgrees
<1>5. CASE e \in SignalEvent /\ Signal(e)
  <2>1. WorkAgrees'
    BY <1>0, <1>5, OthersAgree DEF Signal, Said
  <2>2. SignalAccepted(e)
    BY <1>5, FitsByKind
  <2> QED
    BY <1>0, <1>5, <2>1, <2>2, SignalAgrees
<1>6. CASE e \in LessonEvent /\ Lesson(e)
  <2>1. WorkAgrees'
    BY <1>0, <1>6, OthersAgree DEF Lesson, Said
  <2>2. LessonAccepted(e)
    BY <1>6, FitsByKind
  <2> QED
    BY <1>0, <1>6, <2>1, <2>2, LessonAgrees
<1>7. CASE e \in DoubtEvent /\ Doubt(e)
  <2>1. e.type \notin DelegationEnds \cup ExecutionMoves \cup OutcomeMoves
          /\ e.type # "ExecutionCompleted"
    BY <1>7 DEF DoubtEvent, DelegationEnds, ExecutionMoves, OutcomeMoves
  <2>2. \A t, id : Said(t, id)' <=> Said(t, id) \/ (t = e.type /\ id = e.of)
    BY <1>7, SaidNoted DEF Doubt
  <2>3. WorkAgrees'
    BY <1>0, <2>1, <2>2, OthersAgree
  <2>4. OutcomesAgree'
    BY <1>0, <1>7, <2>1, <2>2, OutcomesStay DEF Doubt, WasCompleted
  <2> QED
    BY <2>3, <2>4
<1> QED
  BY <1>1, <1>3, <1>4, <1>5, <1>6, <1>7 DEF OutcomeRecorded

-----------------------------------------------------------------------------

LEMMA WorkInvInit == OutcomeInit => WorkInv
<1> SUFFICES ASSUME OutcomeInit PROVE WorkInv
  OBVIOUS
<1>1. \A t, id : ~ Said(t, id)
  BY DEF OutcomeInit, Init, Said
<1>2. WorkAgrees
  BY <1>1 DEF OutcomeInit, Init, WorkAgrees, Founded, StatusAgrees, ProgressAgrees, GrantsHold,
              DecisionHolds, ExecutionsHold, GrantShown, ExecutionShown
<1>3. OutcomesAgree
  BY <1>1 DEF OutcomeInit, OutcomesAgree, OutcomeFounded, StandingAgrees, EvaluationRests,
              LearnedRests, OutcomeShown
<1> QED
  BY <1>2, <1>3, InitTyped DEF WorkInv

LEMMA WorkInvNext == WorkInv /\ [OutcomeNext]_allVars => WorkInv'
<1> SUFFICES ASSUME WorkInv, [OutcomeNext]_allVars PROVE WorkInv'
  OBVIOUS
<1> USE DEF WorkInv
<1>1. CASE UNCHANGED allVars
  <2>1. UNCHANGED <<people, owners, decision, grants, status, executions, progress, facts, now,
                    valid, expected, standing, hashes, signals, lessons>>
    BY <1>1 DEF allVars, vars, outcomeVars
  <2>2. TypeOK' /\ OutcomeTypeOK'
    BY <2>1 DEF TypeOK, OutcomeTypeOK
  <2>3. WorkAgrees => WorkAgrees'
    BY <2>1, <2>2, OthersAgree DEF PeopleStay, Said
  <2>4. OutcomesAgree => OutcomesAgree'
    BY <2>1, OutcomesStay DEF outcomeVars, Said, WasCompleted
  <2> QED
    BY <2>1, <2>2, <2>3, <2>4
<1>2. CASE Next /\ UNCHANGED outcomeVars
  <2>1. TypeOK' /\ OutcomeTypeOK'
    BY <1>2, OutcomeNextTyped DEF OutcomeNext
  <2>2. ASSUME valid' PROVE WorkAgrees' /\ OutcomesAgree'
    <3>1. valid /\ WorkAgrees'
      BY <1>2, <2>1, <2>2, NextAgrees
    <3> QED
      BY <1>2, <3>1, NextKeepsOutcomes
  <2> QED
    BY <2>1, <2>2
<1>3. ASSUME NEW e \in OutcomeEvents, OutcomeSubmit(e)
      PROVE  WorkInv'
  <2>1. TypeOK' /\ OutcomeTypeOK'
    BY <1>3, OutcomeNextTyped DEF OutcomeNext
  <2>2. PeopleStay
    BY <1>3 DEF OutcomeSubmit, OutcomeRecorded, PeopleStay
  <2> QED
    BY <1>3, <2>1, <2>2, OutcomeEventAgrees DEF OutcomeSubmit
<1>4. ASSUME NEW e \in OutcomeCommands, OutcomeCommand(e)
      PROVE  WorkInv'
  <2>1. TypeOK' /\ OutcomeTypeOK'
    BY <1>4, OutcomeNextTyped DEF OutcomeNext
  <2>2. PeopleStay
    BY <1>4 DEF OutcomeCommand, OutcomeRecorded, PeopleStay, TypeOK, Known
  <2> QED
    BY <1>4, <2>1, <2>2, OutcomeEventAgrees DEF OutcomeCommand
<1> QED
  BY <1>1, <1>2, <1>3, <1>4 DEF OutcomeNext

\* The invariant that all that follows is drawn from: in a valid log the two
\* readings agree, grants and executions keep to what authorized them, outcomes
\* and lessons to what was done.
THEOREM WorkIsSound == OutcomeSpec => []WorkInv
  BY WorkInvInit, WorkInvNext, PTL DEF OutcomeSpec

-----------------------------------------------------------------------------
(* What is shown is enough to know what a command may do *)

LEMMA RecordsUsable ==
  ASSUME TypeOK, WorkAgrees, NEW e \in RecordCommands
  PROVE  Accepted(e) <=> e.worded /\ ShownActive(e.of)
<1>1. PICK g \in Grant, w \in BOOLEAN :
        /\ grants[g] # NoGrant
        /\ e = [type |-> "DelegatedActionRecorded", of |-> g, actor |-> grants[g].to,
                as |-> grants[g].as, work |-> grants[g].work, worded |-> w, at |-> now]
  BY DEF RecordCommands
<1>2. /\ e.type = "DelegatedActionRecorded" /\ e.of = g /\ e.actor = grants[g].to
      /\ e.as = grants[g].as /\ e.work = grants[g].work /\ e.at = now
  BY <1>1
<1>3. Accepted(e) <=> ActionAccepted(e)
  BY <1>2 DEF Accepted
<1>4. CanBe(grants[g].to, grants[g].as)
  BY <1>1 DEF WorkAgrees, GrantsHold
<1>5. status[g] = "active" <=> g \in GrantsShown("active")
  BY DEF WorkAgrees, StatusAgrees, GrantsShown
<1> QED
  BY <1>2, <1>3, <1>4, <1>5 DEF ActionAccepted, DelegationSays, ShownActive

LEMMA StartsUsable ==
  ASSUME TypeOK, WorkAgrees, NEW e \in StartCommands
  PROVE  Accepted(e) <=> e.id \in ExecutionsShown("none") /\ AuthShown(e.record)
<1>1. PICK x \in Execution, g \in Grant :
        /\ grants[g] # NoGrant
        /\ e = [type |-> "ExecutionStarted", id |-> x, at |-> now,
                record |-> [actor |-> grants[g].to, auth |-> g, work |-> grants[g].work,
                            constraints |-> grants[g].limits]]
  BY DEF StartCommands
<1>2. /\ e.type = "ExecutionStarted" /\ e.id = x /\ e.at = now
      /\ e.record.actor = grants[g].to /\ e.record.auth = g
      /\ e.record.work = grants[g].work /\ e.record.constraints = grants[g].limits
  BY <1>1
<1>3. Accepted(e) <=> StartAccepted(e)
  BY <1>2 DEF Accepted
<1>4. CanBe(grants[g].to, grants[g].as) /\ WellFormedGrant(grants[g])
  BY <1>1 DEF WorkAgrees, GrantsHold
<1>5. status[g] = "active" <=> g \in GrantsShown("active")
  BY DEF WorkAgrees, StatusAgrees, GrantsShown
<1>6. executions[x] = NoExecution <=> x \in ExecutionsShown("none")
  BY DEF ExecutionsShown, ExecutionShown
<1>7. Authorized(e.record, e.at) <=> status[g] = "active" /\ InTime(g, now)
  BY <1>2, <1>4, DelegationAssumption DEF Authorized
<1>8. WellFormedExecution(e.record) /\ Known(e.record.actor)
  BY <1>2, <1>4 DEF WellFormedExecution, WellFormedGrant, CanBe
<1> QED
  BY <1>2, <1>3, <1>5, <1>6, <1>7, <1>8, DelegationAssumption
  DEF StartAccepted, AuthShown, ShownActive

\* A start under a decision.
LEMMA DecisionsUsable ==
  ASSUME TypeOK, WorkAgrees, NEW e \in DecisionCommands
  PROVE  Accepted(e) <=> e.id \in ExecutionsShown("none") /\ AuthShown(e.record)
<1>1. PICK x \in Execution, w \in decision.scope, l \in Limit :
        e = [type |-> "ExecutionStarted", id |-> x, at |-> now,
             record |-> [actor |-> decision.by, auth |-> ByDecision, work |-> w,
                         constraints |-> IF decision.conditions = {} THEN {l}
                                         ELSE decision.conditions]]
  BY DEF DecisionCommands
<1>2. /\ e.type = "ExecutionStarted" /\ e.id = x /\ e.at = now
      /\ e.record.actor = decision.by /\ e.record.auth = ByDecision
      /\ e.record.work \in decision.scope
      /\ decision.conditions \subseteq e.record.constraints /\ e.record.constraints # {}
  BY <1>1
<1>3. Accepted(e) <=> StartAccepted(e)
  BY <1>2 DEF Accepted
<1>4. Known(e.record.actor)
  BY <1>2 DEF WorkAgrees, DecisionHolds
<1>5. executions[x] = NoExecution <=> x \in ExecutionsShown("none")
  BY DEF ExecutionsShown, ExecutionShown
<1>6. /\ Authorized(e.record, e.at) <=> decision.approved
      /\ AuthShown(e.record) <=> decision.approved
  BY <1>2 DEF Authorized, AuthShown, MayCarryOut
<1> QED
  BY <1>2, <1>3, <1>4, <1>5, <1>6 DEF StartAccepted, WellFormedExecution

LEMMA MovesUsable ==
  ASSUME TypeOK, WorkAgrees, NEW e \in MoveCommands
  PROVE  Accepted(e) <=> /\ e.worded
                         /\ ExecutionShown(e.of) \in LeftBy(e.type)
                         /\ AuthShown(executions[e.of])
<1>1. PICK t \in {"ExecutionCompleted", "ExecutionFailed", "ExecutionRolledBack"},
           x \in Execution, w \in BOOLEAN :
        /\ executions[x] # NoExecution
        /\ e = [type |-> t, of |-> x, record |-> executions[x], worded |-> w, at |-> now]
  BY DEF MoveCommands
<1> DEFINE r == executions[x]
<1>2. e.type = t /\ e.of = x /\ e.record = r /\ e.at = now
  BY <1>1
<1>3. Accepted(e) <=> MoveAccepted(e)
  BY <1>2 DEF Accepted
<1>4. /\ WellFormedExecution(r) /\ Known(r.actor) /\ KeepsTo(r) /\ MatchesStart(r, x)
      /\ r.auth \in Grant \cup {ByDecision}
  <2>1. r \in ExecutionRecord
    BY <1>1 DEF TypeOK
  <2> QED
    BY <1>1, <2>1 DEF WorkAgrees, ExecutionsHold, MatchesStart, ExecutionRecord
<1>5. progress[x] = ExecutionShown(x)
  BY DEF WorkAgrees, ProgressAgrees
<1>6. Authorized(r, now) <=> AuthShown(r)
  <2>1. CASE r.auth = ByDecision
    BY <1>4, <2>1 DEF Authorized, AuthShown, KeepsTo, MayCarryOut
  <2>2. CASE r.auth # ByDecision
    <3>1. status[r.auth] = "active" <=> r.auth \in GrantsShown("active")
      BY <1>4, <2>2 DEF WorkAgrees, StatusAgrees, GrantsShown
    <3>2. grants[r.auth] # NoGrant => CanBe(grants[r.auth].to, grants[r.auth].as)
      BY <1>4, <2>2 DEF WorkAgrees, GrantsHold
    <3> QED
      BY <1>4, <2>2, <3>1, <3>2 DEF Authorized, AuthShown, KeepsTo, ShownActive
  <2> QED
    BY <2>1, <2>2
<1> QED
  BY <1>2, <1>3, <1>4, <1>5, <1>6 DEF MoveAccepted, ExecutionSays

\* A command keeps a log valid if and only if what it names is shown in a state
\* that allows it and its actor, under another's decision, as an owner still; for any
\* participants, grants, executions, authorities and clock.
THEOREM CommandsGoByWhatIsShown == OutcomeSpec => []ShownIsUsable
<1>1. WorkInv => ShownIsUsable
  BY RecordsUsable, StartsUsable, DecisionsUsable, MovesUsable DEF WorkInv, ShownIsUsable
<1> QED
  BY <1>1, WorkIsSound, PTL

LEMMA OutcomeCommandsUsable ==
  ASSUME TypeOK, OutcomeTypeOK, WorkAgrees, OutcomesAgree
  PROVE  /\ \A e \in ExpectCommands :
              OutcomeFits(e) <=> /\ e.worded
                                 /\ ExecutionShown(e.execution) = "active"
                                 /\ e.id \in OutcomesShown("none")
         /\ \A e \in ResultCommands :
              OutcomeFits(e) <=>
                /\ e.worded
                /\ IF e.type = "OutcomeObserved" THEN OutcomeShown(e.of) = "pending"
                   ELSE /\ OutcomeShown(e.of) = "observed"
                        /\ ExecutionShown(e.execution) = "completed"
         /\ \A e \in DeriveCommands :
              OutcomeFits(e) <=>
                e.worded /\ signals[e.id] = NoLearning /\ hashes[e.outcome] # "other"
         /\ \A e \in LessonCommands :
              OutcomeFits(e) <=> e.worded /\ lessons[e.id] = NoLearning
         /\ \A e \in DoubtCommands :
              OutcomeFits(e) <=> e.worded /\ ~ Numbered(e.type, e.id)
<1>1. ASSUME NEW e \in ExpectCommands
      PROVE  OutcomeFits(e) <=> /\ e.worded
                                /\ ExecutionShown(e.execution) = "active"
                                /\ e.id \in OutcomesShown("none")
  <2>1. e \in ExpectEvent /\ e.execution \in Execution /\ e.id \in Outcome
    BY DEF ExpectCommands, ExpectEvent
  <2>2. OutcomeFits(e) <=> ExpectAccepted(e)
    BY <2>1 DEF OutcomeFits, ExpectEvent
  <2>3. expected[e.id] = NoOutcome <=> e.id \in OutcomesShown("none")
    BY <2>1 DEF OutcomesShown, OutcomeShown
  <2> QED
    BY <2>1, <2>2, <2>3 DEF ExpectAccepted, OutcomeSays, WorkAgrees, ProgressAgrees
<1>2. ASSUME NEW e \in ResultCommands
      PROVE  OutcomeFits(e) <=>
               /\ e.worded
               /\ IF e.type = "OutcomeObserved" THEN OutcomeShown(e.of) = "pending"
                  ELSE /\ OutcomeShown(e.of) = "observed"
                       /\ ExecutionShown(e.execution) = "completed"
  <2>1. e \in ResultEvent /\ e.execution \in Execution /\ e.of \in Outcome /\ MatchesExpected(e)
    BY DEF ResultCommands, ResultEvent, Named, MatchesExpected
  <2>2. CASE e.type = "OutcomeObserved"
    <3>1. OutcomeFits(e) <=> ObserveAccepted(e)
      BY <2>2 DEF OutcomeFits
    <3> QED
      BY <2>1, <2>2, <3>1 DEF ObserveAccepted, OutcomeSays, OutcomesAgree, StandingAgrees
  <2>3. CASE e.type = "OutcomeEvaluated"
    <3>1. OutcomeFits(e) <=> EvaluateAccepted(e)
      BY <2>3 DEF OutcomeFits
    <3>2. Said("OutcomeObserved", e.of)
      BY <2>3 DEF ResultCommands
    <3> QED
      BY <2>1, <2>3, <3>1, <3>2
      DEF EvaluateAccepted, OutcomeSays, OutcomesAgree, StandingAgrees, WorkAgrees, ProgressAgrees
  <2> QED
    BY <2>1, <2>2, <2>3 DEF ResultEvent
<1>3. ASSUME NEW e \in DeriveCommands
      PROVE  OutcomeFits(e) <=>
               e.worded /\ signals[e.id] = NoLearning /\ hashes[e.outcome] # "other"
  <2>1. OutcomeFits(e) <=> SignalAccepted(e)
    BY DEF OutcomeFits, DeriveCommands, SignalEvent
  <2>2. e.outcome \in Outcome /\ e.quotes = "sound"
    BY DEF DeriveCommands, SignalEvent
  <2>3. HashFits(e) <=> hashes[e.outcome] # "other"
    BY <2>2 DEF HashFits, OutcomeTypeOK, Hash
  <2> QED
    BY <2>1, <2>3 DEF SignalAccepted, LearningSays, Learnable, DeriveCommands
<1>4. ASSUME NEW e \in LessonCommands
      PROVE  OutcomeFits(e) <=> e.worded /\ lessons[e.id] = NoLearning
  <2>1. OutcomeFits(e) <=> LessonAccepted(e)
    BY DEF OutcomeFits, LessonCommands, LessonEvent
  <2>2. signals[e.signal] # NoLearning /\ e.signal \in Learning
    BY DEF LessonCommands, LessonEvent, SameOutcome
  <2>3. Learnable(e)
    BY <2>2 DEF OutcomesAgree, LearnedRests, Rests, LessonCommands, SameOutcome, Learnable
  <2> QED
    BY <2>1, <2>3 DEF LessonAccepted, LearningSays, LessonCommands
<1>5. ASSUME NEW e \in DoubtCommands
      PROVE  OutcomeFits(e) <=> e.worded /\ ~ Numbered(e.type, e.id)
  <2>1. OutcomeFits(e) <=> DoubtAccepted(e)
    BY DEF OutcomeFits, DoubtCommands, DoubtEvent
  <2>2. SameOutcome(e, Target(e.of)) /\ e.of \in Learning
    BY DEF DoubtCommands, DoubtEvent
  <2>3. Rests(Target(e.of))
    BY <2>2 DEF OutcomesAgree, LearnedRests, Target, SameOutcome
  <2>4. Learnable(e)
    BY <2>2, <2>3 DEF Rests, SameOutcome, Learnable
  <2> QED
    BY <2>1, <2>2, <2>4 DEF DoubtAccepted, LearningSays
<1> QED
  BY <1>1, <1>2, <1>3, <1>4, <1>5

\* The same for the commands of outcomes and of learning, but for the hash that an
\* evaluation came with, which does not show.
THEOREM OutcomeCommandsGoByWhatIsShown == OutcomeSpec => []OutcomeShownIsUsable
<1>1. WorkInv => OutcomeShownIsUsable
  BY OutcomeCommandsUsable DEF WorkInv, OutcomeShownIsUsable
<1> QED
  BY <1>1, WorkIsSound, PTL

\* In a valid log a lesson rests on a signal, the signal on an evaluation, that
\* on an observation and on an execution that was completed.
THEOREM LearningRestsOnWork == OutcomeSpec => []LearningRests
<1>1. WorkInv => LearningRests
  BY DEF WorkInv, LearningRests, OutcomesAgree, LearnedRests, Rests, EvaluationRests
<1> QED
  BY <1>1, WorkIsSound, PTL

-----------------------------------------------------------------------------
(* What a step may never do *)

\* An accepted event of an execution that lost what it rests on is a violation.
LEMMA EventFreezes ==
  ASSUME TypeOK, WorkAgrees, NEW e, Recorded(e), Accepted(e), NEW x \in Execution, Orphaned(x)
  PROVE  progress'[x] \in {progress[x], "violated"}
<1>1. executions[x].auth \in Grant \cup {ByDecision} /\ executions[x] # NoExecution
  BY DEF TypeOK, ExecutionRecord, Orphaned
<1>2. CASE e \in GrantEvent \cup ActionEvent \cup ControlEvent \cup ExpiryEvent
               /\ (Granted(e) \/ Acted(e) \/ Ended(e))
  BY <1>2 DEF Granted, Acted, Ended
<1>3. CASE e \in StartEvent /\ Started(e)
  <2>1. e.id # x
    BY <1>1, <1>3, AcceptedByKind DEF StartAccepted
  <2> QED
    BY <1>3, <2>1 DEF Started, TypeOK
<1>4. CASE e \in BreachEvent /\ Moved(e)
  BY <1>4 DEF BreachEvent, Moved, StatusAfter, TypeOK
<1>5. CASE e \in MoveEvent /\ Moved(e)
  <2>1. MatchesStart(e.record, e.of) /\ Authorized(e.record, e.at)
    BY <1>5, AcceptedByKind DEF MoveAccepted
  <2>2. ASSUME e.of = x PROVE FALSE
    <3>1. e.record.actor = executions[x].actor /\ e.record.auth = executions[x].auth
      BY <2>1, <2>2 DEF MatchesStart
    <3>2. CASE executions[x].auth = ByDecision
      BY <2>1, <3>1, <3>2 DEF Authorized, Orphaned, MayCarryOut
    <3>3. CASE executions[x].auth # ByDecision
      BY <1>1, <2>1, <3>1, <3>3 DEF Authorized, Orphaned, WorkAgrees, StatusAgrees
    <3> QED
      BY <3>2, <3>3
  <2> QED
    BY <1>5, <2>2 DEF Moved, TypeOK
<1> QED
  BY <1>2, <1>3, <1>4, <1>5 DEF Recorded

\* Once its grant has ended, or its actor's authority over another's decision was
\* revoked, an execution under way stays as it is or is violated; nothing else can be
\* said of it in a valid log.
THEOREM WorkStopsWithItsAuthority == OutcomeSpec => FrozenWithItsAuthority
<1> DEFINE Frozen ==
      valid' => \A x \in Execution :
        Orphaned(x) => progress'[x] \in {progress[x], "violated"}
<1>1. ASSUME WorkInv, WorkInv', Next PROVE Frozen
  <2> SUFFICES ASSUME valid', NEW x \in Execution, Orphaned(x)
               PROVE  progress'[x] \in {progress[x], "violated"}
    OBVIOUS
  <2>1. TypeOK /\ WorkAgrees
    BY <1>1, NextAgrees DEF WorkInv
  <2>2. ASSUME NEW e, Recorded(e), Accepted(e)
        PROVE  progress'[x] \in {progress[x], "violated"}
    BY <2>1, <2>2, EventFreezes
  <2>3. ASSUME NEW e \in GrantEvent, GrantCommand(e)
        PROVE  progress'[x] = progress[x]
    BY <2>3 DEF GrantCommand, Granted
  <2>4. ASSUME NEW g \in Grant, NEW p \in Participant, NEW worded \in BOOLEAN,
               RevokeCommand(g, p, worded)
        PROVE  progress'[x] = progress[x]
    BY <2>4 DEF RevokeCommand, Ended
  <2>5. ASSUME \/ Tick
               \/ \E p, kind, owning : Declare(p, kind, owning)
               \/ \E e : Authorize(e)
        PROVE  progress'[x] = progress[x]
    BY <2>5 DEF Tick, Declare, Authorize
  <2> QED
    BY <1>1, <2>2, <2>3, <2>4, <2>5 DEF Next, Submit, Command, Append
<1>2. ASSUME WorkInv, WorkInv', OutcomeNext PROVE [Frozen]_vars
  BY <1>1, <1>2 DEF OutcomeNext, OutcomeSubmit, OutcomeCommand, OutcomeRecorded
<1>3. UNCHANGED allVars => UNCHANGED vars
  BY DEF allVars
<1>4. WorkInv /\ WorkInv' /\ [OutcomeNext]_allVars => [Frozen]_vars
  BY <1>2, <1>3
<1> QED
  BY <1>4, WorkIsSound, PTL DEF OutcomeSpec, FrozenWithItsAuthority

\* A disputed or violated outcome that was not evaluated before never is.
THEOREM DisputesAreFinal == OutcomeSpec => DisputeIsFinal
<1> DEFINE Final ==
      valid' =>
       \A o \in Outcome :
         (OutcomeShown(o) \in {"disputed", "violated"} /\ ~ Said("OutcomeEvaluated", o))
           => ~ Said("OutcomeEvaluated", o)'
<1>1. ASSUME WorkInv, Next PROVE Final
  <2>1. ASSUME NEW e, Recorded(e)
        PROVE  \A id : Said("OutcomeEvaluated", id)' <=> Said("OutcomeEvaluated", id)
    BY <1>1, <2>1, RecordedApart DEF WorkInv, OutcomeMoves
  <2>2. ASSUME NEW g \in Grant, NEW p \in Participant, NEW worded \in BOOLEAN,
               RevokeCommand(g, p, worded)
        PROVE  \A id : Said("OutcomeEvaluated", id)' <=> Said("OutcomeEvaluated", id)
    BY <2>2, RecordedElsewhere DEF RevokeCommand, DelegationEnds, OutcomeMoves
  <2>3. ASSUME \/ Tick
               \/ \E p, kind, owning : Declare(p, kind, owning)
               \/ \E e : Authorize(e)
        PROVE  \A id : Said("OutcomeEvaluated", id)' <=> Said("OutcomeEvaluated", id)
    BY <2>3 DEF Tick, Declare, Authorize, Said
  <2> QED
    BY <1>1, <2>1, <2>2, <2>3 DEF Next, Submit, GrantCommand, Command, Append, Recorded
<1>2. ASSUME WorkInv, valid, NEW e, OutcomeRecorded(e), OutcomeFits(e) PROVE Final
  <2>1. CASE e \in ResultEvent \cup ObjectEvent /\ (Result(e) \/ Object(e))
    <3> SUFFICES ASSUME NEW o \in Outcome, OutcomeShown(o) \in {"disputed", "violated"},
                        Said("OutcomeEvaluated", o)', ~ Said("OutcomeEvaluated", o)
                 PROVE  FALSE
      OBVIOUS
    <3>1. e.type = "OutcomeEvaluated" /\ e.of = o
      BY <1>2, <2>1, StandSaid DEF WorkInv
    <3>2. EvaluateAccepted(e)
      BY <1>2, <3>1 DEF OutcomeFits
    <3>3. OutcomeShown(o) = "observed"
      BY <1>2, <3>1, <3>2 DEF EvaluateAccepted, WorkInv, OutcomesAgree, StandingAgrees
    <3> QED
      BY <3>3
  <2>2. CASE e \in DoubtEvent /\ Doubt(e)
    <3>1. e.type # "OutcomeEvaluated"
      BY <2>2 DEF DoubtEvent
    <3> QED
      BY <2>2, <3>1, SaidNoted DEF Doubt
  <2>3. CASE Expect(e) \/ Signal(e) \/ Lesson(e)
    BY <2>3 DEF Expect, Signal, Lesson, Said
  <2> QED
    BY <1>2, <2>1, <2>2, <2>3 DEF OutcomeRecorded
<1>3. WorkInv /\ [OutcomeNext]_allVars => [Final]_allVars
  BY <1>1, <1>2 DEF OutcomeNext, OutcomeSubmit, OutcomeCommand
<1> QED
  BY <1>3, WorkIsSound, PTL DEF OutcomeSpec, DisputeIsFinal
=============================================================================

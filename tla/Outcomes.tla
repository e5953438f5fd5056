------------------------------ MODULE Outcomes ------------------------------
(***************************************************************************)
(* What came of the work, and what was learned from it                     *)
(* (packages/protocol/src/outcome.js, outcome-learning.js,                 *)
(* validator/outcome.js, cli/outcome.js), on top of the executions of      *)
(* Delegation: an effect is expected while the work is under way, observed,*)
(* evaluated once the work is complete, and learned from once evaluated.   *)
(* Anybody may dispute an outcome or record a violation of it, at any time.*)
(*                                                                         *)
(* As in Delegation: one table for the validator (standing), facts for the *)
(* projection, and commands that append what they build.                   *)
(***************************************************************************)
EXTENDS Delegation

CONSTANTS
  Outcome,   \* ids of outcomes
  Learning,  \* ids of signals, and of lessons
  Effect     \* effects, as they are worded

VARIABLES
  expected,  \* outcomeExpectations: the outcomes by id
  standing,  \* outcomeStatusById: the validator's view
  hashes,    \* outcomeEvaluations: the hash the evaluation of each outcome came with
  signals,   \* outcomeLearningSignals, bySignal: by id
  lessons    \* outcomeLessons, byLesson: by id, and apart from the signals

outcomeVars == <<expected, standing, hashes, signals, lessons>>
allVars == <<vars, outcomeVars>>

NoOutcome  == [effect |-> "none"]
NoLearning == [kind |-> "none"]

\* The hash a record comes with: none, the one its own content gives once it is
\* normalized (outcomeHash, which the projection puts in its place), or another.
Hash == {"absent", "sound", "other"}

-----------------------------------------------------------------------------
(* Records; worded: what they have to say (an effect, evidence, a reason,  *)
(* a result, a comparison, assumptions that exist) is there.               *)

ExpectEvent == [type: {"OutcomeExpected"}, id: Outcome, execution: Execution, effect: Effect,
                actor: Participant, worded: BOOLEAN]
ResultEvent == [type: {"OutcomeObserved"}, of: Outcome, execution: Execution, effect: Effect,
                hash: {"sound"}, actor: Participant, worded: BOOLEAN]  \* nobody compares it
               \cup [type: {"OutcomeEvaluated"}, of: Outcome, execution: Execution,
                     effect: Effect, hash: Hash, actor: Participant, worded: BOOLEAN]
ObjectEvent == [type: {"OutcomeDisputed", "OutcomeViolationRecorded"}, of: Outcome,
                execution: Execution, id: Note, actor: Participant, worded: BOOLEAN]
SignalEvent == [type: {"LearningSignalDerived"}, id: Learning, outcome: Outcome,
                execution: Execution, quotes: Hash, actor: Participant, worded: BOOLEAN]
LessonEvent == [type: {"LessonRecorded"}, id: Learning, signal: Learning, outcome: Outcome,
                execution: Execution, actor: Participant, worded: BOOLEAN]
DoubtEvent  == [type: {"LearningDisputed", "LearningViolationRecorded"}, of: Learning,
                outcome: Outcome, execution: Execution, id: Note, actor: Participant,
                worded: BOOLEAN]

SignalRecord == [kind: {"signal"}, outcome: Outcome, execution: Execution]
LessonRecord == [kind: {"lesson"}, signal: Learning, outcome: Outcome, execution: Execution]

-----------------------------------------------------------------------------
(* The projection *)

\* Mutant: a dispute does not show.
OutcomeShown_NoDispute(o) ==
  IF expected[o] = NoOutcome THEN "none"
  ELSE IF Said("OutcomeViolationRecorded", o) THEN "violated"
  ELSE IF Said("OutcomeEvaluated", o) THEN "evaluated"
  ELSE IF Said("OutcomeObserved", o) THEN "observed"
  ELSE "pending"

\* outcomeStatus: of a dispute and a violation, the violation.
OutcomeShown(o) ==
  IF expected[o] = NoOutcome THEN "none"
  ELSE IF Said("OutcomeViolationRecorded", o) THEN "violated"
  ELSE IF Said("OutcomeDisputed", o) THEN "disputed"
  ELSE IF Said("OutcomeEvaluated", o) THEN "evaluated"
  ELSE IF Said("OutcomeObserved", o) THEN "observed"
  ELSE "pending"

\* projectOutcome: what a list by status shows.
OutcomesShown(s) == {o \in Outcome : OutcomeShown(o) = s}

-----------------------------------------------------------------------------
(* The validator *)

\* validateOutcomeRecordBase, validateOutcomeLearningSignal and their like: an
\* event has in its fields all that its kind must say, and what it repeats of the
\* result and the effect is right.
OutcomeSays(e)  == e.worded
LearningSays(e) == e.worded

\* validateOutcomeRecordMatchesExpectation
MatchesExpected(e) ==
  /\ expected[e.of] # NoOutcome
  /\ e.execution = expected[e.of].execution
  /\ e.effect = expected[e.of].effect

ExpectAccepted(e) ==
  /\ OutcomeSays(e)
  /\ progress[e.execution] = "active"
  /\ expected[e.id] = NoOutcome

\* Mutant: an outcome is observed in any status, and again.
ObserveAccepted_AnyStatus(e) == OutcomeSays(e) /\ MatchesExpected(e)

ObserveAccepted(e) == OutcomeSays(e) /\ MatchesExpected(e) /\ standing[e.of] = "pending"

\* Mutant: an outcome is evaluated whatever became of the execution.
EvaluateAccepted_AnyExecution(e) ==
  /\ OutcomeSays(e)
  /\ MatchesExpected(e)
  /\ Said("OutcomeObserved", e.of)
  /\ standing[e.of] = "observed"

EvaluateAccepted(e) ==
  /\ OutcomeSays(e)
  /\ MatchesExpected(e)
  /\ Said("OutcomeObserved", e.of)
  /\ progress[e.execution] = "completed"
  /\ standing[e.of] = "observed"

\* validateOutcomeSideRecordMatchesExpectation; the status is not asked for.
ObjectAccepted(e) ==
  /\ OutcomeSays(e)
  /\ expected[e.of] # NoOutcome
  /\ e.execution = expected[e.of].execution
  /\ ~ Numbered(e.type, e.id)

\* validateOutcomeLearningReferences: of an outcome that has an evaluation,
\* disputed or not.
Learnable(e) ==
  /\ expected[e.outcome] # NoOutcome
  /\ e.execution = expected[e.outcome].execution
  /\ Said("OutcomeEvaluated", e.outcome)

\* The hash a signal quotes is compared with the one the evaluation came with, as it
\* came, where both are there.
HashFits(e) == hashes[e.outcome] \in {"absent", e.quotes} \/ e.quotes = "absent"

SignalAccepted(e) ==
  LearningSays(e) /\ HashFits(e) /\ Learnable(e) /\ signals[e.id] = NoLearning

\* validateOutcomeLearningMatchesTarget
SameOutcome(e, r) == r # NoLearning /\ e.outcome = r.outcome /\ e.execution = r.execution

LessonAccepted(e) ==
  /\ LearningSays(e)
  /\ Learnable(e)
  /\ SameOutcome(e, signals[e.signal])
  /\ lessons[e.id] = NoLearning

\* validateOutcomeLearningTarget: a signal before a lesson of the same id.
Target(l) == IF signals[l] # NoLearning THEN signals[l] ELSE lessons[l]

DoubtAccepted(e) ==
  /\ LearningSays(e)
  /\ Learnable(e)
  /\ SameOutcome(e, Target(e.of))
  /\ ~ Numbered(e.type, e.id)

\* What is asked of an event beside that its actor be known.
OutcomeFits(e) ==
  CASE e.type = "OutcomeExpected"  -> ExpectAccepted(e)
    [] e.type = "OutcomeObserved"  -> ObserveAccepted(e)
    [] e.type = "OutcomeEvaluated" -> EvaluateAccepted(e)
    [] e.type \in {"OutcomeDisputed", "OutcomeViolationRecorded"} -> ObjectAccepted(e)
    [] e.type = "LearningSignalDerived" -> SignalAccepted(e)
    [] e.type = "LessonRecorded"   -> LessonAccepted(e)
    [] e.type \in {"LearningDisputed", "LearningViolationRecorded"} -> DoubtAccepted(e)

-----------------------------------------------------------------------------
(* What an event leaves *)

StandingAfter ==
  [OutcomeObserved |-> "observed", OutcomeEvaluated |-> "evaluated",
   OutcomeDisputed |-> "disputed", OutcomeViolationRecorded |-> "violated"]

\* normalizeOutcomeRecord
Expect(e) ==
  /\ expected' = [expected EXCEPT ![e.id] = [execution |-> e.execution, effect |-> e.effect]]
  /\ standing' = [standing EXCEPT ![e.id] = "pending"]
  /\ UNCHANGED <<facts, hashes, signals, lessons>>

Stand(e) ==
  /\ standing' = [standing EXCEPT ![e.of] = StandingAfter[e.type]]
  /\ UNCHANGED <<expected, signals, lessons>>

\* applyExplicitOutcomeEvents: the last observation and evaluation count.
Result(e) ==
  /\ Stand(e)
  /\ Collected(e)
  /\ hashes' = IF e.type = "OutcomeEvaluated" THEN [hashes EXCEPT ![e.of] = e.hash] ELSE hashes

\* Disputes and violations are kept by their own ids.
Object(e) == Stand(e) /\ Noted(e) /\ UNCHANGED hashes

\* applyExplicitOutcomeLearningEvents: what is learned has no status.
Signal(e) ==
  /\ signals' = [signals EXCEPT ![e.id] =
                   [kind |-> "signal", outcome |-> e.outcome, execution |-> e.execution]]
  /\ UNCHANGED <<facts, expected, standing, hashes, lessons>>

Lesson(e) ==
  /\ lessons' = [lessons EXCEPT ![e.id] =
                   [kind |-> "lesson", signal |-> e.signal,
                    outcome |-> e.outcome, execution |-> e.execution]]
  /\ UNCHANGED <<facts, expected, standing, hashes, signals>>

Doubt(e) == Noted(e) /\ UNCHANGED outcomeVars

OutcomeRecorded(e) ==
  /\ \/ e \in ExpectEvent /\ Expect(e)
     \/ e \in ResultEvent /\ Result(e)
     \/ e \in ObjectEvent /\ Object(e)
     \/ e \in SignalEvent /\ Signal(e)
     \/ e \in LessonEvent /\ Lesson(e)
     \/ e \in DoubtEvent /\ Doubt(e)
  /\ UNCHANGED <<owners, decision, grants, status, executions, progress, now>>

-----------------------------------------------------------------------------
(* Commands *)

\* protocolOutcomeExpect: of any execution there is.
ExpectCommands ==
  {e \in ExpectEvent : executions[e.execution] # NoExecution}

\* outcomeRecordForCli: of an outcome there is, its execution and its effect.
Named(e) ==
  expected[e.of] # NoOutcome /\ e.execution = expected[e.of].execution

\* outcomeObserve; outcomeEvaluate asks for an observation, not for a status.  The
\* builders normalize first, and hash what they have.
ResultCommands ==
  {e \in ResultEvent :
     /\ Named(e) /\ e.effect = expected[e.of].effect /\ e.hash = "sound"
     /\ e.type = "OutcomeEvaluated" => Said("OutcomeObserved", e.of)}

\* outcomeDispute
DisputeCommands == {e \in ObjectEvent : e.type = "OutcomeDisputed" /\ Named(e)}

\* outcomeLearningDerive: of an outcome with an evaluation; the hash it quotes is
\* the projection's.
DeriveCommands ==
  {e \in SignalEvent :
     /\ expected[e.outcome] # NoOutcome
     /\ e.execution = expected[e.outcome].execution
     /\ Said("OutcomeEvaluated", e.outcome)
     /\ e.quotes = "sound"}

\* outcomeLearningLesson
LessonCommands ==
  {e \in LessonEvent : SameOutcome(e, signals[e.signal])}

\* outcomeLearningRecordForCli, outcomeLearningDispute, outcomeLearningViolation
DoubtCommands == {e \in DoubtEvent : SameOutcome(e, Target(e.of))}

OutcomeCommands ==
  UNION {ExpectCommands, ResultCommands, DisputeCommands, DeriveCommands, LessonCommands,
         DoubtCommands}

OutcomeEvents ==
  UNION {ExpectEvent, ResultEvent, ObjectEvent, SignalEvent, LessonEvent, DoubtEvent}

-----------------------------------------------------------------------------

OutcomeInit ==
  /\ Init
  /\ expected = [o \in Outcome |-> NoOutcome]
  /\ standing = [o \in Outcome |-> "none"]
  /\ hashes = [o \in Outcome |-> "absent"]
  /\ signals = [l \in Learning |-> NoLearning]
  /\ lessons = [l \in Learning |-> NoLearning]

OutcomeSubmit(e) ==
  /\ valid
  /\ Known(e.actor)
  /\ OutcomeFits(e)
  /\ OutcomeRecorded(e)
  /\ UNCHANGED <<people, valid>>

\* appendParticipant first, then the event as it was built; a role of their own makes
\* no more of the actor than Declare would before.
OutcomeCommand(e) ==
  /\ valid
  /\ people' = [people EXCEPT ![e.actor] = IF Known(e.actor) THEN @ ELSE "human"]
  /\ OutcomeRecorded(e)
  /\ valid' = OutcomeFits(e)

OutcomeNext ==
  \/ Next /\ UNCHANGED outcomeVars
  \/ \E e \in OutcomeEvents : OutcomeSubmit(e)
  \/ \E e \in OutcomeCommands : OutcomeCommand(e)

OutcomeSpec == OutcomeInit /\ [][OutcomeNext]_allVars

-----------------------------------------------------------------------------

(***************************************************************************)
(* What outcome show and execution show say of a valid log is enough to    *)
(* know which outcome commands keep it valid: an outcome is expected of an *)
(* execution shown active, observed while shown pending, evaluated while   *)
(* shown observed and its execution completed.  The command itself looks   *)
(* at none of these, so evaluating a disputed outcome ends the log.  What  *)
(* may be learned does not show alike: the projection puts the hash of the *)
(* normalized evaluation in the place of the one that was stored           *)
(* (outcome.js:478), outcome-learning derive quotes it, and the validator  *)
(* compares it with the stored one (validator/outcome.js:367), so of an    *)
(* evaluation that came with a hash of its own nothing can be derived.     *)
(***************************************************************************)
OutcomeShownIsUsable ==
  valid =>
    /\ \A e \in ExpectCommands :
         OutcomeFits(e) <=> /\ e.worded
                            /\ ExecutionShown(e.execution) = "active"
                            /\ e.id \in OutcomesShown("none")
    /\ \A e \in ResultCommands :
         OutcomeFits(e) <=>
           /\ e.worded
           /\ IF e.type = "OutcomeObserved" THEN OutcomeShown(e.of) = "pending"
              ELSE OutcomeShown(e.of) = "observed" /\ ExecutionShown(e.execution) = "completed"
    /\ \A e \in DeriveCommands :
         OutcomeFits(e) <=>
           e.worded /\ signals[e.id] = NoLearning /\ hashes[e.outcome] # "other"
    /\ \A e \in LessonCommands : OutcomeFits(e) <=> e.worded /\ lessons[e.id] = NoLearning
    /\ \A e \in DoubtCommands : OutcomeFits(e) <=> e.worded /\ ~ Numbered(e.type, e.id)

\* x was completed, whatever came after.
WasCompleted(x) == executions[x] # NoExecution /\ Said("ExecutionCompleted", x)

(***************************************************************************)
(* Forbidden: "learning from unevaluated outcome" (milestone-22.md),       *)
(* evaluating an execution that is not completed (milestone-21.md).        *)
(* Through all that may come between, whatever was learned rests on an     *)
(* evaluation, the evaluation on an observation and on an execution that   *)
(* was completed, and a lesson on a signal of the same outcome.            *)
(***************************************************************************)
LearningRests ==
  valid =>
    /\ \A r \in {signals[l] : l \in Learning} \cup {lessons[l] : l \in Learning} :
         r # NoLearning =>
           /\ Said("OutcomeEvaluated", r.outcome)
           /\ r.execution = expected[r.outcome].execution
    /\ \A l \in Learning : lessons[l] # NoLearning =>
         SameOutcome(lessons[l], signals[lessons[l].signal])
    /\ \A o \in Outcome : Said("OutcomeEvaluated", o) =>
         Said("OutcomeObserved", o) /\ WasCompleted(expected[o].execution)

(***************************************************************************)
(* A dispute is not answered: nothing in the log settles one.  An outcome  *)
(* disputed or violated before it was evaluated is never evaluated, so     *)
(* nothing is ever learned from it; after, all goes on as if it were not.  *)
(***************************************************************************)
DisputeIsFinal ==
  [][valid' =>
       \A o \in Outcome :
         (OutcomeShown(o) \in {"disputed", "violated"} /\ ~ Said("OutcomeEvaluated", o))
           => ~ Said("OutcomeEvaluated", o)']_allVars
=============================================================================

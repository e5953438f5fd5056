----------------------------- MODULE Delegation -----------------------------
(***************************************************************************)
(* Delegated authority and the work done under it                          *)
(* (packages/protocol/src/delegation.js, execution.js, their validators in *)
(* validator/ and their commands in cli/).                                 *)
(*                                                                         *)
(* The code reads one event log twice.  The validator folds it into status *)
(* tables (status, progress) and holds each event against them; the        *)
(* projection collects the records of each kind (facts) and derives a      *)
(* status from which kinds there are.  An event reaches the log in one of  *)
(* two ways: submitted (ThreadDO.append, the gate), when it is validated   *)
(* first; or by a command, which asks that the log be valid, builds the    *)
(* event from the projection and appends it as it is.  An event that the   *)
(* validator refuses then leaves a log that no further command reads.      *)
(*                                                                         *)
(* One thread; an event signed by somebody else than it names is refused   *)
(* and not modelled.  A text option may be blank once it is normalised     *)
(* ("", ",", "!"): worded says whether what the event has to say is there. *)
(***************************************************************************)
EXTENDS Integers

CONSTANTS
  Participant,  \* who may sign events
  Grant,        \* ids of delegations
  Execution,    \* ids of executions
  Work,         \* pairs of an action and a scope
  Limit,        \* limits of a delegation, constraints of an execution
  Note,         \* ids of violations of an execution
  Scope,        \* scopes of an authority: of this thread, of all
  Time          \* what a clock may read

Kinds == {"human", "agent", "tool", "system"}
DelegateTypes == {"participant", "agent", "tool", "context"}

\* Not an id, not a time.
ByDecision == "decision"
NoExpiry   == -1
BadDate    == -2

ASSUME DelegationAssumption ==
  /\ Time \subseteq Nat
  /\ {"thread"} \subseteq Scope /\ Scope \subseteq {"thread", "global"}
  /\ ByDecision \notin Grant

VARIABLES
  people,      \* people[p]: the kind p was declared with, or "stranger"
  owners,      \* activeAuthorities: who has decision_owner authority, and its scope
  decision,    \* the decision that work may rest on, and its conditions
  grants,      \* delegationGrants, byGrant: the grants by id
  status,      \* delegationStatusByGrant: the validator's view
  executions,  \* executionStarts, byExecution: the executions by id
  progress,    \* executionStatusById: the validator's view
  facts,       \* what the projection collects: the other records, by kind
  now,         \* the clock of the commands
  valid        \* the log is valid

vars == <<people, owners, decision, grants, status, executions, progress, facts, now, valid>>

NoGrant     == [to |-> "nobody"]
NoExecution == [actor |-> "nobody"]

Known(p) == people[p] # "stranger"

\* participantHasAuthority on the thread
Owner(p) == \E s \in Scope : <<p, s>> \in owners

-----------------------------------------------------------------------------
(* Records *)

\* buildDelegationGrant: what a grant says.
GrantRecord ==
  [by: Participant, to: Participant, as: DelegateTypes, work: Work,
   limits: SUBSET Limit, expires: Time \cup {NoExpiry, BadDate}]

\* validateDelegationGrant
WellFormedGrant(r) == r.limits # {} /\ r.expires # BadDate

\* buildExecutionRecord; normalizeAuthorizationRef: a delegation or a decision.
ExecutionRecord ==
  [actor: Participant, auth: Grant \cup {ByDecision}, work: Work, constraints: SUBSET Limit]

\* validateExecutionRecordBase
WellFormedExecution(r) == r.constraints # {}

\* The kinds of events.
GrantEvent   == [type: {"DelegationGranted"}, id: Grant, record: GrantRecord, at: Time]
ActionEvent  == [type: {"DelegatedActionRecorded"}, of: Grant, actor: Participant,
                 as: DelegateTypes, work: Work, worded: BOOLEAN, at: Time]
ControlEvent == [type: {"DelegationRevoked", "DelegationViolationRecorded"}, of: Grant,
                 actor: Participant, worded: BOOLEAN, at: Time]
ExpiryEvent  == [type: {"DelegationExpired"}, of: Grant, worded: BOOLEAN, at: Time]
StartEvent   == [type: {"ExecutionStarted"}, id: Execution, record: ExecutionRecord, at: Time]
MoveEvent    == [type: {"ExecutionCompleted", "ExecutionFailed", "ExecutionRolledBack"},
                 of: Execution, record: ExecutionRecord, worded: BOOLEAN, at: Time]
BreachEvent  == [type: {"ExecutionViolationRecorded"}, of: Execution, id: Note,
                 actor: Participant, worded: BOOLEAN, at: Time]
AuthorityEvent == [type: {"ParticipantAuthorityGranted", "ParticipantAuthorityRevoked"},
                   of: Participant, scope: Scope]

-----------------------------------------------------------------------------
(* The projection *)

Said(type, id) == \E f \in facts : f.type = type /\ f.of = id

\* Mutant: the projection takes no notice of expirations.
GrantShown_IgnoresExpiry(g) ==
  IF grants[g] = NoGrant THEN "none"
  ELSE IF Said("DelegationRevoked", g) THEN "revoked"
  ELSE IF Said("DelegationViolationRecorded", g) THEN "violated"
  ELSE "active"

\* delegationStatusForGrant
GrantShown(g) ==
  IF grants[g] = NoGrant THEN "none"
  ELSE IF Said("DelegationRevoked", g) THEN "revoked"
  ELSE IF Said("DelegationExpired", g) THEN "expired"
  ELSE IF Said("DelegationViolationRecorded", g) THEN "violated"
  ELSE "active"

\* executionStatus
ExecutionShown(x) ==
  IF executions[x] = NoExecution THEN "none"
  ELSE IF Said("ExecutionViolationRecorded", x) THEN "violated"
  ELSE IF Said("ExecutionRolledBack", x) THEN "rolled_back"
  ELSE IF Said("ExecutionFailed", x) THEN "failed"
  ELSE IF Said("ExecutionCompleted", x) THEN "completed"
  ELSE "active"

\* projectDelegation, projectExecution: what a list by status shows.
GrantsShown(s) == {g \in Grant : GrantShown(g) = s}
ExecutionsShown(s) == {x \in Execution : ExecutionShown(x) = s}

-----------------------------------------------------------------------------
(* The validator *)

\* validateDelegatedAction, validateExecutionRecordBase and their like: an event
\* has in its fields all that its kind must say, and no word of the guarded ones.
DelegationSays(e) == e.worded
ExecutionSays(e)  == e.worded

PermittedKinds(type) ==
  CASE type = "participant" -> Kinds
    [] type = "agent"       -> {"agent"}
    [] type = "tool"        -> {"tool", "system"}
    [] type = "context"     -> {"system"}

\* validateDelegationDelegateActor
CanBe(p, type) == Known(p) /\ people[p] \in PermittedKinds(type)

\* validateDelegationControlActor
Controls(p, g) == Known(p) /\ (p = grants[g].by \/ Owner(p))

\* A grant runs out by the time an event claims, not by the order of the log.
InTime(g, at) == grants[g].expires \in Time => at <= grants[g].expires

MayDelegate(r) == Known(r.by) /\ Owner(r.by) /\ CanBe(r.to, r.as)

GrantAccepted(e) ==
  /\ WellFormedGrant(e.record)
  /\ grants[e.id] = NoGrant
  /\ MayDelegate(e.record)

\* validateDelegatedActionRecordedEvent, validateDelegatedActionAgainstGrant
ActionAccepted(e) ==
  /\ DelegationSays(e)
  /\ status[e.of] = "active"
  /\ InTime(e.of, e.at)
  /\ CanBe(e.actor, e.as)
  /\ e.actor = grants[e.of].to
  /\ e.work = grants[e.of].work

ControlAccepted(e) ==
  /\ DelegationSays(e)
  /\ grants[e.of] # NoGrant
  /\ Controls(e.actor, e.of)
  /\ e.type = "DelegationRevoked" => status[e.of] = "active"

\* Anybody may say that a grant expired, and whenever: its expiry is not read.
ExpiryAccepted(e) == DelegationSays(e) /\ status[e.of] = "active"

\* Mutant: whether a grant has ended is not asked.
Authorized_NoStatus(r, at) ==
  IF r.auth = ByDecision
  THEN /\ decision.approved
       /\ r.actor = decision.by \/ Owner(r.actor)
       /\ r.work \in decision.scope
       /\ decision.conditions \subseteq r.constraints
  ELSE /\ grants[r.auth] # NoGrant
       /\ InTime(r.auth, at)
       /\ CanBe(grants[r.auth].to, grants[r.auth].as)
       /\ r.actor = grants[r.auth].to
       /\ r.work = grants[r.auth].work
       /\ grants[r.auth].limits \subseteq r.constraints

\* validateExecutionAgainstDelegation, validateExecutionAgainstDecision,
\* requireExecutionConstraints
Authorized(r, at) ==
  IF r.auth = ByDecision
  THEN /\ decision.approved
       /\ r.actor = decision.by \/ Owner(r.actor)
       /\ r.work \in decision.scope
       /\ decision.conditions \subseteq r.constraints
  ELSE /\ status[r.auth] = "active"
       /\ InTime(r.auth, at)
       /\ CanBe(grants[r.auth].to, grants[r.auth].as)
       /\ r.actor = grants[r.auth].to
       /\ r.work = grants[r.auth].work
       /\ grants[r.auth].limits \subseteq r.constraints

StartAccepted(e) ==
  /\ WellFormedExecution(e.record)
  /\ Known(e.record.actor)
  /\ executions[e.id] = NoExecution
  /\ Authorized(e.record, e.at)

\* validateExecutionRecordMatchesPrior: the constraints may change.
MatchesStart(r, x) ==
  /\ r.actor = executions[x].actor
  /\ r.auth = executions[x].auth
  /\ r.work = executions[x].work

\* The statuses a transition may leave.
LeftBy(type) == IF type = "ExecutionRolledBack" THEN {"completed", "failed"} ELSE {"active"}

\* validateExecutionTransition
MoveAccepted(e) ==
  /\ ExecutionSays(e)
  /\ WellFormedExecution(e.record)
  /\ Known(e.record.actor)
  /\ progress[e.of] \in LeftBy(e.type)
  /\ MatchesStart(e.record, e.of)
  /\ Authorized(e.record, e.at)

Numbered(type, id) == \E f \in facts : f.type = type /\ "id" \in DOMAIN f /\ f.id = id

BreachAccepted(e) ==
  /\ ExecutionSays(e)
  /\ executions[e.of] # NoExecution
  /\ Known(e.actor)
  /\ ~ Numbered(e.type, e.id)

\* A revocation needs an authority that applies where it says, and may leave it.
AuthorityAccepted(e) ==
  /\ Known(e.of)
  /\ e.type = "ParticipantAuthorityRevoked" =>
       \E s \in {"global", e.scope} : <<e.of, s>> \in owners

Accepted(e) ==
  CASE e.type = "DelegationGranted"          -> GrantAccepted(e)
    [] e.type = "DelegatedActionRecorded"    -> ActionAccepted(e)
    [] e.type \in {"DelegationRevoked", "DelegationViolationRecorded"} -> ControlAccepted(e)
    [] e.type = "DelegationExpired"          -> ExpiryAccepted(e)
    [] e.type = "ExecutionStarted"           -> StartAccepted(e)
    [] e.type \in {"ExecutionCompleted", "ExecutionFailed", "ExecutionRolledBack"} -> MoveAccepted(e)
    [] e.type = "ExecutionViolationRecorded" -> BreachAccepted(e)

-----------------------------------------------------------------------------
(* What an event leaves, valid or not *)

StatusAfter ==
  [DelegationRevoked |-> "revoked", DelegationExpired |-> "expired",
   DelegationViolationRecorded |-> "violated", ExecutionCompleted |-> "completed",
   ExecutionFailed |-> "failed", ExecutionRolledBack |-> "rolled_back",
   ExecutionViolationRecorded |-> "violated"]

\* normalizeDelegationGrant: the grant as the validator and the projection keep it.
Granted(e) ==
  /\ grants' = [grants EXCEPT ![e.id] = e.record]
  /\ status' = [status EXCEPT ![e.id] = "active"]
  /\ UNCHANGED <<executions, progress, facts>>

Started(e) ==
  /\ executions' = [executions EXCEPT ![e.id] = e.record]
  /\ progress' = [progress EXCEPT ![e.id] = "active"]
  /\ UNCHANGED <<grants, status, facts>>

\* applyExplicitDelegationEvents: a record more of its kind.
Collected(e) == facts' = facts \cup {[type |-> e.type, of |-> e.of]}

\* Violations of an execution are kept by their own ids.
Noted(e) == facts' = facts \cup {[type |-> e.type, of |-> e.of, id |-> e.id]}

\* Recording an action changes no status.
Acted(e) == UNCHANGED <<grants, status, executions, progress, facts>>

Ended(e) ==
  /\ status' = [status EXCEPT ![e.of] = StatusAfter[e.type]]
  /\ Collected(e)
  /\ UNCHANGED <<grants, executions, progress>>

Moved(e) ==
  /\ progress' = [progress EXCEPT ![e.of] = StatusAfter[e.type]]
  /\ IF e.type = "ExecutionViolationRecorded" THEN Noted(e) ELSE Collected(e)
  /\ UNCHANGED <<grants, status, executions>>

Recorded(e) ==
  \/ e \in GrantEvent /\ Granted(e)
  \/ e \in StartEvent /\ Started(e)
  \/ e \in ActionEvent /\ Acted(e)
  \/ e \in ControlEvent \cup ExpiryEvent /\ Ended(e)
  \/ e \in MoveEvent \cup BreachEvent /\ Moved(e)

-----------------------------------------------------------------------------
(* Commands: the events they build from the projection *)

\* defaultDelegateKindForType
DefaultKind(type) ==
  CASE type = "agent" -> "agent" [] type = "tool" -> "tool"
    [] type = "context" -> "system" [] OTHER -> "human"

\* appendParticipant: who is not in the log is put there first; the one who
\* grants or revokes, as a decision owner of the thread.
Introduced(by, to, as) ==
  /\ people' = [p \in Participant |->
                  IF Known(p) THEN people[p]
                  ELSE IF p = by THEN "human"
                  ELSE IF p = to THEN DefaultKind(as) ELSE "stranger"]
  /\ owners' = IF Known(by) THEN owners ELSE owners \cup {<<by, "thread">>}

\* delegationRecord: the delegate's action as it was granted.
RecordCommands ==
  {[type |-> "DelegatedActionRecorded", of |-> g, actor |-> grants[g].to, as |-> grants[g].as,
    work |-> grants[g].work, worded |-> w, at |-> now] :
     g \in {h \in Grant : grants[h] # NoGrant}, w \in BOOLEAN}

\* executionStartFromDelegation: the actor, the work and the constraints are the
\* grant's where no option says otherwise.
StartCommands ==
  {[type |-> "ExecutionStarted", id |-> x, at |-> now,
    record |-> [actor |-> grants[g].to, auth |-> g, work |-> grants[g].work,
                constraints |-> grants[g].limits]] :
     x \in Execution, g \in {h \in Grant : grants[h] # NoGrant}}

\* executionStartFromDecision: with no conditions, a constraint of its own.
DecisionCommands ==
  {[type |-> "ExecutionStarted", id |-> x, at |-> now,
    record |-> [actor |-> decision.by, auth |-> ByDecision, work |-> w,
                constraints |-> IF decision.conditions = {} THEN {l} ELSE decision.conditions]] :
     x \in Execution, w \in decision.scope, l \in Limit}

\* executionComplete, executionFail, executionRollback: the record as it was
\* started, whatever has become of it since.
MoveCommands ==
  {[type |-> t, of |-> x, record |-> executions[x], worded |-> w, at |-> now] :
     t \in {"ExecutionCompleted", "ExecutionFailed", "ExecutionRolledBack"},
     x \in {y \in Execution : executions[y] # NoExecution}, w \in BOOLEAN}

-----------------------------------------------------------------------------

Init ==
  /\ people \in [Participant -> Kinds \cup {"stranger"}]
  /\ owners \in SUBSET ({p \in Participant : Known(p)} \X Scope)
  /\ decision \in [by: {p \in Participant : Known(p)}, approved: BOOLEAN,
                   scope: SUBSET Work, conditions: SUBSET Limit]
  /\ grants = [g \in Grant |-> NoGrant]
  /\ status = [g \in Grant |-> "none"]
  /\ executions = [x \in Execution |-> NoExecution]
  /\ progress = [x \in Execution |-> "none"]
  /\ facts = {}
  /\ now \in Time
  /\ valid = TRUE

\* An event that was validated before it was stored.
Submit(e) ==
  /\ valid
  /\ Accepted(e)
  /\ Recorded(e)
  /\ UNCHANGED <<people, owners, decision, now, valid>>

\* An event that is stored as it was built.
Append(e) == Recorded(e) /\ valid' = Accepted(e)

Command ==
  /\ valid
  /\ \E e \in RecordCommands \cup StartCommands \cup DecisionCommands \cup MoveCommands : Append(e)
  /\ UNCHANGED <<people, owners, decision, now>>

\* delegationGrant: the people first, then the grant, whatever the log; an id
\* that is not given is a hash of what the grant says, and may be taken.
GrantCommand(e) ==
  /\ e.at = now
  /\ Introduced(e.record.by, e.record.to, e.record.as)
  /\ Granted(e)
  /\ valid' = /\ valid
              /\ WellFormedGrant(e.record)
              /\ grants[e.id] = NoGrant
              /\ MayDelegate(e.record)'
  /\ UNCHANGED <<decision, now>>

\* delegationRevoke: whoever asks is introduced as a decision owner.
RevokeCommand(g, p, worded) ==
  /\ valid
  /\ grants[g] # NoGrant
  /\ Introduced(p, p, "participant")
  /\ Ended([type |-> "DelegationRevoked", of |-> g])
  /\ valid' = (worded /\ status[g] = "active" /\ Controls(p, g)')
  /\ UNCHANGED <<decision, now>>

\* participantDeclare reads no log and appends; a submission that is accepted leaves
\* the same.  Whoever is declared with the role of a decision owner is one.
Declare(p, kind, owning) ==
  /\ people' = [people EXCEPT ![p] = kind]
  /\ owners' = IF owning THEN owners \cup {<<p, "thread">>} ELSE owners
  /\ valid' = (valid /\ ~ Known(p))
  /\ UNCHANGED <<decision, grants, status, executions, progress, facts, now>>

\* participantAuthorityGrant, participantAuthorityRevoke, in the same two ways;
\* applyAuthorityGrant, applyAuthorityRevocation: only the very key is taken back.
Authorize(e) ==
  /\ owners' = IF e.type = "ParticipantAuthorityGranted" THEN owners \cup {<<e.of, e.scope>>}
               ELSE owners \ {<<e.of, e.scope>>}
  /\ valid' = (valid /\ AuthorityAccepted(e))
  /\ UNCHANGED <<people, decision, grants, status, executions, progress, facts, now>>

Tick ==
  /\ now' \in {t \in Time : t > now}
  /\ UNCHANGED <<people, owners, decision, grants, status, executions, progress, facts, valid>>

Next ==
  \/ \E e \in GrantEvent : Submit(e) \/ GrantCommand(e)
  \/ \E e \in ActionEvent \cup ControlEvent \cup ExpiryEvent : Submit(e)
  \/ \E e \in StartEvent \cup MoveEvent \cup BreachEvent : Submit(e)
  \/ Command
  \/ \E g \in Grant, p \in Participant, worded \in BOOLEAN : RevokeCommand(g, p, worded)
  \/ \E p \in Participant, kind \in Kinds, owning \in BOOLEAN : Declare(p, kind, owning)
  \/ \E e \in AuthorityEvent : Authorize(e)
  \/ Tick

Spec == Init /\ [][Next]_vars

-----------------------------------------------------------------------------

TypeOK ==
  /\ people \in [Participant -> Kinds \cup {"stranger"}]
  /\ owners \subseteq Participant \X Scope
  /\ grants \in [Grant -> GrantRecord \cup {NoGrant}]
  /\ status \in [Grant -> {"none", "active", "revoked", "expired", "violated"}]
  /\ executions \in [Execution -> ExecutionRecord \cup {NoExecution}]
  /\ progress \in [Execution -> {"none", "active", "completed", "failed", "rolled_back", "violated"}]
  /\ now \in Time
  /\ valid \in BOOLEAN

\* What delegation show lets a reader expect: it is active and its time is not up.
ShownActive(g) == g \in GrantsShown("active") /\ InTime(g, now)

\* Whoever carries out a decision that somebody else made must own decisions.
MayCarryOut(p) == p = decision.by \/ Owner(p)

\* What stands behind an execution, as far as it shows: its grant, or its decision
\* and what identity show says of its actor.
AuthShown(r) ==
  IF r.auth = ByDecision THEN decision.approved /\ MayCarryOut(r.actor) ELSE ShownActive(r.auth)

(***************************************************************************)
(* A command appends its event unvalidated, and one bad event is the end   *)
(* of the log; what the projection shows of a valid log is all there is to *)
(* go by.  It is enough, in three places: a command that does not leave    *)
(* its text blank keeps the log valid if and only if delegation show has   *)
(* the grant it uses active and in time; execution show has the execution  *)
(* it names in a status the command leaves (unused, for a start); and for  *)
(* work under somebody else's decision, identity show has the actor an     *)
(* owner still.  Execution show alone is not: when an actor's authority is *)
(* revoked, the execution stays "active" and cannot be ended any more      *)
(* (validator/execution.js:243-246).                                       *)
(***************************************************************************)
ShownIsUsable ==
  valid =>
    /\ \A e \in RecordCommands : Accepted(e) <=> e.worded /\ ShownActive(e.of)
    /\ \A e \in StartCommands \cup DecisionCommands :
         Accepted(e) <=> e.id \in ExecutionsShown("none") /\ AuthShown(e.record)
    /\ \A e \in MoveCommands :
         Accepted(e) <=> /\ e.worded
                         /\ ExecutionShown(e.of) \in LeftBy(e.type)
                         /\ AuthShown(executions[e.of])

\* The execution x has lost what it rests on: its grant ended, or its actor does not
\* own decisions any more.
Orphaned(x) ==
  /\ executions[x] # NoExecution
  /\ IF executions[x].auth = ByDecision THEN ~ MayCarryOut(executions[x].actor)
     ELSE GrantShown(executions[x].auth) # "active"

(***************************************************************************)
(* "ClisTa rejects execution when ... execution starts or completes after  *)
(* delegation revocation or expiration" (milestone-20.md): once a grant    *)
(* has ended, what was done under it stays as it is, and so does what was  *)
(* done under a decision by one whose authority was revoked.  An execution *)
(* under way then cannot complete, fail or be rolled back; a violation is  *)
(* all that can be said of it.                                             *)
(***************************************************************************)
FrozenWithItsAuthority ==
  [][valid' => \A x \in Execution :
       Orphaned(x) => progress'[x] \in {progress[x], "violated"}]_vars
=============================================================================

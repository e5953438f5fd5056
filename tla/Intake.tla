------------------------------- MODULE Intake -------------------------------
(***************************************************************************)
(* The triage inbox of the cockpit's Worker (app/worker): submissions wait *)
(* in IndexDO's intake table until a human approves or dismisses them; an  *)
(* approval writes to the threads' objects call by call and resolves the   *)
(* item last.  Several humans triage, a double click is two requests, and  *)
(* a request may die between two calls.                                    *)
(***************************************************************************)
EXTENDS Integers, Sequences, FiniteSets

CONSTANTS
  Item,         \* ids of intake rows
  Thread,       \* ids of threads, those of approvals to come included
  Old,          \* the threads contributions may target
  Request,      \* triage requests served at the same time
  Human,        \* those who triage
  MaxApprovals  \* bound: approvals begun in a model run

ItemKind == {"thread_proposal", "run_report", "contribution"}

VARIABLES
  intake,    \* intake[i]: IndexDO's row, or NoRow
  log,       \* log[t]: what ThreadDO of t holds; <<>> while there is none
  req,       \* req[r]: where request r is, and the row it has read
  approvals, \* how many approvals have begun
  died,      \* some request died
  overlaps   \* some request began while another was at work

vars == <<intake, log, req, approvals, died, overlaps>>

NoRow == [status |-> "none"]
Idle  == [at |-> "idle"]
Null  == "null"

\* An event, and the item it comes from.
Event(kind, human, item) == [kind |-> kind, actor |-> human, item |-> item]

Genesis(human, item) ==
  <<Event("ParticipantDeclared", human, Null), Event("ThreadCreated", human, item)>>

IsParticipant(t, human) ==
  \E n \in DOMAIN log[t] :
    log[t][n].kind = "ParticipantDeclared" /\ log[t][n].actor = human

-----------------------------------------------------------------------------

Init ==
  /\ intake = [i \in Item |-> NoRow]
  /\ \E h \in Human :
       log = [t \in Thread |-> IF t \in Old THEN Genesis(h, Null) ELSE <<>>]
  /\ req = [r \in Request |-> Idle]
  /\ approvals = 0
  /\ died = FALSE
  /\ overlaps = FALSE

Goto(r, at) == req' = [req EXCEPT ![r] = at]

Begin(r, at) ==
  /\ req[r] = Idle
  /\ Goto(r, at)
  /\ overlaps' = (overlaps \/ \E s \in Request : req[s] # Idle)

\* handlePublicIntake, or the agent's proposal, once every check has passed.
Submit(i) ==
  /\ intake[i] = NoRow
  /\ \E kind \in ItemKind, target \in Old \cup {Null} :
       /\ (kind = "contribution") <=> (target # Null)
       /\ intake' = [intake EXCEPT ![i] =
            [kind |-> kind, status |-> "pending", target |-> target, thread |-> Null]]
  /\ UNCHANGED <<log, req, approvals, died, overlaps>>

\* Mutant: an item that has been resolved can be triaged again.
Actionable_Any(row) == row # NoRow

\* Without a row 404, with a resolved one 409.
Actionable(row) == row.status = "pending"

\* dismiss: getIntake, then resolveIntake.
Dismiss(r, i) ==
  /\ Actionable(intake[i])
  /\ Begin(r, [at |-> "resolve", item |-> i, status |-> "dismissed", thread |-> Null])
  /\ UNCHANGED <<intake, log, approvals, died>>

Approve(r, i, h) ==
  /\ approvals < MaxApprovals
  /\ Actionable(intake[i])
  /\ \E as \in {"evidence", "objection"} :
       /\ as = "objection" => intake[i].kind = "contribution"
       /\ Begin(r, [at |-> IF intake[i].kind = "contribution" THEN "join" ELSE "create",
                    item |-> i, human |-> h, as |-> as])
  /\ approvals' = approvals + 1
  /\ UNCHANGED <<intake, log, died>>

Resolving(r, t) ==
  [at |-> "resolve", item |-> req[r].item, status |-> "approved", thread |-> t]

\* createThread: ingest into a fresh object.  A run report is attested next.
Create(r) ==
  /\ req[r].at = "create"
  /\ \E t \in Thread :
       /\ log[t] = <<>>
       /\ log' = [log EXCEPT ![t] = Genesis(req[r].human, req[r].item)]
       /\ IF intake[req[r].item].kind = "run_report"
          THEN Goto(r, [at |-> "attest", item |-> req[r].item, human |-> req[r].human,
                        thread |-> t])
          ELSE Goto(r, Resolving(r, t))
  /\ UNCHANGED <<intake, approvals, died, overlaps>>

\* The report as evidence on its new thread: stored, or rejected and skipped.
Attest(r) ==
  /\ req[r].at = "attest"
  /\ LET t == req[r].thread IN
     /\ \/ UNCHANGED log
        \/ log' = [log EXCEPT ![t] =
             Append(@, Event("EvidenceCommitted", req[r].human, req[r].item))]
     /\ Goto(r, Resolving(r, t))
  /\ UNCHANGED <<intake, approvals, died, overlaps>>

\* ensureParticipant, which looks before it appends.
Join(r) ==
  LET t == intake[req[r].item].target  h == req[r].human IN
  /\ req[r].at = "join"
  /\ log' = IF IsParticipant(t, h) THEN log
            ELSE [log EXCEPT ![t] = Append(@, Event("ParticipantDeclared", h, Null))]
  /\ Goto(r, [req[r] EXCEPT !.at = "commit"])
  /\ UNCHANGED <<intake, approvals, died, overlaps>>

\* Mutant: the answer of append is not looked at.
Commit_Unchecked(r) ==
  LET t == intake[req[r].item].target IN
  /\ req[r].at = "commit"
  /\ \/ log' = [log EXCEPT ![t] =
             Append(@, Event("EvidenceCommitted", req[r].human, req[r].item))]
     \/ UNCHANGED log
  /\ Goto(r, Resolving(r, t))
  /\ UNCHANGED <<intake, approvals, died, overlaps>>

\* The contribution as evidence or as an objection.  Rejected, it ends the
\* request and the item stays pending.
Commit(r) ==
  LET t == intake[req[r].item].target IN
  /\ req[r].at = "commit"
  /\ \/ /\ log' = [log EXCEPT ![t] = Append(@,
             Event(IF req[r].as = "objection" THEN "ObjectionRaised" ELSE "EvidenceCommitted",
                   req[r].human, req[r].item))]
        /\ Goto(r, Resolving(r, t))
     \/ UNCHANGED log /\ Goto(r, Idle)
  /\ UNCHANGED <<intake, approvals, died, overlaps>>

\* Mutant: a resolution without a thread clears the one that is there.
Resolved_Clears(row, status, t) == [row EXCEPT !.status = status, !.thread = t]

\* resolveIntake, whatever the row's status has become.
Resolved(row, status, t) ==
  [row EXCEPT !.status = status, !.thread = IF t = Null THEN @ ELSE t]

Resolve(r) ==
  /\ req[r].at = "resolve"
  /\ intake' = [intake EXCEPT ![req[r].item] =
                  Resolved(@, req[r].status, req[r].thread)]
  /\ Goto(r, Idle)
  /\ UNCHANGED <<log, approvals, died, overlaps>>

\* A call fails, or the request is cut off: what it has written stays.
Die(r) ==
  /\ req[r] # Idle
  /\ Goto(r, Idle)
  /\ died' = TRUE
  /\ UNCHANGED <<intake, log, approvals, overlaps>>

Step(r) == Create(r) \/ Attest(r) \/ Join(r) \/ Commit(r) \/ Resolve(r)

Next ==
  \/ \E i \in Item : Submit(i)
  \/ \E r \in Request, i \in Item : Dismiss(r, i) \/ \E h \in Human : Approve(r, i, h)
  \/ \E r \in Request : Step(r) \/ Die(r)

Spec == Init /\ [][Next]_vars

-----------------------------------------------------------------------------

\* The substance of an item on the ledger: the thread it became, or what it
\* added to the thread it targets.
Traces(i) ==
  UNION {{t} \X {n \in DOMAIN log[t] : /\ log[t][n].item = i
                                       /\ t \in Old \/ log[t][n].kind = "ThreadCreated"}
           : t \in Thread}

(***************************************************************************)
(* An item is marked approved only once its substance is on the ledger, in *)
(* the thread the row names, whoever else resolves it meanwhile and        *)
(* whatever dies (the triage routes, resolveIntake).                       *)
(***************************************************************************)
ApprovedIsRecorded ==
  \A i \in Item :
    intake[i].status = "approved" =>
      \E trace \in Traces(i) : trace[1] = intake[i].thread

(***************************************************************************)
(* Whatever stands on the ledger can be found from its item again, also    *)
(* when a dismissal came last: the row keeps the thread, unless the        *)
(* request that wrote died or has yet to resolve.                          *)
(***************************************************************************)
TracedFromItem ==
  (~ died /\ \A r \in Request : req[r] = Idle) =>
    \A i \in Item : Traces(i) # {} => \E trace \in Traces(i) : trace[1] = intake[i].thread

\* Requests came one after the other and each of them made all its calls.
OneByOne == ~ overlaps /\ ~ died

(***************************************************************************)
(* "Idempotency is enforced by the caller (it refuses to act on a          *)
(* non-pending item)": unless triage requests overlap or die, no item      *)
(* reaches the ledger twice, and nothing of a dismissed one stands there.  *)
(***************************************************************************)
AtMostOnce ==
  OneByOne =>
    \A i \in Item :
      /\ Cardinality(Traces(i)) <= 1
      /\ intake[i].status = "dismissed" => Traces(i) = {}
=============================================================================

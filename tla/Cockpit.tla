------------------------------ MODULE Cockpit -------------------------------
(***************************************************************************)
(* The two paths by which the cockpit's worker records events, checked     *)
(* side by side: a thread's own requests (AppThread) and the triage of     *)
(* intake rows (Intake).  They share no state here, so a behaviour of this *)
(* module is one of either of them while the other stays as it starts.     *)
(***************************************************************************)
EXTENDS AppThread

CONSTANTS Item, Thread, Old, Triage, Human, MaxApprovals

VARIABLES
  part,  \* the part this behaviour is of
  intake, logs, triage, approvals, triageDied, overlaps  \* Intake

intakeVars == <<intake, logs, triage, approvals, triageDied, overlaps>>

Inbox == INSTANCE Intake WITH Request <- Triage, log <- logs, req <- triage,
                              died <- triageDied

ASSUME CockpitAssumption ==
  /\ Old \subseteq Thread
  /\ Inbox!Null \notin Thread \cup Item
  /\ MaxApprovals \in Nat

InitParts == part \in {"thread", "inbox"} /\ Init /\ Inbox!Init

NextThread == part = "thread" /\ Next /\ UNCHANGED <<part, intakeVars>>

NextInbox == part = "inbox" /\ Inbox!Next /\ UNCHANGED <<part, vars>>

SpecParts == InitParts /\ [][NextThread \/ NextInbox]_<<part, vars, intakeVars>>

-----------------------------------------------------------------------------

\* Intake: an approved row is recorded as it says.
ApprovedIsRecorded == Inbox!ApprovedIsRecorded

\* Intake: what was triaged into a log names its row.
TracedFromItem == Inbox!TracedFromItem

\* Intake: a row is recorded at most once, unless requests overlapped or died.
AtMostOnce == Inbox!AtMostOnce
=============================================================================

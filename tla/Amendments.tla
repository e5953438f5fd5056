------------------------------ MODULE Amendments ------------------------------
(***************************************************************************)
(* From what came of a decision to a change of the protocol: outcomes are  *)
(* audited, signals learned from them, reviews recommended on the signals, *)
(* amendments proposed on the recommendations, and approved by authority   *)
(* (packages/protocol/src/learning.js, adaptation.js, amendments.js, their *)
(* validators and commands).                                               *)
(*                                                                         *)
(* Signals and recommendations are recorded by events, and derived by the  *)
(* projection as well, from the audits and from the signals it shows; what *)
(* is derived has an id of its own (a hash of what it is derived from) and *)
(* is listed beside what is recorded, but the validator, that reads events *)
(* alone, does not know it.                                                *)
(*                                                                         *)
(* What an event must say (a pattern, a finding, a rationale, no field     *)
(* that scores or mutates) is taken to be said.                            *)
(***************************************************************************)
EXTENDS Naturals, FiniteSets

CONSTANTS
  Outcome,      \* ids of outcomes
  Signal,       \* ids of recorded learning signals
  Advice,       \* ids of recorded recommendations
  Amendment,    \* ids of amendments
  Participant,  \* known participants of the thread
  MaxHeight     \* bound: events of the log

VARIABLES
  audits,    \* audits[o]: its result; an id may be audited again
  signals,   \* signals[s]: bySignal, what was recorded of it last
  advice,    \* advice[r]: the signals it was recommended on
  declared,  \* outcomes that were expected, or scored
  strays,    \* recommendations that came in the payload of an event of another type
  proposals, \* proposals[a]: what the amendment cites
  status,    \* amendmentStatusIndex: the validator's view
  shown,     \* projectAmendments: the reader's view
  owners,    \* decision owners of the thread
  height,    \* events of the log
  valid      \* the log is valid

learnVars == <<audits, signals, advice, declared, strays>>
amendVars == <<proposals, status, shown>>
vars == <<learnVars, amendVars, owners, height, valid>>

NoSignal    == [pattern |-> "none"]
NoAdvice    == [on |-> {}]
NoProposal  == [rests |-> "none"]
NotShown    == [status |-> "none"]

-----------------------------------------------------------------------------
(* The projection of what is learned *)

Recorded == {s \in Signal : signals[s] # NoSignal}
Advised  == {r \in Advice : advice[r] # NoAdvice}

\* deriveOutcomeLearning: of another result, another signal.
Learned == {[from |-> o, pattern |-> audits[o]] : o \in {p \in Outcome : audits[p] # "none"}}

\* Mutant: what was learned of outcomes is shown where there is any.
SignalsShown_OutcomesFirst == IF Learned = {} THEN Recorded ELSE Learned

SignalsShown == Learned \cup Recorded

PatternOf(s) == IF s \in Signal THEN signals[s].pattern ELSE s.pattern

\* deriveAdaptationRecommendations: a failed outcome is to be reviewed, whoever
\* found it so.
Suggested == {[on |-> s] : s \in {t \in SignalsShown : PatternOf(t) = "failed"}}

AdviceShown == Suggested \cup Advised

-----------------------------------------------------------------------------
(* The validator *)

Audited == {o \in Outcome : audits[o] # "none"}

\* validateLearningReferences: an outcome is known by its audit, or by having been
\* expected or scored; that the id is free is not asked.
SignalAccepted(e) == e.about \subseteq Audited \cup declared

\* validateAdaptationReferences
AdviceAccepted(e) == e.on # {} /\ e.on \subseteq Recorded

Proposed(a) == status[a] # "none"

\* validateProtocolAmendment: a recommendation is looked for in any payload.
ProposeAccepted(e) ==
  ~ Proposed(e.id) /\ e.cites \subseteq Recorded /\ e.rests \subseteq Advised \cup strays

\* The one who is said to settle it, or the one who writes the event.
Authorized(e) == e.as \in owners \/ e.by \in owners

ApproveAccepted(e) == status[e.of] = "pending" /\ Authorized(e)

\* Mutant: what is approved may be rejected yet.
RejectAccepted_Approved(e) == status[e.of] \in {"pending", "approved"} /\ Authorized(e)

RejectAccepted(e) == status[e.of] = "pending" /\ Authorized(e)

\* The replacement may have any status.
SupersedeAccepted(e) ==
  status[e.of] = "approved" /\ Proposed(e.replacement) /\ e.replacement # e.of /\ Authorized(e)

-----------------------------------------------------------------------------
(* What the events leave *)

Signed(type) == [type : {type}, of : Amendment, as : Participant, by : Participant]

AuditEvent     == [type : {"OutcomeAudited"}, id : Outcome, result : {"failed", "confirmed"}]
SignalEvent    == [type : {"LearningSignalRecorded"}, id : Signal, about : SUBSET Outcome,
                   pattern : {"failed", "other"}]
AdviceEvent    == [type : {"GovernanceReviewRecommended"}, id : Advice, on : SUBSET Signal]
ProposeEvent   == [type : {"ProtocolAmendmentProposed"}, id : Amendment,
                   cites : SUBSET Signal, rests : SUBSET Advice]
ApproveEvent   == Signed("ProtocolAmendmentApproved")
RejectEvent    == Signed("ProtocolAmendmentRejected")
SupersedeEvent == [type : {"ProtocolAmendmentSuperseded"}, of : Amendment,
                   replacement : Amendment, as : Participant, by : Participant]

\* The log grows by an event, and stays valid.
Grown(n) == valid /\ height + n <= MaxHeight /\ height' = height + n /\ UNCHANGED valid

Settle(a, to) ==
  /\ status' = [status EXCEPT ![a] = to]
  /\ UNCHANGED <<learnVars, proposals, owners>>

Audit(e) ==
  /\ Grown(1)
  /\ audits' = [audits EXCEPT ![e.id] = e.result]
  /\ UNCHANGED <<signals, advice, declared, strays, amendVars, owners>>

Learn(e) ==
  /\ SignalAccepted(e)
  /\ Grown(1)
  /\ signals' = [signals EXCEPT ![e.id] = [pattern |-> e.pattern, about |-> e.about]]
  /\ UNCHANGED <<audits, advice, declared, strays, amendVars, owners>>

Advise(e) ==
  /\ AdviceAccepted(e)
  /\ Grown(1)
  /\ advice' = [advice EXCEPT ![e.id] = [on |-> e.on]]
  /\ UNCHANGED <<audits, signals, declared, strays, amendVars, owners>>

Propose(e) ==
  /\ ProposeAccepted(e)
  /\ Grown(1)
  /\ proposals' = [proposals EXCEPT ![e.id] = [cites |-> e.cites, rests |-> e.rests]]
  /\ status' = [status EXCEPT ![e.id] = "pending"]
  /\ shown' = [shown EXCEPT ![e.id] = [status |-> "pending", active |-> FALSE,
                                       approval |-> {}, rejection |-> {}, successor |-> {}]]
  /\ UNCHANGED <<learnVars, owners>>

Approve(e) ==
  /\ ApproveAccepted(e)
  /\ Grown(1)
  /\ Settle(e.of, "approved")
  /\ shown' = [shown EXCEPT ![e.of].status = "approved", ![e.of].active = TRUE,
                            ![e.of].approval = {e.as}, ![e.of].rejection = {}]

Reject(e) ==
  /\ RejectAccepted(e)
  /\ Grown(1)
  /\ Settle(e.of, "rejected")
  /\ shown' = [shown EXCEPT ![e.of].status = "rejected", ![e.of].active = FALSE,
                            ![e.of].rejection = {e.as}]

Supersede(e) ==
  /\ SupersedeAccepted(e)
  /\ Grown(1)
  /\ Settle(e.of, "superseded")
  /\ shown' = [shown EXCEPT ![e.of].status = "superseded", ![e.of].active = FALSE,
                            ![e.of].successor = {e.replacement}]

\* ExpectedOutcomeDeclared, DecisionScored
Declare(o) ==
  /\ Grown(1)
  /\ declared' = declared \cup {o}
  /\ UNCHANGED <<audits, signals, advice, strays, amendVars, owners>>

\* An event of any other type, with a recommendation in its payload that nothing asks
\* for: its own validator does not look at it, no list shows it.
Stray(r) ==
  /\ Grown(1)
  /\ strays' = strays \cup {r}
  /\ UNCHANGED <<audits, signals, advice, declared, amendVars, owners>>

\* A review, a pattern, a remark: nothing here depends on them.
Remark ==
  /\ Grown(1)
  /\ UNCHANGED <<learnVars, amendVars, owners>>

\* Decision ownership comes and goes (identity.js).
Entrust(p) ==
  /\ Grown(1)
  /\ owners' = (owners \ {p}) \cup ({p} \ owners)
  /\ UNCHANGED <<learnVars, amendVars>>

\* amendmentPropose cites what it is told and appends what it has built without
\* validation.  What learning list and adaptation list show may be cited.
ProposeCommand(a, s, r) ==
  /\ valid
  /\ height < MaxHeight
  /\ s \subseteq SignalsShown
  /\ r \subseteq AdviceShown
  /\ ~ ProposeAccepted([id |-> a, cites |-> s, rests |-> r])
  /\ height' = height + 1
  /\ valid' = FALSE
  /\ UNCHANGED <<learnVars, amendVars, owners>>

-----------------------------------------------------------------------------

Init ==
  /\ audits = [o \in Outcome |-> "none"]
  /\ signals = [s \in Signal |-> NoSignal]
  /\ advice = [r \in Advice |-> NoAdvice]
  /\ declared = {}
  /\ strays = {}
  /\ proposals = [a \in Amendment |-> NoProposal]
  /\ status = [a \in Amendment |-> "none"]
  /\ shown = [a \in Amendment |-> NotShown]
  /\ owners \in SUBSET Participant
  /\ height = 1
  /\ valid = TRUE

Next ==
  \/ \E e \in AuditEvent : Audit(e)
  \/ \E e \in SignalEvent : Learn(e)
  \/ \E e \in AdviceEvent : Advise(e)
  \/ \E e \in ProposeEvent : Propose(e)
  \/ \E e \in ApproveEvent : Approve(e)
  \/ \E e \in RejectEvent : Reject(e)
  \/ \E e \in SupersedeEvent : Supersede(e)
  \/ \E o \in Outcome : Declare(o)
  \/ \E r \in Advice : Stray(r)
  \/ Remark
  \/ \E p \in Participant : Entrust(p)
  \/ \E a \in Amendment, s \in SignalsShown, r \in AdviceShown : ProposeCommand(a, {s}, {r})

Spec == Init /\ [][Next]_vars

-----------------------------------------------------------------------------

(***************************************************************************)
(* An amendment is followed back from what readers are shown: the signals  *)
(* and recommendations it cites are listed, whatever has been recorded or  *)
(* audited again since, a recommendation is listed with a signal it rests  *)
(* on, and a signal with the outcomes it is about, but for those that were *)
(* expected and not audited (learning.js, adaptation.js, amendments.js:    *)
(* references to "unknown or future" ones).  The one recommendation that   *)
(* may be cited and listed nowhere is one that came in an event of a type  *)
(* that is not for it.                                                     *)
(***************************************************************************)
CitedIsShown ==
  valid =>
    \A a \in {b \in Amendment : proposals[b] # NoProposal} :
      /\ proposals[a].cites \subseteq SignalsShown
      /\ proposals[a].rests \subseteq AdviceShown \cup strays
      /\ \A r \in proposals[a].rests \cap Advised :
           \E s \in advice[r].on :
             /\ s \in SignalsShown
             /\ signals[s].about \subseteq {l.from : l \in Learned} \cup declared

(***************************************************************************)
(* "Rejected amendments and superseded amendments remain auditable but do  *)
(* not alter active protocol state" (milestone-13.md): the reader's status *)
(* is the validator's, what is active is approved, what was rejected never *)
(* was approved, and what was superseded still shows that it was and by    *)
(* what.                                                                   *)
(***************************************************************************)
ShownAsSettled ==
  valid =>
    \A a \in Amendment :
      /\ shown[a].status = status[a]
      /\ Proposed(a) =>
           /\ shown[a].active <=> status[a] = "approved"
           /\ shown[a].approval # {} <=> status[a] \in {"approved", "superseded"}
           /\ shown[a].rejection # {} <=> status[a] = "rejected"
           /\ \A b \in shown[a].successor : Proposed(b) /\ status[a] = "superseded"
=============================================================================

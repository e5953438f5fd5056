--------------------------- MODULE ProtocolProofs ----------------------------
(***************************************************************************)
(* The parts of the protocol package beside the life of a decision, for    *)
(* any ids and participants and logs of any length.  Each part has an      *)
(* invariant of its own, which the steps of the others leave alone.        *)
(***************************************************************************)
EXTENDS ProtocolParts, TLAPS

-----------------------------------------------------------------------------
(* Amendments *)

SignalRecord   == [pattern : {"failed", "other"}, about : SUBSET Outcome]
ProposalRecord == [cites : SUBSET Signal, rests : SUBSET Advice]
ShownRecord    == [status : {"pending", "approved", "rejected", "superseded"}, active : BOOLEAN,
                   approval : SUBSET Decider, rejection : SUBSET Decider,
                   successor : SUBSET Amendment]

AmendTypeOK ==
  /\ audits \in [Outcome -> {"none", "failed", "confirmed"}]
  /\ signals \in [Signal -> SignalRecord \cup {Amending!NoSignal}]
  /\ advice \in [Advice -> [on : SUBSET Signal]]
  /\ proposals \in [Amendment -> ProposalRecord \cup {Amending!NoProposal}]
  /\ status \in [Amendment -> {"none", "pending", "approved", "rejected", "superseded"}]
  /\ shown \in [Amendment -> ShownRecord \cup {Amending!NotShown}]

\* Signals are of outcomes that are known, recommendations of signals that were
\* recorded, amendments of both.
AmendmentsRest ==
  /\ \A s \in Amending!Recorded : signals[s].about \subseteq Amending!Audited \cup declared
  /\ \A r \in Advice : advice[r].on \subseteq Amending!Recorded
  /\ \A a \in Amendment : proposals[a] # Amending!NoProposal =>
       /\ proposals[a].cites \subseteq Amending!Recorded
       /\ proposals[a].rests \subseteq Amending!Advised \cup strays

\* What is shown of an amendment, status by status.
ShownByStatus ==
  \A a \in Amendment :
    /\ shown[a].status = status[a]
    /\ Amending!Proposed(a) =>
         /\ shown[a].active <=> status[a] = "approved"
         /\ shown[a].approval # {} <=> status[a] \in {"approved", "superseded"}
         /\ shown[a].rejection # {} <=> status[a] = "rejected"
         /\ \A b \in shown[a].successor : Amending!Proposed(b) /\ status[a] = "superseded"

AmendInv == AmendTypeOK /\ AmendmentsRest /\ ShownByStatus

LEMMA NothingAmended ==
  /\ Amending!NoSignal \notin SignalRecord
  /\ Amending!NoProposal \notin ProposalRecord
  /\ Amending!NotShown \notin ShownRecord
<1>1. Amending!NoSignal.pattern = "none" /\ Amending!NotShown.status = "none"
  BY DEF Amending!NoSignal, Amending!NotShown
<1>2. /\ \A r \in ProposalRecord : "cites" \in DOMAIN r
      /\ "cites" \notin DOMAIN Amending!NoProposal
  BY DEF ProposalRecord, Amending!NoProposal
<1> QED
  BY <1>1, <1>2 DEF SignalRecord, ShownRecord

LEMMA AmendInit == Amending!Init => AmendInv
  BY DEF Amending!Init, AmendInv, AmendTypeOK, AmendmentsRest, ShownByStatus, Amending!NoSignal,
         Amending!NoAdvice, Amending!NoProposal, Amending!NotShown, Amending!Proposed,
         Amending!Recorded

\* What is there does not go: another audit, signal or recommendation under an id
\* leaves one there.
LEMMA LearnStep ==
  ASSUME AmendInv, UNCHANGED <<proposals, status, shown>>,
         audits' \in [Outcome -> {"none", "failed", "confirmed"}],
         signals' \in [Signal -> SignalRecord \cup {Amending!NoSignal}],
         advice' \in [Advice -> [on : SUBSET Signal]],
         Amending!Audited \subseteq Amending!Audited',
         Amending!Recorded \subseteq Amending!Recorded',
         Amending!Advised \subseteq Amending!Advised',
         declared \subseteq declared', strays \subseteq strays',
         \A s \in Amending!Recorded' :
           signals'[s].about \subseteq Amending!Audited' \cup declared',
         \A r \in Advice : advice'[r].on \subseteq Amending!Recorded'
  PROVE  AmendInv'
<1>1. AmendTypeOK'
  BY DEF AmendInv, AmendTypeOK
<1>2. AmendmentsRest'
  BY DEF AmendInv, AmendmentsRest
<1>3. ShownByStatus'
  BY DEF AmendInv, ShownByStatus, Amending!Proposed
<1> QED
  BY <1>1, <1>2, <1>3 DEF AmendInv

LEMMA AuditKeeps ==
  ASSUME AmendInv, NEW e \in Amending!AuditEvent, Amending!Audit(e)
  PROVE  AmendInv'
<1>1. /\ UNCHANGED <<signals, advice, declared, strays, proposals, status, shown>>
      /\ e.id \in Outcome /\ e.result \in {"failed", "confirmed"}
      /\ audits' = [audits EXCEPT ![e.id] = e.result]
  BY DEF Amending!Audit, Amending!amendVars, Amending!AuditEvent
<1>2. /\ audits' \in [Outcome -> {"none", "failed", "confirmed"}]
      /\ \A o \in Outcome : audits[o] # "none" => audits'[o] # "none"
  BY <1>1 DEF AmendInv, AmendTypeOK
<1>3. Amending!Audited \subseteq Amending!Audited'
  BY <1>2 DEF Amending!Audited
<1> QED
  BY <1>1, <1>2, <1>3, LearnStep
  DEF AmendInv, AmendTypeOK, AmendmentsRest, Amending!Recorded, Amending!Advised

LEMMA LearnKeeps ==
  ASSUME AmendInv, NEW e \in Amending!SignalEvent, Amending!Learn(e)
  PROVE  AmendInv'
<1> DEFINE record == [pattern |-> e.pattern, about |-> e.about]
<1>1. /\ UNCHANGED <<audits, advice, declared, strays, proposals, status, shown>>
      /\ e.id \in Signal
      /\ record \in SignalRecord /\ record.about \subseteq Amending!Audited \cup declared
      /\ signals' = [signals EXCEPT ![e.id] = record]
  BY DEF Amending!Learn, Amending!amendVars, Amending!SignalEvent, Amending!SignalAccepted,
         SignalRecord
<1> HIDE DEF record
<1>2. /\ signals' \in [Signal -> SignalRecord \cup {Amending!NoSignal}]
      /\ signals'[e.id] = record
      /\ \A s \in Signal \ {e.id} : signals'[s] = signals[s]
  BY <1>1 DEF AmendInv, AmendTypeOK
<1>3. /\ Amending!Recorded \subseteq Amending!Recorded'
      /\ Amending!Recorded' \subseteq Amending!Recorded \cup {e.id}
  BY <1>1, <1>2, NothingAmended DEF Amending!Recorded
<1>4. \A s \in Amending!Recorded' :
        signals'[s].about \subseteq Amending!Audited' \cup declared'
  BY <1>1, <1>2, <1>3 DEF AmendInv, AmendmentsRest, Amending!Audited, Amending!Recorded
<1> QED
  BY <1>1, <1>2, <1>3, <1>4, LearnStep
  DEF AmendInv, AmendTypeOK, AmendmentsRest, Amending!Audited, Amending!Advised

LEMMA AdviseKeeps ==
  ASSUME AmendInv, NEW e \in Amending!AdviceEvent, Amending!Advise(e)
  PROVE  AmendInv'
<1> DEFINE record == [on |-> e.on]
<1>1. /\ UNCHANGED <<audits, signals, declared, strays, proposals, status, shown>>
      /\ e.id \in Advice
      /\ record \in [on : SUBSET Signal] /\ record.on = e.on
      /\ e.on # {} /\ e.on \subseteq Amending!Recorded
      /\ advice' = [advice EXCEPT ![e.id] = record]
  BY DEF Amending!Advise, Amending!amendVars, Amending!AdviceEvent, Amending!AdviceAccepted
<1>2. record # Amending!NoAdvice
  BY <1>1 DEF Amending!NoAdvice
<1> HIDE DEF record
<1>3. /\ advice' \in [Advice -> [on : SUBSET Signal]]
      /\ advice'[e.id] = record
      /\ \A r \in Advice \ {e.id} : advice'[r] = advice[r]
  BY <1>1 DEF AmendInv, AmendTypeOK
<1>4. Amending!Advised \subseteq Amending!Advised'
  BY <1>2, <1>3 DEF Amending!Advised
<1>5. \A r \in Advice : advice'[r].on \subseteq Amending!Recorded'
  BY <1>1, <1>3 DEF AmendInv, AmendmentsRest, Amending!Recorded
<1> QED
  BY <1>1, <1>3, <1>4, <1>5, LearnStep
  DEF AmendInv, AmendTypeOK, AmendmentsRest, Amending!Recorded, Amending!Audited

LEMMA ProposeKeeps ==
  ASSUME AmendInv, NEW e \in Amending!ProposeEvent, Amending!Propose(e)
  PROVE  AmendInv'
<1> DEFINE a0 == e.id
           record == [cites |-> e.cites, rests |-> e.rests]
           first  == [status |-> "pending", active |-> FALSE, approval |-> {}, rejection |-> {},
                      successor |-> {}]
<1>1. /\ UNCHANGED <<audits, signals, advice, declared, strays>>
      /\ a0 \in Amendment /\ ~ Amending!Proposed(a0)
      /\ record \in ProposalRecord
      /\ record.cites \subseteq Amending!Recorded /\ record.rests \subseteq Amending!Advised \cup strays
      /\ proposals' = [proposals EXCEPT ![a0] = record]
      /\ status' = [status EXCEPT ![a0] = "pending"]
      /\ shown' = [shown EXCEPT ![a0] = first]
  BY DEF Amending!Propose, Amending!learnVars, Amending!ProposeEvent, Amending!ProposeAccepted,
         ProposalRecord
<1>2. /\ first \in ShownRecord
      /\ first.status = "pending" /\ ~ first.active /\ first.approval = {}
      /\ first.rejection = {} /\ first.successor = {}
  BY DEF ShownRecord
<1> HIDE DEF record, first
<1>3. AmendTypeOK'
  BY <1>1, <1>2 DEF AmendInv, AmendTypeOK
<1>4. AmendmentsRest'
  BY <1>1 DEF AmendInv, AmendTypeOK, AmendmentsRest, Amending!Recorded, Amending!Advised,
              Amending!Audited
<1>5. /\ status'[a0] = "pending" /\ shown'[a0] = first
      /\ \A a \in Amendment \ {a0} : status'[a] = status[a] /\ shown'[a] = shown[a]
  BY <1>1 DEF AmendInv, AmendTypeOK
<1>6. \A a \in Amendment \ {a0} : \A b \in shown[a].successor :
        Amending!Proposed(a) => Amending!Proposed(b)'
  <2>1. ASSUME NEW a \in Amendment \ {a0}, Amending!Proposed(a)
        PROVE  shown[a].successor \subseteq Amendment
    BY <2>1 DEF AmendInv, AmendTypeOK, ShownByStatus, ShownRecord, Amending!NotShown,
                Amending!Proposed
  <2> QED
    BY <1>5, <2>1 DEF AmendInv, ShownByStatus, Amending!Proposed
<1>7. ShownByStatus'
  BY <1>2, <1>5, <1>6 DEF AmendInv, ShownByStatus, Amending!Proposed
<1> QED
  BY <1>3, <1>4, <1>7 DEF AmendInv

\* Approved, rejected or superseded: only the one amendment changes, and what it
\* cites stays.
LEMMA SettleKeeps ==
  ASSUME AmendInv, NEW a0 \in Amendment, NEW to \in {"approved", "rejected", "superseded"},
         Amending!Proposed(a0), Amending!Settle(a0, to),
         NEW new \in ShownRecord, shown' = [shown EXCEPT ![a0] = new],
         new.status = to,
         new.active <=> to = "approved",
         new.approval # {} <=> to \in {"approved", "superseded"},
         new.rejection # {} <=> to = "rejected",
         \A b \in new.successor : Amending!Proposed(b) /\ to = "superseded"
  PROVE  AmendInv'
<1>1. /\ UNCHANGED <<audits, signals, advice, declared, strays, proposals>>
      /\ status' = [status EXCEPT ![a0] = to]
  BY DEF Amending!Settle, Amending!learnVars
<1>2. AmendTypeOK'
  BY <1>1 DEF AmendInv, AmendTypeOK
<1>3. AmendmentsRest'
  BY <1>1 DEF AmendInv, AmendmentsRest, Amending!Recorded, Amending!Advised, Amending!Audited
<1>4. /\ status'[a0] = to /\ shown'[a0] = new
      /\ \A a \in Amendment \ {a0} : status'[a] = status[a] /\ shown'[a] = shown[a]
  BY <1>1 DEF AmendInv, AmendTypeOK
<1>5. /\ \A b \in Amendment : Amending!Proposed(b) => Amending!Proposed(b)'
      /\ new.successor \subseteq Amendment
  BY <1>4 DEF Amending!Proposed, ShownRecord
<1>6. \A a \in Amendment : Amending!Proposed(a) => shown[a].successor \subseteq Amendment
  BY DEF AmendInv, AmendTypeOK, ShownByStatus, ShownRecord, Amending!NotShown, Amending!Proposed
<1>7. ShownByStatus'
  BY <1>4, <1>5, <1>6 DEF AmendInv, ShownByStatus, Amending!Proposed
<1> QED
  BY <1>2, <1>3, <1>7 DEF AmendInv

\* What is shown of an amendment that was proposed.
LEMMA ShownRecorded ==
  ASSUME AmendInv, NEW a \in Amendment, Amending!Proposed(a)
  PROVE  shown[a] \in ShownRecord
  BY DEF AmendInv, AmendTypeOK, ShownByStatus, Amending!NotShown, Amending!Proposed

LEMMA ApproveKeeps ==
  ASSUME AmendInv, NEW e \in Amending!ApproveEvent, Amending!Approve(e)
  PROVE  AmendInv'
<1> DEFINE a0 == e.of
           new == [shown[a0] EXCEPT !.status = "approved", !.active = TRUE,
                                    !.approval = {e.as}, !.rejection = {}]
<1>1. /\ a0 \in Amendment /\ e.as \in Decider /\ status[a0] = "pending"
      /\ Amending!Settle(a0, "approved")
      /\ shown' = [shown EXCEPT ![a0] = new]
  BY DEF Amending!Approve, Amending!ApproveEvent, Amending!Signed, Amending!ApproveAccepted,
         AmendInv, AmendTypeOK
<1>2. Amending!Proposed(a0)
  BY <1>1 DEF Amending!Proposed
<1>3. shown[a0] \in ShownRecord
  BY <1>1, <1>2, ShownRecorded
<1>4. shown[a0].successor = {}
  BY <1>1, <1>2 DEF AmendInv, ShownByStatus
<1>5. /\ new \in ShownRecord
      /\ new.status = "approved" /\ new.active /\ new.approval # {} /\ new.rejection = {}
      /\ new.successor = {}
  BY <1>1, <1>3, <1>4 DEF ShownRecord
<1> HIDE DEF new
<1> QED
  BY <1>1, <1>2, <1>5, SettleKeeps

LEMMA RejectKeeps ==
  ASSUME AmendInv, NEW e \in Amending!RejectEvent, Amending!Reject(e)
  PROVE  AmendInv'
<1> DEFINE a0 == e.of
           new == [shown[a0] EXCEPT !.status = "rejected", !.active = FALSE,
                                    !.rejection = {e.as}]
<1>1. /\ a0 \in Amendment /\ e.as \in Decider /\ status[a0] = "pending"
      /\ Amending!Settle(a0, "rejected")
      /\ shown' = [shown EXCEPT ![a0] = new]
  BY DEF Amending!Reject, Amending!RejectEvent, Amending!Signed, Amending!RejectAccepted,
         AmendInv, AmendTypeOK
<1>2. Amending!Proposed(a0)
  BY <1>1 DEF Amending!Proposed
<1>3. shown[a0] \in ShownRecord
  BY <1>1, <1>2, ShownRecorded
<1>4. shown[a0].successor = {} /\ shown[a0].approval = {}
  BY <1>1, <1>2 DEF AmendInv, ShownByStatus
<1>5. /\ new \in ShownRecord
      /\ new.status = "rejected" /\ ~ new.active /\ new.approval = {} /\ new.rejection # {}
      /\ new.successor = {}
  BY <1>1, <1>3, <1>4 DEF ShownRecord
<1> HIDE DEF new
<1> QED
  BY <1>1, <1>2, <1>5, SettleKeeps

LEMMA SupersedeKeeps ==
  ASSUME AmendInv, NEW e \in Amending!SupersedeEvent, Amending!Supersede(e)
  PROVE  AmendInv'
<1> DEFINE a0 == e.of
           new == [shown[a0] EXCEPT !.status = "superseded", !.active = FALSE,
                                    !.successor = {e.replacement}]
<1>1. /\ a0 \in Amendment /\ e.replacement \in Amendment
      /\ status[a0] = "approved" /\ Amending!Proposed(e.replacement)
      /\ Amending!Settle(a0, "superseded")
      /\ shown' = [shown EXCEPT ![a0] = new]
  BY DEF Amending!Supersede, Amending!SupersedeEvent, Amending!SupersedeAccepted,
         AmendInv, AmendTypeOK
<1>2. Amending!Proposed(a0)
  BY <1>1 DEF Amending!Proposed
<1>3. shown[a0] \in ShownRecord
  BY <1>1, <1>2, ShownRecorded
<1>4. shown[a0].approval # {} /\ shown[a0].rejection = {}
  BY <1>1, <1>2 DEF AmendInv, ShownByStatus
<1>5. /\ new \in ShownRecord
      /\ new.status = "superseded" /\ ~ new.active /\ new.approval # {} /\ new.rejection = {}
      /\ new.successor = {e.replacement}
  BY <1>1, <1>3, <1>4 DEF ShownRecord
<1> HIDE DEF new
<1> QED
  BY <1>1, <1>2, <1>5, SettleKeeps

LEMMA RemarkKeeps ==
  ASSUME AmendInv,
         \/ \E o \in Outcome : Amending!Declare(o)
         \/ \E r \in Advice : Amending!Stray(r)
  PROVE  AmendInv'
<1>1. /\ UNCHANGED <<audits, signals, advice, proposals, status, shown>>
      /\ declared \subseteq declared' /\ strays \subseteq strays'
  BY DEF Amending!Declare, Amending!Stray, Amending!amendVars
<1>2. /\ Amending!Recorded' = Amending!Recorded /\ Amending!Audited' = Amending!Audited
      /\ Amending!Advised' = Amending!Advised
  BY <1>1 DEF Amending!Recorded, Amending!Audited, Amending!Advised
<1> QED
  BY <1>1, <1>2, LearnStep DEF AmendInv, AmendTypeOK, AmendmentsRest

LEMMA AmendNext == AmendInv /\ Amending!Next => AmendInv'
<1> SUFFICES ASSUME AmendInv, Amending!Next PROVE AmendInv'
  OBVIOUS
<1>1. ASSUME UNCHANGED <<audits, signals, advice, declared, strays, proposals, status, shown>>
      PROVE  AmendInv'
  BY <1>1 DEF AmendInv, AmendTypeOK, AmendmentsRest, ShownByStatus, Amending!Recorded,
              Amending!Advised, Amending!Audited, Amending!Proposed
<1>2. CASE \/ Amending!Remark
           \/ \E p \in Decider : Amending!Entrust(p)
           \/ \E a \in Amendment, s \in Amending!SignalsShown, r \in Amending!AdviceShown :
                Amending!ProposeCommand(a, {s}, {r})
  BY <1>1, <1>2 DEF Amending!Remark, Amending!Entrust, Amending!ProposeCommand,
                    Amending!learnVars, Amending!amendVars
<1> QED
  BY <1>2, AuditKeeps, LearnKeeps, AdviseKeeps, ProposeKeeps, ApproveKeeps, RejectKeeps,
     SupersedeKeeps, RemarkKeeps
  DEF Amending!Next

AmendPart == part = "amendments" => AmendInv

LEMMA AmendPartHolds == Spec => []AmendPart
<1>1. Init => AmendPart
  BY AmendInit DEF Init, AmendPart
<1>2. AmendPart /\ [Next]_partsVars => AmendPart'
  <2> SUFFICES ASSUME AmendPart, [Next]_partsVars, part' = "amendments" PROVE AmendInv'
    BY DEF AmendPart
  <2>1. CASE NextAmendments
    BY <2>1, AmendNext DEF NextAmendments, AmendPart
  <2>2. CASE NextRecovery \/ NextMerges \/ NextStore \/ NextExchange
    BY <2>2 DEF NextRecovery, NextMerges, NextStore, NextExchange
  <2>3. CASE UNCHANGED partsVars
    BY <2>3 DEF partsVars, amendVars, AmendPart, AmendInv, AmendTypeOK, AmendmentsRest,
                ShownByStatus, Amending!Recorded, Amending!Advised, Amending!Audited,
                Amending!Proposed
  <2> QED
    BY <2>1, <2>2, <2>3 DEF Next
<1> QED
  BY <1>1, <1>2, PTL DEF Spec

\* What an amendment cites is listed, down to the outcomes, for any number of
\* outcomes, signals, recommendations and amendments.
THEOREM CitationsAreShown == Spec => []CitedIsShown
<1>1. AmendPart => CitedIsShown
  <2> SUFFICES ASSUME AmendInv, NEW a \in Amendment, proposals[a] # Amending!NoProposal
               PROVE  /\ proposals[a].cites \subseteq Amending!SignalsShown
                      /\ proposals[a].rests \subseteq Amending!AdviceShown \cup strays
                      /\ \A r \in proposals[a].rests \cap Amending!Advised :
                           \E s \in advice[r].on :
                             /\ s \in Amending!SignalsShown
                             /\ signals[s].about \subseteq
                                  {l.from : l \in Amending!Learned} \cup declared
    BY DEF AmendPart, CitedIsShown, Amending!CitedIsShown
  <2>1. /\ proposals[a].cites \subseteq Amending!SignalsShown
        /\ proposals[a].rests \subseteq Amending!AdviceShown \cup strays
    BY DEF AmendInv, AmendmentsRest, Amending!SignalsShown, Amending!AdviceShown
  <2>2. ASSUME NEW r \in proposals[a].rests \cap Amending!Advised
        PROVE  \E s \in advice[r].on : s \in Amending!Recorded
    <3>1. r \in Amending!Advised
      OBVIOUS
    <3>2. advice[r] \in [on : SUBSET Signal] /\ advice[r] # Amending!NoAdvice
      BY <3>1 DEF AmendInv, AmendTypeOK, Amending!Advised
    <3>3. advice[r].on # {}
      BY <3>2 DEF Amending!NoAdvice
    <3> QED
      BY <3>1, <3>3 DEF AmendInv, AmendmentsRest, Amending!Advised
  <2>3. ASSUME NEW o \in Amending!Audited
        PROVE  o \in {l.from : l \in Amending!Learned}
    <3> DEFINE l0 == [from |-> o, pattern |-> audits[o]]
    <3>1. l0 \in Amending!Learned /\ l0.from = o
      BY DEF Amending!Learned, Amending!Audited
    <3> HIDE DEF l0
    <3> QED
      BY <3>1
  <2> QED
    BY <2>1, <2>2, <2>3 DEF AmendInv, AmendmentsRest, Amending!SignalsShown
<1> QED
  BY <1>1, AmendPartHolds, PTL

\* What is shown of an amendment is what was settled.
THEOREM AmendmentsShowAsSettled == Spec => []ShownAsSettled
<1>1. AmendPart => ShownAsSettled
  BY DEF AmendPart, AmendInv, ShownAsSettled, Amending!ShownAsSettled, ShownByStatus
<1> QED
  BY <1>1, AmendPartHolds, PTL

-----------------------------------------------------------------------------
(* Reviews and recovery *)

ReviewRecord ==
  [about : Recovery \cup {Restoring!Elsewhere}, required : BOOLEAN,
   status : {"required", "open", "reviewed"}]
PlanRecord == [of : Recovery, review : Review]
QuarantineRecord ==
  [of : Recovery, plan : Plan, review : Review, emergency : BOOLEAN, at : Nat]
RepairRecord == [id : Repair, of : Recovery, plan : Plan, review : Review, at : Nat]

RecoveryTypeOK ==
  /\ reviews \in [Review -> ReviewRecord \cup {Restoring!NoReview}]
  /\ plans \in [Plan -> PlanRecord \cup {Restoring!NoPlan}]
  /\ requests \subseteq Recovery
  /\ quarantines \subseteq QuarantineRecord
  /\ repairs \subseteq RepairRecord
  /\ height \in Nat
  /\ \A q \in quarantines \cup repairs \cup verified : q.at \in Nat /\ q.at <= height

\* What is said of a review, and the status that the validator keeps of it.
ReviewsAgree ==
  \A v \in Review :
    /\ \A t : Restoring!Said(t, v) => reviews[v] # Restoring!NoReview
    /\ reviews[v] # Restoring!NoReview /\ ~ Restoring!Said("ReviewCompleted", v) =>
         reviews[v].status = IF Restoring!Said("ReviewOpened", v) THEN "open" ELSE "required"
    /\ Restoring!Completed(v) => Restoring!Said("ReviewCompleted", v)

PlansReviewed ==
  \A p \in Plan : plans[p] # Restoring!NoPlan =>
    Restoring!ReviewOf(plans[p].review, plans[p].of)

RepairsReviewed ==
  \A q \in quarantines \cup repairs :
    /\ Restoring!PlanOf(q.plan, q.of) /\ Restoring!ReviewOf(q.review, q.of)
    /\ (q \in quarantines /\ q.emergency) \/ Restoring!Said("ReviewCompleted", q.review)

\* A verification restores what came before it.
RestoredThen(v) ==
  /\ v.restored.marks = Restoring!Cardinality({q \in quarantines : q.of = v.of /\ q.at < v.at})
  /\ v.restored.applied = {a.id : a \in {b \in repairs : b.of = v.of /\ b.at < v.at}}
  /\ v.repair \in v.restored.applied

RecoveryInv ==
  /\ RecoveryTypeOK
  /\ valid => /\ ReviewsAgree /\ PlansReviewed /\ RepairsReviewed
              /\ \A v \in verified : RestoredThen(v)

LEMMA NothingRecovered ==
  /\ Restoring!NoReview \notin ReviewRecord
  /\ Restoring!NoPlan \notin PlanRecord
<1>1. Restoring!NoReview.status = "none"
  BY DEF Restoring!NoReview
<1>2. /\ \A r \in PlanRecord : "of" \in DOMAIN r
      /\ "of" \notin DOMAIN Restoring!NoPlan
  BY DEF PlanRecord, Restoring!NoPlan
<1> QED
  BY <1>1, <1>2 DEF ReviewRecord

LEMMA RecoveryInit == Restoring!Init => RecoveryInv
<1> SUFFICES ASSUME Restoring!Init PROVE RecoveryInv
  OBVIOUS
<1>1. RecoveryTypeOK
  BY DEF Restoring!Init, RecoveryTypeOK
<1>2. \A v \in Review : reviews[v] = Restoring!NoReview /\ ~ Restoring!Completed(v)
                          /\ \A t : ~ Restoring!Said(t, v)
  BY DEF Restoring!Init, Restoring!Said, Restoring!Completed, Restoring!NoReview
<1> QED
  BY <1>1, <1>2
  DEF Restoring!Init, RecoveryInv, ReviewsAgree, PlansReviewed, RepairsReviewed

\* What a step of a valid log may add, whichever event it is.
LEMMA RecoveryStep ==
  ASSUME RecoveryInv, valid, RecoveryTypeOK', height' > height, ReviewsAgree',
         \A v \in Review : reviews[v] # Restoring!NoReview =>
           reviews'[v] # Restoring!NoReview /\ reviews'[v].about = reviews[v].about,
         \A t, v : Restoring!Said(t, v) => Restoring!Said(t, v)',
         \A p \in Plan : plans[p] # Restoring!NoPlan => plans'[p] = plans[p],
         \A p \in Plan : plans'[p] = plans[p] \/ Restoring!ReviewOf(plans[p].review, plans[p].of)',
         quarantines \subseteq quarantines', repairs \subseteq repairs',
         \A q \in (quarantines' \ quarantines) \cup (repairs' \ repairs) :
           /\ q.at = height'
           /\ Restoring!PlanOf(q.plan, q.of)' /\ Restoring!ReviewOf(q.review, q.of)'
           /\ \/ q \in quarantines' \ quarantines /\ q.emergency
              \/ Restoring!Said("ReviewCompleted", q.review)',
         \A v \in verified' \ verified :
           /\ v.at = height'
           /\ v.restored.marks = Restoring!Cardinality({q \in quarantines : q.of = v.of})
           /\ v.restored.applied = {a.id : a \in {b \in repairs : b.of = v.of}}
           /\ v.repair \in v.restored.applied
  PROVE  RecoveryInv'
<1> USE DEF RecoveryInv, RecoveryTypeOK
<1>1. PlansReviewed'
  <2>1. ASSUME NEW p \in Plan, plans[p] # Restoring!NoPlan
        PROVE  Restoring!ReviewOf(plans[p].review, plans[p].of)'
    <3>1. plans[p].review \in Review
      BY <2>1 DEF PlanRecord
    <3> QED
      BY <2>1, <3>1 DEF PlansReviewed, Restoring!ReviewOf
  <2>2. ASSUME NEW p \in Plan, plans'[p] # Restoring!NoPlan
        PROVE  Restoring!ReviewOf(plans[p].review, plans[p].of)'
    BY <2>1, <2>2
  <2> QED
    BY <2>2 DEF PlansReviewed
<1>2. ASSUME NEW q \in quarantines \cup repairs
      PROVE  /\ Restoring!PlanOf(q.plan, q.of)' /\ Restoring!ReviewOf(q.review, q.of)'
             /\ (q \in quarantines /\ q.emergency) \/ Restoring!Said("ReviewCompleted", q.review)'
  <2>1. q.plan \in Plan /\ q.review \in Review
    BY DEF QuarantineRecord, RepairRecord
  <2> QED
    BY <2>1 DEF RepairsReviewed, Restoring!PlanOf, Restoring!ReviewOf
<1>3. RepairsReviewed'
  BY <1>2 DEF RepairsReviewed
<1>4. ASSUME NEW v \in verified
      PROVE  RestoredThen(v)'
  <2>1. v.at \in Nat /\ v.at <= height /\ height' \in Nat
    OBVIOUS
  <2>2. \A q \in (quarantines' \ quarantines) \cup (repairs' \ repairs) : ~ (q.at < v.at)
    BY <2>1
  <2>3. {q \in quarantines' : q.of = v.of /\ q.at < v.at} = {q \in quarantines : q.of = v.of /\ q.at < v.at}
    BY <2>2
  <2>4. {b \in repairs' : b.of = v.of /\ b.at < v.at} = {b \in repairs : b.of = v.of /\ b.at < v.at}
    BY <2>2
  <2> QED
    BY <2>3, <2>4 DEF RestoredThen
<1>5. ASSUME NEW v \in verified' \ verified
      PROVE  RestoredThen(v)'
  <2>0. height \in Nat /\ height' \in Nat /\ height < height' /\ v.at = height'
    OBVIOUS
  <2>1. /\ \A q \in quarantines \cup repairs : q.at < v.at
        /\ \A q \in (quarantines' \ quarantines) \cup (repairs' \ repairs) : ~ (q.at < v.at)
    <3>1. \A q \in quarantines \cup repairs : q.at \in Nat /\ q.at <= height
      OBVIOUS
    <3>2. \A q \in (quarantines' \ quarantines) \cup (repairs' \ repairs) : q.at = height'
      OBVIOUS
    <3> QED
      BY <2>0, <3>1, <3>2
  <2>2. {q \in quarantines' : q.of = v.of /\ q.at < v.at} = {q \in quarantines : q.of = v.of}
    BY <2>1
  <2>3. {b \in repairs' : b.of = v.of /\ b.at < v.at} = {b \in repairs : b.of = v.of}
    BY <2>1
  <2> QED
    BY <2>2, <2>3 DEF RestoredThen
<1> QED
  BY <1>1, <1>3, <1>4, <1>5

LEMMA FactSaid ==
  ASSUME NEW type, NEW id, Restoring!Fact(type, id)
  PROVE  \A t, v : Restoring!Said(t, v)' <=> Restoring!Said(t, v) \/ (t = type /\ v = id)
  BY DEF Restoring!Fact, Restoring!Said

\* The kinds of events, by the sets they are of; a verification by its type.
ReviewKinds == Restoring!ReviewEvent \cup Restoring!OpenEvent \cup Restoring!CloseEvent

RecoveryKinds ==
  Restoring!RequestEvent \cup Restoring!PlanEvent \cup Restoring!QuarantineEvent
    \cup Restoring!ApplyEvent \cup Restoring!BreachEvent

RecoveryKind(e) == e \in RecoveryKinds \/ e.type = "RecoveryVerified"

LEMMA RecoveredByKind ==
  ASSUME NEW e, RecoveryKind(e), Restoring!Recovered(e)
  PROVE  \/ e \in Restoring!RequestEvent /\ Restoring!Requested(e)
         \/ e \in Restoring!PlanEvent /\ Restoring!Planned(e)
         \/ e \in Restoring!QuarantineEvent /\ Restoring!Quarantined(e)
         \/ e \in Restoring!ApplyEvent /\ Restoring!Applied(e)
         \/ e.type = "RecoveryVerified" /\ Restoring!Verified(e)
         \/ e \in Restoring!BreachEvent
              /\ UNCHANGED <<requests, plans, quarantines, repairs, verified>>
  BY DEF RecoveryKind, RecoveryKinds, Restoring!Recovered, Restoring!RequestEvent,
         Restoring!PlanEvent, Restoring!QuarantineEvent, Restoring!ApplyEvent,
         Restoring!BreachEvent

LEMMA RecordedKinds ==
  ASSUME NEW e, Restoring!Recorded(e), e \in ReviewKinds \/ RecoveryKind(e)
  PROVE  \/ e \in Restoring!ReviewEvent /\ Restoring!Required(e)
         \/ e \in Restoring!OpenEvent /\ Restoring!Opened(e)
         \/ e \in Restoring!CloseEvent /\ Restoring!Closed(e)
         \/ RecoveryKind(e) /\ Restoring!Recovered(e) /\ UNCHANGED <<reviews, facts>>
<1>1. CASE e \in ReviewKinds
  BY <1>1 DEF ReviewKinds, Restoring!Recorded, Restoring!Recovered, Restoring!ReviewEvent,
              Restoring!OpenEvent, Restoring!CloseEvent
<1>2. CASE RecoveryKind(e)
  <2>1. e.type \in {"RecoveryRequested", "RecoveryPlanCreated", "RecoveryQuarantined",
                    "RecoveryApplied", "RecoveryVerified", "RecoveryViolationRecorded"}
    BY <1>2 DEF RecoveryKind, RecoveryKinds, Restoring!RequestEvent,
         Restoring!PlanEvent, Restoring!QuarantineEvent, Restoring!ApplyEvent,
         Restoring!BreachEvent
  <2> QED
    BY <1>2, <2>1 DEF Restoring!Recorded
<1> QED
  BY <1>1, <1>2

\* Typed, valid or not: what a recovery event leaves.
LEMMA RecoveredTyped ==
  ASSUME RecoveryTypeOK, NEW e, RecoveryKind(e), Restoring!Recovered(e),
         height' \in Nat, height' > height
  PROVE  /\ plans' \in [Plan -> PlanRecord \cup {Restoring!NoPlan}]
         /\ requests' \subseteq Recovery
         /\ quarantines' \subseteq QuarantineRecord
         /\ repairs' \subseteq RepairRecord
         /\ \A q \in quarantines' \cup repairs' \cup verified' : q.at \in Nat /\ q.at <= height'
<1> USE DEF RecoveryTypeOK
<1>0. \A q \in quarantines \cup repairs \cup verified : q.at \in Nat /\ q.at <= height'
  OBVIOUS
<1>1. CASE e \in Restoring!RequestEvent /\ Restoring!Requested(e)
  BY <1>0, <1>1 DEF Restoring!RequestEvent, Restoring!Requested
<1>2. CASE e \in Restoring!PlanEvent /\ Restoring!Planned(e)
  BY <1>0, <1>2 DEF Restoring!PlanEvent, Restoring!Planned, PlanRecord
<1>3. CASE e \in Restoring!QuarantineEvent /\ Restoring!Quarantined(e)
  <2> DEFINE q0 == [of |-> e.of, plan |-> e.plan, review |-> e.review,
                    emergency |-> e.emergency, at |-> height']
  <2>1. q0 \in QuarantineRecord /\ q0.at = height'
    BY <1>3 DEF Restoring!QuarantineEvent, QuarantineRecord
  <2>2. quarantines' = quarantines \cup {q0}
    BY <1>3 DEF Restoring!Quarantined
  <2> HIDE DEF q0
  <2> QED
    BY <1>0, <1>3, <2>1, <2>2 DEF Restoring!Quarantined
<1>4. CASE e \in Restoring!ApplyEvent /\ Restoring!Applied(e)
  <2> DEFINE a0 == [id |-> e.id, of |-> e.of, plan |-> e.plan, review |-> e.review,
                    at |-> height']
  <2>1. a0 \in RepairRecord /\ a0.at = height'
    BY <1>4 DEF Restoring!ApplyEvent, RepairRecord
  <2>2. repairs' = repairs \cup {a0}
    BY <1>4 DEF Restoring!Applied
  <2> HIDE DEF a0
  <2> QED
    BY <1>0, <1>4, <2>1, <2>2 DEF Restoring!Applied
<1>5. CASE e.type = "RecoveryVerified" /\ Restoring!Verified(e)
  BY <1>0, <1>5 DEF Restoring!Verified
<1>6. CASE UNCHANGED <<requests, plans, quarantines, repairs, verified>>
  BY <1>0, <1>6
<1> QED
  BY <1>1, <1>2, <1>3, <1>4, <1>5, <1>6, RecoveredByKind

LEMMA ReviewedTyped ==
  ASSUME RecoveryTypeOK, NEW e,
         \/ e \in Restoring!ReviewEvent /\ Restoring!Required(e)
         \/ e \in Restoring!OpenEvent /\ Restoring!Opened(e)
         \/ e \in Restoring!CloseEvent /\ Restoring!Closed(e)
  PROVE  reviews' \in [Review -> ReviewRecord \cup {Restoring!NoReview}]
<1>1. CASE e \in Restoring!ReviewEvent /\ Restoring!Required(e)
  BY <1>1 DEF RecoveryTypeOK, Restoring!ReviewEvent, Restoring!Required, Restoring!Require, ReviewRecord
<1>2. CASE e \in Restoring!OpenEvent /\ Restoring!Opened(e)
  <2> DEFINE r0 == [about |-> e.about,
                    required |-> reviews[e.id] # Restoring!NoReview /\ reviews[e.id].required,
                    status |-> "open"]
  <2>1. e.id \in Review /\ e.about \in Recovery \cup {Restoring!Elsewhere}
    BY <1>2 DEF Restoring!OpenEvent
  <2>2. r0 \in ReviewRecord
    BY <2>1 DEF RecoveryTypeOK, ReviewRecord
  <2>3. reviews' = [reviews EXCEPT ![e.id] = r0]
    BY <1>2, <2>1 DEF RecoveryTypeOK, Restoring!Opened
  <2> HIDE DEF r0
  <2> QED
    BY <2>2, <2>3 DEF RecoveryTypeOK
<1>3. CASE e \in Restoring!CloseEvent /\ Restoring!Closed(e)
  <2>1. e.of \in Review
    BY <1>3 DEF Restoring!CloseEvent
  <2>2. CASE reviews' = reviews
    BY <2>2 DEF RecoveryTypeOK
  <2>3. CASE reviews[e.of] # Restoring!NoReview
               /\ reviews' = [reviews EXCEPT ![e.of].status = "reviewed"]
    <3>1. [reviews[e.of] EXCEPT !.status = "reviewed"] \in ReviewRecord
      BY <2>1, <2>3 DEF RecoveryTypeOK, ReviewRecord
    <3> QED
      BY <2>1, <2>3, <3>1 DEF RecoveryTypeOK
  <2> QED
    BY <1>3, <2>2, <2>3 DEF Restoring!Closed
<1> QED
  BY <1>1, <1>2, <1>3

\* A review that is required under an id that was free.
LEMMA RequireKeeps ==
  ASSUME RecoveryTypeOK, ReviewsAgree, NEW v0 \in Review,
         NEW about \in Recovery \cup {Restoring!Elsewhere},
         Restoring!Require(v0, about), reviews[v0] = Restoring!NoReview, UNCHANGED facts
  PROVE  /\ reviews' \in [Review -> ReviewRecord \cup {Restoring!NoReview}]
         /\ ReviewsAgree'
         /\ \A v \in Review : reviews[v] # Restoring!NoReview =>
              reviews'[v] # Restoring!NoReview /\ reviews'[v].about = reviews[v].about
         /\ \A t, v : Restoring!Said(t, v)' <=> Restoring!Said(t, v)
<1> DEFINE r0 == [about |-> about, required |-> TRUE, status |-> "required"]
<1>1. /\ r0 \in ReviewRecord /\ r0.status = "required"
      /\ reviews' = [reviews EXCEPT ![v0] = r0]
  BY DEF Restoring!Require, ReviewRecord
<1> HIDE DEF r0
<1>2. /\ reviews'[v0] = r0 /\ r0 # Restoring!NoReview
      /\ \A v \in Review \ {v0} : reviews'[v] = reviews[v]
      /\ reviews' \in [Review -> ReviewRecord \cup {Restoring!NoReview}]
  BY <1>1, NothingRecovered DEF RecoveryTypeOK
<1>3. \A t, v : Restoring!Said(t, v)' <=> Restoring!Said(t, v)
  BY DEF Restoring!Said
<1>4. ReviewsAgree'
  BY <1>1, <1>2, <1>3 DEF ReviewsAgree, Restoring!Completed
<1> QED
  BY <1>2, <1>3, <1>4

\* How reviews may change in a valid log: what is said of them stays said, and what
\* they are of stays.
LEMMA ReviewedKeeps ==
  ASSUME RecoveryTypeOK, ReviewsAgree, NEW e,
         \/ /\ e \in Restoring!ReviewEvent /\ Restoring!Required(e)
            /\ Restoring!RequireAccepted(e)
         \/ e \in Restoring!OpenEvent /\ Restoring!Opened(e) /\ Restoring!OpenAccepted(e)
         \/ e \in Restoring!CloseEvent /\ Restoring!Closed(e) /\ Restoring!CloseAccepted(e)
  PROVE  /\ ReviewsAgree'
         /\ \A v \in Review : reviews[v] # Restoring!NoReview =>
              reviews'[v] # Restoring!NoReview /\ reviews'[v].about = reviews[v].about
         /\ \A t, v : Restoring!Said(t, v) => Restoring!Said(t, v)'
         /\ UNCHANGED <<requests, plans, quarantines, repairs, verified>>
<1>1. CASE /\ e \in Restoring!ReviewEvent /\ Restoring!Required(e)
           /\ Restoring!RequireAccepted(e)
  BY <1>1, RequireKeeps DEF Restoring!ReviewEvent, Restoring!Required,
                            Restoring!RequireAccepted, Restoring!recoveryVars
<1>2. CASE e \in Restoring!OpenEvent /\ Restoring!Opened(e) /\ Restoring!OpenAccepted(e)
  <2> DEFINE r0 == [about |-> e.about,
                    required |-> reviews[e.id] # Restoring!NoReview /\ reviews[e.id].required,
                    status |-> "open"]
  <2>1. /\ e.id \in Review /\ e.type = "ReviewOpened"
        /\ r0 \in ReviewRecord /\ r0.status = "open"
        /\ reviews[e.id] # Restoring!NoReview => r0.about = reviews[e.id].about
        /\ reviews' = [reviews EXCEPT ![e.id] = r0]
    BY <1>2 DEF Restoring!OpenEvent, Restoring!Opened, Restoring!OpenAccepted, ReviewRecord,
                RecoveryTypeOK
  <2> HIDE DEF r0
  <2>2. /\ reviews'[e.id] = r0 /\ r0 # Restoring!NoReview
        /\ \A v \in Review \ {e.id} : reviews'[v] = reviews[v]
    BY <2>1, NothingRecovered DEF RecoveryTypeOK
  <2>3. \A t, v : Restoring!Said(t, v)' <=>
          Restoring!Said(t, v) \/ (t = "ReviewOpened" /\ v = e.id)
    BY <1>2, <2>1, FactSaid DEF Restoring!Opened
  <2>4. ReviewsAgree'
    BY <2>1, <2>2, <2>3 DEF ReviewsAgree, Restoring!Completed
  <2> QED
    BY <1>2, <2>1, <2>2, <2>3, <2>4 DEF Restoring!Opened, Restoring!recoveryVars
<1>3. CASE e \in Restoring!CloseEvent /\ Restoring!Closed(e) /\ Restoring!CloseAccepted(e)
  <2>1. /\ e.of \in Review /\ reviews[e.of] # Restoring!NoReview
        /\ reviews[e.of] \in ReviewRecord
        /\ e.type \in {"ReviewCompleted", "ReviewDisputed", "ReviewViolationRecorded"}
    BY <1>3 DEF Restoring!CloseEvent, Restoring!CloseAccepted, RecoveryTypeOK
  <2>2. \A t, v : Restoring!Said(t, v)' <=> Restoring!Said(t, v) \/ (t = e.type /\ v = e.of)
    BY <1>3, FactSaid DEF Restoring!Closed
  <2>3. CASE e.type # "ReviewCompleted"
    <3>1. reviews' = reviews
      BY <1>3, <2>3 DEF Restoring!Closed
    <3>2. ReviewsAgree'
      BY <2>1, <2>2, <2>3, <3>1 DEF ReviewsAgree, Restoring!Completed
    <3> QED
      BY <1>3, <2>2, <3>1, <3>2 DEF Restoring!Closed, Restoring!recoveryVars
  <2>4. CASE e.type = "ReviewCompleted"
    <3> DEFINE r0 == [reviews[e.of] EXCEPT !.status = "reviewed"]
    <3>1. /\ r0 \in ReviewRecord /\ r0.about = reviews[e.of].about
          /\ reviews' = [reviews EXCEPT ![e.of] = r0]
      BY <1>3, <2>1, <2>4 DEF Restoring!Closed, ReviewRecord
    <3> HIDE DEF r0
    <3>2. /\ reviews'[e.of] = r0 /\ r0 # Restoring!NoReview
          /\ \A v \in Review \ {e.of} : reviews'[v] = reviews[v]
      BY <2>1, <3>1, NothingRecovered DEF RecoveryTypeOK
    <3>3. ReviewsAgree'
      BY <2>1, <2>2, <2>4, <3>2 DEF ReviewsAgree, Restoring!Completed
    <3> QED
      BY <1>3, <2>2, <3>1, <3>2, <3>3 DEF Restoring!Closed, Restoring!recoveryVars
  <2> QED
    BY <2>3, <2>4
<1> QED
  BY <1>1, <1>2, <1>3

\* What the validator asks, by the kind of event.
LEMMA RecoveryAccepted ==
  ASSUME NEW e, Restoring!Accepted(e)
  PROVE  /\ e \in Restoring!ReviewEvent => Restoring!RequireAccepted(e)
         /\ e \in Restoring!OpenEvent => Restoring!OpenAccepted(e)
         /\ e \in Restoring!CloseEvent => Restoring!CloseAccepted(e)
         /\ e \in Restoring!PlanEvent => Restoring!PlanAccepted(e)
         /\ e \in Restoring!QuarantineEvent => Restoring!QuarantineAccepted(e)
         /\ e \in Restoring!ApplyEvent => Restoring!ApplyAccepted(e)
         /\ e.type = "RecoveryVerified" => Restoring!VerifyAccepted(e)
<1>1. e \in Restoring!ReviewEvent => Restoring!RequireAccepted(e)
  BY DEF Restoring!Accepted, Restoring!ReviewEvent
<1>2. e \in Restoring!OpenEvent => Restoring!OpenAccepted(e)
  BY DEF Restoring!Accepted, Restoring!OpenEvent
<1>3. e \in Restoring!CloseEvent => Restoring!CloseAccepted(e)
  BY DEF Restoring!Accepted, Restoring!CloseEvent
<1>4. e \in Restoring!PlanEvent => Restoring!PlanAccepted(e)
  BY DEF Restoring!Accepted, Restoring!PlanEvent
<1>5. e \in Restoring!QuarantineEvent => Restoring!QuarantineAccepted(e)
  BY DEF Restoring!Accepted, Restoring!QuarantineEvent
<1>6. e \in Restoring!ApplyEvent => Restoring!ApplyAccepted(e)
  BY DEF Restoring!Accepted, Restoring!ApplyEvent
<1>7. e.type = "RecoveryVerified" => Restoring!VerifyAccepted(e)
  BY DEF Restoring!Accepted
<1> QED
  BY <1>1, <1>2, <1>3, <1>4, <1>5, <1>6, <1>7

\* What a recovery event adds to a valid log, the reviews being as they are after
\* the step.
LEMMA RecoveredAdds ==
  ASSUME RecoveryInv, valid, RecoveryTypeOK',
         NEW e, RecoveryKind(e), Restoring!Recovered(e),
         e \in Restoring!PlanEvent =>
           plans[e.id] = Restoring!NoPlan /\ Restoring!ReviewOf(e.review, e.of)',
         e \in Restoring!QuarantineEvent =>
           /\ Restoring!PlanOf(e.plan, e.of) /\ Restoring!ReviewOf(e.review, e.of)'
           /\ e.emergency \/ Restoring!Said("ReviewCompleted", e.review)',
         e \in Restoring!ApplyEvent => Restoring!ApplyAccepted(e) /\ UNCHANGED <<reviews, facts>>,
         e.type = "RecoveryVerified" => Restoring!VerifyAccepted(e)
  PROVE  /\ \A p \in Plan : plans[p] # Restoring!NoPlan => plans'[p] = plans[p]
         /\ \A p \in Plan : plans'[p] = plans[p] \/ Restoring!ReviewOf(plans[p].review, plans[p].of)'
         /\ quarantines \subseteq quarantines' /\ repairs \subseteq repairs'
         /\ \A q \in (quarantines' \ quarantines) \cup (repairs' \ repairs) :
              /\ q.at = height'
              /\ Restoring!PlanOf(q.plan, q.of)' /\ Restoring!ReviewOf(q.review, q.of)'
              /\ \/ q \in quarantines' \ quarantines /\ q.emergency
                 \/ Restoring!Said("ReviewCompleted", q.review)'
         /\ \A v \in verified' \ verified :
              /\ v.at = height'
              /\ v.restored.marks = Restoring!Cardinality({q \in quarantines : q.of = v.of})
              /\ v.restored.applied = {a.id : a \in {b \in repairs : b.of = v.of}}
              /\ v.repair \in v.restored.applied
<1>1. CASE e \in Restoring!RequestEvent /\ Restoring!Requested(e)
  BY <1>1 DEF Restoring!Requested
<1>2. CASE e \in Restoring!PlanEvent /\ Restoring!Planned(e)
  <2> DEFINE r0 == [of |-> e.of, review |-> e.review]
  <2>1. /\ e.id \in Plan /\ r0.of = e.of /\ r0.review = e.review
        /\ plans' = [plans EXCEPT ![e.id] = r0]
        /\ UNCHANGED <<quarantines, repairs, verified>>
    BY <1>2 DEF Restoring!Planned, Restoring!PlanEvent
  <2> HIDE DEF r0
  <2>2. plans'[e.id] = r0 /\ \A p \in Plan \ {e.id} : plans'[p] = plans[p]
    BY <2>1 DEF RecoveryInv, RecoveryTypeOK
  <2>3. \A p \in Plan : plans'[p] = plans[p] \/ Restoring!ReviewOf(plans[p].review, plans[p].of)'
    BY <1>2, <2>1, <2>2
  <2> QED
    BY <1>2, <2>1, <2>2, <2>3
<1>3. CASE e \in Restoring!QuarantineEvent /\ Restoring!Quarantined(e)
  <2> DEFINE q0 == [of |-> e.of, plan |-> e.plan, review |-> e.review,
                    emergency |-> e.emergency, at |-> height']
  <2>1. /\ q0.of = e.of /\ q0.plan = e.plan /\ q0.review = e.review /\ q0.at = height'
        /\ q0.emergency = e.emergency
        /\ quarantines' = quarantines \cup {q0}
        /\ UNCHANGED <<plans, repairs, verified>>
    BY <1>3 DEF Restoring!Quarantined
  <2> HIDE DEF q0
  <2>2. Restoring!PlanOf(e.plan, e.of)'
    BY <1>3, <2>1 DEF Restoring!PlanOf
  <2> QED
    BY <1>3, <2>1, <2>2
<1>4. CASE e \in Restoring!ApplyEvent /\ Restoring!Applied(e)
  <2> DEFINE a0 == [id |-> e.id, of |-> e.of, plan |-> e.plan, review |-> e.review,
                    at |-> height']
  <2>1. /\ a0.of = e.of /\ a0.plan = e.plan /\ a0.review = e.review /\ a0.at = height'
        /\ repairs' = repairs \cup {a0}
        /\ UNCHANGED <<plans, quarantines, verified>>
    BY <1>4 DEF Restoring!Applied
  <2> HIDE DEF a0
  <2>2. e.review \in Review
    BY <1>4 DEF Restoring!ApplyEvent
  <2>3. /\ Restoring!PlanOf(e.plan, e.of)' /\ Restoring!ReviewOf(e.review, e.of)'
        /\ Restoring!Said("ReviewCompleted", e.review)'
    BY <1>4, <2>1, <2>2 DEF Restoring!ApplyAccepted, Restoring!PlanOf, Restoring!ReviewOf,
                            Restoring!Said, RecoveryInv, ReviewsAgree
  <2> QED
    BY <2>1, <2>3
<1>5. CASE e.type = "RecoveryVerified" /\ Restoring!Verified(e)
  <2> DEFINE v0 == [of |-> e.of, repair |-> e.repair, review |-> e.review,
                    restored |-> e.quotes.restored, at |-> height']
  <2>1. /\ v0.of = e.of /\ v0.repair = e.repair /\ v0.at = height'
        /\ v0.restored = e.quotes.restored
        /\ verified' = verified \cup {v0}
        /\ UNCHANGED <<plans, quarantines, repairs>>
    BY <1>5 DEF Restoring!Verified
  <2> HIDE DEF v0
  <2>2. e.quotes.restored = Restoring!Restored(e.of)
    BY <1>5 DEF Restoring!VerifyAccepted, Restoring!Reading
  <2>3. /\ v0.restored.marks = Restoring!Cardinality({q \in quarantines : q.of = v0.of})
        /\ v0.restored.applied = {a.id : a \in {b \in repairs : b.of = v0.of}}
    BY <2>1, <2>2 DEF Restoring!Restored
  <2>4. v0.repair \in v0.restored.applied
    BY <1>5, <2>1, <2>3 DEF Restoring!VerifyAccepted
  <2> QED
    BY <2>1, <2>3, <2>4
<1>6. CASE UNCHANGED <<requests, plans, quarantines, repairs, verified>>
  BY <1>6
<1> QED
  BY <1>1, <1>2, <1>3, <1>4, <1>5, <1>6, RecoveredByKind

LEMMA RecoveryEventKeeps ==
  ASSUME RecoveryInv, NEW e, e \in ReviewKinds \/ RecoveryKind(e),
         Restoring!Grown(1), Restoring!Recorded(e),
         valid' => valid /\ Restoring!Accepted(e)
  PROVE  RecoveryInv'
<1>1. height' \in Nat /\ height' > height
  BY DEF Restoring!Grown, RecoveryInv, RecoveryTypeOK
<1>2. CASE \/ e \in Restoring!ReviewEvent /\ Restoring!Required(e)
           \/ e \in Restoring!OpenEvent /\ Restoring!Opened(e)
           \/ e \in Restoring!CloseEvent /\ Restoring!Closed(e)
  <2>1. UNCHANGED <<requests, plans, quarantines, repairs, verified>>
    BY <1>2 DEF Restoring!Required, Restoring!Opened, Restoring!Closed, Restoring!recoveryVars
  <2>2. RecoveryTypeOK'
    BY <1>1, <1>2, <2>1, ReviewedTyped DEF RecoveryInv, RecoveryTypeOK
  <2>3. ASSUME valid'
        PROVE  RecoveryInv'
    <3>1. /\ ReviewsAgree'
          /\ \A v \in Review : reviews[v] # Restoring!NoReview =>
               reviews'[v] # Restoring!NoReview /\ reviews'[v].about = reviews[v].about
          /\ \A t, v : Restoring!Said(t, v) => Restoring!Said(t, v)'
      BY <1>2, <2>3, RecoveryAccepted, ReviewedKeeps DEF RecoveryInv
    <3> QED
      BY <1>1, <2>1, <2>2, <2>3, <3>1, RecoveryStep
  <2> QED
    BY <2>2, <2>3 DEF RecoveryInv
<1>3. CASE RecoveryKind(e) /\ Restoring!Recovered(e) /\ UNCHANGED <<reviews, facts>>
  <2>1. RecoveryTypeOK'
    BY <1>1, <1>3, RecoveredTyped DEF RecoveryInv, RecoveryTypeOK
  <2>2. \A t, v : Restoring!Said(t, v)' <=> Restoring!Said(t, v)
    BY <1>3 DEF Restoring!Said
  <2>3. ASSUME valid'
        PROVE  RecoveryInv'
    <3>1. ReviewsAgree'
      BY <1>3, <2>2, <2>3 DEF RecoveryInv, ReviewsAgree, Restoring!Completed
    <3>2. /\ e \in Restoring!PlanEvent =>
               plans[e.id] = Restoring!NoPlan /\ Restoring!ReviewOf(e.review, e.of)'
          /\ e \in Restoring!ApplyEvent => Restoring!ApplyAccepted(e)
          /\ e.type = "RecoveryVerified" => Restoring!VerifyAccepted(e)
      BY <1>3, <2>3, RecoveryAccepted DEF Restoring!PlanAccepted, Restoring!ReviewOf
    <3>3. e \in Restoring!QuarantineEvent =>
            /\ Restoring!PlanOf(e.plan, e.of) /\ Restoring!ReviewOf(e.review, e.of)'
            /\ e.emergency \/ Restoring!Said("ReviewCompleted", e.review)'
      <4> SUFFICES ASSUME e \in Restoring!QuarantineEvent
                   PROVE  /\ Restoring!PlanOf(e.plan, e.of) /\ Restoring!ReviewOf(e.review, e.of)'
                          /\ e.emergency \/ Restoring!Said("ReviewCompleted", e.review)'
        OBVIOUS
      <4>1. Restoring!QuarantineAccepted(e)
        BY <2>3, RecoveryAccepted
      <4>2. e.review \in Review
        BY DEF Restoring!QuarantineEvent
      <4>3. e.emergency \/ Restoring!Said("ReviewCompleted", e.review)'
        BY <2>2, <2>3, <4>1, <4>2 DEF Restoring!QuarantineAccepted, RecoveryInv, ReviewsAgree
      <4> QED
        BY <1>3, <4>1, <4>3 DEF Restoring!QuarantineAccepted, Restoring!ReviewOf
    <3> QED
      BY <1>1, <1>3, <2>1, <2>2, <2>3, <3>1, <3>2, <3>3, RecoveredAdds, RecoveryStep
  <2> QED
    BY <2>1, <2>3 DEF RecoveryInv
<1> QED
  BY <1>2, <1>3, RecordedKinds

\* A command that requires a review first: both events, one step.
LEMMA RequireFirstKeeps ==
  ASSUME RecoveryInv, NEW v0 \in Review, NEW c \in Recovery, NEW e, RecoveryKind(e),
         Restoring!RequireFirst(v0, c, e),
         valid' => Restoring!Requirable(v0, c),
         e \in Restoring!PlanEvent /\ valid' =>
           plans[e.id] = Restoring!NoPlan /\ Restoring!ReviewOf(e.review, e.of)',
         e \in Restoring!QuarantineEvent /\ valid' =>
           Restoring!PlanOf(e.plan, e.of) /\ Restoring!ReviewOf(e.review, e.of)' /\ e.emergency,
         e \notin Restoring!ApplyEvent, e.type # "RecoveryVerified"
  PROVE  RecoveryInv'
<1>1. /\ valid /\ height' \in Nat /\ height' > height
      /\ Restoring!Require(v0, c) /\ Restoring!Recovered(e) /\ UNCHANGED facts
  BY DEF Restoring!RequireFirst, Restoring!Grown, RecoveryInv, RecoveryTypeOK
<1>2. reviews' \in [Review -> ReviewRecord \cup {Restoring!NoReview}]
  BY <1>1 DEF Restoring!Require, ReviewRecord, RecoveryInv, RecoveryTypeOK
<1>3. RecoveryTypeOK'
  BY <1>1, <1>2, RecoveredTyped DEF RecoveryInv, RecoveryTypeOK
<1>4. ASSUME valid'
      PROVE  RecoveryInv'
  <2>1. reviews[v0] = Restoring!NoReview
    BY <1>4 DEF Restoring!Requirable, Restoring!RequireAccepted
  <2>2. /\ ReviewsAgree'
        /\ \A v \in Review : reviews[v] # Restoring!NoReview =>
             reviews'[v] # Restoring!NoReview /\ reviews'[v].about = reviews[v].about
        /\ \A t, v : Restoring!Said(t, v)' <=> Restoring!Said(t, v)
    BY <1>1, <2>1, RequireKeeps DEF RecoveryInv
  <2> QED
    BY <1>1, <1>3, <1>4, <2>2, RecoveredAdds, RecoveryStep
<1> QED
  BY <1>3, <1>4 DEF RecoveryInv

LEMMA RecoveryNext == RecoveryInv /\ Restoring!Next => RecoveryInv'
<1> SUFFICES ASSUME RecoveryInv, Restoring!Next PROVE RecoveryInv'
  OBVIOUS
<1>1. ASSUME NEW e \in ReviewKinds \cup RecoveryKinds, Restoring!Submit(e) \/ Restoring!Append(e)
      PROVE  RecoveryInv'
  BY <1>1, RecoveryEventKeeps DEF Restoring!Submit, Restoring!Append, RecoveryKind
<1>2. ASSUME NEW e, e.type = "RecoveryVerified", Restoring!Submit(e) \/ Restoring!Append(e)
      PROVE  RecoveryInv'
  BY <1>2, RecoveryEventKeeps DEF Restoring!Submit, Restoring!Append, RecoveryKind
<1>3. ASSUME NEW e \in Restoring!VerifyEvent(read), Restoring!Submit(e)
      PROVE  RecoveryInv'
  <2>1. e.type = "RecoveryVerified"
    BY DEF Restoring!VerifyEvent
  <2> QED
    BY <1>2, <1>3, <2>1
<1>4. CASE Restoring!Command
  <2>1. PICK e \in Restoring!RecoveryCommands : Restoring!Append(e)
    BY <1>4 DEF Restoring!Command
  <2>2. CASE e \in Restoring!VerifyCommands
    <3>1. e.type = "RecoveryVerified"
      BY <2>2 DEF Restoring!VerifyCommands, Restoring!VerifyEvent
    <3> QED
      BY <1>2, <2>1, <3>1
  <2>3. CASE e \notin Restoring!VerifyCommands
    <3>1. e \in ReviewKinds \cup RecoveryKinds
      BY <2>3 DEF Restoring!RecoveryCommands, Restoring!ReviewCommands, Restoring!PlanCommands,
                  Restoring!QuarantineCommands, Restoring!ApplyCommands, ReviewKinds,
                  RecoveryKinds
    <3> QED
      BY <1>1, <2>1, <3>1
  <2> QED
    BY <2>2, <2>3
<1>5. CASE Restoring!BlindCommand
  BY <1>1, <1>5 DEF Restoring!BlindCommand, ReviewKinds, RecoveryKinds
<1>6. ASSUME NEW p \in Plan, NEW c \in Recovery, Restoring!PlanCommand(p, c)
      PROVE  RecoveryInv'
  <2> DEFINE e == [type |-> "RecoveryPlanCreated", id |-> p, of |-> c, review |-> PlanReview[c]]
  <2>1. PlanReview[c] \in Review
    BY ProtocolAssumption
  <2>2. /\ e \in Restoring!PlanEvent /\ e \notin Restoring!QuarantineEvent
        /\ e \notin Restoring!ApplyEvent /\ e.type # "RecoveryVerified"
        /\ e.id = p /\ e.of = c /\ e.review = PlanReview[c]
    BY <2>1 DEF Restoring!PlanEvent, Restoring!QuarantineEvent, Restoring!ApplyEvent
  <2>3. Restoring!RequireFirst(PlanReview[c], c, e)
    BY <1>6 DEF Restoring!PlanCommand
  <2>4. valid' => /\ Restoring!Requirable(PlanReview[c], c)
                  /\ Restoring!ReviewOf(PlanReview[c], c)' /\ plans[p] = Restoring!NoPlan
    BY <1>6 DEF Restoring!PlanCommand
  <2> HIDE DEF e
  <2> QED
    BY <2>1, <2>2, <2>3, <2>4, RequireFirstKeeps DEF RecoveryKind, RecoveryKinds
<1>7. ASSUME NEW p \in Plan, NEW c \in Recovery, Restoring!EmergencyCommand(p, c)
      PROVE  RecoveryInv'
  <2> DEFINE e == [type |-> "RecoveryQuarantined", of |-> c, plan |-> p,
                   review |-> EmergencyReview[c], emergency |-> TRUE]
  <2>1. EmergencyReview[c] \in Review
    BY ProtocolAssumption
  <2>2. /\ e \in Restoring!QuarantineEvent /\ e \notin Restoring!PlanEvent
        /\ e \notin Restoring!ApplyEvent /\ e.type # "RecoveryVerified"
        /\ e.plan = p /\ e.of = c /\ e.review = EmergencyReview[c] /\ e.emergency
    BY <2>1 DEF Restoring!PlanEvent, Restoring!QuarantineEvent, Restoring!ApplyEvent
  <2>3. Restoring!RequireFirst(EmergencyReview[c], c, e)
    BY <1>7 DEF Restoring!EmergencyCommand
  <2>4. /\ valid' => /\ Restoring!Requirable(EmergencyReview[c], c)
                     /\ Restoring!ReviewOf(EmergencyReview[c], c)'
        /\ Restoring!PlanOf(p, c)
    BY <1>7 DEF Restoring!EmergencyCommand, Restoring!PlansOf
  <2> HIDE DEF e
  <2> QED
    BY <2>1, <2>2, <2>3, <2>4, RequireFirstKeeps DEF RecoveryKind, RecoveryKinds
<1>8. ASSUME NEW c \in Recovery, Restoring!Read(c)
      PROVE  RecoveryInv'
  <2>1. UNCHANGED <<reviews, facts, requests, plans, quarantines, repairs, verified, height, valid>>
    BY <1>8 DEF Restoring!Read, Restoring!recoveryVars
  <2>2. \A t, v : Restoring!Said(t, v)' <=> Restoring!Said(t, v)
    BY <2>1 DEF Restoring!Said
  <2> QED
    BY <2>1, <2>2
    DEF RecoveryInv, RecoveryTypeOK, ReviewsAgree, PlansReviewed, RepairsReviewed, RestoredThen,
        Restoring!Completed, Restoring!ReviewOf, Restoring!PlanOf
<1> QED
  BY <1>1, <1>3, <1>4, <1>5, <1>6, <1>7, <1>8 DEF Restoring!Next, ReviewKinds, RecoveryKinds


\* Where the recovery is not the part that moves it stays as it starts.
RecoveryPart == part = "recovery" => RecoveryInv

LEMMA RecoveryPartHolds == Spec => []RecoveryPart
<1>1. Init => RecoveryPart
  BY RecoveryInit DEF Init, RecoveryPart
<1>2. RecoveryPart /\ [Next]_partsVars => RecoveryPart'
  <2> SUFFICES ASSUME RecoveryPart, [Next]_partsVars, part' = "recovery" PROVE RecoveryInv'
    BY DEF RecoveryPart
  <2>1. CASE NextRecovery
    BY <2>1, RecoveryNext DEF NextRecovery, RecoveryPart
  <2>2. CASE part # "recovery" /\ Next
    BY <2>2 DEF Next, NextRecovery, NextMerges, NextAmendments, NextStore, NextExchange
  <2>3. CASE UNCHANGED partsVars
    <3>1. /\ UNCHANGED <<reviews, facts, requests, plans, quarantines, repairs, verified,
                         height, valid>>
          /\ RecoveryInv
      BY <2>3 DEF partsVars, recoveryVars, RecoveryPart
    <3>2. \A t, v : Restoring!Said(t, v)' <=> Restoring!Said(t, v)
      BY <3>1 DEF Restoring!Said
    <3> QED
      BY <3>1, <3>2
      DEF RecoveryInv, RecoveryTypeOK, ReviewsAgree, PlansReviewed, RepairsReviewed, RestoredThen,
          Restoring!Completed, Restoring!ReviewOf, Restoring!PlanOf
  <2> QED
    BY <2>1, <2>2, <2>3 DEF Next, NextMerges, NextAmendments, NextStore, NextExchange
<1> QED
  BY <1>1, <1>2, PTL DEF Spec

\* Whatever is quarantined or applied rests on a review of its recovery.
THEOREM RecoveryRestsOnReview == Spec => []RepairsStandOnReview
<1>1. RecoveryInv => Restoring!RepairsStandOnReview
  <2> SUFFICES ASSUME RecoveryInv, valid PROVE Restoring!RepairsStandOnReview
    BY DEF Restoring!RepairsStandOnReview
  <2>1. ASSUME NEW q \in quarantines \cup repairs
        PROVE  Restoring!ReviewOf(plans[q.plan].review, q.of)
    <3>1. q.plan \in Plan /\ Restoring!PlanOf(q.plan, q.of)
      BY DEF RecoveryInv, RecoveryTypeOK, RepairsReviewed, QuarantineRecord, RepairRecord
    <3> QED
      BY <3>1 DEF RecoveryInv, PlansReviewed, Restoring!PlanOf
  <2> QED
    BY <2>1 DEF RecoveryInv, RepairsReviewed, RestoredThen, Restoring!RepairsStandOnReview
<1>2. RecoveryPart => RepairsStandOnReview
  BY <1>1 DEF RecoveryPart, RepairsStandOnReview
<1> QED
  BY <1>2, RecoveryPartHolds, PTL

\* A review that is shown as pending is pending for the validator.
THEOREM PendingReviewsAreShown == Spec => []ShownPendingIsPending
<1>1. RecoveryInv => Restoring!ShownPendingIsPending
  <2> SUFFICES ASSUME RecoveryInv, valid, NEW v \in Review
               PROVE  /\ Restoring!ReviewShown(v) \in {"required", "open"} =>
                           reviews[v].status = Restoring!ReviewShown(v)
                      /\ v \in Restoring!PendingShown => Restoring!Pending(v)
                      /\ Restoring!Completed(v) =>
                           Restoring!ReviewShown(v) \in {"reviewed", "disputed", "violated"}
    BY DEF Restoring!ShownPendingIsPending
  <2>1. Restoring!Completed(v) => reviews[v] # Restoring!NoReview
    BY DEF Restoring!Completed, Restoring!NoReview
  <2> QED
    BY <2>1
    DEF RecoveryInv, ReviewsAgree, Restoring!ReviewShown, Restoring!PendingShown,
        Restoring!Pending
<1>2. RecoveryPart => ShownPendingIsPending
  BY <1>1 DEF RecoveryPart, ShownPendingIsPending
<1> QED
  BY <1>2, RecoveryPartHolds, PTL


-----------------------------------------------------------------------------
(* The exchange of packets *)

Logs ==
  [of : {"source", "here"}, length : Nat, amended : SUBSET Amended, legacy : BOOLEAN,
   foreign : BOOLEAN]

PacketRecord ==
  [events : Logs, state : [log : Logs, by : Nat], label : Nat, whole : BOOLEAN,
   optional : BOOLEAN, requires : BOOLEAN]

TaskRecord ==
  [step : {"request", "difference", "terms"}, packet : PacketRecord, id : PacketRecord,
   status : {"accepted", "degraded"}, differences : {0, 1}, review : BOOLEAN, reader : Nat]

\* What came through the first gate under a projector.
Taken(p, version) == p \in PacketRecord /\ Exchanging!Derived(p, version)

ExchangeTypeOK ==
  /\ source \in Logs
  /\ versions \in [{"source", "here"} -> Nat \ {0}]
  /\ kept \in Nat
  /\ tasks \in [Runner -> TaskRecord \cup {Exchanging!Idle}]

\* What a run has found of its packet, which it acts on.
RunsAsGated ==
  \A t \in Runner : tasks[t] # Exchanging!Idle =>
    /\ Taken(tasks[t].packet, tasks[t].reader) /\ ~ tasks[t].packet.requires
    /\ tasks[t].differences > 0 <=> tasks[t].packet.optional
    /\ tasks[t].review <=> (tasks[t].packet.optional \/ tasks[t].packet.events.legacy)
    /\ tasks[t].review <=> tasks[t].status = "degraded"

PacketsTraced ==
  /\ \A p \in exported :
       /\ p \in PacketRecord /\ p.label # Exchanging!Unlabelled
       /\ p = Exchanging!Packet(p.events, p.label)
  /\ stored # Exchanging!NoPacket => Taken(stored, importer)
  /\ \A r \in {q \in asked : q.by = "command"} \cup references :
       Taken(r.packet, r.reader) /\ ~ r.packet.requires

Noted(r) == r.packet.optional => [kind |-> "difference", of |-> r.id, by |-> "command"] \in notes

\* A request whose run has come to its end, and one whose run goes on.
Finished(r) ==
  /\ Noted(r)
  /\ \E e \in terms :
       /\ e.of = r.id /\ e.by = "command"
       /\ e.review = (r.packet.optional \/ r.packet.events.legacy)
       /\ e.review = (r.status = "degraded")

Finishing(t, r) ==
  /\ tasks[t].step \in {"difference", "terms"}
  /\ tasks[t].id = r.id /\ tasks[t].packet = r.packet /\ tasks[t].status = r.status
  /\ tasks[t].step = "terms" => Noted(r)

Followed(r) == r.id \in killed \/ Finished(r) \/ \E t \in Runner : Finishing(t, r)

RequestsFollowed == \A r \in asked : r.by = "command" => Followed(r)

ExchangeInv == ExchangeTypeOK /\ RunsAsGated /\ PacketsTraced /\ RequestsFollowed

LEMMA NothingRuns == Exchanging!Idle \notin TaskRecord
<1>1. Exchanging!Idle.step = "none"
  BY DEF Exchanging!Idle
<1> QED
  BY <1>1 DEF TaskRecord

LEMMA ExchangeInit == Exchanging!Init => ExchangeInv
<1> SUFFICES ASSUME Exchanging!Init PROVE ExchangeInv
  OBVIOUS
<1>1. source \in Logs
  <2>1. PICK legacy \in BOOLEAN : source = Exchanging!Log("source", 1, {}, legacy, FALSE)
    BY DEF Exchanging!Init
  <2> QED
    BY <2>1 DEF Exchanging!Log, Logs
<1>2. ExchangeTypeOK
  BY <1>1 DEF Exchanging!Init, ExchangeTypeOK
<1> QED
  BY <1>2 DEF Exchanging!Init, ExchangeInv, RunsAsGated, PacketsTraced, RequestsFollowed

LEMMA PacketTyped ==
  ASSUME NEW l \in Logs, NEW v \in Nat
  PROVE  Exchanging!Packet(l, v) \in PacketRecord
<1>1. Exchanging!Reading(v, l) \in [log : Logs, by : Nat]
  BY DEF Exchanging!Reading
<1> QED
  BY <1>1 DEF Exchanging!Packet, PacketRecord

LEMMA CleanedTyped ==
  ASSUME NEW l \in Logs
  PROVE  Exchanging!Cleaned(l) \in Logs
  BY DEF Logs, Exchanging!Cleaned

\* Whatever is changed of a packet, it has the form of one.
LEMMA EditedTyped ==
  ASSUME NEW q \in PacketRecord, NEW p \in Exchanging!Edits(q)
  PROVE  p \in PacketRecord
<1>1. q.events \in Logs /\ Exchanging!Cleaned(q.events) \in Logs
  BY CleanedTyped DEF PacketRecord
<1>2. ASSUME NEW c \in Exchanging!Claims
      PROVE  [q EXCEPT !.optional = c.optional, !.requires = c.requires] \in PacketRecord
  BY DEF PacketRecord, Exchanging!Claims
<1>3. ASSUME NEW l \in {Exchanging!Unlabelled} \cup 1..MaxVersion
      PROVE  [q EXCEPT !.label = l] \in PacketRecord
  <2>1. l \in Nat
    BY DEF Exchanging!Unlabelled
  <2> QED
    BY <2>1 DEF PacketRecord
<1>4. ASSUME NEW v \in 1..MaxVersion
      PROVE  Exchanging!Packet(Exchanging!Cleaned(q.events), v) \in PacketRecord
  BY <1>1, PacketTyped
<1>5. /\ [q EXCEPT !.events = Exchanging!Cleaned(q.events)] \in PacketRecord
      /\ [q EXCEPT !.whole = FALSE] \in PacketRecord
  BY <1>1 DEF PacketRecord
<1>6. [q EXCEPT !.state.by = 0] \in PacketRecord
  <2>1. [q.state EXCEPT !.by = 0] \in [log : Logs, by : Nat]
    BY DEF PacketRecord
  <2> QED
    BY <2>1 DEF PacketRecord
<1>7. PICK A : A = {[q EXCEPT !.optional = c.optional, !.requires = c.requires] :
                       c \in Exchanging!Claims}
  OBVIOUS
<1>8. PICK B : B = {[q EXCEPT !.label = l] : l \in {Exchanging!Unlabelled} \cup 1..MaxVersion}
  OBVIOUS
<1>9. PICK C : C = {Exchanging!Packet(Exchanging!Cleaned(q.events), v) : v \in 1..MaxVersion}
  OBVIOUS
<1>10. PICK D : D = {[q EXCEPT !.events = Exchanging!Cleaned(q.events)],
                     [q EXCEPT !.state.by = 0], [q EXCEPT !.whole = FALSE]}
  OBVIOUS
<1>11. p \in A \cup B \cup C \cup D
  BY <1>7, <1>8, <1>9, <1>10 DEF Exchanging!Edits
<1>12. A \subseteq PacketRecord
  BY <1>2, <1>7
<1>13. B \subseteq PacketRecord
  BY <1>3, <1>8
<1>14. C \subseteq PacketRecord
  BY <1>4, <1>9
<1>15. D \subseteq PacketRecord
  BY <1>5, <1>6, <1>10
<1> QED
  BY <1>11, <1>12, <1>13, <1>14, <1>15

LEMMA GivenTyped ==
  ASSUME ExchangeInv, NEW p \in Exchanging!Given
  PROVE  p \in PacketRecord
<1> USE DEF ExchangeInv
<1>1. CASE \E q \in exported : p \in Exchanging!Edits(q)
  BY <1>1, EditedTyped DEF PacketsTraced
<1>2. CASE stored # Exchanging!NoPacket /\ p = stored
  BY <1>2 DEF PacketsTraced, Taken
<1>3. CASE p = Exchanging!Packet(Exchanging!Log("here", kept, {}, FALSE, FALSE), versions.here)
  <2>1. Exchanging!Log("here", kept, {}, FALSE, FALSE) \in Logs /\ versions.here \in Nat
    BY DEF ExchangeTypeOK, Logs, Exchanging!Log
  <2> QED
    BY <1>3, <2>1, PacketTyped
<1> QED
  BY <1>1, <1>2, <1>3 DEF Exchanging!Given

\* The first gate: where the label lets the state be compared it is, and else it refuses.
LEMMA ContinuousTaken ==
  ASSUME NEW p \in PacketRecord, Exchanging!Continuous(p)
  PROVE  Taken(p, versions.here)
  BY DEF Exchanging!Continuous, Exchanging!Reasons, Exchanging!Derived, Taken

\* What the fourth gate lets through, and the fifth.
LEMMA FederationPasses ==
  ASSUME NEW p \in PacketRecord, NEW o \in Exchanging!Options,
         Exchanging!Federation(p, o) # "rejected"
  PROVE  Taken(p, versions.here) /\ ~ p.requires
<1>1. Exchanging!Continuous(p) /\ Exchanging!Compatibility(p, o) \notin Exchanging!Refused
  BY DEF Exchanging!Federation
<1>2. ~ p.requires
  BY <1>1 DEF Exchanging!Compatibility, Exchanging!Refused, PacketRecord
<1> QED
  BY <1>1, <1>2, ContinuousTaken

LEMMA NegotiationPasses ==
  ASSUME NEW p \in PacketRecord, NEW o \in Exchanging!Options,
         Exchanging!Negotiation(p, o) # "rejected"
  PROVE  /\ Taken(p, versions.here) /\ ~ p.requires
         /\ Exchanging!Degraded(p, o) <=> p.optional \/ p.events.legacy
<1>1. /\ Exchanging!Continuous(p) /\ ~ p.requires /\ o.lacks = "nothing" /\ ~ o.forbidden
      /\ p.events.amended \subseteq o.amendments
      /\ Exchanging!Interoperability(p, o) \notin Exchanging!Refused
  BY DEF Exchanging!Negotiation
<1>2. Exchanging!Compatibility(p, o) = IF p.optional \/ p.events.legacy THEN "degraded" ELSE "compatible"
  BY <1>1 DEF Exchanging!Compatibility
<1>3. Exchanging!Interoperability(p, o) =
        IF p.optional \/ p.events.legacy THEN "degraded" ELSE "interoperable"
  BY <1>1, <1>2 DEF Exchanging!Interoperability, Exchanging!Refused
<1>4. Exchanging!Federation(p, o) = IF p.optional \/ p.events.legacy THEN "degraded" ELSE "accepted"
  BY <1>1, <1>2, <1>3 DEF Exchanging!Federation, Exchanging!Refused
<1> QED
  BY <1>1, <1>2, <1>3, <1>4, ContinuousTaken DEF Exchanging!Degraded

\* Steps that no run takes: what there is stays, and nothing is asked in a run's name.
LEMMA ExchangeStep ==
  ASSUME ExchangeInv, ExchangeTypeOK', UNCHANGED <<tasks, killed>>,
         notes \subseteq notes', terms \subseteq terms',
         \A p \in exported' \ exported :
           /\ p \in PacketRecord /\ p.label # Exchanging!Unlabelled
           /\ p = Exchanging!Packet(p.events, p.label),
         UNCHANGED <<stored, importer>> \/ Taken(stored', importer'),
         \A r \in references' \ references : Taken(r.packet, r.reader) /\ ~ r.packet.requires,
         \A r \in asked' : r \in asked \/ r.by # "command"
  PROVE  ExchangeInv'
<1>1. RunsAsGated'
  BY DEF ExchangeInv, RunsAsGated
<1>2. PacketsTraced'
  <2>1. stored' # Exchanging!NoPacket => Taken(stored', importer')
    BY DEF ExchangeInv, PacketsTraced
  <2>2. ASSUME NEW r \in {q \in asked' : q.by = "command"} \cup references'
        PROVE  Taken(r.packet, r.reader) /\ ~ r.packet.requires
    BY DEF ExchangeInv, PacketsTraced
  <2> QED
    BY <2>1, <2>2 DEF ExchangeInv, PacketsTraced
<1>3. RequestsFollowed'
  BY DEF ExchangeInv, RequestsFollowed, Followed, Finished, Finishing, Noted
<1> QED
  BY <1>1, <1>2, <1>3 DEF ExchangeInv

LEMMA AppendedTyped ==
  ASSUME ExchangeTypeOK, NEW a, Exchanging!Appended(a)
  PROVE  kept' \in Nat
  BY DEF ExchangeTypeOK, Exchanging!Appended

LEMMA SourceKeeps ==
  ASSUME ExchangeInv,
         \/ Exchanging!Export
         \/ \E a \in SUBSET Amended, g \in BOOLEAN : Exchanging!SourceGrows(a, g)
         \/ \E side \in {"source", "here"} : Exchanging!Upgrade(side)
  PROVE  ExchangeInv'
<1> USE DEF Exchanging!logVars
<1>1. CASE Exchanging!Export
  <2>1. PICK p0 : p0 = Exchanging!Packet(source, versions.source)
    OBVIOUS
  <2>2. source \in Logs /\ versions.source \in Nat /\ versions.source # 0
    BY DEF ExchangeInv, ExchangeTypeOK
  <2>3. /\ p0 \in PacketRecord /\ p0.label # Exchanging!Unlabelled
        /\ p0 = Exchanging!Packet(p0.events, p0.label)
    <3>1. p0.events = source /\ p0.label = versions.source
      BY <2>1 DEF Exchanging!Packet
    <3> QED
      BY <2>1, <2>2, <3>1, PacketTyped DEF Exchanging!Unlabelled
  <2>4. exported' = exported \cup {p0}
    BY <1>1, <2>1 DEF Exchanging!Export
  <2>5. ExchangeTypeOK' /\ UNCHANGED <<tasks, killed, stored, importer, notes, terms, references, asked>>
    BY <1>1 DEF Exchanging!Export, ExchangeInv, ExchangeTypeOK
  <2> QED
    BY <2>3, <2>4, <2>5, ExchangeStep
<1>2. ASSUME NEW a \in SUBSET Amended, NEW g \in BOOLEAN, Exchanging!SourceGrows(a, g)
      PROVE  ExchangeInv'
  <2>0. source \in Logs
    BY DEF ExchangeInv, ExchangeTypeOK
  <2>1. source' = [source EXCEPT !.length = source.length + 1,
                                 !.amended = source.amended \cup a,
                                 !.foreign = source.foreign \/ g]
    BY <1>2 DEF Exchanging!SourceGrows
  <2>2. /\ source.length + 1 \in Nat /\ source.amended \cup a \in SUBSET Amended
        /\ (source.foreign \/ g) \in BOOLEAN
    BY <2>0 DEF Logs
  <2>3. source' \in Logs
    BY <2>0, <2>1, <2>2 DEF Logs
  <2> QED
    BY <1>2, <2>3, ExchangeStep DEF Exchanging!SourceGrows, ExchangeInv, ExchangeTypeOK
<1>3. ASSUME NEW side \in {"source", "here"}, Exchanging!Upgrade(side)
      PROVE  ExchangeInv'
  <2>1. versions' \in [{"source", "here"} -> Nat \ {0}]
    BY <1>3 DEF Exchanging!Upgrade, ExchangeInv, ExchangeTypeOK
  <2> QED
    BY <1>3, <2>1, ExchangeStep DEF Exchanging!Upgrade, ExchangeInv, ExchangeTypeOK
<1> QED
  BY <1>1, <1>2, <1>3

LEMMA SubmitKeeps ==
  ASSUME ExchangeInv, Exchanging!Submit
  PROVE  ExchangeInv'
<1>1. /\ UNCHANGED <<source, versions, exported, stored, importer, references, tasks, killed>>
      /\ kept' \in Nat
  BY AppendedTyped DEF Exchanging!Submit, ExchangeInv
<1>2. \A r \in Exchanging!ClientRequests : r.by # "command"
  BY DEF Exchanging!ClientRequests
<1>3. /\ \A r \in asked' : r \in asked \/ r \in Exchanging!ClientRequests
      /\ notes \subseteq notes' /\ terms \subseteq terms'
  BY DEF Exchanging!Submit
<1> QED
  BY <1>1, <1>2, <1>3, ExchangeStep DEF ExchangeInv, ExchangeTypeOK

LEMMA ImportKeeps ==
  ASSUME ExchangeInv, NEW q \in exported, NEW p \in Exchanging!Edits(q), NEW replace,
         Exchanging!Import(p, replace)
  PROVE  ExchangeInv'
<1>1. Taken(p, versions.here)
  BY EditedTyped, ContinuousTaken DEF ExchangeInv, PacketsTraced, Exchanging!Import
<1>2. Taken(stored', importer')
  BY <1>1 DEF Exchanging!Import
<1> QED
  BY <1>2, ExchangeStep DEF ExchangeInv, ExchangeTypeOK, Exchanging!Import, Exchanging!logVars

LEMMA RecordKeeps ==
  ASSUME ExchangeInv, NEW p \in Exchanging!Given, NEW o \in Exchanging!Options, NEW id,
         Exchanging!Record(p, o, id)
  PROVE  ExchangeInv'
<1> DEFINE r0 == [id |-> id, packet |-> p, status |-> Exchanging!Federation(p, o),
                  reader |-> versions.here]
<1>1. Taken(p, versions.here) /\ ~ p.requires
  BY GivenTyped, FederationPasses DEF Exchanging!Record
<1>2. /\ UNCHANGED <<source, versions, exported, stored, importer, asked, notes, terms, tasks, killed>>
      /\ references' = references \cup {r0}
      /\ r0.packet = p /\ r0.reader = versions.here
      /\ kept' \in Nat
  BY AppendedTyped DEF Exchanging!Record, ExchangeInv
<1> HIDE DEF r0
<1> QED
  BY <1>1, <1>2, ExchangeStep DEF ExchangeInv, ExchangeTypeOK

\* A request is followed as it was, unless its run is the one that moves.
LEMMA OthersFollowed ==
  ASSUME ExchangeInv, NEW t \in Runner, \A u \in Runner \ {t} : tasks'[u] = tasks[u],
         notes \subseteq notes', terms \subseteq terms', killed \subseteq killed',
         NEW r \in asked, r.by = "command"
  PROVE  Followed(r)' \/ Finishing(t, r)
  BY DEF ExchangeInv, RequestsFollowed, Followed, Finished, Finishing, Noted

\* A step of a run that asks for nothing new.
LEMMA RunStep ==
  ASSUME ExchangeInv, NEW t \in Runner, kept' \in Nat,
         UNCHANGED <<source, versions, exported, stored, importer, asked, references>>,
         tasks' \in [Runner -> TaskRecord \cup {Exchanging!Idle}],
         \A u \in Runner \ {t} : tasks'[u] = tasks[u],
         tasks'[t] # Exchanging!Idle =>
           /\ Taken(tasks'[t].packet, tasks'[t].reader) /\ ~ tasks'[t].packet.requires
           /\ tasks'[t].differences > 0 <=> tasks'[t].packet.optional
           /\ tasks'[t].review <=> (tasks'[t].packet.optional \/ tasks'[t].packet.events.legacy)
           /\ tasks'[t].review <=> tasks'[t].status = "degraded",
         notes \subseteq notes', terms \subseteq terms', killed \subseteq killed',
         \A r \in asked : r.by = "command" /\ Finishing(t, r) => Followed(r)'
  PROVE  ExchangeInv'
<1>1. ExchangeTypeOK'
  BY DEF ExchangeInv, ExchangeTypeOK
<1>2. RunsAsGated'
  BY DEF ExchangeInv, RunsAsGated
<1>3. PacketsTraced'
  BY DEF ExchangeInv, PacketsTraced
<1>4. RequestsFollowed'
  BY OthersFollowed DEF ExchangeInv, RequestsFollowed
<1> QED
  BY <1>1, <1>2, <1>3, <1>4 DEF ExchangeInv

LEMMA RunStartsKeeps ==
  ASSUME ExchangeInv, NEW t \in Runner, NEW p \in Exchanging!Given, NEW o \in Exchanging!Options,
         Exchanging!Propose(t, p, o, p)
  PROVE  ExchangeInv'
<1>0. PICK k0 : k0 = [step |-> "request", packet |-> p, id |-> p,
                      status |-> Exchanging!Negotiation(p, o),
                      differences |-> Exchanging!Differences(p),
                      review |-> Exchanging!Differences(p) > 0 \/ Exchanging!Degraded(p, o),
                      reader |-> versions.here]
  OBVIOUS
<1>1. Taken(p, versions.here) /\ ~ p.requires /\ (Exchanging!Degraded(p, o) <=> p.optional \/ p.events.legacy)
  BY GivenTyped, NegotiationPasses DEF Exchanging!Propose
<1>2. /\ UNCHANGED <<source, versions, exported, stored, importer, asked, notes, terms, references, kept,
                     killed>>
      /\ tasks[t] = Exchanging!Idle
      /\ Exchanging!Negotiation(p, o) \in {"accepted", "degraded"}
      /\ tasks' = [tasks EXCEPT ![t] = k0]
  BY <1>0 DEF Exchanging!Propose, Exchanging!logVars, Exchanging!Negotiation
<1>3. /\ Exchanging!Differences(p) = IF p.optional THEN 1 ELSE 0
      /\ Exchanging!Differences(p) > 0 <=> p.optional
  BY DEF Exchanging!Differences
<1>4. Exchanging!Negotiation(p, o) = "degraded" <=> p.optional \/ p.events.legacy
  BY <1>1, <1>2, <1>3 DEF Exchanging!Negotiation
<1>5. /\ k0 \in TaskRecord /\ k0.packet = p
      /\ k0.differences > 0 <=> p.optional
      /\ k0.review <=> (p.optional \/ p.events.legacy)
      /\ k0.status = Exchanging!Negotiation(p, o) /\ k0.reader = versions.here
  BY <1>0, <1>1, <1>2, <1>3 DEF TaskRecord, Taken, ExchangeInv, ExchangeTypeOK
<1>6. /\ tasks' \in [Runner -> TaskRecord \cup {Exchanging!Idle}]
      /\ tasks'[t] = k0
      /\ \A u \in Runner \ {t} : tasks'[u] = tasks[u]
  BY <1>2, <1>5 DEF ExchangeInv, ExchangeTypeOK
<1>7. \A r : ~ Finishing(t, r)
  BY <1>2 DEF Finishing, Exchanging!Idle
<1>8. kept' \in Nat
  BY <1>2 DEF ExchangeInv, ExchangeTypeOK
<1>9. /\ Taken(tasks'[t].packet, tasks'[t].reader) /\ ~ tasks'[t].packet.requires
      /\ tasks'[t].differences > 0 <=> tasks'[t].packet.optional
      /\ tasks'[t].review <=> (tasks'[t].packet.optional \/ tasks'[t].packet.events.legacy)
      /\ tasks'[t].review <=> tasks'[t].status = "degraded"
  BY <1>1, <1>4, <1>5, <1>6
<1> QED
  BY <1>2, <1>6, <1>7, <1>8, <1>9, RunStep


\* A step of a run that is at one of its appends.
LEMMA RunAt ==
  ASSUME ExchangeInv, NEW t \in Runner, tasks[t] # Exchanging!Idle
  PROVE  /\ tasks[t] \in TaskRecord
         /\ Taken(tasks[t].packet, tasks[t].reader) /\ ~ tasks[t].packet.requires
         /\ tasks[t].differences > 0 <=> tasks[t].packet.optional
         /\ tasks[t].review <=> (tasks[t].packet.optional \/ tasks[t].packet.events.legacy)
         /\ tasks[t].review <=> tasks[t].status = "degraded"
  BY DEF ExchangeInv, ExchangeTypeOK, RunsAsGated

\* To the next of its appends a run goes with what it has found.
LEMMA RunGoesOn ==
  ASSUME ExchangeInv, NEW t \in Runner, tasks[t] # Exchanging!Idle,
         NEW s \in {"difference", "terms"}, tasks' = [tasks EXCEPT ![t].step = s],
         exported' = exported
  PROVE  /\ tasks' \in [Runner -> TaskRecord \cup {Exchanging!Idle}]
         /\ \A u \in Runner \ {t} : tasks'[u] = tasks[u]
         /\ tasks'[t].step = s /\ tasks'[t].packet = tasks[t].packet
         /\ tasks'[t].id = tasks[t].id /\ tasks'[t].status = tasks[t].status
         /\ tasks'[t].reader = tasks[t].reader
         /\ Taken(tasks'[t].packet, tasks'[t].reader) /\ ~ tasks'[t].packet.requires
         /\ tasks'[t].differences > 0 <=> tasks'[t].packet.optional
         /\ tasks'[t].review <=> (tasks'[t].packet.optional \/ tasks'[t].packet.events.legacy)
         /\ tasks'[t].review <=> tasks'[t].status = "degraded"
<1>1. tasks[t] \in TaskRecord
  BY RunAt
<1>2. /\ tasks'[t] = [tasks[t] EXCEPT !.step = s]
      /\ \A u \in Runner \ {t} : tasks'[u] = tasks[u]
      /\ tasks' = [u \in Runner |-> tasks'[u]]
  BY DEF ExchangeInv, ExchangeTypeOK
<1>3. /\ tasks'[t] \in TaskRecord
      /\ tasks'[t].step = s /\ tasks'[t].packet = tasks[t].packet
      /\ tasks'[t].id = tasks[t].id /\ tasks'[t].status = tasks[t].status
      /\ tasks'[t].reader = tasks[t].reader
      /\ tasks'[t].review = tasks[t].review /\ tasks'[t].differences = tasks[t].differences
  BY <1>1, <1>2 DEF TaskRecord
<1>4. tasks' \in [Runner -> TaskRecord \cup {Exchanging!Idle}]
  BY <1>2, <1>3 DEF ExchangeInv, ExchangeTypeOK
<1> QED
  BY <1>2, <1>3, <1>4, RunAt

LEMMA ProposeRequestKeeps ==
  ASSUME ExchangeInv, NEW t \in Runner, Exchanging!ProposeRequest(t)
  PROVE  ExchangeInv'
<1>a. PICK r0 : r0 = [id |-> tasks[t].id, packet |-> tasks[t].packet,
                       status |-> tasks[t].status, by |-> "command",
                       reader |-> tasks[t].reader]
  OBVIOUS
<1>b. PICK s0 : s0 = IF tasks[t].differences > 0 THEN "difference" ELSE "terms"
  OBVIOUS
<1>1. /\ UNCHANGED <<source, versions, exported, stored, importer, notes, terms, references, killed>>
      /\ tasks[t].step = "request"
      /\ tasks' = [tasks EXCEPT ![t].step = s0]
      /\ kept' \in Nat
  BY <1>b, AppendedTyped DEF Exchanging!ProposeRequest, ExchangeInv
<1>2. /\ asked' = asked \cup {r0}
      /\ r0.id = tasks[t].id /\ r0.packet = tasks[t].packet /\ r0.status = tasks[t].status
      /\ r0.by = "command" /\ r0.reader = tasks[t].reader
  BY <1>a DEF Exchanging!ProposeRequest
<1>3. tasks[t] # Exchanging!Idle /\ s0 \in {"difference", "terms"}
  BY <1>b, <1>1 DEF Exchanging!Idle
<1>4. /\ tasks' \in [Runner -> TaskRecord \cup {Exchanging!Idle}]
      /\ \A u \in Runner \ {t} : tasks'[u] = tasks[u]
      /\ tasks'[t].step = s0 /\ tasks'[t].packet = tasks[t].packet
      /\ tasks'[t].id = tasks[t].id /\ tasks'[t].status = tasks[t].status
      /\ tasks'[t].reader = tasks[t].reader
      /\ Taken(tasks'[t].packet, tasks'[t].reader) /\ ~ tasks'[t].packet.requires
      /\ tasks'[t].differences > 0 <=> tasks'[t].packet.optional
      /\ tasks'[t].review <=> (tasks'[t].packet.optional \/ tasks'[t].packet.events.legacy)
      /\ tasks'[t].review <=> tasks'[t].status = "degraded"
  BY <1>1, <1>3, RunGoesOn
<1>5. s0 = "terms" => ~ tasks[t].packet.optional
  BY <1>b, <1>3, RunAt
<1>6. ExchangeTypeOK'
  BY <1>1, <1>4 DEF ExchangeInv, ExchangeTypeOK
<1>7. RunsAsGated'
  BY <1>1, <1>4 DEF ExchangeInv, RunsAsGated
<1>8. PacketsTraced'
  BY <1>1, <1>2, <1>3, RunAt DEF ExchangeInv, PacketsTraced
<1>9. Finishing(t, r0)'
  BY <1>1, <1>2, <1>3, <1>4, <1>5 DEF Finishing, Noted
<1>10. ASSUME NEW r \in asked, r.by = "command"
       PROVE  Followed(r)'
  <2>1. ~ Finishing(t, r)
    BY <1>1 DEF Finishing
  <2> QED
    BY <1>1, <1>4, <1>10, <2>1, OthersFollowed
<1>11. RequestsFollowed'
  BY <1>2, <1>9, <1>10 DEF RequestsFollowed, Followed
<1> QED
  BY <1>6, <1>7, <1>8, <1>11 DEF ExchangeInv

LEMMA ProposeDifferenceKeeps ==
  ASSUME ExchangeInv, NEW t \in Runner, Exchanging!ProposeDifference(t)
  PROVE  ExchangeInv'
<1> DEFINE n0 == [kind |-> "difference", of |-> tasks[t].id, by |-> "command"]
<1>1. /\ UNCHANGED <<source, versions, exported, stored, importer, asked, terms, references, killed>>
      /\ tasks[t].step = "difference"
      /\ tasks' = [tasks EXCEPT ![t].step = "terms"]
      /\ notes' = notes \cup {n0}
      /\ kept' \in Nat
  BY AppendedTyped DEF Exchanging!ProposeDifference, ExchangeInv
<1>2. tasks[t] # Exchanging!Idle
  BY <1>1 DEF Exchanging!Idle
<1>3. ASSUME NEW r \in asked, r.by = "command", Finishing(t, r)
      PROVE  Followed(r)'
  <2>1. n0 = [kind |-> "difference", of |-> r.id, by |-> "command"]
    BY <1>3 DEF Finishing
  <2>2. Noted(r)'
    BY <1>1, <2>1 DEF Noted
  <2>3. Finishing(t, r)'
    BY <1>1, <1>2, <1>3, <2>2, RunGoesOn DEF Finishing
  <2> QED
    BY <2>3 DEF Followed
<1> HIDE DEF n0
<1> QED
  BY <1>1, <1>2, <1>3, RunGoesOn, RunStep

LEMMA ProposeTermsKeeps ==
  ASSUME ExchangeInv, NEW t \in Runner, Exchanging!ProposeTerms(t)
  PROVE  ExchangeInv'
<1> DEFINE e0 == [of |-> tasks[t].id, status |-> "proposed", review |-> tasks[t].review,
                  by |-> "command"]
<1>1. /\ UNCHANGED <<source, versions, exported, stored, importer, asked, notes, references, killed>>
      /\ tasks[t].step = "terms"
      /\ tasks' = [tasks EXCEPT ![t] = Exchanging!Idle]
      /\ terms' = terms \cup {e0}
      /\ kept' \in Nat
  BY AppendedTyped DEF Exchanging!ProposeTerms, ExchangeInv
<1>2. tasks[t] # Exchanging!Idle
  BY <1>1 DEF Exchanging!Idle
<1>3. e0.of = tasks[t].id /\ e0.by = "command" /\ e0.review = tasks[t].review
  OBVIOUS
<1> HIDE DEF e0
<1>4. ASSUME NEW r \in asked, r.by = "command", Finishing(t, r)
      PROVE  Followed(r)'
  <2>1. /\ e0.of = r.id
        /\ e0.review = (r.packet.optional \/ r.packet.events.legacy)
        /\ e0.review = (r.status = "degraded")
    <3>1. /\ tasks[t].review \in BOOLEAN
          /\ tasks[t].packet = r.packet /\ tasks[t].id = r.id /\ tasks[t].status = r.status
          /\ tasks[t].review <=> (tasks[t].packet.optional \/ tasks[t].packet.events.legacy)
          /\ tasks[t].review <=> tasks[t].status = "degraded"
      BY <1>2, <1>4, RunAt DEF Finishing, TaskRecord
    <3> QED
      BY <1>3, <3>1
  <2>2. Noted(r)'
    BY <1>1, <1>4 DEF Noted, Finishing
  <2>3. Finished(r)'
    BY <1>1, <1>3, <2>1, <2>2 DEF Finished
  <2> QED
    BY <2>3 DEF Followed
<1>5. /\ tasks' \in [Runner -> TaskRecord \cup {Exchanging!Idle}]
      /\ tasks'[t] = Exchanging!Idle
      /\ \A u \in Runner \ {t} : tasks'[u] = tasks[u]
  BY <1>1 DEF ExchangeInv, ExchangeTypeOK
<1> QED
  BY <1>1, <1>4, <1>5, RunStep

LEMMA KillKeeps ==
  ASSUME ExchangeInv, NEW t \in Runner, Exchanging!Kill(t)
  PROVE  ExchangeInv'
<1>1. /\ UNCHANGED <<source, versions, exported, stored, importer, asked, notes, terms, references, kept>>
      /\ killed' = killed \cup {tasks[t].id}
      /\ tasks' = [tasks EXCEPT ![t] = Exchanging!Idle]
  BY DEF Exchanging!Kill, Exchanging!logVars
<1>2. /\ tasks' \in [Runner -> TaskRecord \cup {Exchanging!Idle}]
      /\ tasks'[t] = Exchanging!Idle
      /\ \A u \in Runner \ {t} : tasks'[u] = tasks[u]
      /\ kept' \in Nat
  BY <1>1 DEF ExchangeInv, ExchangeTypeOK
<1>3. \A r \in asked : Finishing(t, r) => Followed(r)'
  BY <1>1 DEF Finishing, Followed
<1> QED
  BY <1>1, <1>2, <1>3, RunStep

LEMMA ExchangeNext == ExchangeInv /\ Exchanging!Next => ExchangeInv'
<1> SUFFICES ASSUME ExchangeInv, Exchanging!Next PROVE ExchangeInv'
  OBVIOUS
<1>1. CASE \/ Exchanging!Export
           \/ \E a \in SUBSET Amended, g \in BOOLEAN : Exchanging!SourceGrows(a, g)
           \/ \E side \in {"source", "here"} : Exchanging!Upgrade(side)
  BY <1>1, SourceKeeps
<1>2. CASE Exchanging!Submit
  BY <1>2, SubmitKeeps
<1>3. CASE \E p \in UNION {Exchanging!Edits(q) : q \in exported}, replace \in BOOLEAN :
             Exchanging!Import(p, replace)
  BY <1>3, ImportKeeps
<1>4. CASE \E p \in Exchanging!Given, o \in Exchanging!Options : \E id \in {} \cup {p} :
             \/ Exchanging!Record(p, o, id)
             \/ \E t \in Runner : Exchanging!Propose(t, p, o, id)
  <2>1. PICK p \in Exchanging!Given, o \in Exchanging!Options :
          \/ Exchanging!Record(p, o, p)
          \/ \E t \in Runner : Exchanging!Propose(t, p, o, p)
    BY <1>4
  <2>2. CASE Exchanging!Record(p, o, p)
    BY <2>2, RecordKeeps
  <2>3. ASSUME NEW t \in Runner, Exchanging!Propose(t, p, o, p) PROVE ExchangeInv'
    BY <2>3, RunStartsKeeps
  <2> QED
    BY <2>1, <2>2, <2>3
<1>5. CASE \E t \in Runner :
             \/ Exchanging!ProposeRequest(t) \/ Exchanging!ProposeDifference(t)
             \/ Exchanging!ProposeTerms(t) \/ Exchanging!Kill(t)
  BY <1>5, ProposeRequestKeeps, ProposeDifferenceKeeps, ProposeTermsKeeps, KillKeeps
<1> QED
  BY <1>1, <1>2, <1>3, <1>4, <1>5 DEF Exchanging!Next

ExchangePart == part = "exchange" => ExchangeInv

LEMMA ExchangePartHolds == Spec => []ExchangePart
<1>1. Init => ExchangePart
  BY ExchangeInit DEF Init, ExchangePart
<1>2. ExchangePart /\ [Next]_partsVars => ExchangePart'
  <2> SUFFICES ASSUME ExchangePart, [Next]_partsVars, part' = "exchange" PROVE ExchangeInv'
    BY DEF ExchangePart
  <2>1. CASE NextExchange
    BY <2>1, ExchangeNext DEF NextExchange, ExchangePart
  <2>2. CASE part # "exchange" /\ Next
    BY <2>2 DEF Next, NextRecovery, NextMerges, NextAmendments, NextStore, NextExchange
  <2>3. CASE UNCHANGED partsVars
    BY <2>3
    DEF partsVars, exchangeVars, ExchangePart, ExchangeInv, ExchangeTypeOK, RunsAsGated,
        PacketsTraced, RequestsFollowed, Followed, Finished, Finishing, Noted
  <2> QED
    BY <2>1, <2>2, <2>3 DEF Next, NextRecovery, NextMerges, NextAmendments, NextStore
<1> QED
  BY <1>1, <1>2, PTL DEF Spec

\* A state that is taken with a packet is what the projector that was here makes of the
\* packet's own events; a packet as it was exported is refused for its projector alone.
THEOREM TakenStatesAreDerived == Spec => []StateFromEvents
<1>1. ExchangeInv => Exchanging!StateFromEvents
  <2> SUFFICES ASSUME ExchangeInv PROVE Exchanging!StateFromEvents
    OBVIOUS
  <2>1. ASSUME NEW r \in {q \in asked : q.by = "command"} \cup references
        PROVE  Exchanging!Derived(r.packet, r.reader)
    BY DEF ExchangeInv, PacketsTraced, Taken
  <2>2. stored # Exchanging!NoPacket => Exchanging!Derived(stored, importer)
    BY DEF ExchangeInv, PacketsTraced, Taken
  <2>3. ASSUME NEW p \in exported
        PROVE  Exchanging!Reasons(p) =
                 IF p.label = versions.here THEN {} ELSE {"projection_version"}
    <3>1. p.label # Exchanging!Unlabelled /\ p = Exchanging!Packet(p.events, p.label)
      BY DEF ExchangeInv, PacketsTraced
    <3>2. p.whole = TRUE /\ p.state = Exchanging!Reading(p.label, p.events)
      BY <3>1 DEF Exchanging!Packet
    <3> QED
      BY <3>1, <3>2 DEF Exchanging!Reasons
  <2> QED
    BY <2>1, <2>2, <2>3 DEF Exchanging!StateFromEvents
<1>2. ExchangePart => StateFromEvents
  BY <1>1 DEF ExchangePart, StateFromEvents
<1> QED
  BY <1>2, ExchangePartHolds, PTL

\* A negotiation that degrades anything says so.
THEOREM DowngradesAreSaid == Spec => []NoSilentDowngrade
<1>1. ExchangeInv => Exchanging!NoSilentDowngrade
  <2> SUFFICES ASSUME ExchangeInv, NEW r \in asked, r.by = "command", r.id \notin killed,
                      \A t \in Runner : tasks[t] = Exchanging!Idle
               PROVE  Finished(r)
    BY DEF Exchanging!NoSilentDowngrade, Finished, Noted
  <2>1. \A t \in Runner : ~ Finishing(t, r)
    BY DEF Finishing, Exchanging!Idle
  <2> QED
    BY <2>1 DEF ExchangeInv, RequestsFollowed, Followed
<1>2. ExchangePart => NoSilentDowngrade
  BY <1>1 DEF ExchangePart, NoSilentDowngrade
<1> QED
  BY <1>2, ExchangePartHolds, PTL
=============================================================================

------------------------------- MODULE MCWork -------------------------------
EXTENDS Outcomes, FiniteSets, TLC
CONSTANTS p, q, g, x, w1, w2, l, n, o, s, f1, f2, MaxFacts

\* A decision owner, somebody else, and a decision of the first that covers w1.
MCInit ==
  /\ OutcomeInit
  /\ people[p] = "human"
  /\ people[q] \in {"agent", "stranger"}
  /\ owners = {<<p, "thread">>}
  /\ decision = [by |-> p, approved |-> TRUE, scope |-> {w1}, conditions |-> {}]
  /\ now = 1

MCSpec == MCInit /\ [][OutcomeNext]_allVars

\* A log that is not valid is read by no command; valid ones grow so far.  A second
\* owner of decisions is followed where work rests on the decision alone; outcomes,
\* which ask nobody, where only p owns decisions.
Bound ==
  /\ valid
  /\ Cardinality(facts) <= MaxFacts
  /\ people[q] \notin {"tool", "system"}
  /\ grants[g] # NoGrant => owners \subseteq {<<p, "thread">>}
  /\ expected[o] # NoOutcome => owners = {<<p, "thread">>}

Symmetry == Permutations({f1, f2})
=============================================================================

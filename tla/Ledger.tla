------------------------------- MODULE Ledger -------------------------------
(***************************************************************************)
(* What the notary promises its readers, with nothing said about how: for  *)
(* every thread a log whose entries sit at positions 0, 1, 2, ... with no  *)
(* gap.  A log only ever grows at its end, by one entry at a time, so      *)
(* whatever a reader once cited at a position is there for good.           *)
(***************************************************************************)
EXTENDS Integers

CONSTANT Thread

VARIABLE log    \* log[t][n] is the entry of thread t at position n

Empty == [n \in {} |-> n]

Init == log = [t \in Thread |-> Empty]

\* One more entry, whatever it says, at the first free position of thread t.
Extend(t) ==
  \E n \in DOMAIN log'[t] :
    /\ DOMAIN log'[t] = 0 .. n
    /\ DOMAIN log[t] = 0 .. n - 1
    /\ \A k \in DOMAIN log[t] : log'[t][k] = log[t][k]
    /\ \A u \in Thread \ {t} : log'[u] = log[u]

Next == \E t \in Thread : Extend(t)

Spec == Init /\ [][Next]_log
=============================================================================

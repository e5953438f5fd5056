----------------------------- MODULE MCProtocol -----------------------------
EXTENDS ProtocolParts, TLC

CONSTANTS c1, c2, v1, v2

\* Each recovery's plan is reviewed under one id, an emergency of it under the other.
MCPlanReview      == [c \in {c1, c2} |-> IF c = c1 THEN v1 ELSE v2]
MCEmergencyReview == [c \in {c1, c2} |-> IF c = c1 THEN v2 ELSE v1]

-----------------------------------------------------------------------------
(* Bounds: states beyond them are checked and not continued.               *)

\* Each way of using a packet by itself, one reference, one record of a client, one run
\* killed, one upgrade; a source that has made its packets rests.
ExchangeBound ==
  /\ \/ references = {} /\ stored = Exchanging!NoPacket
     \/ asked \cup notes = {} /\ \A t \in Runner : tasks[t] = Exchanging!Idle
  /\ Cardinality({r \in asked \cup notes \cup terms : r.by = "client"}) <= 1
  /\ Cardinality(killed) <= 1 /\ Cardinality(references) <= 1
  /\ versions.source + versions.here <= 3
  /\ Cardinality(exported) = MaxPackets =>
       \E p \in exported : p.events = source /\ p.label = versions.source

\* A fork by the fourth event; by the sixth a merge, or what makes one hard; and one at
\* a time: a second fork, a second request, a review, a conflict, a decision on what
\* was resolved.  Who reads the log when it is full forks nothing.
MergeBound ==
  LET Two(S) == Cardinality(S) = 2
      Much == <<Two({t \in Fork : forks[t] # Merging!NoFork}),
                Two({r \in Request : proposed[r] # Merging!NoRequest}),
                \E r \in Request, p \in Reviewer : judgements[r][p] # Merging!NoReview,
                \E k \in Conflict : conflicts[k] # Merging!NoConflict,
                reopened # {}>>
  IN /\ height < MergeHeight
     /\ height > 4 => \E t \in Fork : forks[t] # Merging!NoFork
     /\ height > 5 => \/ \E r \in Request : Merging!Completed(r)
                      \/ \E k \in Conflict : conflicts[k] # Merging!NoConflict
                      \/ reopened # {} /\ \E r \in Request : proposed[r] # Merging!NoRequest
     /\ Cardinality({n \in DOMAIN Much : Much[n]}) <= 1

\* A log that is not valid is read by no command.
Bound == valid /\ (part = "merges" => MergeBound) /\ ExchangeBound

\* These sets appear as sets alone, and every property is an invariant.
Symmetry ==
  UNION {Permutations(S) : S \in {Fork, Request, Completion}}
=============================================================================

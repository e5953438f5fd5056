------------------------------- MODULE Exchange -------------------------------
(***************************************************************************)
(* Reasoning carried from one log to another (packages/protocol/src/       *)
(* continuity.js, compatibility.js, interoperability.js, federation.js,    *)
(* negotiation.js, their validators and their commands in cli/).           *)
(*                                                                         *)
(* A source exports its log as a continuity packet, which somebody carries *)
(* here and may edit on the way.  Here a packet goes through five gates,   *)
(* each over the results of those before it: continuity, compatibility,    *)
(* interoperability, federation and negotiation.  What passes may be       *)
(* stored, recorded as a reference, or proposed as a negotiation, in       *)
(* events that a command appends one by one and without validation.        *)
(*                                                                         *)
(* What an event must have in its fields is taken to be there (how a blank *)
(* one ends a log is in Delegation); so are the participants.              *)
(***************************************************************************)
EXTENDS Naturals, FiniteSets

CONSTANTS
  Process,     \* runs of clista negotiation propose
  Amendment,   \* amendments the source may have approved
  Named,       \* ids that an option names
  MaxVersion,  \* bound: projector versions
  MaxLength,   \* bound: events of the source
  MaxPackets,  \* bound: packets exported
  MaxEntries   \* bound: events of the log here

VARIABLES
  source,      \* the log at the source
  versions,    \* the projector at the source and here
  exported,    \* packets the source has made
  stored,      \* the packet file in the store here
  importer,    \* the projector that was here when it was stored
  requests, notes, terms,  \* the negotiation records here
  references,  \* federated state references here
  tasks,       \* runs of negotiation propose
  killed,      \* ids of requests whose run was killed
  entries,     \* events here
  valid        \* the log here is valid

logVars == <<requests, notes, terms, references, entries, valid>>
vars == <<source, versions, exported, stored, importer, logVars, tasks, killed>>

NoPacket == [of |-> "nobody"]
Idle     == [step |-> "none"]

-----------------------------------------------------------------------------
(* Packets *)

\* A log: its length, the amendments in force, whether it has events of old, which verify
\* and not strictly, and events of a type no interoperability profile declares.
Log(of, length, amended, legacy, foreign) ==
  [of |-> of, length |-> length, amended |-> amended, legacy |-> legacy, foreign |-> foreign]

\* What a projector makes of a log: the later ones make something else of amendments.
Reading(version, log) == [log |-> log, by |-> IF log.amended = {} THEN 1 ELSE version]

Unlabelled == 0

\* exportContinuityPacket: the log, and its state under the label of the projector.
Packet(log, version) ==
  [events |-> log, state |-> Reading(version, log), label |-> version,
   whole |-> TRUE,      \* its hashes are those of its events and of its state
   optional |-> FALSE,  \* claims an optional capability nobody has here
   requires |-> FALSE]  \* claims a required one

\* Nothing signs a packet: who rewrites a part of it may make its hashes anew.
Cleaned(log) == [log EXCEPT !.amended = {}, !.legacy = FALSE, !.foreign = FALSE]

Claims == [optional: BOOLEAN, requires: BOOLEAN]

\* On its way a packet may get other claims, another label or none; a log rewritten, with
\* its state or without; a state made up; or hashes that are not made anew.
Edits(p) ==
  {[p EXCEPT !.optional = c.optional, !.requires = c.requires] : c \in Claims}
    \cup {[p EXCEPT !.label = l] : l \in {Unlabelled} \cup 1..MaxVersion}
    \cup {Packet(Cleaned(p.events), v) : v \in 1..MaxVersion}
    \cup {[p EXCEPT !.events = Cleaned(p.events)], [p EXCEPT !.state.by = 0],
          [p EXCEPT !.whole = FALSE]}

\* readContinuityPacketForOptions: a packet that is named, the stored one, or an
\* export of the log here.
Given ==
  (UNION {Edits(p) : p \in exported}) \cup
    (IF stored # NoPacket THEN {stored}
     ELSE IF valid
          THEN {Packet(Log("here", entries, {}, FALSE, FALSE), versions.here)}
          ELSE {})

\* What the options of a command support and set: the amendments, what they leave
\* out of the defaults, and whether one of the forbidden effects is asked for.
Options == [amendments: SUBSET Amendment,
            lacks: {"nothing", "capability", "semantic"}, forbidden: BOOLEAN]

-----------------------------------------------------------------------------
(* The gates *)

\* Mutant: under another projector the state is not compared, and the packet not refused.
Reasons_Lenient(p) ==
  (IF p.whole THEN {} ELSE {"hash"}) \cup
    (IF p.label \in {Unlabelled, versions.here} /\ p.state # Reading(versions.here, p.events)
     THEN {"projection"} ELSE {})

\* verifyContinuityPacket: under another projector nothing is projected.
Reasons(p) ==
  (IF p.whole THEN {} ELSE {"hash"}) \cup
    (IF p.label \notin {Unlabelled, versions.here} THEN {"projection_version"}
     ELSE IF p.state # Reading(versions.here, p.events) THEN {"projection"} ELSE {})

Continuous(p) == Reasons(p) = {}

Compatibility(p, o) ==
  IF ~ Continuous(p) THEN "rejected"
  ELSE IF p.requires \/ o.lacks = "capability" \/ ~ (p.events.amended \subseteq o.amendments)
       THEN "incompatible"
  ELSE IF p.optional \/ p.events.legacy THEN "degraded" ELSE "compatible"

Interoperability(p, o) ==
  IF Compatibility(p, o) = "rejected" THEN "rejected"
  ELSE IF Compatibility(p, o) = "incompatible" \/ o.lacks = "semantic" \/ p.events.foreign
       THEN "incompatible"
  ELSE IF Compatibility(p, o) = "degraded" \/ p.events.legacy THEN "degraded" ELSE "interoperable"

Refused == {"rejected", "incompatible"}

Federation(p, o) ==
  IF ~ Continuous(p) \/ Compatibility(p, o) \in Refused \/ Interoperability(p, o) \in Refused
       \/ o.forbidden
  THEN "rejected"
  ELSE IF "degraded" \in {Compatibility(p, o), Interoperability(p, o)} \/ p.events.legacy
  THEN "degraded" ELSE "accepted"

\* compareCapabilityDifferences and the others: what an exchange that is not
\* rejected leaves different, and what is degraded about it.
Differences(p) == IF p.optional THEN 1 ELSE 0

\* Mutant: a gate that is degraded is no degradation of the negotiation.
Degraded_OwnOnly(p, o) == p.optional

Degraded(p, o) ==
  \/ p.optional \/ p.events.legacy
  \/ "degraded" \in {Compatibility(p, o), Interoperability(p, o), Federation(p, o)}

Negotiation(p, o) ==
  IF \/ ~ Continuous(p) \/ p.requires \/ o.lacks # "nothing"
     \/ ~ (p.events.amended \subseteq o.amendments)
     \/ {Compatibility(p, o), Interoperability(p, o), Federation(p, o)} \cap Refused # {}
     \/ o.forbidden
  THEN "rejected"
  ELSE IF Differences(p) > 0 \/ Degraded(p, o) THEN "degraded" ELSE "accepted"

-----------------------------------------------------------------------------
(* The log here: what the validator asks, and what an event leaves *)

Known(id) == \E r \in requests : r.id = id

RequestAccepted(r) == ~ Known(r.id)

\* Constraints, differences, failures and terms in any state: of a request there is.
NoteAccepted(e) == Known(e.of)

ReferenceAccepted(r) == \A s \in references : s.id # r.id

\* One event more, which may end the log.
Appended(accepted) ==
  /\ entries < MaxEntries
  /\ entries' = entries + 1
  /\ valid' = (valid /\ accepted)

\* The records clients write by the library, validated.  Terms that are accepted,
\* rejected or degraded stand beside those that were proposed, and nothing reads
\* which they are: one stands for all, and a constraint or a failure for a note.
ClientRequests == [id: Named \cup exported, packet: {NoPacket}, status: {"proposed"},
                   by: {"client"}, reader: {0}]
ClientNotes == [kind: {"failure"}, of: Named \cup exported, by: {"client"}]
ClientTerms == [of: Named \cup exported, status: {"accepted"}, review: {FALSE}, by: {"client"}]

Submit ==
  /\ valid
  /\ \/ \E r \in ClientRequests :
          RequestAccepted(r) /\ requests' = requests \cup {r} /\ UNCHANGED <<notes, terms>>
     \/ \E e \in ClientNotes :
          NoteAccepted(e) /\ notes' = notes \cup {e} /\ UNCHANGED <<requests, terms>>
     \/ \E e \in ClientTerms :
          NoteAccepted(e) /\ terms' = terms \cup {e} /\ UNCHANGED <<requests, notes>>
  /\ Appended(TRUE)
  /\ UNCHANGED <<source, versions, exported, stored, importer, references, tasks, killed>>

-----------------------------------------------------------------------------
(* Commands here *)

\* continuityImport: a packet that verifies is stored, over another where asked.
Import(p, replace) ==
  /\ Continuous(p)
  /\ stored = NoPacket \/ replace
  /\ stored' = p
  /\ importer' = versions.here
  /\ UNCHANGED <<source, versions, exported, logVars, tasks, killed>>

\* federationRecord, with its participant's event (which any log takes).
Record(p, o, id) ==
  /\ Federation(p, o) # "rejected"
  /\ LET r == [id |-> id, packet |-> p, status |-> Federation(p, o), reader |-> versions.here]
     IN  references' = references \cup {r} /\ Appended(ReferenceAccepted(r))
  /\ UNCHANGED <<source, versions, exported, stored, importer, requests, notes, terms, tasks, killed>>

\* negotiationPropose: the gates are passed once, then it appends in three steps.
Propose(t, p, o, id) ==
  /\ tasks[t] = Idle
  /\ Negotiation(p, o) # "rejected"
  /\ tasks' = [tasks EXCEPT ![t] =
       [step |-> "request", packet |-> p, id |-> id, status |-> Negotiation(p, o),
        differences |-> Differences(p),
        review |-> Differences(p) > 0 \/ Degraded(p, o), reader |-> versions.here]]
  /\ UNCHANGED <<source, versions, exported, stored, importer, logVars, killed>>

ProposeRequest(t) ==
  LET task == tasks[t]
      r == [id |-> task.id, packet |-> task.packet, status |-> task.status, by |-> "command",
            reader |-> task.reader]
  IN  /\ task.step = "request"
      /\ requests' = requests \cup {r}
      /\ Appended(RequestAccepted(r))
      /\ tasks' = [tasks EXCEPT ![t].step =
                     IF task.differences > 0 THEN "difference" ELSE "terms"]
      /\ UNCHANGED <<source, versions, exported, stored, importer, notes, terms, references, killed>>

ProposeDifference(t) ==
  LET task == tasks[t]
      e == [kind |-> "difference", of |-> task.id, by |-> "command"]
  IN  /\ task.step = "difference"
      /\ notes' = notes \cup {e}
      /\ Appended(NoteAccepted(e))
      /\ tasks' = [tasks EXCEPT ![t].step = "terms"]
      /\ UNCHANGED <<source, versions, exported, stored, importer, requests, terms, references, killed>>

\* buildNegotiationTerms: whether the exchange is to be reviewed explicitly.
ProposeTerms(t) ==
  LET task == tasks[t]
      e == [of |-> task.id, status |-> "proposed", review |-> task.review, by |-> "command"]
  IN  /\ task.step = "terms"
      /\ terms' = terms \cup {e}
      /\ Appended(NoteAccepted(e))
      /\ tasks' = [tasks EXCEPT ![t] = Idle]
      /\ UNCHANGED <<source, versions, exported, stored, importer, requests, notes, references, killed>>

\* A run is killed between two appends.
Kill(t) ==
  /\ tasks[t] # Idle
  /\ killed' = killed \cup {tasks[t].id}
  /\ tasks' = [tasks EXCEPT ![t] = Idle]
  /\ UNCHANGED <<source, versions, exported, stored, importer, logVars>>

-----------------------------------------------------------------------------
(* The source, and checkouts *)

\* An event at the source, which may bring an amendment into force or be of a type that
\* is in no profile.
SourceGrows(amended, foreign) ==
  /\ source.length < MaxLength
  /\ foreign => amended = {}
  /\ source' = [source EXCEPT !.length = @ + 1, !.amended = @ \cup amended,
                              !.foreign = @ \/ foreign]
  /\ UNCHANGED <<versions, exported, stored, importer, logVars, tasks, killed>>

Export ==
  /\ Cardinality(exported) < MaxPackets
  /\ exported' = exported \cup {Packet(source, versions.source)}
  /\ UNCHANGED <<source, versions, stored, importer, logVars, tasks, killed>>

\* A checkout of a later projector (src/packages/protocol/src/projector.js).
Upgrade(side) ==
  /\ versions[side] < MaxVersion
  /\ versions' = [versions EXCEPT ![side] = @ + 1]
  /\ UNCHANGED <<source, exported, stored, importer, logVars, tasks, killed>>

Init ==
  /\ source \in {Log("source", 1, {}, legacy, FALSE) : legacy \in BOOLEAN}
  /\ versions = [source |-> 1, here |-> 1]
  /\ exported = {}
  /\ stored = NoPacket
  /\ importer = 0
  /\ requests = {} /\ notes = {} /\ terms = {}
  /\ references = {}
  /\ tasks = [t \in Process |-> Idle]
  /\ killed = {}
  /\ entries = 0
  /\ valid = TRUE

Next ==
  \/ Export
  \/ \E a \in SUBSET Amendment, foreign \in BOOLEAN : SourceGrows(a, foreign)
  \/ \E side \in {"source", "here"} : Upgrade(side)
  \/ Submit
  \/ \E p \in UNION {Edits(q) : q \in exported}, replace \in BOOLEAN : Import(p, replace)
  \/ \E p \in Given, o \in Options :
       \E id \in Named \cup {p} :
         \/ Record(p, o, id)
         \/ \E t \in Process : Propose(t, p, o, id)
  \/ \E t \in Process :
       ProposeRequest(t) \/ ProposeDifference(t) \/ ProposeTerms(t) \/ Kill(t)

Spec == Init /\ [][Next]_vars

-----------------------------------------------------------------------------

Derived(p, version) == p.whole /\ p.state = Reading(version, p.events)

(***************************************************************************)
(* "Context transfer != memory trust" (continuity.js).  A packet is not    *)
(* signed, and may hold another log than it was exported with; but the     *)
(* state that was taken with it, into the store, by a reference or by a    *)
(* negotiation, is what the projector that was here made of the packet's   *)
(* own events, whichever either side has run before or since, and whatever *)
(* was changed on the way.  And a packet that comes as it was exported is  *)
(* refused for its projector, and for nothing that looks like corruption.  *)
(***************************************************************************)
StateFromEvents ==
  /\ \A r \in {q \in requests : q.by = "command"} \cup references : Derived(r.packet, r.reader)
  /\ stored # NoPacket => Derived(stored, importer)
  /\ \A p \in exported :
       Reasons(p) = IF p.label = versions.here THEN {} ELSE {"projection_version"}

(***************************************************************************)
(* "Negotiation cannot silently downgrade requirements": valid log or not  *)
(* the request that a run has proposed to its end has its difference       *)
(* recorded and its terms, which ask for explicit review exactly when the  *)
(* packet degrades: its log verifies only with its old events let through, *)
(* or it claims something nobody has here.  Four gates report that to the  *)
(* fifth.  A run that was killed may leave a request without its terms.    *)
(***************************************************************************)
NoSilentDowngrade ==
  \A r \in requests :
    (r.by = "command" /\ r.id \notin killed /\ \A t \in Process : tasks[t] = Idle) =>
      /\ r.packet.optional => [kind |-> "difference", of |-> r.id, by |-> "command"] \in notes
      /\ \E e \in terms :
           /\ e.of = r.id /\ e.by = "command"
           /\ e.review = (r.packet.optional \/ r.packet.events.legacy)
           /\ e.review = (r.status = "degraded")
=============================================================================

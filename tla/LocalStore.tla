------------------------------ MODULE LocalStore ------------------------------
(***************************************************************************)
(* The log of the command line: a file of one event per line, that every   *)
(* command and the gate read whole and append to, without a lock           *)
(* (packages/protocol/src/events.js, gate.js, harness/sealed-run.js, and   *)
(* in cli/ the commands that write more than one event).                   *)
(*                                                                         *)
(* A process runs one command after the other, and several processes may   *)
(* run; each call on the file is one step of its own, and a process may be *)
(* killed between any two, or in the middle of a write.                    *)
(*                                                                         *)
(* An event is what the validator holds it to: its kind, its author, what  *)
(* it refers to, and the link to the event before it.  Ids are unique      *)
(* (newId), and stand for the content hash as well, which under v1 is of   *)
(* the event alone.                                                        *)
(***************************************************************************)
EXTENDS Naturals, Sequences, FiniteSets

CONSTANTS
  Process,     \* processes that run commands on the store
  Actor,       \* participants the commands act for
  MaxRecords,  \* bound: events made in a model run
  MaxJobs      \* bound: commands started

VARIABLES
  exists,     \* the file is there
  file,       \* its lines
  proc,       \* what each process is doing
  made,       \* ids given so far
  jobs,       \* commands started so far
  acked,      \* events that a command has reported as appended
  linked,     \* processes that linked their event to the file as it is
  overtaken,  \* processes under whose command another has changed the file
  forked,     \* events that were linked to a file that had changed since
  late,       \* events of a command that was overtaken
  cut,        \* a process was killed
  thrown      \* a log was thrown away that nobody asked to replace

vars == <<exists, file, proc, made, jobs, acked, linked, overtaken, forked, late, cut, thrown>>

Torn == [kind |-> "torn"]

NoTask == [todo |-> <<>>, pc |-> "idle", link |-> 0, mine |-> 0]

-----------------------------------------------------------------------------
(* Validation *)

\* readEventsAt: a line that does not parse fails the whole reading.
Readable(f) == \A n \in DOMAIN f : f[n] # Torn

Events(f) == {f[n] : n \in DOMAIN f} \ {Torn}

Before(f, n) == Events(SubSeq(f, 1, n - 1))

\* Mutant: an event may be linked to any that is there.
Linked_Known(f, n) == f[n].link # 0 => \E m \in 1..(n - 1) : f[n].link = f[m].id

\* verifyEventIntegrity: an event without a link is let pass wherever it stands.
Linked(f, n) == f[n].link # 0 => n > 1 /\ f[n].link = f[n - 1].id

\* validateAuditIntegrity
Chained(f) == \A n \in DOMAIN f : Linked(f, n)

Joined(events, a) == \E e \in events : e.kind = "joined" /\ e.by = a

Decided(events, r) == \E e \in events : e.kind = "decision" /\ r \in e.of

\* validateActor and the handlers: what an event refers to comes before it, an actor
\* joins once, and a request is decided once.
InOrder(f, n) ==
  /\ f[n].kind = "joined" <=> ~ Joined(Before(f, n), f[n].by)
  /\ f[n].of \subseteq {e.id : e \in Before(f, n)}
  /\ f[n].kind = "decision" => \A r \in f[n].of : ~ Decided(Before(f, n), r)

\* validateFinalDecisionIntegrity: the dissent a decision preserves is reported.
Reported(f) ==
  \A n \in DOMAIN f : f[n].kind = "decision" =>
    \E k \in DOMAIN f : f[k].kind = "minority" /\ f[n].id \in f[k].of

Valid(f) == Readable(f) /\ Chained(f) /\ (\A n \in DOMAIN f : InOrder(f, n)) /\ Reported(f)

Last(f) == IF f = <<>> THEN 0 ELSE f[Len(f)].id

\* prepareEventForAppend
Event(t, link, p) ==
  [kind |-> t.kind, by |-> t.by, id |-> made + 1, link |-> link,
   of |-> IF t.kind = "minority" THEN {proc[p].mine} ELSE t.of]

-----------------------------------------------------------------------------
(* Commands, as the appends they make *)

Task(how, kind, a, of) == [how |-> how, kind |-> kind, by |-> a, of |-> of]

\* appendParticipant: where the actor is not in the log yet.
Join(a) == Task("join", "joined", a, {})

\* A command that appends one event, valid of itself: a claim, or, past the gate,
\* decisionOpen's request.
Note(a, kind) == <<Join(a), Task("append", kind, a, {})>>

\* decisionPropose; 0 is an id that is none.
Propose(a, of) == <<Join(a), Task("propose", "request", a, of)>>

\* appendThroughGate, of a participant or of one's own event.
Gated(a, kind) == <<Task("gate", kind, a, {})>>

\* decisionMerge of request r with a preserved objection, and the dissenter's report.
Merge(a, b, r) ==
  <<Join(a), Task("append", "decision", a, {r}), Join(b), Task("append", "minority", b, {})>>

\* importCommand, of a log of one event, into an empty store or over what is there.
Import(a, over) == <<Task("import", over, a, {})>>

Objects == {e.id : e \in {d \in Events(file) : d.kind = "object"}}

\* decisionMerge needs the request in its reading; it does not ask whether it has
\* been decided, which is what decision-eligibility is for: nobody merges what is.
Mergeable ==
  {e.id : e \in {d \in Events(file) : d.kind = "request" /\ ~ Decided(Events(file), d.id)}}

\* What may be asked for on behalf of a.
Jobs(a) ==
  {Note(a, kind) : kind \in {"object", "request"}} \cup {Propose(a, {})}
    \cup {Propose(a, {id}) : id \in {0} \cup Objects}
    \cup {Gated(a, kind) : kind \in {"joined", "object"}}
    \cup {Merge(a, b, r) : b \in Actor, r \in Mergeable}
    \cup {Import(a, over) : over \in {"empty", "any"}}

-----------------------------------------------------------------------------
(* Steps of a process *)

At(p, pc) == proc[p].pc = pc

To(p, pc) == proc' = [proc EXCEPT ![p].pc = pc]

\* The command is over: it threw, was refused, or has nothing left to do.
Finish(p) == proc' = [proc EXCEPT ![p] = NoTask]

\* The next of its appends.
Advance(p, mine) ==
  proc' = [proc EXCEPT ![p] =
    IF Len(proc[p].todo) = 1 THEN NoTask
    ELSE [todo |-> Tail(proc[p].todo), pc |-> "start", link |-> 0, mine |-> mine]]

marks == <<forked, late, cut, thrown>>

fileVars == <<exists, file, made, acked, linked, overtaken, marks>>

\* Where a step of p changes the file, the others are overtaken.
Overtakes(p) ==
  overtaken' = IF file' = file THEN overtaken
               ELSE overtaken \cup {q \in Process \ {p} : ~ At(q, "idle")}

Begin(p) ==
  /\ At(p, "idle")
  /\ jobs < MaxJobs
  /\ \E a \in Actor : \E job \in Jobs(a) :
       proc' = [proc EXCEPT ![p] = [todo |-> job, pc |-> "start", link |-> 0, mine |-> 0]]
  /\ jobs' = jobs + 1
  /\ overtaken' = overtaken \ {p}
  /\ UNCHANGED <<exists, file, made, acked, linked, marks>>

Introduced(a) == Joined(Events(file), a)

\* appendParticipant reads what is there, valid or not.
JoinTask(p, t) ==
  /\ IF ~ Readable(file) THEN Finish(p)
     ELSE IF Introduced(t.by) THEN Advance(p, proc[p].mine)
     ELSE To(p, "init")
  /\ UNCHANGED <<fileVars, jobs>>

\* The candidate on the log as it is read.
Admits(p, t) == Readable(file) /\ Valid(Append(file, Event(t, Last(file), p)))

\* proposeDecision, appendThroughGate: refused for its form, or by the validator,
\* the refusal is witnessed; on a log that is broken, proposeDecision is silent.
GateTask(p, t) ==
  /\ IF ~ Readable(file) THEN Finish(p)
     ELSE IF t.how = "propose" /\ t.of = {} THEN To(p, "witness")
     ELSE IF t.how = "propose" /\ ~ Valid(file) THEN Finish(p)
     ELSE IF Admits(p, t) THEN To(p, "init")
     ELSE To(p, "witness")
  /\ UNCHANGED <<fileVars, jobs>>

\* The store is to be empty, or to be replaced.
ImportTask(p, t) ==
  /\ IF Readable(file) /\ (file = <<>> \/ t.kind = "any") THEN To(p, "init") ELSE Finish(p)
  /\ UNCHANGED <<fileVars, jobs>>

Start(p) ==
  /\ At(p, "start")
  /\ LET t == Head(proc[p].todo)
     IN \/ t.how = "join" /\ JoinTask(p, t)
        \/ t.how = "append" /\ To(p, "init") /\ UNCHANGED <<fileVars, jobs>>
        \/ t.how \in {"gate", "propose"} /\ GateTask(p, t)
        \/ t.how = "import" /\ ImportTask(p, t)

Witnessed(t) == Task("witness", "rejection", t.by, {})

\* witnessRejection reads again, and validates what it would append.
Witness(p) ==
  /\ At(p, "witness")
  /\ LET t == Witnessed(Head(proc[p].todo))
     IN IF Admits(p, t)
        THEN proc' = [proc EXCEPT ![p].todo = <<t>>, ![p].pc = "init"]
        ELSE Finish(p)
  /\ UNCHANGED <<fileVars, jobs>>

\* initStore asks whether the file is there ...
Ready(p) == IF Head(proc[p].todo).how = "import" THEN "rewrite" ELSE "link"

InitStore(p) ==
  /\ At(p, "init")
  /\ To(p, IF exists THEN Ready(p) ELSE "create")
  /\ UNCHANGED <<fileVars, jobs>>

\* ... and then writes an empty one, over whatever is there by now.
Create(p) ==
  /\ At(p, "create")
  /\ To(p, Ready(p))
  /\ exists' = TRUE
  /\ file' = <<>>
  /\ linked' = IF file = <<>> THEN linked ELSE {}
  /\ Overtakes(p)
  /\ thrown' = (thrown \/ file # <<>>)
  /\ UNCHANGED <<made, jobs, acked, forked, late, cut>>

\* appendEvent reads the log again, for the hash of its last event.
Link(p) ==
  /\ At(p, "link")
  /\ IF Readable(file)
     THEN proc' = [proc EXCEPT ![p].pc = "write", ![p].link = Last(file)]
     ELSE Finish(p)
  /\ linked' = IF Readable(file) THEN linked \cup {p} ELSE linked
  /\ UNCHANGED <<exists, file, made, acked, jobs, overtaken, marks>>

\* A line after a torn one is a part of it.
Line(f, e) == IF f # <<>> /\ f[Len(f)] = Torn THEN f ELSE Append(f, e)

\* The event as it was linked when the log was read.
Written(p) == Event(Head(proc[p].todo), proc[p].link, p)

Write(p) ==
  /\ At(p, "write")
  /\ made < MaxRecords
  /\ LET t == Head(proc[p].todo)  e == Written(p)
     IN /\ file' = Line(file, e)
        /\ Advance(p, IF t.kind = "decision" THEN e.id ELSE proc[p].mine)
        /\ acked' = acked \cup {e.id}
        /\ forked' = IF p \in linked THEN forked ELSE forked \cup {e.id}
        /\ late' = IF p \in overtaken THEN late \cup {e.id} ELSE late
  /\ made' = made + 1
  /\ linked' = {}
  /\ Overtakes(p)
  /\ UNCHANGED <<exists, jobs, cut, thrown>>

\* writeEvents: the file is written anew, from its first event on.
Rewrite(p) ==
  /\ At(p, "rewrite")
  /\ made < MaxRecords
  /\ file' = <<[kind |-> "joined", by |-> Head(proc[p].todo).by, id |-> made + 1, link |-> 0,
                of |-> {}]>>
  /\ Finish(p)
  /\ acked' = {made + 1} \cup IF p \in overtaken THEN acked ELSE {}
  /\ made' = made + 1
  /\ linked' = {}
  /\ Overtakes(p)
  /\ thrown' = (thrown \/ p \in overtaken)
  /\ UNCHANGED <<exists, jobs, forked, late, cut>>

\* A process is killed, between two calls or in the middle of a write.
Kill(p) ==
  /\ ~ At(p, "idle")
  /\ Finish(p)
  /\ cut' = TRUE
  /\ file' \in CASE At(p, "write")   -> {file, Line(file, Torn)}
                   [] At(p, "rewrite") -> {file, <<>>, <<Torn>>}
                   [] OTHER            -> {file}
  /\ linked' = IF file' = file THEN linked ELSE {}
  /\ Overtakes(p)
  /\ thrown' = (thrown \/ (At(p, "rewrite") /\ file' # file))
  /\ UNCHANGED <<exists, made, acked, jobs, forked, late>>

-----------------------------------------------------------------------------

Init ==
  /\ exists = FALSE
  /\ file = <<>>
  /\ proc = [p \in Process |-> NoTask]
  /\ made = 0
  /\ jobs = 0
  /\ acked = {}
  /\ linked = {}
  /\ overtaken = {}
  /\ forked = {}
  /\ late = {}
  /\ cut = FALSE
  /\ thrown = FALSE

Next ==
  \E p \in Process :
    \/ Begin(p) \/ Start(p) \/ Witness(p)
    \/ InitStore(p) \/ Create(p) \/ Link(p) \/ Write(p) \/ Rewrite(p)
    \/ Kill(p)

Spec == Init /\ [][Next]_vars

-----------------------------------------------------------------------------

Quiet == \A p \in Process : At(p, "idle")

Stored == {e.id : e \in Events(file)}

(***************************************************************************)
(* What can go wrong with a log that is written without a lock, and why:   *)
(*  - a line is torn only where a process was killed;                      *)
(*  - the chain breaks only at an event that was linked to a reading that  *)
(*    had been overtaken, and wherever that happened the chain does break, *)
(*    but for an event that was linked to the empty file;                  *)
(*  - an event is out of order (an actor joins twice, a request is decided *)
(*    twice, something is referred to that is not there) only if another   *)
(*    process changed the file under the command that wrote it;            *)
(*  - at rest, a decision lacks its report only where a process was killed;*)
(*  - an event that was reported as appended is there, unless the log was  *)
(*    thrown away, or the event itself was linked too late.                *)
(* So a log that no command was overtaken or killed on is valid, and one   *)
(* mishap makes no excuse for another.                                     *)
(***************************************************************************)
FlawsHaveCauses ==
  /\ \A n \in DOMAIN file :
       LET e == file[n]
       IN IF e = Torn THEN cut
          ELSE /\ (Linked(file, n) /\ (e.link = 0 => n = 1)) \/ e.id \in forked
               /\ e.id \in forked /\ e.link # 0 => ~ Linked(file, n)
               /\ InOrder(file, n) \/ e.id \in late
  /\ Quiet /\ ~ cut => Reported(file)
  /\ acked \subseteq Stored \cup forked \/ thrown

(***************************************************************************)
(* "It never corrupts the log in order to witness a refusal" (gate.js,     *)
(* docs/sidecar-gate.md), without a condition: the log up to a witnessed   *)
(* refusal is valid if the log before it is.                               *)
(***************************************************************************)
WitnessNeverCorrupts ==
  \A n \in DOMAIN file :
    file[n].kind = "rejection" /\ Valid(SubSeq(file, 1, n - 1)) => Valid(SubSeq(file, 1, n))
=============================================================================

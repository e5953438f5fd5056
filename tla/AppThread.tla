----------------------------- MODULE AppThread ------------------------------
(***************************************************************************)
(* One decision thread of the cockpit's Worker (app/worker): ThreadDO, the *)
(* Durable Object that holds the thread's events, and the row IndexDO      *)
(* keeps of it.  A route of the Worker calls the one and then the other;   *)
(* every call is one step of the object it reaches, other requests come in *)
(* between, and a request may die between two calls.                       *)
(*                                                                         *)
(* Threads share no object's rows, so one of them is enough.  What the     *)
(* validator accepts is in Lifecycle; here it is cut down to the order of  *)
(* the events that set the thread's status.                                *)
(***************************************************************************)
EXTENDS Integers, Sequences, FiniteSets, SequencesExt

CONSTANTS
  Request,    \* requests the Worker serves at the same time
  Batch,      \* logs that are ingested, as sequences of kinds
  Appended,   \* kinds of events that are appended in a model run
  MaxLength   \* bound: events of the thread in a model run

Kind == {"participant", "created", "request", "merge", "objection", "trigger"}

ASSUME AppAssumption ==
  /\ Appended \subseteq Kind
  /\ Batch \subseteq Seq(Kind)
  /\ MaxLength \in Nat

VARIABLES
  log,   \* ThreadDO's events: what each is and how it came in
  card,  \* IndexDO's row of the thread, or NoCard
  flag,  \* IndexDO's agent_flags row: the objection it names, or NoFlag
  req,   \* req[r]: where request r is, with what it has read
  died   \* some request died before its last call

vars == <<log, card, flag, req, died>>

NoCard == [listed |-> FALSE]
NoFlag == 0
Idle   == [at |-> "idle"]

Event(kind, via) == [kind |-> kind, via |-> via]

CountOf(events, kind) == Cardinality({n \in DOMAIN events : events[n].kind = kind})

Has(events, kind) == \E n \in DOMAIN events : events[n].kind = kind

Registered(events) == Has(events, "created")

\* The events that set a thread's status, and to what.
StatusOf == [created |-> "active", request |-> "review", merge |-> "decided", trigger |-> "re-review"]

\* projectEvents: the thread's status, as the last of them set it.
Status(events) ==
  LET n == SelectLastInSeq(events, LAMBDA e : e.kind \in DOMAIN StatusOf)
  IN IF n = 0 THEN "none" ELSE StatusOf[events[n].kind]

\* validateEvents, for one more event: its actor has been declared, its thread
\* created, a merge has a request of its own, a trigger a decision and an
\* objection earlier in the log.
Accepts(events, kind) ==
  /\ kind # "participant" => Has(events, "participant")
  /\ kind \in {"request", "merge", "objection", "trigger"} => Registered(events)
  /\ kind = "merge" => CountOf(events, "merge") < CountOf(events, "request")
  /\ kind = "trigger" => Has(events, "merge") /\ Has(events, "objection")

-----------------------------------------------------------------------------
(* ThreadDO *)

\* Mutant: only the first objection of a thread opens a re-review.
Companions_FirstObjection(events, kind) ==
  IF kind = "objection" /\ Status(events) = "decided" /\ ~ Has(events, kind)
  THEN <<Event("trigger", "companion")>> ELSE <<>>

\* Mutant: any thread that carries a decision is triggered.
Companions_AnyStatus(events, kind) ==
  IF kind = "objection" /\ Has(events, "merge")
  THEN <<Event("trigger", "companion")>> ELSE <<>>

\* _reReviewCompanions
Companions(events, kind) ==
  IF kind = "objection" /\ Status(events) = "decided"
  THEN <<Event("trigger", "companion")>> ELSE <<>>

\* indexCard, of a thread that has been created.
IndexCard(events) ==
  [listed |-> TRUE, events |-> Len(events), status |-> Status(events)]

-----------------------------------------------------------------------------

Init ==
  /\ log = <<>>
  /\ card = NoCard
  /\ flag = NoFlag
  /\ req = [r \in Request |-> Idle]
  /\ died = FALSE

Goto(r, at) == req' = [req EXCEPT ![r] = at]

\* append and join, whose write is accepted; a rejected one changes nothing.
\* A trigger minted with the event has its owner notified at the end.
AppendEvent(r, kind) ==
  LET companions == Companions(log, kind) IN
  /\ req[r] = Idle
  /\ Len(log) + 1 + Len(companions) <= MaxLength
  /\ Accepts(log, kind)
  /\ log' = Append(log, Event(kind, "append")) \o companions
  /\ Goto(r, [at |-> "register",
              objection |-> IF companions # <<>> THEN Len(log) + 1 ELSE NoFlag])
  /\ UNCHANGED <<card, flag, died>>

\* Mutant: an ingested log is not registered.
Ingest_Unregistered(r, kinds) ==
  /\ req[r] = Idle
  /\ log = <<>>
  /\ log' = [n \in DOMAIN kinds |-> Event(kinds[n], "ingest")]
  /\ UNCHANGED <<card, flag, died, req>>

\* createThread, ingest and the seeds: a whole log into an empty object.
Ingest(r, kinds) ==
  /\ req[r] = Idle
  /\ log = <<>>
  /\ log' = [n \in DOMAIN kinds |-> Event(kinds[n], "ingest")]
  /\ Goto(r, [at |-> "register", objection |-> NoFlag])
  /\ UNCHANGED <<card, flag, died>>

\* portfolio/rebuild, one listed thread after the other.
Rebuild(r) ==
  /\ req[r] = Idle
  /\ card # NoCard
  /\ Goto(r, [at |-> "register", objection |-> NoFlag])
  /\ UNCHANGED <<log, card, flag, died>>

\* Mutant: the route does not call notifyReReview.
Notifying_Never(objection) == Idle

Notifying(objection) ==
  IF objection = NoFlag THEN Idle ELSE [at |-> "notify", objection |-> objection]

\* registerThread: indexCard.
ReadCard(r) ==
  /\ req[r].at = "register"
  /\ Goto(r, IF Registered(log)
             THEN [at |-> "upsert", objection |-> req[r].objection,
                   card |-> IndexCard(log)]
             ELSE Notifying(req[r].objection))
  /\ UNCHANGED <<log, card, flag, died>>

\* Mutant: a row that is already there keeps its columns.
Upsert_InsertOnly(r) ==
  /\ req[r].at = "upsert"
  /\ card' = IF card = NoCard THEN req[r].card ELSE card
  /\ Goto(r, Notifying(req[r].objection))
  /\ UNCHANGED <<log, flag, died>>

\* registerThread: upsert, over whatever row is there.
Upsert(r) ==
  /\ req[r].at = "upsert"
  /\ card' = req[r].card
  /\ Goto(r, Notifying(req[r].objection))
  /\ UNCHANGED <<log, flag, died>>

\* notifyReReview: flagReReview; whom it names and the mail are left out.
Notify(r) ==
  /\ req[r].at = "notify"
  /\ flag' = req[r].objection
  /\ Goto(r, Idle)
  /\ UNCHANGED <<log, card, died>>

\* Mutant: any thread may be purged.
PurgeCheck_Any(r) ==
  /\ req[r] = Idle
  /\ Goto(r, [at |-> "purge"])
  /\ UNCHANGED <<log, card, flag, died>>

\* purge: indexCard has no id for an orphan; a registered thread is refused.
PurgeCheck(r) ==
  /\ req[r] = Idle
  /\ ~ Registered(log)
  /\ Goto(r, [at |-> "purge"])
  /\ UNCHANGED <<log, card, flag, died>>

Purge(r) ==
  /\ req[r].at = "purge"
  /\ log' = <<>>
  /\ Goto(r, [at |-> "remove"])
  /\ UNCHANGED <<card, flag, died>>

RemoveRow(r) ==
  /\ req[r].at = "remove"
  /\ card' = NoCard
  /\ flag' = NoFlag
  /\ Goto(r, Idle)
  /\ UNCHANGED <<log, died>>

\* A call fails, or the request is cut off: what it has done stays.
Die(r) ==
  /\ req[r] # Idle
  /\ Goto(r, Idle)
  /\ died' = TRUE
  /\ UNCHANGED <<log, card, flag>>

Step(r) == ReadCard(r) \/ Upsert(r) \/ Notify(r)

\* The routes that write, and a request that ends early.
Write(r) ==
  \/ \E kind \in Appended : AppendEvent(r, kind)
  \/ \E kinds \in Batch : Ingest(r, kinds)
  \/ Rebuild(r)
  \/ Step(r)
  \/ Die(r)

Next == \E r \in Request : Write(r) \/ PurgeCheck(r) \/ Purge(r) \/ RemoveRow(r)

Spec == Init /\ [][Next]_vars

\* While nobody purges.
NextUnpurged == \E r \in Request : Write(r)

SpecUnpurged == Init /\ [][NextUnpurged]_vars

-----------------------------------------------------------------------------

LastOf(events, kind) == SelectLastInSeq(events, LAMBDA e : e.kind = kind)

\* Every request has made all its calls.
Settled == ~ died /\ \A r \in Request : req[r] = Idle

(***************************************************************************)
(* No contradiction goes unseen: a thread whose status is "decided" has no *)
(* objection that was appended after its decision, in any decision cycle   *)
(* (ThreadDO.append, "Re-review loop").                                    *)
(***************************************************************************)
NoContradictedDecision ==
  Status(log) = "decided" =>
    \A n \in LastOf(log, "merge") .. Len(log) :
      ~ (n > 0 /\ log[n] = Event("objection", "append"))

(***************************************************************************)
(* "One trigger per decision epoch": the object mints at most one between  *)
(* a decision and the next, right behind the objection that caused it.     *)
(***************************************************************************)
OneTriggerPerEpoch ==
  LET Minted == {n \in DOMAIN log : log[n] = Event("trigger", "companion")} IN
  \A n \in Minted :
    /\ log[n - 1] = Event("objection", "append")
    /\ \A m \in Minted :
         m < n => \E k \in m .. n : log[k].kind = "merge"

(***************************************************************************)
(* "Keep the thread index in sync after a write" (registerThread): once    *)
(* every request has ended well, the row is the projection of the log, and *)
(* there is none for an orphan.                                            *)
(***************************************************************************)
IndexInSync ==
  Settled => card = IF Registered(log) THEN IndexCard(log) ELSE NoCard

(***************************************************************************)
(* What the index promises when requests overlap: a thread that has been   *)
(* created is listed once every request has ended well, with a state it    *)
(* really went through.                                                    *)
(***************************************************************************)
ListedAsItWas ==
  /\ Settled /\ Registered(log) => card # NoCard
  /\ card # NoCard => /\ card.events <= Len(log)
                      /\ card = IndexCard(SubSeq(log, 1, card.events))

(***************************************************************************)
(* A trigger the object has minted reaches the owner's flag: once the      *)
(* requests have ended well, one after the other, the flag names the       *)
(* objection behind the last such trigger, and there is none before the    *)
(* first (notifyReReview).                                                 *)
(***************************************************************************)
TriggerIsFlagged ==
  Settled =>
    LET n == SelectLastInSeq(log, LAMBDA e : e = Event("trigger", "companion"))
    IN flag = IF n = 0 THEN NoFlag ELSE n - 1

(***************************************************************************)
(* "No write path can flip a thread to re-review without the owner being   *)
(* notified" (notifyReReview).                                             *)
(***************************************************************************)
NoSilentFlip == (Settled /\ Status(log) = "re-review") => flag # NoFlag

(***************************************************************************)
(* Purging "refuses registered threads to keep legitimate logs             *)
(* append-only": a created thread never loses an event.                    *)
(***************************************************************************)
RegisteredAppendOnly ==
  [][Registered(log) => IsPrefix(log, log')]_vars
=============================================================================

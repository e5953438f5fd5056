---------------------------- MODULE PublicReads -----------------------------
(***************************************************************************)
(* The hub's read routes in public mode (packages/threadhub/src/routes.js) *)
(* over publication.js: a thread is shown only while its last publication  *)
(* event is a well-formed publish.  handle is synchronous, so a request    *)
(* reads one state of the tables; the operator's writes come in between.   *)
(***************************************************************************)
EXTENDS Integers, Sequences, FiniteSets

CONSTANTS
  Thread,     \* names a reader may ask for, of threads that exist or not
  MaxLength   \* bound: records per thread in a model run

\* What effectivePublication tells apart in a record: publish and revoke acts,
\* a publish whose action or scope is not the registered one, anything else.
Act == {"publish", "malformed", "revoke", "note"}

IsPublicationEvent(act) == act \in {"publish", "malformed", "revoke"}

VARIABLE log   \* log[t]: the acts of thread t's records in order; NoThread

vars == <<log>>

\* A thread has at least its genesis record when anyone can read it.
NoThread == <<>>

Exists(hub, t) == hub[t] # NoThread

-----------------------------------------------------------------------------

\* Mutant: only the newest record is looked at.
EffectivePublication_NewestOnly(records) ==
  records # <<>> /\ records[Len(records)] = "publish"

\* effectivePublication: the loop keeps the last publication event, whatever
\* it says, and then looks at what it says.
EffectivePublication(records) ==
  \E n \in DOMAIN records :
    /\ records[n] = "publish"
    /\ \A m \in DOMAIN records : m > n => ~ IsPublicationEvent(records[m])

IsPublished(hub, t) == EffectivePublication(hub[t])

\* readableThread
Readable(hub, t) == Exists(hub, t) /\ IsPublished(hub, t)

\* PUBLIC_404: one answer for what is not there and what is not public.
NotFound == [status |-> 404]

Listed(hub) == {t \in Thread : Readable(hub, t)}

\* GET / and GET /threads; the record count is over the listed threads.
ListAnswer(hub) ==
  [threads |-> Listed(hub),
   records |-> Cardinality({h \in Listed(hub) \X (1 .. MaxLength) : h[2] \in DOMAIN hub[h[1]]})]

\* GET /t/:slug, /t/:slug.json, /t/:slug/verify and /t/:slug/view: all of them
\* show the whole chain of a readable thread.
ThreadAnswer(hub, t) ==
  IF Readable(hub, t) THEN [status |-> 200, records |-> hub[t]] ELSE NotFound

\* A record's hash covers its thread, its position and its content.
Hash == Thread \X (1 .. MaxLength) \X (Act \cup {"genesis"})

Stored(hub, h) == h[2] \in DOMAIN hub[h[1]] /\ hub[h[1]][h[2]] = h[3]

\* Mutant: GET /r/:hash without the filter.
RecordAnswer_Unfiltered(hub, h) ==
  IF Stored(hub, h) THEN [status |-> 200, record |-> h] ELSE NotFound

\* GET /r/:hash
RecordAnswer(hub, h) ==
  IF Stored(hub, h) /\ IsPublished(hub, h[1])
  THEN [status |-> 200, record |-> h] ELSE NotFound

\* Everything a reader of the hub can learn from it.
PublicView(hub) ==
  [list |-> ListAnswer(hub),
   thread |-> [t \in Thread |-> ThreadAnswer(hub, t)],
   record |-> [h \in Hash |-> RecordAnswer(hub, h)]]

-----------------------------------------------------------------------------

Init == log = [t \in Thread |-> NoThread]

CreateThread(t) ==
  /\ ~ Exists(log, t)
  /\ log' = [log EXCEPT ![t] = <<"genesis">>]

AppendRecord(t, act) ==
  /\ Exists(log, t)
  /\ Len(log[t]) < MaxLength
  /\ log' = [log EXCEPT ![t] = Append(@, act)]

Next == \E t \in Thread : CreateThread(t) \/ \E act \in Act : AppendRecord(t, act)

Spec == Init /\ [][Next]_vars

-----------------------------------------------------------------------------

\* The hub as it would be had no unpublished thread ever been created.
Erased(hub) ==
  [t \in Thread |-> IF Readable(hub, t) THEN hub[t] ELSE NoThread]

(***************************************************************************)
(* Unpublished and nonexistent are indistinguishable: no answer of any     *)
(* route depends on threads that are not published, their number and the   *)
(* number of their records included (routes.js, PUBLIC_404 and GET /).     *)
(***************************************************************************)
Indistinguishable == PublicView(log) = PublicView(Erased(log))

(***************************************************************************)
(* A public record can be cited by its hash until a publication event on   *)
(* its own thread withdraws it; nothing said elsewhere does.               *)
(***************************************************************************)
CitableUntilWithdrawn ==
  [][\A h \in Hash :
       RecordAnswer(log, h) # NotFound =>
         \/ RecordAnswer(log, h)' = RecordAnswer(log, h)
         \/ \E act \in Act : /\ IsPublicationEvent(act)
                             /\ log'[h[1]] = Append(log[h[1]], act)]_log
=============================================================================

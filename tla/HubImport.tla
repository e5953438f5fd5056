----------------------------- MODULE HubImport ------------------------------
(***************************************************************************)
(* POST /admin/import (packages/threadhub-cf/src/hub-do.js, store-do.js):  *)
(* rows exported from one hub land verbatim in another, in one transaction *)
(* and skipping whatever is already there.  Both hubs live on: the source  *)
(* grows after an export, dumps are cut into parts and imported late, more *)
(* than once and out of order, and the target takes writes of its own.     *)
(* Identity rows travel like thread rows and are left out.                 *)
(***************************************************************************)
EXTENDS Integers, FiniteSets

CONSTANTS
  Thread,   \* thread ids, of either hub
  Slug,     \* slugs of their titles
  MaxSeq,   \* bound: the last position a model run fills
  MaxDumps  \* bound: exports taken in a model run

ASSUME ImportAssumption == MaxSeq \in Nat /\ MaxDumps \in Nat

VARIABLES
  source,   \* the tables of the exporting hub
  target,   \* the tables of the importing hub
  dumps,    \* exports taken so far, whole or cut
  imported  \* dumps whose import was answered with 200

vars == <<source, target, dumps, imported>>

Null == [null |-> TRUE]

\* The content address of a record covers the one before it, so it stands for
\* the whole chain up to the record: prev is that record itself.
Record(t, seq, prev, hub) ==
  [thread |-> t, seq |-> seq, prev |-> prev, hub |-> hub]

RecordsOf(st, t) == {r \in st.records : r.thread = t}

Known(st, t) == \E row \in st.threads : row.id = t

Empty == [threads |-> {}, records |-> {}]

\* createThread and append of a hub, as ThreadHub has them, one at a time.
Created(st, t, slug, hub) ==
  [threads |-> st.threads \cup {[id |-> t, slug |-> slug]},
   records |-> st.records \cup {Record(t, 0, Null, hub)}]

HeadOf(st, t) ==
  CHOOSE r \in RecordsOf(st, t) : \A q \in RecordsOf(st, t) : q.seq <= r.seq

\* A thread without records (a createThread that died early) starts its chain.
Appended(st, t, hub) ==
  [st EXCEPT !.records = @ \cup
     {IF RecordsOf(st, t) = {} THEN Record(t, 0, Null, hub)
      ELSE Record(t, HeadOf(st, t).seq + 1, HeadOf(st, t), hub)}]

-----------------------------------------------------------------------------
(* importRows *)

NewThreads(st, dump) == {row \in dump.threads : ~ Known(st, row.id)}

\* Mutant: a record is skipped when its position is taken.
NewRecords_ByPosition(st, dump) ==
  {r \in dump.records :
     ~ \E q \in st.records : q.thread = r.thread /\ q.seq = r.seq}

\* Skipped by primary key: the record hash.
NewRecords(st, dump) == dump.records \ st.records

\* Mutant: the constraint on positions is missing.
Conflict_SlugOnly(st, dump) ==
  \E row \in NewThreads(st, dump), old \in st.threads : row.slug = old.slug

\* What makes the transaction roll back: UNIQUE slug, UNIQUE (thread_id, seq),
\* and the reference from a record to its thread.
Conflict(st, dump) ==
  \/ \E row \in NewThreads(st, dump), old \in st.threads : row.slug = old.slug
  \/ \E r \in NewRecords(st, dump) :
       \/ \E q \in st.records : q.thread = r.thread /\ q.seq = r.seq
       \/ ~ Known(st, r.thread) /\ \A row \in dump.threads : row.id # r.thread

Merged(st, dump) ==
  [threads |-> st.threads \cup NewThreads(st, dump),
   records |-> st.records \cup NewRecords(st, dump)]

-----------------------------------------------------------------------------

Init ==
  /\ source = Empty
  /\ target = Empty
  /\ dumps = {}
  /\ imported = {}

SlugFree(st, slug) == \A row \in st.threads : row.slug # slug

\* Ids are random: no two hubs mint the same one.
Fresh(t) == ~ Known(source, t) /\ ~ Known(target, t)

RoomIn(st, t) == \A r \in RecordsOf(st, t) : r.seq < MaxSeq

SourceCreates(t, slug) ==
  /\ Fresh(t)
  /\ SlugFree(source, slug)
  /\ source' = Created(source, t, slug, "source")
  /\ UNCHANGED <<target, dumps, imported>>

SourceAppends(t) ==
  /\ Known(source, t)
  /\ RoomIn(source, t)
  /\ source' = Appended(source, t, "source")
  /\ UNCHANGED <<target, dumps, imported>>

TargetCreates(t, slug) ==
  /\ Fresh(t)
  /\ SlugFree(target, slug)
  /\ target' = Created(target, t, slug, "target")
  /\ UNCHANGED <<source, dumps, imported>>

TargetAppends(t) ==
  /\ Known(target, t)
  /\ RoomIn(target, t)
  /\ target' = Appended(target, t, "target")
  /\ UNCHANGED <<source, dumps, imported>>

\* exportRows, of either hub; a cut keeps each thread's
\* first records, or none of them.
Export(st, last) ==
  /\ Cardinality(dumps) < MaxDumps
  /\ dumps' = dumps \cup
       {[threads |-> st.threads, records |-> {r \in st.records : r.seq <= last}]}
  /\ UNCHANGED <<source, target, imported>>

Import(dump) ==
  /\ ~ Conflict(target, dump)
  /\ target' = Merged(target, dump)
  /\ imported' = imported \cup {dump}
  /\ UNCHANGED <<source, dumps>>

ImportRollsBack(dump) ==
  /\ Conflict(target, dump)
  /\ UNCHANGED vars

Next ==
  \/ \E t \in Thread, slug \in Slug : SourceCreates(t, slug) \/ TargetCreates(t, slug)
  \/ \E t \in Thread : SourceAppends(t) \/ TargetAppends(t)
  \/ \E last \in -1 .. MaxSeq : Export(source, last) \/ Export(target, last)
  \/ \E dump \in dumps : Import(dump) \/ ImportRollsBack(dump)

Spec == Init /\ [][Next]_vars

-----------------------------------------------------------------------------

(***************************************************************************)
(* Whatever was imported, when and how often, and whatever the target has  *)
(* written since, each of its threads is one unbroken chain ("still leave  *)
(* each thread a valid prefix", importRows).                               *)
(***************************************************************************)
TargetVerifies ==
  \A t \in Thread : \A r \in RecordsOf(target, t) :
    /\ IF r.seq = 0 THEN r.prev = Null ELSE r.prev \in RecordsOf(target, t)
    /\ \A q \in RecordsOf(target, t) : q.seq = r.seq => q = r

(***************************************************************************)
(* An import that was answered with 200 is in the target whole, for good,  *)
(* and importing it again adds nothing ("Idempotent", importRows).         *)
(***************************************************************************)
ImportedIsThere ==
  \A dump \in imported :
    /\ dump.records \subseteq target.records
    /\ \A row \in dump.threads : Known(target, row.id)
    /\ ~ Conflict(target, dump)
    /\ Merged(target, dump) = target
=============================================================================

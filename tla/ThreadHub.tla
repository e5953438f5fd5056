----------------------------- MODULE ThreadHub ------------------------------
(***************************************************************************)
(* The notary: Hub (packages/threadhub/src/hub.js) over its store          *)
(* (store.js), or over a Durable Object's SQL storage with the same        *)
(* statements (packages/threadhub-cf/src/store-do.js).                     *)
(*                                                                         *)
(* A thread is a chain of records.  A record carries its position (seq)    *)
(* and the content address of the record before it (prev); its own address *)
(* is the hash of the whole envelope and its signature is made over that   *)
(* address.  The hub signs for custodial identities; the others sign on    *)
(* their side and submit the finished envelope.                            *)
(*                                                                         *)
(* Every SQL statement commits on its own: there is no transaction in      *)
(* hub.js.  Several processes may have the same database file open (the    *)
(* server and any run of bin/cli.js), so the steps of two calls interleave *)
(* between statements, and a process may die between any two of them.  The *)
(* Durable Object deployment is the instance with a single process.        *)
(*                                                                         *)
(* A request refused before its first write changes nothing and is the     *)
(* stuttering step; a call that throws after a write has its own branch.   *)
(***************************************************************************)
EXTENDS Integers, Sequences, FiniteSets

CONSTANTS
  Process,      \* the processes that have the database open
  Thread,       \* thread ids the hub may mint
  Slug,         \* slugs of their titles
  Identity,     \* identity ids
  HubKey,       \* keys the hub generates and keeps (custodial)
  ClientKey,    \* keys whose private half never leaves a client
  Kind,         \* record kinds a model run tells apart
  Payload,      \* payloads, told apart and nothing more
  MaxSeq,       \* bound: the last position a model run fills
  MaxSigned,    \* bound: envelopes clients sign in a model run
  MaxIngest     \* bound: events in an ingested log

\* The kinds the records table admits (its CHECK constraint).
RecordKind == {"genesis", "clista.event", "attestation", "note"}

ASSUME ConstantsAssumption ==
  /\ {"genesis", "clista.event"} \subseteq Kind
  /\ Kind \subseteq RecordKind
  /\ HubKey \cap ClientKey = {}
  /\ MaxSeq \in Nat
  /\ MaxSigned \in Nat
  /\ MaxIngest \in Nat

\* prev of the first record, and the genesis column before setGenesis.
Null == [null |-> TRUE]

Key == HubKey \cup ClientKey

VARIABLES
  identities,   \* table identities: what is registered under an id
  threads,      \* table threads
  records,      \* table records: a set of rows
  pc,           \* pc[p]: the next statement of the call process p is serving
  pending,      \* pending[p]: the row p is about to insert
  todo,         \* todo[p]: the appends the call of p still has to make
  signed,       \* signed envelopes clients have sent; any may arrive, again
  acked         \* chain positions a caller was told are its record's

vars == <<identities, threads, records, pc, pending, todo, signed, acked>>

NoIdentity == [registered |-> FALSE]
NoThread   == [inserted |-> FALSE]
NoRow      == [row |-> FALSE]

Registered(i) == identities[i] # NoIdentity
Inserted(t)   == threads[t] # NoThread

(***************************************************************************)
(* Content addresses and signatures.  The hash is collision free, so the   *)
(* address of an envelope is the envelope, wrapped; a signature names its  *)
(* key and the address it was made over.                                   *)
(***************************************************************************)
ContentAddress(envelope) == [sha256 |-> envelope]

Sign(hash, key) == [by |-> key, over |-> hash]

\* Mutant: a signature by the right key, whatever it was made over.
Verify_KeyOnly(hash, signature, key) == signature.by = key

Verify(hash, signature, key) == signature = Sign(hash, key)

Envelope(t, seq, prev, i, key, kind, payload) ==
  [thread |-> t, seq |-> seq, prev |-> prev, author |-> i,
   author_key |-> key, kind |-> kind, payload |-> payload]

Row(envelope, signature) ==
  [envelope |-> envelope, record_hash |-> ContentAddress(envelope),
   signature |-> signature]

RecordsOf(t) == {r \in records : r.envelope.thread = t}

\* headOf: ORDER BY seq DESC LIMIT 1.
IsHead(r, t) ==
  /\ r \in RecordsOf(t)
  /\ \A q \in RecordsOf(t) : q.envelope.seq <= r.envelope.seq

\* Mutant: headOf without its WHERE thread_id.
NextPosition_AnyThread(t, seq, prev) ==
  \/ records = {} /\ seq = 0 /\ prev = Null
  \/ \E r \in records :
       /\ \A q \in records : q.envelope.seq <= r.envelope.seq
       /\ seq = r.envelope.seq + 1
       /\ prev = r.record_hash

\* Mutant: positions counted from one.
NextPosition_FromOne(t, seq, prev) ==
  \/ RecordsOf(t) = {} /\ seq = 1 /\ prev = Null
  \/ \E r \in RecordsOf(t) :
       IsHead(r, t) /\ seq = r.envelope.seq + 1 /\ prev = r.record_hash

\* The position a record appended by a call that reads the table now takes.
NextPosition(t, seq, prev) ==
  \/ RecordsOf(t) = {} /\ seq = 0 /\ prev = Null
  \/ \E r \in RecordsOf(t) :
       IsHead(r, t) /\ seq = r.envelope.seq + 1 /\ prev = r.record_hash

\* Mutant: the table without UNIQUE (thread_id, seq).
InsertAllowed_NoUnique(row) == \A r \in records : r.record_hash # row.record_hash

\* UNIQUE (thread_id, seq) and PRIMARY KEY record_hash.
InsertAllowed(row) ==
  \A r \in records :
    /\ ~ (/\ r.envelope.thread = row.envelope.thread
          /\ r.envelope.seq = row.envelope.seq)
    /\ r.record_hash # row.record_hash

Position(row) ==
  [thread |-> row.envelope.thread, seq |-> row.envelope.seq,
   record_hash |-> row.record_hash]

Request(t, i, kind, payload) ==
  [thread |-> t, author |-> i, kind |-> kind, payload |-> payload]

-----------------------------------------------------------------------------

Init ==
  /\ identities = [i \in Identity |-> NoIdentity]
  /\ threads = [t \in Thread |-> NoThread]
  /\ records = {}
  /\ pc = [p \in Process |-> "idle"]
  /\ pending = [p \in Process |-> NoRow]
  /\ todo = [p \in Process |-> <<>>]
  /\ signed = {}
  /\ acked = {}

\* Mutant: every identity is taken for custodial.
CreateIdentity_Custodial(p, i, key) ==
  /\ pc[p] = "idle"
  /\ ~ Registered(i)
  /\ \A j \in Identity : Registered(j) => identities[j].key # key
  /\ identities' = [identities EXCEPT ![i] = [key |-> key, custodial |-> TRUE]]
  /\ UNCHANGED <<threads, records, pc, pending, todo, signed, acked>>

\* createIdentity: one INSERT; the id and the public key are both unique.
\* The hub generates the key unless the caller hands in a public key.
CreateIdentity(p, i, key) ==
  /\ pc[p] = "idle"
  /\ ~ Registered(i)
  /\ \A j \in Identity : Registered(j) => identities[j].key # key
  /\ identities' = [identities EXCEPT ![i] =
                      [key |-> key, custodial |-> key \in HubKey]]
  /\ UNCHANGED <<threads, records, pc, pending, todo, signed, acked>>

\* createThread, its first statement: the thread row is committed before
\* anything is known about whether its genesis record can be written.
\* ingestClistaEvents is the same call with one append per event after it.
InsertThread(p, t, slug, i, payload, events) ==
  /\ pc[p] = "idle"
  /\ Registered(i)
  /\ ~ Inserted(t)
  /\ \A u \in Thread : Inserted(u) => threads[u].slug # slug
  /\ threads' = [threads EXCEPT ![t] =
                   [slug |-> slug, created_by |-> i, genesis_hash |-> Null]]
  /\ pc' = [pc EXCEPT ![p] = "genesis"]
  /\ todo' = [todo EXCEPT ![p] =
                <<Request(t, i, "genesis", payload)>> \o
                  [n \in 1 .. Len(events) |->
                     Request(t, i, "clista.event", events[n])]]
  /\ UNCHANGED <<identities, records, pending, signed, acked>>

\* append up to its INSERT: read the author and the head, build and sign.
BuildRecord(p, request, next) ==
  LET i == request.author IN
  \E seq \in 0 .. MaxSeq, prev \in {Null} \cup {r.record_hash : r \in records} :
    /\ NextPosition(request.thread, seq, prev)
    /\ LET envelope == Envelope(request.thread, seq, prev, i,
                                identities[i].key, request.kind,
                                request.payload)
       IN pending' = [pending EXCEPT ![p] =
            Row(envelope, Sign(ContentAddress(envelope), identities[i].key))]
    /\ pc' = [pc EXCEPT ![p] = next]

\* POST /records, POST /attest and the CLI: append on its own.  The route
\* takes the kind from the caller, "genesis" included.
AppendRecord(p, t, i, kind, payload) ==
  /\ pc[p] = "idle"
  /\ Inserted(t)
  /\ Registered(i)
  /\ identities[i].custodial
  /\ BuildRecord(p, Request(t, i, kind, payload), "insert")
  /\ UNCHANGED <<identities, threads, records, todo, signed, acked>>

\* The next append of createThread or ingestClistaEvents.
AppendNext(p) ==
  /\ pc[p] \in {"genesis", "append"}
  /\ identities[Head(todo[p]).author].custodial
  /\ BuildRecord(p, Head(todo[p]),
                 IF pc[p] = "genesis" THEN "insertGenesis" ELSE "insert")
  /\ todo' = [todo EXCEPT ![p] = Tail(@)]
  /\ UNCHANGED <<identities, threads, records, signed, acked>>

\* The call of p returns or throws: the process serves its next request.
Finish(p) ==
  /\ pc' = [pc EXCEPT ![p] = "idle"]
  /\ pending' = [pending EXCEPT ![p] = NoRow]
  /\ todo' = [todo EXCEPT ![p] = <<>>]

\* append throws "no custodial key": the thread row inserted before stays.
AppendRefused(p) ==
  /\ pc[p] \in {"genesis", "append"}
  /\ ~ identities[Head(todo[p]).author].custodial
  /\ Finish(p)
  /\ UNCHANGED <<identities, threads, records, signed, acked>>

\* appendSigned up to its INSERT: the checks, in the order of the code, on
\* an envelope that arrives with some client's signature.  A thread with no
\* record has no head to compare with and the call throws.
AppendSigned(p, envelope, signature) ==
  /\ pc[p] = "idle"
  /\ Inserted(envelope.thread)
  /\ envelope.kind # "genesis"
  /\ Registered(envelope.author)
  /\ envelope.author_key = identities[envelope.author].key
  /\ Verify(ContentAddress(envelope), signature, envelope.author_key)
  /\ \E head \in RecordsOf(envelope.thread) :
       /\ IsHead(head, envelope.thread)
       /\ envelope.prev = head.record_hash
       /\ envelope.seq = head.envelope.seq + 1
  /\ pending' = [pending EXCEPT ![p] = Row(envelope, signature)]
  /\ pc' = [pc EXCEPT ![p] = "insert"]
  /\ UNCHANGED <<identities, threads, records, todo, signed, acked>>

\* insertRecord, the one write to the records table.  The caller of a plain
\* append learns its position; a call with more to do goes on.
InsertRecord(p) ==
  /\ pc[p] \in {"insert", "insertGenesis"}
  /\ InsertAllowed(pending[p])
  /\ records' = records \cup {pending[p]}
  /\ \/ /\ pc[p] = "insertGenesis"
        /\ pc' = [pc EXCEPT ![p] = "setGenesis"]
        /\ UNCHANGED <<pending, todo, acked>>
     \/ /\ pc[p] = "insert"
        /\ todo[p] # <<>>
        /\ pc' = [pc EXCEPT ![p] = "append"]
        /\ pending' = [pending EXCEPT ![p] = NoRow]
        /\ UNCHANGED <<todo, acked>>
     \/ /\ pc[p] = "insert"
        /\ todo[p] = <<>>
        /\ acked' = acked \cup {Position(pending[p])}
        /\ Finish(p)
  /\ UNCHANGED <<identities, threads, signed>>

\* Mutant: INSERT OR IGNORE, and the caller is answered as if it was stored.
InsertConflict_Ignored(p) ==
  /\ pc[p] \in {"insert", "insertGenesis"}
  /\ ~ InsertAllowed(pending[p])
  /\ acked' = acked \cup {Position(pending[p])}
  /\ Finish(p)
  /\ UNCHANGED <<identities, threads, records, signed>>

\* insertRecord violates a constraint: another process took the position.
InsertConflict(p) ==
  /\ pc[p] \in {"insert", "insertGenesis"}
  /\ ~ InsertAllowed(pending[p])
  /\ Finish(p)
  /\ UNCHANGED <<identities, threads, records, signed, acked>>

\* The last statement of createThread.
SetGenesis(p) ==
  /\ pc[p] = "setGenesis"
  /\ LET row == pending[p] IN
     /\ threads' = [threads EXCEPT ![row.envelope.thread].genesis_hash =
                      row.record_hash]
     /\ \/ /\ todo[p] = <<>>
           /\ acked' = acked \cup {Position(row)}
           /\ Finish(p)
        \/ /\ todo[p] # <<>>
           /\ pc' = [pc EXCEPT ![p] = "append"]
           /\ pending' = [pending EXCEPT ![p] = NoRow]
           /\ UNCHANGED <<todo, acked>>
  /\ UNCHANGED <<identities, records, signed>>

\* The process is killed between two statements; what committed stays.
Crash(p) ==
  /\ pc[p] # "idle"
  /\ Finish(p)
  /\ UNCHANGED <<identities, threads, records, signed, acked>>

\* A client signs at the head some verify view once showed it: any row is
\* the head some view has shown, and a view of a thread without records
\* shows none.
ClientSigns(key, i, kind, payload) ==
  /\ Cardinality(signed) < MaxSigned
  /\ \E envelope \in
       {Envelope(r.envelope.thread, r.envelope.seq + 1, r.record_hash,
                 i, key, kind, payload) : r \in records}
       \cup
       {Envelope(t, 0, Null, i, key, kind, payload) :
          t \in {u \in Thread : Inserted(u) /\ RecordsOf(u) = {}}} :
       /\ envelope.seq <= MaxSeq
       /\ signed' = signed \cup
            {[envelope |-> envelope,
              signature |-> Sign(ContentAddress(envelope), key)]}
  /\ UNCHANGED <<identities, threads, records, pc, pending, todo, acked>>

-----------------------------------------------------------------------------

\* Signed envelopes reach any process, late, more than once, out of order,
\* and now and then next to the signature of another one.
ReceiveSigned(p) ==
  \E m, n \in signed : AppendSigned(p, m.envelope, n.signature)

ReceiveAppend(p) ==
  \E t \in Thread, i \in Identity, kind \in Kind, payload \in Payload :
    AppendRecord(p, t, i, kind, payload)

Logs == UNION {[1 .. n -> Payload] : n \in 0 .. MaxIngest}

ReceiveCreateThread(p) ==
  \E t \in Thread, slug \in Slug, i \in Identity, payload \in Payload :
    \E events \in Logs : InsertThread(p, t, slug, i, payload, events)

ReceiveCreateIdentity(p) ==
  \E i \in Identity, key \in Key : CreateIdentity(p, i, key)

HubStep(p) ==
  \/ ReceiveCreateIdentity(p)
  \/ ReceiveCreateThread(p)
  \/ ReceiveAppend(p)
  \/ ReceiveSigned(p)
  \/ AppendNext(p)
  \/ AppendRefused(p)
  \/ InsertRecord(p)
  \/ InsertConflict(p)
  \/ SetGenesis(p)
  \/ Crash(p)

ClientStep ==
  \E key \in ClientKey, i \in Identity, kind \in Kind, payload \in Payload :
    ClientSigns(key, i, kind, payload)

Next == ClientStep \/ \E p \in Process : HubStep(p)

Spec == Init /\ [][Next]_vars

-----------------------------------------------------------------------------

(***************************************************************************)
(* verifyThread.  The rows, sorted by seq, are numbered 0, 1, ...; the row *)
(* numbered n must say seq n and point at the row numbered n - 1, and      *)
(* every row must hash and verify.                                         *)
(***************************************************************************)
VerifyThread(t) ==
  LET rows == RecordsOf(t) IN
  /\ \A n \in 0 .. Cardinality(rows) - 1 :
       \E r \in rows :
         /\ r.envelope.seq = n
         /\ IF n = 0 THEN r.envelope.prev = Null
            ELSE \E q \in rows : /\ q.envelope.seq = n - 1
                                 /\ r.envelope.prev = q.record_hash
  /\ \A r \in rows :
       /\ r.record_hash = ContentAddress(r.envelope)
       /\ Verify(r.record_hash, r.signature, r.envelope.author_key)

EnvelopeOK(envelope) ==
  /\ envelope.thread \in Thread
  /\ envelope.seq \in Nat
  /\ envelope.author \in Identity
  /\ envelope.author_key \in Key
  /\ envelope.kind \in Kind
  /\ envelope.payload \in Payload

RequestSet ==
  [thread : Thread, author : Identity, kind : Kind, payload : Payload]

\* Every table, call and message has the shape the code gives it, and a
\* call holds the row or the requests its next statement needs.
TypeOK ==
  /\ identities \in [Identity -> {NoIdentity} \cup
                                 [key : Key, custodial : BOOLEAN]]
  /\ DOMAIN threads = Thread
  /\ \A t \in Thread :
       Inserted(t) =>
         \E slug \in Slug, i \in Identity :
           threads[t] = [slug |-> slug, created_by |-> i,
                         genesis_hash |-> threads[t].genesis_hash]
  /\ \A r \in records : EnvelopeOK(r.envelope)
  /\ pc \in [Process -> {"idle", "genesis", "append", "insert",
                         "insertGenesis", "setGenesis"}]
  /\ DOMAIN pending = Process
  /\ \A p \in Process :
       pc[p] \in {"insert", "insertGenesis", "setGenesis"} =>
         EnvelopeOK(pending[p].envelope)
  /\ todo \in [Process -> Seq(RequestSet)]
  /\ \A p \in Process : pc[p] \in {"genesis", "append"} => todo[p] # <<>>
  /\ \A m \in signed : EnvelopeOK(m.envelope)
  /\ \A a \in acked : a.thread \in Thread /\ a.seq \in Nat

(***************************************************************************)
(* Whatever the processes were doing and whichever of them died where,     *)
(* every thread the hub holds passes its own verification (verifyThread):  *)
(* no gap, no fork, no broken link, no bad signature.                      *)
(***************************************************************************)
ChainsVerify == \A t \in Thread : VerifyThread(t)

(***************************************************************************)
(* A caller that was told a position (the 201 of POST /records, /signed    *)
(* and /attest, the CLI's output) has its record there, and no other       *)
(* caller was ever told the same position of the same thread.              *)
(***************************************************************************)
AckedIsRecorded ==
  \A a \in acked :
    /\ \E r \in records : Position(r) = a
    /\ \A b \in acked :
         (a.thread = b.thread /\ a.seq = b.seq) => a = b

(***************************************************************************)
(* "A record the hub could not have forged": a record that carries a       *)
(* client's key was signed by that client, envelope and all, and every     *)
(* record carries the key its author registered (appendSigned).            *)
(***************************************************************************)
Attribution ==
  \A r \in records :
    LET e == r.envelope IN
    /\ Registered(e.author)
    /\ e.author_key = identities[e.author].key
    /\ e.author_key \in ClientKey =>
         [envelope |-> e, signature |-> r.signature] \in signed

(***************************************************************************)
(* The genesis_hash column, once set, is the address of the thread's       *)
(* record at seq 0 and that record is its genesis (createThread and the    *)
(* comment on the column in store.js).                                     *)
(***************************************************************************)
GenesisHashIsSeqZero ==
  \A t \in Thread :
    (Inserted(t) /\ threads[t].genesis_hash # Null) =>
      \E r \in RecordsOf(t) :
        /\ r.envelope.seq = 0
        /\ r.envelope.kind = "genesis"
        /\ r.record_hash = threads[t].genesis_hash

-----------------------------------------------------------------------------

(***************************************************************************)
(* The inductive invariant behind ChainsVerify, AckedIsRecorded and        *)
(* Attribution.  A call's head may be stale by the time it inserts; what   *)
(* survives is that the row it is about to insert was right against a row  *)
(* that is still there, and the constraint on (thread_id, seq) does the    *)
(* rest.                                                                   *)
(***************************************************************************)
SeqsOf(t) == {r.envelope.seq : r \in RecordsOf(t)}

NoGap ==
  \A t \in Thread : /\ IsFiniteSet(SeqsOf(t))
                    /\ SeqsOf(t) = 0 .. Cardinality(SeqsOf(t)) - 1

NoFork ==
  \A r, q \in records :
    (/\ r.envelope.thread = q.envelope.thread
     /\ r.envelope.seq = q.envelope.seq) => r = q

\* The row names a predecessor that is in the table, or starts the chain.
Linked(row) ==
  LET e == row.envelope IN
  \/ e.seq = 0 /\ e.prev = Null
  \/ \E q \in records : /\ q.envelope.thread = e.thread
                         /\ e.seq = q.envelope.seq + 1
                         /\ e.prev = q.record_hash

\* The row hashes, verifies, is its author's and, if a client's, was signed.
Genuine(row) ==
  LET e == row.envelope IN
  /\ row = Row(e, row.signature)
  /\ Verify(row.record_hash, row.signature, e.author_key)
  /\ Registered(e.author)
  /\ e.author_key = identities[e.author].key
  /\ e.author_key \in ClientKey =>
       [envelope |-> e, signature |-> row.signature] \in signed

CustodyOK ==
  \A i \in Identity :
    Registered(i) => (identities[i].custodial <=> identities[i].key \in HubKey)

SignedOK ==
  \A m \in signed :
    m = [envelope |-> m.envelope,
         signature |-> Sign(ContentAddress(m.envelope), m.envelope.author_key)]

\* The records table: chains without gap or fork, of linked, genuine rows.
TableOK ==
  /\ NoGap
  /\ NoFork
  /\ \A r \in records : EnvelopeOK(r.envelope) /\ Linked(r) /\ Genuine(r)

CallOK(p) ==
  /\ pc[p] \in {"insert", "insertGenesis"} =>
       Linked(pending[p]) /\ Genuine(pending[p])
  /\ pc[p] = "setGenesis" => pending[p] \in records
  /\ \A n \in 1 .. Len(todo[p]) : Registered(todo[p][n].author)

IInv ==
  /\ TypeOK
  /\ TableOK
  /\ CustodyOK
  /\ SignedOK
  /\ \A p \in Process : CallOK(p)
  /\ AckedIsRecorded

-----------------------------------------------------------------------------

\* The log a reader of thread t sees: the record at each position.
LogOf(t) ==
  [n \in {r.envelope.seq : r \in RecordsOf(t)} |->
     CHOOSE r \in RecordsOf(t) : r.envelope.seq = n]

Notary == INSTANCE Ledger WITH log <- [t \in Thread |-> LogOf(t)]

(***************************************************************************)
(* Whatever the interleaving of its statements, the hub is the abstract    *)
(* append-only log to everyone who reads it.                               *)
(***************************************************************************)
ImplementsLedger == Notary!Spec
=============================================================================

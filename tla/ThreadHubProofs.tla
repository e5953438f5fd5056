--------------------------- MODULE ThreadHubProofs --------------------------
(***************************************************************************)
(* Proofs about ThreadHub, for any number of processes, threads,           *)
(* identities, keys and records: its chains verify, its acknowledgements   *)
(* hold, its records are their authors', and it implements Ledger.         *)
(***************************************************************************)
EXTENDS ThreadHub, FiniteSetTheorems, FunctionTheorems, TLAPS

(***************************************************************************)
(* In a chain without a gap, a linked row that the table admits takes      *)
(* exactly the first free position.                                        *)
(***************************************************************************)
LEMMA LinkedIsNext ==
  ASSUME NEW row, NoGap, Linked(row), InsertAllowed(row),
         \A r \in records : EnvelopeOK(r.envelope),
         EnvelopeOK(row.envelope)
  PROVE  /\ Cardinality(SeqsOf(row.envelope.thread)) \in Nat
         /\ row.envelope.seq = Cardinality(SeqsOf(row.envelope.thread))
         /\ SeqsOf(row.envelope.thread) = 0 .. row.envelope.seq - 1
PROOF
<1> DEFINE t == row.envelope.thread
           n == Cardinality(SeqsOf(t))
           seq == row.envelope.seq
<1>1. t \in Thread /\ seq \in Nat
  BY DEF EnvelopeOK
<1>2. n \in Nat /\ SeqsOf(t) = 0 .. n - 1
  BY <1>1, FS_CardinalityType DEF NoGap
<1>3. seq \notin SeqsOf(t)
  BY DEF InsertAllowed, SeqsOf, RecordsOf
<1>4. seq = 0 \/ seq - 1 \in SeqsOf(t)
  <2>1. CASE \E q \in records : /\ q.envelope.thread = t
                                /\ seq = q.envelope.seq + 1
    <3>1. PICK q \in records : q.envelope.thread = t /\ seq = q.envelope.seq + 1
      BY <2>1
    <3>2. q.envelope.seq \in SeqsOf(t) /\ q.envelope.seq \in Nat
      BY <3>1 DEF SeqsOf, RecordsOf, EnvelopeOK
    <3>3. QED
      BY <3>1, <3>2
  <2>2. CASE seq = 0
    BY <2>2
  <2>3. QED
    BY <2>1, <2>2 DEF Linked
<1>5. seq = n
  <2>1. n <= seq
    BY <1>1, <1>2, <1>3
  <2>2. seq <= n
    BY <1>1, <1>2, <1>4
  <2>3. QED
    BY <1>1, <1>2, <2>1, <2>2
<1>6. QED
  BY <1>2, <1>5

-----------------------------------------------------------------------------
(***************************************************************************)
(* Nothing a row owes its place to is ever taken back: rows stay, clients' *)
(* signatures stay, and a registered identity keeps its key.               *)
(***************************************************************************)
Kept ==
  /\ records \subseteq records'
  /\ signed \subseteq signed'
  /\ \A i \in Identity : Registered(i) => identities'[i] = identities[i]

LEMMA RowStays ==
  ASSUME NEW row, Kept, Linked(row), Genuine(row), EnvelopeOK(row.envelope)
  PROVE  Linked(row)' /\ Genuine(row)'
PROOF
<1>1. Linked(row)'
  BY DEF Linked, Kept
<1>2. Genuine(row)'
  <2>1. row.envelope.author \in Identity
    BY DEF EnvelopeOK
  <2>2. QED
    BY <2>1 DEF Genuine, Kept, Registered, Verify, Row, Sign, ContentAddress,
                NoIdentity
<1>3. QED
  BY <1>1, <1>2

LEMMA TableUnchanged ==
  ASSUME TableOK, Kept, records' = records
  PROVE  TableOK'
PROOF
<1>1. NoGap' /\ NoFork'
  BY DEF TableOK, NoGap, NoFork, SeqsOf, RecordsOf
<1>2. ASSUME NEW r \in records
      PROVE  EnvelopeOK(r.envelope)' /\ Linked(r)' /\ Genuine(r)'
  BY RowStays DEF TableOK, EnvelopeOK
<1>3. QED
  BY <1>1, <1>2 DEF TableOK

(***************************************************************************)
(* The heart of the matter: a row that is linked, genuine and admitted by  *)
(* the constraints extends its chain and leaves every other one alone.     *)
(***************************************************************************)
LEMMA TableExtended ==
  ASSUME NEW row, TableOK, Kept, InsertAllowed(row),
         Linked(row), Genuine(row), EnvelopeOK(row.envelope),
         records' = records \cup {row}
  PROVE  TableOK'
PROOF
<1> DEFINE t == row.envelope.thread
           n == row.envelope.seq
<1>1. n \in Nat /\ SeqsOf(t) = 0 .. n - 1 /\ t \in Thread
  BY LinkedIsNext DEF TableOK, EnvelopeOK
<1>2. NoGap'
  <2>1. SeqsOf(t)' = 0 .. n
    <3>1. SeqsOf(t)' = SeqsOf(t) \cup {n}
      BY DEF SeqsOf, RecordsOf
    <3>2. QED
      BY <1>1, <3>1
  <2>2. ASSUME NEW u \in Thread, u # t
        PROVE  SeqsOf(u)' = SeqsOf(u)
    BY <2>2 DEF SeqsOf, RecordsOf
  <2>3. IsFiniteSet(0 .. n) /\ Cardinality(0 .. n) = n + 1
    BY <1>1, FS_Interval
  <2>4. ASSUME NEW u \in Thread
        PROVE  /\ IsFiniteSet(SeqsOf(u)')
               /\ SeqsOf(u)' = 0 .. Cardinality(SeqsOf(u)') - 1
    <3>1. CASE u = t
      BY <1>1, <2>1, <2>3, <3>1
    <3>2. CASE u # t
      BY <2>2, <3>2 DEF TableOK, NoGap
    <3>3. QED
      BY <3>1, <3>2
  <2>5. QED
    BY <2>4 DEF NoGap
<1>3. NoFork'
  BY DEF TableOK, NoFork, InsertAllowed
<1>4. ASSUME NEW r \in records'
      PROVE  EnvelopeOK(r.envelope)' /\ Linked(r)' /\ Genuine(r)'
  BY RowStays DEF TableOK, EnvelopeOK
<1>5. QED
  BY <1>2, <1>3, <1>4 DEF TableOK

-----------------------------------------------------------------------------
(***************************************************************************)
(* Calls and acknowledgements.                                             *)
(***************************************************************************)
LEMMA OtherCall ==
  ASSUME NEW q \in Process, TypeOK, CallOK(q), Kept,
         pc'[q] = pc[q], pending'[q] = pending[q], todo'[q] = todo[q]
  PROVE  CallOK(q)'
PROOF
<1>1. (pc[q] \in {"insert", "insertGenesis"})' =>
        Linked(pending[q])' /\ Genuine(pending[q])'
  <2>1. SUFFICES ASSUME pc[q] \in {"insert", "insertGenesis"}
                 PROVE  Linked(pending[q])' /\ Genuine(pending[q])'
    OBVIOUS
  <2>2. EnvelopeOK(pending[q].envelope) /\ Linked(pending[q]) /\ Genuine(pending[q])
    BY <2>1 DEF TypeOK, CallOK
  <2>3. Linked(pending[q])'
    BY <2>2 DEF Linked, Kept
  <2>4. Genuine(pending[q])'
    <3>1. pending[q].envelope.author \in Identity
      BY <2>2 DEF EnvelopeOK
    <3>2. QED
      BY <2>2, <3>1 DEF Genuine, Kept, Registered, Verify, Row, Sign,
                        ContentAddress, NoIdentity
  <2>5. QED
    BY <2>3, <2>4
<1>2. (pc[q] = "setGenesis")' => (pending[q] \in records)'
  BY DEF CallOK, Kept
<1>3. ASSUME NEW n \in 1 .. Len(todo'[q])
      PROVE  Registered(todo[q][n].author)'
  <2>1. Registered(todo[q][n].author)
    BY <1>3 DEF CallOK
  <2>2. todo[q] \in Seq(RequestSet)
    BY DEF TypeOK
  <2>3. todo[q][n].author \in Identity
    <3>1. n \in 1 .. Len(todo[q])
      OBVIOUS
    <3>2. todo[q][n] \in RequestSet
      BY <2>2, <3>1
    <3>3. QED
      BY <3>2 DEF RequestSet
  <2>4. todo'[q][n].author = todo[q][n].author
    OBVIOUS
  <2>5. QED
    BY <2>1, <2>3, <2>4 DEF Kept, Registered, NoIdentity
<1>4. QED
  BY <1>1, <1>2, <1>3 DEF CallOK

LEMMA FinishedCall ==
  ASSUME NEW p \in Process, TypeOK, Finish(p)
  PROVE  CallOK(p)'
BY DEF Finish, CallOK, TypeOK

LEMMA AckedUnchanged ==
  ASSUME AckedIsRecorded, Kept, acked' = acked
  PROVE  AckedIsRecorded'
BY DEF AckedIsRecorded, Kept, Position

LEMMA AckedExtended ==
  ASSUME NEW row \in records', AckedIsRecorded, Kept, TableOK',
         acked' = acked \cup {Position(row)}
  PROVE  AckedIsRecorded'
PROOF
<1>1. \A a \in acked' : \E r \in records' : Position(r) = a
  BY DEF AckedIsRecorded, Kept, Position
<1>2. ASSUME NEW a \in acked', NEW b \in acked',
             a.thread = b.thread, a.seq = b.seq
      PROVE  a = b
  <2>1. PICK r \in records' : Position(r) = a
    BY <1>1
  <2>2. PICK q \in records' : Position(q) = b
    BY <1>1
  <2>3. r = q
    BY <1>2, <2>1, <2>2 DEF TableOK, NoFork, Position
  <2>4. QED
    BY <2>1, <2>2, <2>3
<1>3. QED
  BY <1>1, <1>2 DEF AckedIsRecorded, Position

-----------------------------------------------------------------------------
(***************************************************************************)
(* One lemma per action: it preserves the invariant.                       *)
(***************************************************************************)
LEMMA InitIInv == Init => IInv
PROOF
<1> SUFFICES ASSUME Init PROVE IInv
  OBVIOUS
<1>1. TypeOK
  BY DEF Init, TypeOK, Inserted
<1>2. TableOK
  <2>1. \A t \in Thread : SeqsOf(t) = {}
    BY DEF Init, SeqsOf, RecordsOf
  <2>2. IsFiniteSet({}) /\ Cardinality({}) = 0
    BY FS_EmptySet
  <2>3. NoGap
    <3>1. 0 .. 0 - 1 = {}
      OBVIOUS
    <3>2. QED
      BY <2>1, <2>2, <3>1, Zenon DEF NoGap
  <2>4. QED
    BY <2>3 DEF Init, TableOK, NoFork
<1>3. CustodyOK /\ SignedOK /\ AckedIsRecorded
  BY DEF Init, CustodyOK, SignedOK, AckedIsRecorded, Registered
<1>4. \A p \in Process : CallOK(p)
  BY DEF Init, CallOK
<1>5. QED
  BY <1>1, <1>2, <1>3, <1>4 DEF IInv

LEMMA CreateIdentityStep ==
  ASSUME IInv, NEW p \in Process, NEW i \in Identity, NEW key \in Key,
         CreateIdentity(p, i, key)
  PROVE  IInv'
PROOF
<1> USE DEF CreateIdentity, IInv
<1>1. Kept
  BY DEF Kept, TypeOK
<1>2. TypeOK'
  BY DEF TypeOK, Inserted
<1>3. TableOK'
  BY <1>1, TableUnchanged
<1>4. CustodyOK' /\ SignedOK'
  BY DEF CustodyOK, SignedOK, TypeOK, Registered, NoIdentity
<1>5. AckedIsRecorded'
  BY <1>1, AckedUnchanged
<1>6. \A q \in Process : CallOK(q)'
  BY <1>1, OtherCall
<1>7. QED
  BY <1>2, <1>3, <1>4, <1>5, <1>6

LEMMA ClientSignsStep ==
  ASSUME IInv, NEW key \in ClientKey, NEW i \in Identity,
         NEW kind \in Kind, NEW payload \in Payload,
         ClientSigns(key, i, kind, payload)
  PROVE  IInv'
PROOF
<1> USE DEF ClientSigns, IInv
<1>1. Kept
  BY DEF Kept
<1>2. TypeOK'
  <2>1. \A m \in signed' : EnvelopeOK(m.envelope)
    BY DEF TypeOK, EnvelopeOK, Envelope, Key
  <2>2. QED
    BY <2>1 DEF TypeOK, Inserted
<1>3. TableOK'
  BY <1>1, TableUnchanged
<1>4. CustodyOK' /\ SignedOK'
  <2>1. CustodyOK'
    BY DEF CustodyOK, Registered
  <2>2. SignedOK'
    BY DEF SignedOK, Envelope
  <2>3. QED
    BY <2>1, <2>2
<1>5. AckedIsRecorded'
  BY <1>1, AckedUnchanged
<1>6. \A q \in Process : CallOK(q)'
  BY <1>1, OtherCall
<1>7. QED
  BY <1>2, <1>3, <1>4, <1>5, <1>6

\* A step that touches neither the tables nor the messages.
Quiet == UNCHANGED <<identities, records, signed>>

LEMMA QuietKept == Quiet => Kept
BY DEF Quiet, Kept

LEMMA QuietTables ==
  ASSUME IInv, Quiet
  PROVE  TableOK' /\ CustodyOK' /\ SignedOK'
BY QuietKept, TableUnchanged DEF IInv, Quiet, CustodyOK, SignedOK, Registered

LEMMA FinishType ==
  ASSUME TypeOK, NEW p \in Process, Finish(p), Quiet, threads' = threads,
         acked' = acked
  PROVE  TypeOK'
BY DEF TypeOK, Finish, Quiet, Inserted

\* The call ends and writes nothing: refused, in conflict, or killed.
LEMMA QuietFinishStep ==
  ASSUME IInv, NEW p \in Process, Finish(p), Quiet, threads' = threads,
         acked' = acked
  PROVE  IInv'
PROOF
<1>1. TypeOK'
  BY FinishType DEF IInv
<1>2. TableOK' /\ CustodyOK' /\ SignedOK'
  BY QuietTables
<1>3. AckedIsRecorded'
  BY QuietKept, AckedUnchanged DEF IInv
<1>4. ASSUME NEW q \in Process
      PROVE  CallOK(q)'
  <2>1. CASE q = p
    BY <2>1, FinishedCall DEF IInv
  <2>2. CASE q # p
    BY <2>2, OtherCall, QuietKept DEF IInv, Finish, TypeOK
  <2>3. QED
    BY <2>1, <2>2
<1>5. QED
  BY <1>1, <1>2, <1>3, <1>4 DEF IInv

LEMMA InsertThreadStep ==
  ASSUME IInv, NEW p \in Process, NEW t \in Thread, NEW slug \in Slug,
         NEW i \in Identity, NEW payload \in Payload,
         NEW events \in Seq(Payload),
         InsertThread(p, t, slug, i, payload, events)
  PROVE  IInv'
PROOF
<1> USE DEF InsertThread, IInv
<1> DEFINE log == [n \in 1 .. Len(events) |->
                     Request(t, i, "clista.event", events[n])]
           calls == <<Request(t, i, "genesis", payload)>> \o log
<1>1. Quiet
  BY DEF Quiet
<1>2. /\ log \in Seq(RequestSet)
      /\ \A n \in 1 .. Len(log) : log[n].author = i
  BY ConstantsAssumption DEF Request, RequestSet
<1>3. /\ calls \in Seq(RequestSet)
      /\ Len(calls) = 1 + Len(log)
      /\ \A n \in 1 .. Len(calls) : calls[n].author = i
  <2> HIDE DEF log
  <2>1. <<Request(t, i, "genesis", payload)>> \in Seq(RequestSet)
    BY ConstantsAssumption DEF Request, RequestSet
  <2>2. QED
    BY <1>2, <2>1 DEF Request
<1>4. TypeOK'
  <2> HIDE DEF calls
  <2>1. todo' \in [Process -> Seq(RequestSet)] /\ todo'[p] # <<>>
    <3>1. todo' = [todo EXCEPT ![p] = calls] /\ calls # <<>>
      BY <1>3 DEF calls
    <3>2. QED
      BY <1>3, <3>1 DEF TypeOK
  <2>2. QED
    BY <2>1 DEF TypeOK, Inserted
<1>5. TableOK' /\ CustodyOK' /\ SignedOK'
  BY <1>1, QuietTables
<1>6. AckedIsRecorded'
  BY <1>1, QuietKept, AckedUnchanged
<1>7. ASSUME NEW q \in Process
      PROVE  CallOK(q)'
  <2>1. CASE q = p
    <3> HIDE DEF calls
    <3>1. pc'[p] = "genesis" /\ todo'[p] = calls
      BY DEF TypeOK, calls
    <3>2. Registered(i)'
      BY DEF Registered
    <3>3. QED
      BY <1>3, <2>1, <3>1, <3>2 DEF CallOK
  <2>2. CASE q # p
    BY <1>1, <2>2, OtherCall, QuietKept DEF TypeOK
  <2>3. QED
    BY <2>1, <2>2
<1>8. QED
  BY <1>4, <1>5, <1>6, <1>7

(***************************************************************************)
(* The row append builds is linked to the head it read and is its author's *)
(* own; the hub never signs with a client's key.                           *)
(***************************************************************************)
LEMMA BuiltRow ==
  ASSUME IInv, NEW p \in Process, NEW request \in RequestSet,
         NEW next \in {"insert", "insertGenesis"},
         Registered(request.author), identities[request.author].custodial,
         BuildRecord(p, request, next)
  PROVE  /\ pc' = [pc EXCEPT ![p] = next]
         /\ \E row : /\ pending' = [pending EXCEPT ![p] = row]
                     /\ EnvelopeOK(row.envelope)
                     /\ Linked(row)
                     /\ Genuine(row)
PROOF
<1> DEFINE i == request.author
           key == identities[i].key
<1>1. PICK seq \in 0 .. MaxSeq,
           prev \in {Null} \cup {r.record_hash : r \in records} :
        /\ NextPosition(request.thread, seq, prev)
        /\ LET e == Envelope(request.thread, seq, prev, i, key, request.kind,
                             request.payload)
           IN pending' = [pending EXCEPT ![p] =
                            Row(e, Sign(ContentAddress(e), key))]
        /\ pc' = [pc EXCEPT ![p] = next]
  BY DEF BuildRecord
<1> DEFINE e == Envelope(request.thread, seq, prev, i, key, request.kind,
                         request.payload)
           row == Row(e, Sign(ContentAddress(e), key))
<1>2. /\ row.envelope = e
      /\ row.record_hash = ContentAddress(e)
      /\ row.signature = Sign(ContentAddress(e), key)
  BY DEF Row
<1>3. /\ e.thread = request.thread /\ e.seq = seq /\ e.prev = prev
      /\ e.author = i /\ e.author_key = key /\ e.kind = request.kind
      /\ e.payload = request.payload
  BY DEF Envelope
<1>4. i \in Identity /\ key \in HubKey
  <2>1. i \in Identity
    BY DEF RequestSet
  <2>2. QED
    BY <2>1 DEF IInv, CustodyOK
<1>5. EnvelopeOK(e)
  <2>1. seq \in Nat
    BY ConstantsAssumption
  <2>2. QED
    BY <1>3, <1>4, <2>1 DEF EnvelopeOK, RequestSet, Key
<1>6. Linked(row)
  BY <1>1, <1>2, <1>3 DEF NextPosition, Linked, IsHead, RecordsOf
<1>7. Genuine(row)
  <2>1. key \notin ClientKey
    BY <1>4, ConstantsAssumption
  <2>2. Verify(row.record_hash, row.signature, e.author_key)
    BY <1>2, <1>3 DEF Verify
  <2>3. row = Row(row.envelope, row.signature)
    BY <1>2
  <2>4. QED
    BY <1>2, <1>3, <2>1, <2>2, <2>3 DEF Genuine
<1>8. pending' = [pending EXCEPT ![p] = row] /\ pc' = [pc EXCEPT ![p] = next]
  BY <1>1
<1>9. QED
  BY <1>2, <1>5, <1>6, <1>7, <1>8

\* A call that read the tables is left holding a row ready to insert.
LEMMA ReadyStep ==
  ASSUME IInv, NEW p \in Process, NEW row,
         NEW next \in {"insert", "insertGenesis"},
         EnvelopeOK(row.envelope), Linked(row), Genuine(row),
         pc' = [pc EXCEPT ![p] = next],
         pending' = [pending EXCEPT ![p] = row],
         todo' = todo \/ (todo[p] # <<>> /\ todo' = [todo EXCEPT ![p] = Tail(@)]),
         Quiet, threads' = threads, acked' = acked
  PROVE  IInv'
PROOF
<1>1. /\ pc'[p] = next /\ pending'[p] = row
      /\ \A q \in Process : q # p => /\ pc'[q] = pc[q]
                                     /\ pending'[q] = pending[q]
                                     /\ todo'[q] = todo[q]
  BY DEF IInv, TypeOK
<1>2. /\ todo' \in [Process -> Seq(RequestSet)]
      /\ \A n \in 1 .. Len(todo'[p]) : Registered(todo'[p][n].author)
  <2>1. /\ todo \in [Process -> Seq(RequestSet)]
        /\ todo[p] \in Seq(RequestSet)
        /\ \A n \in 1 .. Len(todo[p]) : Registered(todo[p][n].author)
    BY DEF IInv, TypeOK, CallOK
  <2>2. CASE todo' = todo
    BY <2>1, <2>2
  <2>3. CASE todo[p] # <<>> /\ todo' = [todo EXCEPT ![p] = Tail(@)]
    <3>1. /\ Tail(todo[p]) \in Seq(RequestSet)
          /\ Len(Tail(todo[p])) = Len(todo[p]) - 1
          /\ \A n \in 1 .. Len(todo[p]) - 1 : Tail(todo[p])[n] = todo[p][n + 1]
      BY <2>1, <2>3
    <3>2. todo'[p] = Tail(todo[p]) /\ Len(todo[p]) \in Nat
      BY <2>1, <2>3
    <3>3. \A n \in 1 .. Len(todo'[p]) : n + 1 \in 1 .. Len(todo[p])
      BY <3>1, <3>2
    <3>4. \A n \in 1 .. Len(todo'[p]) : Registered(todo'[p][n].author)
      BY <2>1, <3>1, <3>2, <3>3
    <3>5. QED
      BY <2>1, <2>3, <3>1, <3>4
  <2>4. QED
    BY <2>2, <2>3
<1>3. TypeOK'
  <2>1. /\ pc' \in [Process -> {"idle", "genesis", "append", "insert",
                                "insertGenesis", "setGenesis"}]
        /\ DOMAIN pending' = Process
        /\ \A q \in Process :
             pc'[q] \in {"insert", "insertGenesis", "setGenesis"} =>
               EnvelopeOK(pending'[q].envelope)
        /\ \A q \in Process : pc'[q] \in {"genesis", "append"} => todo'[q] # <<>>
    BY <1>1 DEF IInv, TypeOK
  <2>2. QED
    BY <1>2, <2>1 DEF IInv, TypeOK, Inserted, Quiet, EnvelopeOK
<1>4. TableOK' /\ CustodyOK' /\ SignedOK'
  BY QuietTables
<1>5. AckedIsRecorded'
  BY QuietKept, AckedUnchanged DEF IInv
<1>6. ASSUME NEW q \in Process
      PROVE  CallOK(q)'
  <2>1. CASE q = p
    <3>1. Linked(row)' /\ Genuine(row)'
      BY RowStays, QuietKept
    <3>2. Linked(pending[p])' /\ Genuine(pending[p])'
      BY <1>1, <3>1 DEF Linked, Genuine, Registered
    <3>3. \A n \in 1 .. Len(todo'[p]) : Registered(todo[p][n].author)'
      BY <1>2 DEF Registered, Quiet
    <3>4. pc'[p] # "setGenesis"
      BY <1>1
    <3>5. QED
      BY <2>1, <3>2, <3>3, <3>4 DEF CallOK
  <2>2. CASE q # p
    BY <1>1, <2>2, OtherCall, QuietKept DEF IInv
  <2>3. QED
    BY <2>1, <2>2
<1>7. QED
  BY <1>3, <1>4, <1>5, <1>6 DEF IInv

LEMMA AppendRecordStep ==
  ASSUME IInv, NEW p \in Process, NEW t \in Thread, NEW i \in Identity,
         NEW kind \in Kind, NEW payload \in Payload,
         AppendRecord(p, t, i, kind, payload)
  PROVE  IInv'
PROOF
<1> DEFINE request == Request(t, i, kind, payload)
<1>1. request \in RequestSet /\ request.author = i
  BY DEF Request, RequestSet
<1>2. /\ Registered(i) /\ identities[i].custodial
      /\ BuildRecord(p, request, "insert")
      /\ Quiet /\ threads' = threads /\ todo' = todo /\ acked' = acked
  BY DEF AppendRecord, Quiet
<1> HIDE DEF request
<1>3. PICK row : /\ pending' = [pending EXCEPT ![p] = row]
                 /\ EnvelopeOK(row.envelope)
                 /\ Linked(row)
                 /\ Genuine(row)
  BY <1>1, <1>2, BuiltRow
<1>4. pc' = [pc EXCEPT ![p] = "insert"]
  BY <1>1, <1>2, BuiltRow
<1>5. QED
  BY <1>2, <1>3, <1>4, ReadyStep

LEMMA AppendNextStep ==
  ASSUME IInv, NEW p \in Process, AppendNext(p)
  PROVE  IInv'
PROOF
<1> DEFINE request == Head(todo[p])
           next == IF pc[p] = "genesis" THEN "insertGenesis" ELSE "insert"
<1>1. /\ pc[p] \in {"genesis", "append"}
      /\ identities[request.author].custodial
      /\ BuildRecord(p, request, next)
      /\ Quiet /\ threads' = threads /\ acked' = acked
      /\ todo' = [todo EXCEPT ![p] = Tail(@)]
  BY DEF AppendNext, Quiet
<1>2. next \in {"insert", "insertGenesis"}
  OBVIOUS
<1>3. todo[p] # <<>> /\ request \in RequestSet /\ Registered(request.author)
  <2>1. todo[p] \in Seq(RequestSet) /\ todo[p] # <<>>
    BY <1>1 DEF IInv, TypeOK
  <2>2. 1 \in 1 .. Len(todo[p]) /\ request = todo[p][1] /\ request \in RequestSet
    BY <2>1
  <2>3. QED
    BY <2>1, <2>2 DEF IInv, CallOK
<1> HIDE DEF request, next
<1>4. PICK row : /\ pending' = [pending EXCEPT ![p] = row]
                 /\ EnvelopeOK(row.envelope)
                 /\ Linked(row)
                 /\ Genuine(row)
  BY <1>1, <1>2, <1>3, BuiltRow
<1>5. pc' = [pc EXCEPT ![p] = next]
  BY <1>1, <1>2, <1>3, BuiltRow
<1>6. QED
  BY <1>1, <1>2, <1>3, <1>4, <1>5, ReadyStep

\* The checks of appendSigned leave only a row its author's key signed.
LEMMA AppendSignedStep ==
  ASSUME IInv, NEW p \in Process, NEW m \in signed, NEW n \in signed,
         AppendSigned(p, m.envelope, n.signature)
  PROVE  IInv'
PROOF
<1> DEFINE row == Row(m.envelope, n.signature)
<1>1. /\ row.envelope = m.envelope
      /\ row.record_hash = ContentAddress(m.envelope)
      /\ row.signature = n.signature
      /\ row = Row(row.envelope, row.signature)
  BY DEF Row
<1>2. EnvelopeOK(row.envelope)
  BY <1>1 DEF IInv, TypeOK
<1>3. Linked(row)
  BY <1>1 DEF AppendSigned, Linked, IsHead, RecordsOf
<1>4. Genuine(row)
  <2>1. n.signature = Sign(ContentAddress(m.envelope), m.envelope.author_key)
    BY DEF AppendSigned, Verify
  <2>2. m = [envelope |-> m.envelope, signature |-> n.signature]
    BY <2>1 DEF IInv, SignedOK
  <2>3. [envelope |-> row.envelope, signature |-> row.signature] \in signed
    BY <1>1, <2>2
  <2>4. QED
    BY <1>1, <2>1, <2>3 DEF AppendSigned, Genuine, Verify
<1>5. /\ pending' = [pending EXCEPT ![p] = row]
      /\ pc' = [pc EXCEPT ![p] = "insert"]
      /\ Quiet /\ threads' = threads /\ todo' = todo /\ acked' = acked
  BY DEF AppendSigned, Quiet
<1> HIDE DEF row
<1>6. QED
  BY <1>2, <1>3, <1>4, <1>5, ReadyStep

LEMMA InsertRecordStep ==
  ASSUME IInv, NEW p \in Process, InsertRecord(p)
  PROVE  IInv'
PROOF
<1> DEFINE row == pending[p]
<1>1. /\ pc[p] \in {"insert", "insertGenesis"}
      /\ InsertAllowed(row)
      /\ records' = records \cup {row}
      /\ UNCHANGED <<identities, threads, signed>>
  BY DEF InsertRecord
<1>2. EnvelopeOK(row.envelope) /\ Linked(row) /\ Genuine(row)
  BY <1>1 DEF IInv, TypeOK, CallOK
<1>3. Kept
  BY <1>1 DEF Kept
<1>4. TableOK'
  <2> HIDE DEF row
  <2>1. QED
    BY <1>1, <1>2, <1>3, TableExtended DEF IInv
<1>5. CustodyOK' /\ SignedOK'
  BY <1>1 DEF IInv, CustodyOK, SignedOK, Registered
<1>6. \/ pc' = [pc EXCEPT ![p] = "setGenesis"] /\ UNCHANGED <<pending, todo, acked>>
      \/ /\ todo[p] # <<>>
         /\ pc' = [pc EXCEPT ![p] = "append"]
         /\ pending' = [pending EXCEPT ![p] = NoRow]
         /\ UNCHANGED <<todo, acked>>
      \/ acked' = acked \cup {Position(row)} /\ Finish(p)
  BY DEF InsertRecord
<1>7. TypeOK'
  <2>1. \A r \in records' : EnvelopeOK(r.envelope)
    BY <1>1, <1>2 DEF IInv, TypeOK
  <2>2. \A a \in acked' : a.thread \in Thread /\ a.seq \in Nat
    BY <1>2, <1>6 DEF IInv, TypeOK, Position, EnvelopeOK
  <2>3. /\ pc' \in [Process -> {"idle", "genesis", "append", "insert",
                                "insertGenesis", "setGenesis"}]
        /\ DOMAIN pending' = Process
        /\ todo' \in [Process -> Seq(RequestSet)]
    <3>1. <<>> \in Seq(RequestSet)
      OBVIOUS
    <3>2. CASE Finish(p)
      BY <3>1, <3>2 DEF IInv, TypeOK, Finish
    <3>3. CASE /\ pc' = [pc EXCEPT ![p] = "setGenesis"]
               /\ pending' = pending /\ todo' = todo
      BY <3>3 DEF IInv, TypeOK
    <3>4. CASE /\ pc' = [pc EXCEPT ![p] = "append"]
               /\ pending' = [pending EXCEPT ![p] = NoRow]
               /\ todo' = todo
      BY <3>4 DEF IInv, TypeOK
    <3>5. QED
      BY <1>6, <3>2, <3>3, <3>4
  <2>4. ASSUME NEW q \in Process
        PROVE  /\ pc'[q] \in {"insert", "insertGenesis", "setGenesis"} =>
                    EnvelopeOK(pending'[q].envelope)
               /\ pc'[q] \in {"genesis", "append"} => todo'[q] # <<>>
    BY <1>2, <1>6 DEF IInv, TypeOK, Finish
  <2>5. QED
    BY <1>1, <2>1, <2>2, <2>3, <2>4 DEF IInv, TypeOK, Inserted, EnvelopeOK
<1>8. AckedIsRecorded'
  <2>1. CASE acked' = acked
    BY <1>3, <2>1, AckedUnchanged DEF IInv
  <2>2. CASE acked' = acked \cup {Position(row)}
    <3>1. row \in records'
      BY <1>1
    <3> HIDE DEF row
    <3>2. QED
      BY <1>3, <1>4, <2>2, <3>1, AckedExtended DEF IInv
  <2>3. QED
    BY <1>6, <2>1, <2>2
<1>9. ASSUME NEW q \in Process
      PROVE  CallOK(q)'
  <2>1. CASE q # p
    <3>1. pc'[q] = pc[q] /\ pending'[q] = pending[q] /\ todo'[q] = todo[q]
      BY <1>6, <2>1 DEF IInv, TypeOK, Finish
    <3>2. QED
      BY <1>3, <3>1, OtherCall DEF IInv
  <2>2. CASE q = p /\ Finish(p)
    BY <2>2, FinishedCall DEF IInv
  <2>3. CASE /\ q = p /\ todo' = todo
             /\ pc'[p] \in {"setGenesis", "append"}
             /\ pc'[p] = "setGenesis" => pending'[p] \in records'
    <3>1. ASSUME NEW n \in 1 .. Len(todo'[p])
          PROVE  Registered(todo[p][n].author)'
      BY <1>1, <2>3 DEF IInv, CallOK, Registered
    <3>2. QED
      BY <2>3, <3>1 DEF CallOK
  <2>4. QED
    BY <1>1, <1>6, <2>1, <2>2, <2>3 DEF IInv, TypeOK
<1>10. QED
  BY <1>4, <1>5, <1>7, <1>8, <1>9 DEF IInv

LEMMA SetGenesisStep ==
  ASSUME IInv, NEW p \in Process, SetGenesis(p)
  PROVE  IInv'
PROOF
<1> DEFINE row == pending[p]
<1>1. /\ pc[p] = "setGenesis"
      /\ threads' = [threads EXCEPT ![row.envelope.thread].genesis_hash =
                        row.record_hash]
      /\ Quiet
  BY DEF SetGenesis, Quiet
<1>2. row \in records /\ EnvelopeOK(row.envelope)
  BY <1>1 DEF IInv, CallOK, TypeOK
<1>3. \/ /\ todo[p] # <<>>
         /\ pc' = [pc EXCEPT ![p] = "append"]
         /\ pending' = [pending EXCEPT ![p] = NoRow]
         /\ UNCHANGED <<todo, acked>>
      \/ acked' = acked \cup {Position(row)} /\ Finish(p)
  BY DEF SetGenesis
<1>4. TableOK' /\ CustodyOK' /\ SignedOK'
  BY <1>1, QuietTables
<1>5. TypeOK'
  <2>1. DOMAIN threads' = Thread
    BY <1>1 DEF IInv, TypeOK
  <2>2. ASSUME NEW t \in Thread, Inserted(t)'
        PROVE  \E slug \in Slug, i \in Identity :
                 threads'[t] = [slug |-> slug, created_by |-> i,
                                genesis_hash |-> threads'[t].genesis_hash]
    <3> DEFINE u == row.envelope.thread
               hash == row.record_hash
    <3>1. CASE t # u
      <4>1. threads'[t] = threads[t]
        BY <1>1, <3>1 DEF IInv, TypeOK
      <4>2. QED
        BY <2>2, <4>1 DEF IInv, TypeOK, Inserted
    <3>2. CASE t = u /\ ~ Inserted(t)
      <4>1. threads'[t] = [NoThread EXCEPT !.genesis_hash = hash]
        BY <1>1, <3>2 DEF IInv, TypeOK, Inserted
      <4>2. [NoThread EXCEPT !.genesis_hash = hash] = NoThread
        BY DEF NoThread
      <4>3. QED
        BY <2>2, <4>1, <4>2 DEF Inserted
    <3>3. CASE t = u /\ Inserted(t)
      <4>1. PICK slug \in Slug, i \in Identity :
              threads[t] = [slug |-> slug, created_by |-> i,
                            genesis_hash |-> threads[t].genesis_hash]
        BY <3>3 DEF IInv, TypeOK
      <4>2. threads'[t] = [threads[t] EXCEPT !.genesis_hash = hash]
        BY <1>1, <3>3 DEF IInv, TypeOK
      <4> HIDE DEF hash
      <4>3. threads'[t] = [slug |-> slug, created_by |-> i, genesis_hash |-> hash]
        BY <4>1, <4>2
      <4>4. QED
        BY <4>3
    <3>4. QED
      BY <3>1, <3>2, <3>3
  <2>3. \A a \in acked' : a.thread \in Thread /\ a.seq \in Nat
    BY <1>2, <1>3 DEF IInv, TypeOK, Position, EnvelopeOK
  <2>4. /\ pc' \in [Process -> {"idle", "genesis", "append", "insert",
                                "insertGenesis", "setGenesis"}]
        /\ DOMAIN pending' = Process
        /\ todo' \in [Process -> Seq(RequestSet)]
    <3>1. <<>> \in Seq(RequestSet)
      OBVIOUS
    <3>2. CASE Finish(p)
      BY <3>1, <3>2 DEF IInv, TypeOK, Finish
    <3>3. CASE /\ pc' = [pc EXCEPT ![p] = "append"]
               /\ pending' = [pending EXCEPT ![p] = NoRow]
               /\ todo' = todo
      BY <3>3 DEF IInv, TypeOK
    <3>4. QED
      BY <1>3, <3>2, <3>3
  <2>5. ASSUME NEW q \in Process
        PROVE  /\ pc'[q] \in {"insert", "insertGenesis", "setGenesis"} =>
                    EnvelopeOK(pending'[q].envelope)
               /\ pc'[q] \in {"genesis", "append"} => todo'[q] # <<>>
    BY <1>3 DEF IInv, TypeOK, Finish
  <2>6. QED
    BY <1>1, <2>1, <2>2, <2>3, <2>4, <2>5 DEF IInv, TypeOK, Quiet, EnvelopeOK
<1>6. AckedIsRecorded'
  <2>1. CASE acked' = acked
    BY <1>1, <2>1, QuietKept, AckedUnchanged DEF IInv
  <2>2. CASE acked' = acked \cup {Position(row)}
    <3>1. row \in records'
      BY <1>1, <1>2 DEF Quiet
    <3> HIDE DEF row
    <3>2. QED
      BY <1>1, <1>4, <2>2, <3>1, QuietKept, AckedExtended DEF IInv
  <2>3. QED
    BY <1>3, <2>1, <2>2
<1>7. ASSUME NEW q \in Process
      PROVE  CallOK(q)'
  <2>1. CASE q # p
    <3>1. pc'[q] = pc[q] /\ pending'[q] = pending[q] /\ todo'[q] = todo[q]
      BY <1>3, <2>1 DEF IInv, TypeOK, Finish
    <3>2. QED
      BY <1>1, <3>1, QuietKept, OtherCall DEF IInv
  <2>2. CASE q = p /\ Finish(p)
    BY <2>2, FinishedCall DEF IInv
  <2>3. CASE q = p /\ todo' = todo /\ pc'[p] = "append"
    <3>1. ASSUME NEW n \in 1 .. Len(todo'[p])
          PROVE  Registered(todo[p][n].author)'
      BY <1>1, <2>3 DEF IInv, CallOK, Registered, Quiet
    <3>2. QED
      BY <2>3, <3>1 DEF CallOK
  <2>4. QED
    BY <1>3, <2>1, <2>2, <2>3 DEF IInv, TypeOK
<1>8. QED
  BY <1>4, <1>5, <1>6, <1>7 DEF IInv

-----------------------------------------------------------------------------
LEMMA NextStep == IInv /\ [Next]_vars => IInv'
PROOF
<1> SUFFICES ASSUME IInv, [Next]_vars PROVE IInv'
  OBVIOUS
<1>1. CASE ClientStep
  BY <1>1, ClientSignsStep DEF ClientStep
<1>2. ASSUME NEW p \in Process, HubStep(p)
      PROVE  IInv'
  <2>1. CASE ReceiveCreateIdentity(p)
    BY <2>1, CreateIdentityStep DEF ReceiveCreateIdentity
  <2>2. CASE ReceiveCreateThread(p)
    <3>1. \A events \in Logs : events \in Seq(Payload)
      BY ConstantsAssumption DEF Logs
    <3>2. QED
      BY <2>2, <3>1, InsertThreadStep DEF ReceiveCreateThread
  <2>3. CASE ReceiveAppend(p)
    BY <2>3, AppendRecordStep DEF ReceiveAppend
  <2>4. CASE ReceiveSigned(p)
    BY <2>4, AppendSignedStep DEF ReceiveSigned
  <2>5. CASE AppendNext(p)
    BY <2>5, AppendNextStep
  <2>6. CASE AppendRefused(p)
    BY <2>6, QuietFinishStep DEF AppendRefused, Quiet
  <2>7. CASE InsertRecord(p)
    BY <2>7, InsertRecordStep
  <2>8. CASE InsertConflict(p)
    BY <2>8, QuietFinishStep DEF InsertConflict, Quiet
  <2>9. CASE SetGenesis(p)
    BY <2>9, SetGenesisStep
  <2>10. CASE Crash(p)
    BY <2>10, QuietFinishStep DEF Crash, Quiet
  <2>11. QED
    BY <1>2, <2>1, <2>2, <2>3, <2>4, <2>5, <2>6, <2>7, <2>8, <2>9, <2>10
       DEF HubStep
<1>3. CASE UNCHANGED vars
  <2> USE <1>3 DEF vars
  <2>1. Quiet /\ Kept
    BY DEF Quiet, Kept
  <2>2. TypeOK'
    BY DEF IInv, TypeOK, Inserted, EnvelopeOK
  <2>3. TableOK' /\ CustodyOK' /\ SignedOK'
    BY <2>1, QuietTables
  <2>4. AckedIsRecorded'
    BY <2>1, AckedUnchanged DEF IInv
  <2>5. \A q \in Process : CallOK(q)'
    BY <2>1, OtherCall DEF IInv
  <2>6. QED
    BY <2>2, <2>3, <2>4, <2>5 DEF IInv
<1>4. QED
  BY <1>1, <1>2, <1>3 DEF Next

(***************************************************************************)
(* The inductive invariant holds in every state of every run of the hub,   *)
(* whatever the processes, their interleaving and their crashes.           *)
(***************************************************************************)
THEOREM Invariance == Spec => []IInv
PROOF
<1>1. Init => IInv
  BY InitIInv
<1>2. IInv /\ [Next]_vars => IInv'
  BY NextStep
<1>3. QED
  BY <1>1, <1>2, PTL DEF Spec

(***************************************************************************)
(* The tables, the calls in progress and the messages keep their types.    *)
(***************************************************************************)
THEOREM TypeCorrect == Spec => []TypeOK
PROOF
<1>1. IInv => TypeOK
  BY DEF IInv
<1>2. QED
  BY <1>1, Invariance, PTL

\* A chain without fork has as many rows as positions.
LEMMA RowsAreSeqs ==
  ASSUME TableOK, NEW t \in Thread
  PROVE  /\ IsFiniteSet(RecordsOf(t))
         /\ Cardinality(RecordsOf(t)) = Cardinality(SeqsOf(t))
PROOF
<1> DEFINE at == [r \in RecordsOf(t) |-> r.envelope.seq]
<1>1. at \in Bijection(RecordsOf(t), SeqsOf(t))
  <2>1. at \in [RecordsOf(t) -> SeqsOf(t)]
    BY DEF SeqsOf
  <2>2. \A r, q \in RecordsOf(t) : at[r] = at[q] => r = q
    BY DEF TableOK, NoFork, RecordsOf
  <2>3. \A n \in SeqsOf(t) : \E r \in RecordsOf(t) : at[r] = n
    BY DEF SeqsOf
  <2>4. QED
    BY <2>1, <2>2, <2>3, Fun_IsBij
<1>2. IsFiniteSet(SeqsOf(t))
  BY DEF TableOK, NoGap
<1>3. QED
  <2>1. ExistsBijection(RecordsOf(t), SeqsOf(t))
    BY <1>1, Fun_ExistsBij
  <2>2. ExistsBijection(SeqsOf(t), RecordsOf(t))
    BY <2>1, Fun_ExistsBijSymmetric
  <2>3. QED
    BY <1>2, <2>2, FS_Bijection

(***************************************************************************)
(* Every thread the hub holds passes verifyThread: in a chain without gap, *)
(* fork or broken link, the row at n points at the only row at n - 1.      *)
(***************************************************************************)
THEOREM ChainIntegrity == Spec => []ChainsVerify
PROOF
<1>1. IInv => ChainsVerify
  <2> SUFFICES ASSUME IInv, NEW t \in Thread PROVE VerifyThread(t)
    BY DEF ChainsVerify
  <2> DEFINE rows == RecordsOf(t)
  <2>1. TableOK
    BY DEF IInv
  <2>2. /\ Cardinality(rows) = Cardinality(SeqsOf(t))
        /\ Cardinality(rows) \in Nat
        /\ SeqsOf(t) = 0 .. Cardinality(rows) - 1
    BY <2>1, RowsAreSeqs, FS_CardinalityType DEF TableOK, NoGap
  <2>3. ASSUME NEW n \in 0 .. Cardinality(rows) - 1
        PROVE  \E r \in rows :
                 /\ r.envelope.seq = n
                 /\ IF n = 0 THEN r.envelope.prev = Null
                    ELSE \E q \in rows : /\ q.envelope.seq = n - 1
                                         /\ r.envelope.prev = q.record_hash
    <3>1. PICK r \in rows : r.envelope.seq = n
      BY <2>2 DEF SeqsOf
    <3>2. r \in records /\ r.envelope.thread = t /\ Linked(r)
      BY <2>1, <3>1 DEF RecordsOf, TableOK
    <3>3. \A q \in records : q.envelope.seq \in Nat
      BY <2>1 DEF TableOK, EnvelopeOK
    <3>4. CASE r.envelope.seq = 0 /\ r.envelope.prev = Null
      BY <3>1, <3>4
    <3>5. CASE \E q \in records : /\ q.envelope.thread = t
                                  /\ r.envelope.seq = q.envelope.seq + 1
                                  /\ r.envelope.prev = q.record_hash
      <4>1. PICK q \in records : /\ q.envelope.thread = t
                                 /\ r.envelope.seq = q.envelope.seq + 1
                                 /\ r.envelope.prev = q.record_hash
        BY <3>5
      <4>2. q \in rows /\ n # 0 /\ q.envelope.seq = n - 1
        BY <3>1, <3>3, <4>1 DEF RecordsOf
      <4>3. QED
        BY <3>1, <4>1, <4>2
    <3>6. QED
      BY <3>2, <3>4, <3>5 DEF Linked
  <2>4. ASSUME NEW r \in rows
        PROVE  /\ r.record_hash = ContentAddress(r.envelope)
               /\ Verify(r.record_hash, r.signature, r.envelope.author_key)
    <3>1. Genuine(r)
      BY <2>1 DEF TableOK, RecordsOf
    <3>2. r.record_hash = Row(r.envelope, r.signature).record_hash
      BY <3>1 DEF Genuine
    <3>3. QED
      BY <3>1, <3>2 DEF Genuine, Row
  <2>5. QED
    BY <2>3, <2>4 DEF VerifyThread
<1>2. QED
  BY <1>1, Invariance, PTL

(***************************************************************************)
(* Whoever was told a position has its record there, and alone.            *)
(***************************************************************************)
THEOREM AckSafety == Spec => []AckedIsRecorded
PROOF
<1>1. IInv => AckedIsRecorded
  BY DEF IInv
<1>2. QED
  BY <1>1, Invariance, PTL

(***************************************************************************)
(* Every record carries the key its author registered, and one with a      *)
(* client's key was signed, whole, by that client.                         *)
(***************************************************************************)
THEOREM Attributed == Spec => []Attribution
PROOF
<1>1. IInv => Attribution
  BY DEF IInv, TableOK, Genuine, Attribution
<1>2. QED
  BY <1>1, Invariance, PTL

-----------------------------------------------------------------------------
(***************************************************************************)
(* The hub implements the ledger: for any number of processes, threads and *)
(* records, its tables are at all times a log per thread that has only     *)
(* grown at its end.  Where one process serves it, the column that names a *)
(* thread's genesis tells the truth.                                       *)
(***************************************************************************)

\* A chain without a fork has one row at a position.
LEMMA ChosenRow ==
  ASSUME NEW rows, NEW n, NEW r \in rows, r.envelope.seq = n,
         \A q \in rows : q.envelope.seq = n => q = r
  PROVE  (CHOOSE q \in rows : q.envelope.seq = n) = r
  OBVIOUS

\* What a reader of one thread sees depends on the rows of that thread.
LEMMA SameLog ==
  ASSUME NEW t, RecordsOf(t)' = RecordsOf(t)
  PROVE  LogOf(t)' = LogOf(t)
  BY DEF LogOf

\* A row in the table stays what a reader finds at its position.
LEMMA LogAt ==
  ASSUME NEW t \in Thread, NoFork, NoFork', records \subseteq records',
         NEW n \in SeqsOf(t)
  PROVE  LogOf(t)'[n] = LogOf(t)[n]
<1>1. PICK r \in RecordsOf(t) : r.envelope.seq = n
  BY DEF SeqsOf
<1>2. r \in RecordsOf(t)'
  BY DEF RecordsOf
<1>3. \A q \in RecordsOf(t) : q.envelope.seq = n => q = r
  BY <1>1 DEF NoFork, RecordsOf
<1>4. \A q \in RecordsOf(t)' : q.envelope.seq = n => q = r
  BY <1>1, <1>2 DEF NoFork, RecordsOf
<1>5. LogOf(t)[n] = r
  <2>1. (CHOOSE q \in RecordsOf(t) : q.envelope.seq = n) = r
    BY <1>1, <1>3, ChosenRow
  <2> QED
    BY <1>1, <2>1 DEF LogOf
<1>6. LogOf(t)'[n] = r
  <2>1. (CHOOSE q \in RecordsOf(t)' : q.envelope.seq = n) = r
    BY <1>1, <1>2, <1>4, ChosenRow
  <2> QED
    BY <1>1, <1>2, <2>1 DEF LogOf
<1> QED
  BY <1>5, <1>6

\* insertRecord is the ledger's step: a row at the first free position of its
\* thread, and nothing else.
LEMMA InsertExtends ==
  ASSUME IInv, IInv', NEW p \in Process, InsertRecord(p)
  PROVE  Notary!Next
<1> PICK row : row = pending[p]
  OBVIOUS
<1> DEFINE t == row.envelope.thread
           n == row.envelope.seq
<1>1. /\ TableOK /\ TableOK'
      /\ Linked(row) /\ Genuine(row) /\ EnvelopeOK(row.envelope)
      /\ InsertAllowed(row)
      /\ records' = records \cup {row}
  BY DEF IInv, InsertRecord, CallOK, TypeOK
<1>2. t \in Thread /\ n \in Nat
  BY <1>1 DEF EnvelopeOK
<1>3. SeqsOf(t) = 0 .. n - 1
  BY <1>1, LinkedIsNext DEF TableOK
<1>4. SeqsOf(t)' = 0 .. n
  <2>1. SeqsOf(t)' = SeqsOf(t) \cup {n}
    BY <1>1 DEF SeqsOf, RecordsOf
  <2> QED
    BY <1>2, <1>3, <2>1
<1>5. \A k \in SeqsOf(t) : LogOf(t)'[k] = LogOf(t)[k]
  BY <1>1, <1>2, LogAt DEF TableOK
<1>6. ASSUME NEW u \in Thread, u # t
      PROVE  LogOf(u)' = LogOf(u)
  <2>1. RecordsOf(u)' = RecordsOf(u)
    BY <1>1, <1>6 DEF RecordsOf
  <2> QED
    BY <2>1, SameLog
<1>7. DOMAIN LogOf(t) = SeqsOf(t) /\ DOMAIN LogOf(t)' = SeqsOf(t)'
  BY DEF LogOf, SeqsOf
<1>8. n \in DOMAIN LogOf(t)'
  BY <1>2, <1>4, <1>7
<1>9. Notary!Extend(t)
  BY <1>2, <1>3, <1>4, <1>5, <1>6, <1>7, <1>8 DEF Notary!Extend
<1> QED
  BY <1>2, <1>9 DEF Notary!Next

LEMMA InitIsEmpty == Init => Notary!Init
<1> SUFFICES ASSUME Init
             PROVE  [t \in Thread |-> LogOf(t)] = [t \in Thread |-> Notary!Empty]
  BY DEF Notary!Init
<1>1. ASSUME NEW t \in Thread
      PROVE  LogOf(t) = Notary!Empty
  <2>1. RecordsOf(t) = {}
    BY DEF Init, RecordsOf
  <2>2. DOMAIN LogOf(t) = {}
    BY <2>1 DEF LogOf
  <2> QED
    BY <2>1, <2>2 DEF LogOf, Notary!Empty
<1> QED
  BY <1>1

\* Every other step leaves the records alone.
LEMMA NextIsLedger ==
  IInv /\ IInv' /\ [Next]_vars => [Notary!Next]_[t \in Thread |-> LogOf(t)]
<1> SUFFICES ASSUME IInv, IInv', [Next]_vars
             PROVE  [Notary!Next]_[t \in Thread |-> LogOf(t)]
  OBVIOUS
<1>1. ASSUME NEW p \in Process, InsertRecord(p)
      PROVE  Notary!Next
  BY <1>1, InsertExtends
<1>2. ASSUME records' = records
      PROVE  [t \in Thread |-> LogOf(t)]' = [t \in Thread |-> LogOf(t)]
  <2>1. ASSUME NEW t \in Thread
        PROVE  LogOf(t)' = LogOf(t)
    <3>1. RecordsOf(t)' = RecordsOf(t)
      BY <1>2 DEF RecordsOf
    <3> QED
      BY <3>1, SameLog
  <2> QED
    BY <2>1
<1>3. records' = records \/ \E p \in Process : InsertRecord(p)
  BY DEF Next, vars, ClientStep, ClientSigns, HubStep, ReceiveCreateIdentity,
         CreateIdentity, ReceiveCreateThread, InsertThread, ReceiveAppend,
         AppendRecord, ReceiveSigned, AppendSigned, AppendNext, AppendRefused,
         InsertConflict, SetGenesis, Crash
<1> QED
  BY <1>1, <1>2, <1>3

(***************************************************************************)
(* Whatever the interleaving of its statements and wherever its calls die, *)
(* the hub (hub.js over store.js) is the append-only log per thread that a *)
(* reader is promised.                                                     *)
(***************************************************************************)
THEOREM Refinement == Spec => ImplementsLedger
<1>1. Spec => []IInv
  BY Invariance
<1>2. Init => Notary!Init
  BY InitIsEmpty
<1>3. IInv /\ IInv' /\ [Next]_vars => [Notary!Next]_[t \in Thread |-> LogOf(t)]
  BY NextIsLedger
<1> QED
  BY <1>1, <1>2, <1>3, PTL DEF Spec, ImplementsLedger, Notary!Spec

-----------------------------------------------------------------------------
(***************************************************************************)
(* The genesis_hash column, where one process serves the database.  Its    *)
(* calls then follow each other, and a thread between its INSERT and its   *)
(* genesis record is seen by no other call: until createThread has set the *)
(* column, or has died, the thread has no record but the genesis.          *)
(***************************************************************************)
OneProcess == \A p, q \in Process : p = q

GenesisCall(p) ==
  /\ \A n \in 1 .. Len(todo[p]) : Inserted(todo[p][n].thread)
  /\ pc[p] \in {"insert", "insertGenesis", "setGenesis"} => Inserted(pending[p].envelope.thread)
  /\ pc[p] = "genesis" => todo[p][1].kind = "genesis" /\ RecordsOf(todo[p][1].thread) = {}
  /\ pc[p] \in {"insertGenesis", "setGenesis"} =>
       pending[p].envelope.kind = "genesis" /\ pending[p].envelope.seq = 0
  /\ pc[p] = "insertGenesis" => RecordsOf(pending[p].envelope.thread) = {}

GenesisInv ==
  /\ \A r \in records : Inserted(r.envelope.thread)
  /\ \A p \in Process : GenesisCall(p)
  /\ GenesisHashIsSeqZero

LEMMA GenesisInit == Init => GenesisInv
  BY DEF Init, GenesisInv, GenesisCall, GenesisHashIsSeqZero, Inserted

\* No step takes a thread away.
LEMMA InsertedStays ==
  ASSUME IInv, IInv', Next, NEW t \in Thread, Inserted(t)
  PROVE  Inserted(t)'
<1>1. CASE threads' = threads
  BY <1>1 DEF Inserted
<1>2. ASSUME NEW p \in Process, NEW u \in Thread, NEW slug \in Slug, NEW i \in Identity,
             NEW payload \in Payload, NEW events \in Logs,
             InsertThread(p, u, slug, i, payload, events)
      PROVE  Inserted(t)'
  <2>1. t # u /\ threads'[t] = threads[t]
    BY <1>2 DEF InsertThread, IInv, TypeOK
  <2> QED
    BY <2>1 DEF Inserted
<1>3. ASSUME NEW p \in Process, SetGenesis(p) PROVE Inserted(t)'
  <2>1. PICK slug \in Slug, i \in Identity :
          threads[t] = [slug |-> slug, created_by |-> i, genesis_hash |-> threads[t].genesis_hash]
    BY DEF IInv, TypeOK
  <2>2. PICK hash : hash = pending[p].record_hash
    OBVIOUS
  <2>3. threads'[t] = threads[t] \/ threads'[t] = [threads[t] EXCEPT !.genesis_hash = hash]
    BY <1>3, <2>2 DEF SetGenesis, IInv, TypeOK
  <2>4. threads'[t].slug = slug \/ threads'[t] = threads[t]
    BY <2>1, <2>3
  <2>5. "slug" \in DOMAIN threads'[t]
    BY <2>1, <2>3
  <2>6. "slug" \notin DOMAIN NoThread
    BY DEF NoThread
  <2> QED
    BY <2>5, <2>6 DEF Inserted
<1> QED
  BY <1>1, <1>2, <1>3
  DEF Next, ClientStep, ClientSigns, HubStep, ReceiveCreateIdentity, CreateIdentity,
      ReceiveCreateThread, ReceiveAppend, AppendRecord, ReceiveSigned, AppendSigned,
      AppendNext, AppendRefused, InsertRecord, InsertConflict, Crash

\* The column keeps its promise while no column changes and no row goes.
LEMMA GenesisHashStays ==
  ASSUME GenesisHashIsSeqZero, records \subseteq records', threads' = threads
  PROVE  GenesisHashIsSeqZero'
  BY DEF GenesisHashIsSeqZero, RecordsOf, Inserted

\* A step that leaves the call of the process idle, or where it is not at a genesis.
LEMMA GenesisQuiet ==
  ASSUME IInv, IInv', Next, GenesisInv, threads' = threads,
         \A r \in records' : r \in records \/ Inserted(r.envelope.thread),
         records \subseteq records',
         \A p \in Process : GenesisCall(p)'
  PROVE  GenesisInv'
<1>1. GenesisHashIsSeqZero'
  BY GenesisHashStays DEF GenesisInv
<1>2. \A r \in records' : Inserted(r.envelope.thread)'
  BY DEF GenesisInv, Inserted
<1> QED
  BY <1>1, <1>2 DEF GenesisInv

LEMMA GenesisFinish ==
  ASSUME IInv, NEW p \in Process, Finish(p), OneProcess, NEW q \in Process
  PROVE  GenesisCall(q)'
<1>1. q = p /\ pc'[q] = "idle" /\ todo'[q] = <<>>
  BY DEF OneProcess, Finish, IInv, TypeOK
<1> QED
  BY <1>1 DEF GenesisCall

LEMMA GenesisIdle ==
  ASSUME IInv, GenesisInv, OneProcess, NEW q \in Process,
         threads' = threads, records' = records, pc' = pc, pending' = pending, todo' = todo
  PROVE  GenesisCall(q)'
  BY DEF GenesisInv, GenesisCall, Inserted, RecordsOf

LEMMA GenesisInsertThread ==
  ASSUME IInv, IInv', Next, GenesisInv, OneProcess, NEW p \in Process, NEW t \in Thread, NEW slug \in Slug,
         NEW i \in Identity, NEW payload \in Payload, NEW events \in Seq(Payload),
         InsertThread(p, t, slug, i, payload, events)
  PROVE  GenesisInv'
<1> DEFINE first == Request(t, i, "genesis", payload)
           log   == [n \in 1 .. Len(events) |-> Request(t, i, "clista.event", events[n])]
<1>1. /\ log \in Seq(RequestSet)
      /\ \A n \in 1 .. Len(log) : log[n].thread = t
  BY ConstantsAssumption DEF Request, RequestSet
<1>2. /\ todo' = [todo EXCEPT ![p] = <<first>> \o log]
      /\ pc' = [pc EXCEPT ![p] = "genesis"]
      /\ threads' = [threads EXCEPT ![t] = [slug |-> slug, created_by |-> i, genesis_hash |-> Null]]
      /\ records' = records /\ ~ Inserted(t)
  BY DEF InsertThread
<1>3. first \in RequestSet /\ first.thread = t /\ first.kind = "genesis"
  BY ConstantsAssumption DEF Request, RequestSet
<1> HIDE DEF first, log
<1>4. PICK one \in Seq(RequestSet) : one = <<first>> /\ Len(one) = 1 /\ one[1] = first
  <2>1. <<first>> \in Seq(RequestSet)
    BY <1>3
  <2> QED
    BY <2>1
<1>5. PICK calls : calls = one \o log
  OBVIOUS
<1>6. /\ calls \in Seq(RequestSet)
      /\ calls[1] = first
      /\ \A n \in 1 .. Len(calls) : calls[n].thread = t
  BY <1>1, <1>3, <1>4, <1>5
<1>7. todo'[p] = calls /\ pc'[p] = "genesis"
  BY <1>2, <1>4, <1>5 DEF IInv, TypeOK
<1>8. /\ \A u \in Thread \ {t} : threads'[u] = threads[u]
      /\ threads'[t].genesis_hash = Null
  BY <1>2 DEF IInv, TypeOK
<1>9. Inserted(t)'
  <2>1. threads'[t].slug = slug /\ "slug" \in DOMAIN threads'[t]
    BY <1>2 DEF IInv, TypeOK
  <2>2. "slug" \notin DOMAIN NoThread
    BY DEF NoThread
  <2> QED
    BY <2>1, <2>2 DEF Inserted
<1>10. RecordsOf(t)' = {}
  BY <1>2 DEF GenesisInv, RecordsOf
<1>11. \A q \in Process : GenesisCall(q)'
  BY <1>3, <1>6, <1>7, <1>9, <1>10 DEF OneProcess, GenesisCall
<1>12. \A r \in records' : Inserted(r.envelope.thread)'
  <2>1. \A r \in records : r.envelope.thread \in Thread /\ Inserted(r.envelope.thread)
    BY DEF GenesisInv, IInv, TypeOK, EnvelopeOK
  <2> QED
    BY <1>2, <2>1, InsertedStays
<1>13. GenesisHashIsSeqZero'
  BY <1>2, <1>8 DEF GenesisInv, GenesisHashIsSeqZero, RecordsOf, Inserted
<1> QED
  BY <1>11, <1>12, <1>13 DEF GenesisInv

\* The row append builds for a request of the process.
LEMMA GenesisBuild ==
  ASSUME IInv, GenesisInv, OneProcess, NEW p \in Process, NEW request, NEW next,
         BuildRecord(p, request, next), Inserted(request.thread),
         threads' = threads, records' = records,
         next \in {"insert", "insertGenesis"},
         next = "insertGenesis" => request.kind = "genesis" /\ RecordsOf(request.thread) = {},
         NEW calls, calls = todo'[p], \A n \in 1 .. Len(calls) : Inserted(calls[n].thread),
         NEW q \in Process
  PROVE  GenesisCall(q)'
<1> DEFINE i == request.author
           key == identities[i].key
<1>1. PICK seq \in 0 .. MaxSeq, prev \in {Null} \cup {r.record_hash : r \in records} :
        /\ NextPosition(request.thread, seq, prev)
        /\ LET e == Envelope(request.thread, seq, prev, i, key, request.kind, request.payload)
           IN pending' = [pending EXCEPT ![p] = Row(e, Sign(ContentAddress(e), key))]
        /\ pc' = [pc EXCEPT ![p] = next]
  BY DEF BuildRecord
<1> DEFINE e == Envelope(request.thread, seq, prev, i, key, request.kind, request.payload)
<1>2. /\ pc'[p] = next
      /\ pending'[p].envelope.thread = request.thread
      /\ pending'[p].envelope.kind = request.kind
      /\ pending'[p].envelope.seq = seq
  <2>1. PICK row : row = Row(e, Sign(ContentAddress(e), key))
    OBVIOUS
  <2>2. row.envelope = e
    BY <2>1 DEF Row
  <2>3. e.thread = request.thread /\ e.kind = request.kind /\ e.seq = seq
    BY DEF Envelope
  <2>4. pending' = [pending EXCEPT ![p] = row] /\ pc' = [pc EXCEPT ![p] = next]
    BY <1>1, <2>1
  <2> HIDE DEF e
  <2> QED
    BY <2>2, <2>3, <2>4 DEF IInv, TypeOK
<1>3. next = "insertGenesis" => seq = 0
  BY <1>1 DEF NextPosition, IsHead
<1>4. q = p
  BY DEF OneProcess
<1>5. \A n \in 1 .. Len(calls) : Inserted(calls[n].thread)'
  BY DEF Inserted
<1>6. Inserted(request.thread)' /\ RecordsOf(request.thread)' = RecordsOf(request.thread)
  BY DEF Inserted, RecordsOf
<1> QED
  BY <1>2, <1>3, <1>4, <1>5, <1>6 DEF GenesisCall

LEMMA GenesisAppendNext ==
  ASSUME IInv, IInv', Next, GenesisInv, OneProcess, NEW p \in Process, AppendNext(p)
  PROVE  GenesisInv'
<1> DEFINE next == IF pc[p] = "genesis" THEN "insertGenesis" ELSE "insert"
<1>1. /\ pc[p] \in {"genesis", "append"}
      /\ BuildRecord(p, Head(todo[p]), next)
      /\ threads' = threads /\ records' = records
      /\ todo' = [todo EXCEPT ![p] = Tail(@)]
  BY DEF AppendNext
<1>2. todo[p] \in Seq(RequestSet) /\ todo[p] # <<>> /\ todo'[p] = Tail(todo[p])
  BY <1>1 DEF IInv, TypeOK
<1>3. /\ Head(todo[p]) = todo[p][1] /\ 1 \in 1 .. Len(todo[p])
      /\ \A n \in 1 .. Len(todo'[p]) : n + 1 \in 1 .. Len(todo[p]) /\ todo'[p][n] = todo[p][n + 1]
  BY <1>2
<1>4. \A n \in 1 .. Len(todo[p]) : Inserted(todo[p][n].thread)
  BY DEF GenesisInv, GenesisCall
<1>5. PICK calls : calls = todo'[p]
  OBVIOUS
<1>6. /\ Inserted(Head(todo[p]).thread)
      /\ \A n \in 1 .. Len(calls) : Inserted(calls[n].thread)
  BY <1>3, <1>4, <1>5
<1>7. /\ next \in {"insert", "insertGenesis"}
      /\ next = "insertGenesis" =>
           Head(todo[p]).kind = "genesis" /\ RecordsOf(Head(todo[p]).thread) = {}
  BY <1>3 DEF GenesisInv, GenesisCall
<1> HIDE DEF next
<1>8. \A q \in Process : GenesisCall(q)'
  BY <1>1, <1>5, <1>6, <1>7, GenesisBuild
<1> QED
  BY <1>1, <1>8, GenesisQuiet DEF GenesisInv

LEMMA GenesisAppendRecord ==
  ASSUME IInv, IInv', Next, GenesisInv, OneProcess, NEW p \in Process, NEW t \in Thread,
         NEW i \in Identity, NEW kind \in Kind, NEW payload \in Payload,
         AppendRecord(p, t, i, kind, payload)
  PROVE  GenesisInv'
<1>1. PICK request : request = Request(t, i, kind, payload)
  OBVIOUS
<1>2. request.thread = t
  BY <1>1 DEF Request
<1>3. /\ BuildRecord(p, request, "insert") /\ Inserted(request.thread)
      /\ threads' = threads /\ records' = records /\ todo' = todo
  BY <1>1, <1>2 DEF AppendRecord
<1>4. PICK calls : calls = todo'[p]
  OBVIOUS
<1>5. \A n \in 1 .. Len(calls) : Inserted(calls[n].thread)
  BY <1>3, <1>4 DEF GenesisInv, GenesisCall
<1>6. \A q \in Process : GenesisCall(q)'
  BY <1>3, <1>4, <1>5, GenesisBuild
<1> QED
  BY <1>3, <1>6, GenesisQuiet DEF GenesisInv

LEMMA GenesisAppendSigned ==
  ASSUME IInv, IInv', Next, GenesisInv, OneProcess, NEW p \in Process,
         NEW envelope, NEW signature, AppendSigned(p, envelope, signature)
  PROVE  GenesisInv'
<1>1. /\ Inserted(envelope.thread)
      /\ pending' = [pending EXCEPT ![p] = Row(envelope, signature)]
      /\ pc' = [pc EXCEPT ![p] = "insert"]
      /\ threads' = threads /\ records' = records /\ todo' = todo
  BY DEF AppendSigned
<1>2. PICK row : row = Row(envelope, signature)
  OBVIOUS
<1>3. row.envelope = envelope
  BY <1>2 DEF Row
<1>4. pc'[p] = "insert" /\ pending'[p] = row
  BY <1>1, <1>2 DEF IInv, TypeOK
<1>5. \A q \in Process : GenesisCall(q)'
  BY <1>1, <1>3, <1>4 DEF OneProcess, GenesisCall, GenesisInv, Inserted
<1> QED
  BY <1>1, <1>5, GenesisQuiet DEF GenesisInv

LEMMA GenesisInsertRecord ==
  ASSUME IInv, IInv', Next, GenesisInv, OneProcess, NEW p \in Process, InsertRecord(p)
  PROVE  GenesisInv'
<1>1. PICK row : row = pending[p]
  OBVIOUS
<1>2. /\ pc[p] \in {"insert", "insertGenesis"}
      /\ records' = records \cup {row} /\ threads' = threads
      /\ Inserted(row.envelope.thread)
  BY <1>1 DEF InsertRecord, GenesisInv, GenesisCall
<1>3. ASSUME NEW q \in Process PROVE GenesisCall(q)'
  <2>1. CASE Finish(p)
    BY <2>1, GenesisFinish
  <2>2. CASE pc[p] = "insertGenesis" /\ pc' = [pc EXCEPT ![p] = "setGenesis"]
             /\ UNCHANGED <<pending, todo>>
    <3>1. q = p /\ pc'[p] = "setGenesis"
      BY <2>2 DEF OneProcess, IInv, TypeOK
    <3>2. GenesisCall(p)
      BY DEF GenesisInv
    <3> QED
      BY <1>1, <1>2, <2>2, <3>1, <3>2 DEF GenesisCall, Inserted
  <2>3. CASE pc' = [pc EXCEPT ![p] = "append"] /\ todo' = todo
    <3>1. q = p /\ pc'[p] = "append"
      BY <2>3 DEF OneProcess, IInv, TypeOK
    <3>2. GenesisCall(p)
      BY DEF GenesisInv
    <3> QED
      BY <1>2, <2>3, <3>1, <3>2 DEF GenesisCall, Inserted
  <2> QED
    BY <2>1, <2>2, <2>3 DEF InsertRecord
<1> QED
  BY <1>2, <1>3, GenesisQuiet

LEMMA GenesisSetGenesis ==
  ASSUME IInv, IInv', Next, GenesisInv, OneProcess, NEW p \in Process, SetGenesis(p)
  PROVE  GenesisInv'
<1>1. PICK row : row = pending[p]
  OBVIOUS
<1>2. PICK t : t = row.envelope.thread
  OBVIOUS
<1>3. /\ row \in records /\ t \in Thread /\ Inserted(t)
      /\ row.envelope.seq = 0 /\ row.envelope.kind = "genesis"
  BY <1>1, <1>2 DEF SetGenesis, IInv, CallOK, TypeOK, EnvelopeOK, GenesisInv, GenesisCall
<1>4. /\ threads' = [threads EXCEPT ![t].genesis_hash = row.record_hash]
      /\ records' = records
  BY <1>1, <1>2 DEF SetGenesis
<1>5. \A u \in Thread \ {t} : threads'[u] = threads[u]
  BY <1>4 DEF IInv, TypeOK
<1>6. threads'[t].genesis_hash = row.record_hash
  <2>1. PICK slug \in Slug, i \in Identity :
          threads[t] = [slug |-> slug, created_by |-> i, genesis_hash |-> threads[t].genesis_hash]
    BY <1>3 DEF IInv, TypeOK
  <2>2. PICK hash : hash = row.record_hash
    OBVIOUS
  <2>3. threads'[t] = [threads[t] EXCEPT !.genesis_hash = hash]
    BY <1>3, <1>4, <2>2 DEF IInv, TypeOK
  <2>4. PICK old : old = threads[t].genesis_hash
    OBVIOUS
  <2>5. threads[t] = [slug |-> slug, created_by |-> i, genesis_hash |-> old]
    BY <2>1, <2>4
  <2>6. threads'[t].genesis_hash = hash
    BY <2>3, <2>5
  <2> QED
    BY <2>2, <2>6
<1>7. ASSUME NEW u \in Thread, Inserted(u)', threads'[u].genesis_hash # Null
      PROVE  \E r \in RecordsOf(u)' : /\ r.envelope.seq = 0
                                      /\ r.envelope.kind = "genesis"
                                      /\ r.record_hash = threads'[u].genesis_hash
  <2>1. CASE u = t
    BY <1>2, <1>3, <1>4, <1>6, <2>1 DEF RecordsOf
  <2>2. CASE u # t
    BY <1>4, <1>5, <1>7, <2>2 DEF GenesisInv, GenesisHashIsSeqZero, RecordsOf, Inserted
  <2> QED
    BY <2>1, <2>2
<1>8. GenesisHashIsSeqZero'
  BY <1>7 DEF GenesisHashIsSeqZero
<1>9. \A r \in records' : Inserted(r.envelope.thread)'
  <2>1. \A r \in records : r.envelope.thread \in Thread /\ Inserted(r.envelope.thread)
    BY DEF GenesisInv, IInv, TypeOK, EnvelopeOK
  <2> QED
    BY <1>4, <2>1, InsertedStays
<1>10. ASSUME NEW q \in Process PROVE GenesisCall(q)'
  <2>1. CASE Finish(p)
    BY <2>1, GenesisFinish
  <2>2. CASE pc' = [pc EXCEPT ![p] = "append"] /\ todo' = todo
    <3>1. q = p /\ pc'[p] = "append"
      BY <2>2 DEF OneProcess, IInv, TypeOK
    <3>2. PICK calls : calls = todo[p]
      OBVIOUS
    <3>3. \A n \in 1 .. Len(calls) : calls[n].thread \in Thread /\ Inserted(calls[n].thread)
      <4>1. todo[p] \in Seq(RequestSet)
        BY DEF IInv, TypeOK
      <4>2. \A n \in 1 .. Len(todo[p]) : todo[p][n] \in RequestSet
        BY <4>1
      <4> QED
        BY <3>2, <4>2 DEF GenesisInv, GenesisCall, RequestSet
    <3>4. \A n \in 1 .. Len(calls) : Inserted(calls[n].thread)'
      BY <3>3, InsertedStays
    <3> QED
      BY <2>2, <3>1, <3>2, <3>4 DEF GenesisCall
  <2> QED
    BY <2>1, <2>2 DEF SetGenesis
<1> QED
  BY <1>8, <1>9, <1>10 DEF GenesisInv

LEMMA GenesisNext == OneProcess /\ IInv /\ IInv' /\ GenesisInv /\ [Next]_vars => GenesisInv'
<1> SUFFICES ASSUME OneProcess, IInv, IInv', GenesisInv, [Next]_vars PROVE GenesisInv'
  OBVIOUS
<1>1. CASE UNCHANGED vars
  BY <1>1 DEF vars, GenesisInv, GenesisCall, GenesisHashIsSeqZero, Inserted, RecordsOf
<1>2. ASSUME Next, threads' = threads, records' = records, pc' = pc, pending' = pending, todo' = todo
      PROVE  GenesisInv'
  BY <1>2, GenesisIdle, GenesisQuiet DEF GenesisInv
<1>3. CASE Next /\ ClientStep
  BY <1>2, <1>3 DEF ClientStep, ClientSigns
<1>4. ASSUME Next, NEW p \in Process, HubStep(p) PROVE GenesisInv'
  <2>1. CASE ReceiveCreateIdentity(p)
    BY <1>2, <1>4, <2>1 DEF ReceiveCreateIdentity, CreateIdentity
  <2>2. CASE ReceiveCreateThread(p)
    <3>1. \A events \in Logs : events \in Seq(Payload)
      BY ConstantsAssumption DEF Logs
    <3> QED
      BY <1>4, <2>2, <3>1, GenesisInsertThread DEF ReceiveCreateThread
  <2>3. CASE ReceiveAppend(p)
    BY <1>4, <2>3, GenesisAppendRecord DEF ReceiveAppend
  <2>4. CASE ReceiveSigned(p)
    BY <1>4, <2>4, GenesisAppendSigned DEF ReceiveSigned
  <2>5. CASE AppendNext(p)
    BY <1>4, <2>5, GenesisAppendNext
  <2>6. CASE AppendRefused(p) \/ InsertConflict(p) \/ Crash(p)
    <3>1. Finish(p) /\ threads' = threads /\ records' = records
      BY <2>6 DEF AppendRefused, InsertConflict, Crash
    <3>2. \A q \in Process : GenesisCall(q)'
      BY <3>1, GenesisFinish
    <3> QED
      BY <1>4, <3>1, <3>2, GenesisQuiet
  <2>7. CASE InsertRecord(p)
    BY <1>4, <2>7, GenesisInsertRecord
  <2>8. CASE SetGenesis(p)
    BY <1>4, <2>8, GenesisSetGenesis
  <2> QED
    BY <1>4, <2>1, <2>2, <2>3, <2>4, <2>5, <2>6, <2>7, <2>8 DEF HubStep
<1> QED
  BY <1>1, <1>3, <1>4 DEF Next

(***************************************************************************)
(* Where one process serves the database, whatever calls arrive in what    *)
(* order and whichever dies: the genesis_hash column of a thread, once     *)
(* set, names the record at seq 0, which is the genesis (createThread).    *)
(***************************************************************************)
THEOREM GenesisIsFirst == Spec => [](OneProcess => GenesisHashIsSeqZero)
<1>1. CASE OneProcess
  <2>1. Spec => []GenesisInv
    BY <1>1, GenesisInit, GenesisNext, Invariance, PTL DEF Spec
  <2>2. GenesisInv => GenesisHashIsSeqZero
    BY DEF GenesisInv
  <2> QED
    BY <2>1, <2>2, PTL
<1>2. CASE ~ OneProcess
  BY <1>2, PTL
<1> QED
  BY <1>1, <1>2
=============================================================================

----------------------------- MODULE StoreProofs -----------------------------
(***************************************************************************)
(* The local store, for any processes and ids and logs of any length: the  *)
(* part of ProtocolParts that several processes write at a time.           *)
(***************************************************************************)
EXTENDS ProtocolParts, Sequences, TLAPS

-----------------------------------------------------------------------------
(* The local store *)

EventKinds == {"joined", "object", "request", "decision", "minority", "rejection"}

EventRecord == [kind : EventKinds, by : Actor, id : Nat, link : Nat, of : SUBSET Nat]

Lines == EventRecord \cup {Storing!Torn}

Tasks ==
  [how : {"join", "append", "gate", "propose", "import", "witness"},
   kind : EventKinds \cup {"empty", "any"}, by : Actor, of : SUBSET Nat]

ProcRecord ==
  [todo : Seq(Tasks),
   pc : {"idle", "start", "witness", "init", "create", "link", "write", "rewrite"},
   link : Nat, mine : Nat]

\* The appends of a command, and what is left of them: an actor is introduced
\* before it appends, a decision is followed by its report, and what goes through
\* the gate or replaces the file is the last.
ShapedAt(s, n) ==
  /\ s[n].how = "join" => s[n].kind = "joined" /\ s[n].of = {}
  /\ s[n].how = "append" =>
       /\ s[n].kind \in {"object", "request", "decision", "minority"}
       /\ s[n].kind # "decision" => s[n].of = {}
       /\ n > 1 => s[n-1].how = "join" /\ s[n-1].by = s[n].by
  /\ s[n].kind \in {"decision", "minority"} => s[n].how = "append"
  /\ s[n].kind = "decision" =>
       /\ n + 2 \in 1..Len(s) /\ s[n+2].kind = "minority"
       /\ \A m \in 1..Len(s) : s[m].kind = "decision" => m = n
  /\ s[n].how \in {"gate", "propose", "witness", "import"} => n = Len(s)
  /\ s[n].how # "import" => s[n].kind \in EventKinds
  /\ s[n].kind = "minority" => n = Len(s)
  /\ s[n].how = "witness" => n = 1

Shaped(s) == \A n \in 1..Len(s) : ShapedAt(s, n)

\* An event may be appended now: its author has joined, or joins for the first time,
\* what it refers to is there, what it decides has not been decided.
Placed(t) ==
  /\ t.kind = "joined" <=> ~ Storing!Joined(Storing!Events(file), t.by)
  /\ t.of \subseteq Storing!Stored
  /\ t.kind = "decision" => \A r \in t.of : ~ Storing!Decided(Storing!Events(file), r)

Decides(p) == \E n \in 1..Len(proc[p].todo) : proc[p].todo[n].kind = "decision"
Reports(p) == \E n \in 1..Len(proc[p].todo) : proc[p].todo[n].kind = "minority"

\* A process in the midst of a command, whatever the others do: what it linked to is
\* the last event exactly as long as the file is what it was.
ProcessOK(p) ==
  /\ proc[p] \in ProcRecord
  /\ proc[p].pc = "idle" <=> proc[p].todo = <<>>
  /\ Shaped(proc[p].todo)
  /\ proc[p].pc \in {"link", "write"} => Head(proc[p].todo).how # "import"
  /\ proc[p].pc = "witness" => Head(proc[p].todo).how \in {"gate", "propose"}
  /\ proc[p].pc = "start" => Head(proc[p].todo).how # "witness"
  /\ proc[p].pc \in {"link", "write", "rewrite"} => exists
  /\ proc[p].pc = "write" =>
       /\ proc[p].link <= made
       /\ p \in linked => Storing!Readable(file) /\ proc[p].link = Storing!Last(file)
       /\ p \notin linked /\ Storing!Readable(file) /\ proc[p].link # 0 =>
            proc[p].link # Storing!Last(file)

\* A process that nobody has overtaken: what its command found out still holds.
ProcessReady(p) ==
  /\ \/ proc[p].pc \in {"init", "create", "link", "write"} /\ Head(proc[p].todo).how # "import"
     \/ proc[p].todo # <<>> /\ Head(proc[p].todo).how = "append"
     => Placed(Head(proc[p].todo))
  /\ \A n \in 1..Len(proc[p].todo) : proc[p].todo[n].kind = "decision" =>
       /\ proc[p].todo[n].of \subseteq Storing!Stored
       /\ \A r \in proc[p].todo[n].of : ~ Storing!Decided(Storing!Events(file), r)
  /\ Reports(p) => Decides(p) \/ proc[p].mine \in Storing!Stored
  /\ proc[p].pc = "create" => file = <<>>
  /\ proc[p].pc = "write" => Storing!Readable(file)

\* A line of the file, and why it is not what it should be.
LineOK(f, n) ==
  IF f[n] = Storing!Torn THEN n = Len(f) /\ cut
  ELSE /\ f[n].id \in 1..made
       /\ (Storing!Linked(f, n) /\ (f[n].link = 0 => n = 1)) \/ f[n].id \in forked
       /\ f[n].id \in forked /\ f[n].link # 0 => ~ Storing!Linked(f, n)
       /\ Storing!InOrder(f, n) \/ f[n].id \in late

\* A decision is reported, or the process that made it is about to.
Answered(n) ==
  \/ \E k \in 1..Len(file) : file[k].kind = "minority" /\ file[n].id \in file[k].of
  \/ \E p \in Process : Reports(p) /\ ~ Decides(p) /\ proc[p].mine = file[n].id

StoreTypes ==
  /\ file \in Seq(Lines)
  /\ made \in Nat
  /\ forked \subseteq 1..made
  /\ proc = [p \in Process |-> proc[p]]
  /\ ~ exists => file = <<>>

StoreInv ==
  /\ StoreTypes
  /\ \A p \in Process : ProcessOK(p)
  /\ \A p \in Process : p \notin overtaken => ProcessReady(p)
  /\ \A n \in 1..Len(file) : LineOK(file, n)
  /\ ~ cut => \A n \in 1..Len(file) : file[n].kind = "decision" => Answered(n)
  /\ thrown \/ acked \subseteq Storing!Stored \cup forked

LEMMA NotTorn == Storing!Torn \notin EventRecord
<1>1. Storing!Torn.kind = "torn"
  BY DEF Storing!Torn
<1> QED
  BY <1>1 DEF EventRecord, EventKinds

\* What is read of a file of lines.
LEMMA Reading ==
  ASSUME NEW f \in Seq(Lines)
  PROVE  /\ DOMAIN f = 1..Len(f) /\ Len(f) \in Nat
         /\ \A n \in 1..Len(f) : f[n] \in Lines
         /\ Storing!Events(f) = {f[n] : n \in 1..Len(f)} \ {Storing!Torn}
         /\ \A n \in 1..Len(f) :
              Storing!Before(f, n) = {f[m] : m \in 1..(n-1)} \ {Storing!Torn}
         /\ Storing!Readable(f) <=> \A n \in 1..Len(f) : f[n] # Storing!Torn
<1>1. DOMAIN f = 1..Len(f) /\ Len(f) \in Nat /\ \A n \in 1..Len(f) : f[n] \in Lines
  OBVIOUS
<1>2. ASSUME NEW n \in 1..Len(f)
      PROVE  Storing!Before(f, n) = {f[m] : m \in 1..(n-1)} \ {Storing!Torn}
  <2> DEFINE g == SubSeq(f, 1, n-1)
  <2>1. DOMAIN g = 1..(n-1) /\ \A m \in 1..(n-1) : g[m] = f[m]
    BY <1>1
  <2> HIDE DEF g
  <2>2. Storing!Events(g) = {f[m] : m \in 1..(n-1)} \ {Storing!Torn}
    BY <2>1 DEF Storing!Events
  <2> QED
    BY <2>2 DEF Storing!Before, g
<1> QED
  BY <1>1, <1>2 DEF Storing!Readable, Storing!Events

\* A line more.
LEMMA Appended ==
  ASSUME NEW f \in Seq(Lines), NEW e \in Lines
  PROVE  /\ Append(f, e) \in Seq(Lines)
         /\ Len(Append(f, e)) = Len(f) + 1 /\ Append(f, e)[Len(f) + 1] = e
         /\ \A n \in 1..Len(f) : Append(f, e)[n] = f[n]
         /\ \A n \in 1..Len(f) : Storing!Before(Append(f, e), n) = Storing!Before(f, n)
         /\ Storing!Before(Append(f, e), Len(f) + 1) = Storing!Events(f)
         /\ Storing!Events(Append(f, e)) = Storing!Events(f) \cup ({e} \ {Storing!Torn})
<1>0. PICK g : g = Append(f, e)
  OBVIOUS
<1>1. PICK k \in Nat : k = Len(f)
  BY Reading
<1>2. /\ g \in Seq(Lines) /\ Len(g) = k + 1 /\ g[k + 1] = e
      /\ \A n \in 1..k : g[n] = f[n]
  BY <1>0, <1>1
<1>3. ASSUME NEW n \in 1..k PROVE Storing!Before(g, n) = Storing!Before(f, n)
  <2>1. n \in 1..Len(g) /\ n \in 1..Len(f) /\ \A m \in 1..(n-1) : g[m] = f[m]
    BY <1>1, <1>2
  <2>2. Storing!Before(g, n) = {g[m] : m \in 1..(n-1)} \ {Storing!Torn}
    BY <1>2, <2>1, Reading
  <2>3. Storing!Before(f, n) = {f[m] : m \in 1..(n-1)} \ {Storing!Torn}
    BY <2>1, Reading
  <2>4. {g[m] : m \in 1..(n-1)} = {f[m] : m \in 1..(n-1)}
    BY <2>1
  <2> QED
    BY <2>2, <2>3, <2>4
<1>4. Storing!Before(g, k + 1) = Storing!Events(f)
  <2>1. k + 1 \in 1..Len(g) /\ (k + 1) - 1 = k
    BY <1>2
  <2>2. Storing!Before(g, k + 1) = {g[m] : m \in 1..((k + 1) - 1)} \ {Storing!Torn}
    BY <1>2, <2>1, Reading
  <2>3. Storing!Events(f) = {f[m] : m \in 1..k} \ {Storing!Torn}
    BY <1>1, Reading
  <2>4. {g[m] : m \in 1..((k + 1) - 1)} = {f[m] : m \in 1..k}
    BY <1>2, <2>1
  <2> QED
    BY <2>2, <2>3, <2>4
<1>5. Storing!Events(g) = Storing!Events(f) \cup ({e} \ {Storing!Torn})
  <2>1. Storing!Events(g) = {g[n] : n \in 1..(k+1)} \ {Storing!Torn}
    BY <1>2, Reading
  <2>2. {g[n] : n \in 1..(k+1)} = {f[n] : n \in 1..k} \cup {e}
    <3>1. 1..(k+1) = (1..k) \cup {k+1}
      OBVIOUS
    <3>2. {g[n] : n \in (1..k) \cup {k+1}} = {g[n] : n \in 1..k} \cup {g[k+1]}
      OBVIOUS
    <3>3. {g[n] : n \in 1..k} = {f[n] : n \in 1..k}
      BY <1>2
    <3> QED
      BY <1>2, <3>1, <3>2, <3>3
  <2>3. Storing!Events(f) = {f[n] : n \in 1..k} \ {Storing!Torn}
    BY <1>1, Reading
  <2> QED
    BY <2>1, <2>2, <2>3
<1> QED
  <2>1. /\ g \in Seq(Lines) /\ Len(g) = Len(f) + 1 /\ g[Len(f) + 1] = e
        /\ \A n \in 1..Len(f) : g[n] = f[n]
    BY <1>1, <1>2
  <2>2. /\ \A n \in 1..Len(f) : Storing!Before(g, n) = Storing!Before(f, n)
        /\ Storing!Before(g, Len(f) + 1) = Storing!Events(f)
    BY <1>1, <1>3, <1>4
  <2> QED
    BY <1>0, <1>5, <2>1, <2>2

LEMMA AppendedInOrder ==
  ASSUME StoreTypes, NEW e \in Lines, NEW g, g = Append(file, e)
  PROVE  /\ Storing!InOrder(g, Len(file) + 1) <=> Placed(e)
         /\ Storing!Linked(g, Len(file) + 1) <=>
              (e.link # 0 => file # <<>> /\ e.link = file[Len(file)].id)
         /\ \A n \in 1..Len(file) :
              /\ Storing!InOrder(g, n) <=> Storing!InOrder(file, n)
              /\ Storing!Linked(g, n) <=> Storing!Linked(file, n)
<1>1. /\ e \in Lines /\ file \in Seq(Lines) /\ Len(file) \in Nat
      /\ file = <<>> <=> Len(file) = 0
  BY DEF StoreTypes, Lines
<1>2. PICK k \in Nat : k = Len(file)
  BY <1>1
<1>3. /\ g[k + 1] = e /\ \A n \in 1..k : g[n] = file[n]
      /\ \A n \in 1..k : Storing!Before(g, n) = Storing!Before(file, n)
      /\ Storing!Before(g, k + 1) = Storing!Events(file)
  <2>1. PICK f \in Seq(Lines) : f = file
    BY <1>1
  <2>2. e \in Lines /\ g = Append(f, e)
    BY <1>1, <2>1
  <2>3. /\ g[Len(f) + 1] = e
        /\ \A n \in 1..Len(f) : g[n] = f[n]
        /\ \A n \in 1..Len(f) : Storing!Before(g, n) = Storing!Before(f, n)
        /\ Storing!Before(g, Len(f) + 1) = Storing!Events(f)
    BY <2>2, Appended
  <2> QED
    BY <1>2, <2>1, <2>3
<1>4. Storing!InOrder(g, k + 1) <=> Placed(e)
  BY <1>3 DEF Storing!InOrder, Placed, Storing!Stored
<1>5. Storing!Linked(g, k + 1) <=> (e.link # 0 => file # <<>> /\ e.link = file[k].id)
  <2>1. (k + 1) - 1 = k /\ (k + 1 > 1 <=> k # 0)
    BY <1>2
  <2>2. k # 0 => g[k] = file[k]
    <3>1. k # 0 => k \in 1..k
      OBVIOUS
    <3> QED
      BY <1>3, <3>1
  <2>3. Storing!Linked(g, k + 1) <=>
          (e.link # 0 => k + 1 > 1 /\ e.link = g[(k + 1) - 1].id)
    BY <1>3 DEF Storing!Linked
  <2> QED
    BY <1>1, <1>2, <2>1, <2>2, <2>3
<1>6. ASSUME NEW n \in 1..k
      PROVE  /\ Storing!InOrder(g, n) <=> Storing!InOrder(file, n)
             /\ Storing!Linked(g, n) <=> Storing!Linked(file, n)
  <2>1. n > 1 => g[n-1] = file[n-1]
    <3>1. n > 1 => n - 1 \in 1..k
      BY <1>2
    <3> QED
      BY <1>3, <3>1
  <2>2. g[n] = file[n] /\ Storing!Before(g, n) = Storing!Before(file, n)
    BY <1>3
  <2>3. Storing!InOrder(g, n) <=> Storing!InOrder(file, n)
    BY <2>2 DEF Storing!InOrder
  <2>4. Storing!Linked(g, n) <=> Storing!Linked(file, n)
    BY <2>1, <2>2 DEF Storing!Linked
  <2> QED
    BY <2>3, <2>4
<1> QED
  BY <1>2, <1>4, <1>5, <1>6

LEMMA LastIs ==
  ASSUME StoreTypes
  PROVE  /\ file = <<>> => Storing!Last(file) = 0
         /\ file # <<>> => Len(file) \in 1..Len(file) /\ Storing!Last(file) = file[Len(file)].id
<1>1. file \in Seq(Lines)
  BY DEF StoreTypes
<1> QED
  BY <1>1 DEF Storing!Last

LEMMA LastKnown ==
  ASSUME StoreInv, Storing!Readable(file)
  PROVE  /\ Storing!Last(file) \in 0..made
         /\ file # <<>> => Storing!Last(file) # 0
<1>1. StoreTypes /\ file \in Seq(Lines) /\ made \in Nat
  BY DEF StoreInv, StoreTypes
<1>2. CASE file = <<>>
  BY <1>1, <1>2, LastIs
<1>3. CASE file # <<>>
  <2>1. PICK n \in 1..Len(file) : n = Len(file) /\ Storing!Last(file) = file[n].id
    BY <1>1, <1>3, LastIs
  <2>2. file[n] # Storing!Torn
    BY <1>1, <2>1, Reading
  <2>3. file[n].id \in 1..made
    BY <2>1, <2>2 DEF StoreInv, LineOK
  <2> QED
    BY <1>1, <2>1, <2>3
<1> QED
  BY <1>2, <1>3

-----------------------------------------------------------------------------
(* What a step leaves as it is *)

LEMMA Typed ==
  ASSUME StoreInv, NEW p \in Process
  PROVE  /\ proc = [q \in Process |-> proc[q]]
         /\ proc[p] \in ProcRecord /\ ProcessOK(p)
         /\ file \in Seq(Lines) /\ made \in Nat
  BY DEF StoreInv, StoreTypes, ProcessOK

LEMMA ReadyStays ==
  ASSUME NEW q \in Process, proc'[q] = proc[q], file' = file, ProcessReady(q)
  PROVE  ProcessReady(q)'
<1>1. (Reports(q)' <=> Reports(q)) /\ (Decides(q)' <=> Decides(q))
  BY DEF Reports, Decides
<1>2. Storing!Stored' = Storing!Stored /\ \A t : Placed(t)' <=> Placed(t)
  BY DEF Storing!Stored, Placed
<1>3. Placed(Head(proc[q].todo)) => Placed(Head(proc[q].todo))'
  BY DEF Placed, Storing!Stored
<1> QED
  BY <1>1, <1>2, <1>3 DEF ProcessReady

LEMMA IdleReady ==
  ASSUME NEW q \in Process, proc[q].todo = <<>>, proc[q].pc = "idle"
  PROVE  ProcessReady(q)
<1>1. Len(<<>>) = 0
  OBVIOUS
<1>2. ~ Reports(q)
  BY <1>1 DEF Reports
<1> QED
  BY <1>1, <1>2 DEF ProcessReady

\* The other processes, where the file is changed: they are overtaken, and what they
\* linked to is no longer the last event.
LEMMA OthersOK ==
  ASSUME StoreInv, NEW p \in Process, \A q \in Process \ {p} : proc'[q] = proc[q],
         exists => exists', made' \in Nat, made <= made', linked' = {}, Storing!Overtakes(p),
         Storing!Readable(file') => \A l \in 1..made : Storing!Last(file') # l
  PROVE  \A q \in Process \ {p} : ProcessOK(q)' /\ (q \notin overtaken' => ProcessReady(q)')
<1> SUFFICES ASSUME NEW q \in Process \ {p}
             PROVE  ProcessOK(q)' /\ (q \notin overtaken' => ProcessReady(q)')
  OBVIOUS
<1>1. ProcessOK(q) /\ proc'[q] = proc[q] /\ proc[q] \in ProcRecord /\ made \in Nat
  BY Typed
<1>2. ProcessOK(q)'
  <2>1. proc[q].pc = "write" =>
          /\ proc[q].link <= made'
          /\ Storing!Readable(file') /\ proc[q].link # 0 => proc[q].link # Storing!Last(file')
    <3>1. proc[q].link \in Nat
      BY <1>1 DEF ProcRecord
    <3>2. proc[q].pc = "write" => proc[q].link <= made
      BY <1>1 DEF ProcessOK
    <3>3. proc[q].pc = "write" /\ proc[q].link # 0 => proc[q].link \in 1..made
      BY <1>1, <3>1, <3>2
    <3>4. proc[q].pc = "write" => proc[q].link <= made'
      BY <1>1, <3>1, <3>2
    <3> QED
      BY <3>3, <3>4
  <2> QED
    BY <1>1, <2>1 DEF ProcessOK
<1>3. ASSUME q \notin overtaken' PROVE ProcessReady(q)'
  <2>1. CASE file' = file
    <3>1. q \notin overtaken
      BY <1>3, <2>1 DEF Storing!Overtakes
    <3> QED
      BY <1>1, <2>1, <3>1, ReadyStays DEF StoreInv
  <2>2. CASE file' # file
    <3>1. proc[q].pc = "idle"
      BY <1>3, <2>2 DEF Storing!Overtakes, Storing!At
    <3>2. proc[q].todo = <<>>
      BY <1>1, <3>1 DEF ProcessOK
    <3>3. Len(<<>>) = 0 /\ proc'[q].todo = <<>> /\ proc'[q].pc = "idle"
      BY <1>1, <3>1, <3>2
    <3>4. ~ Reports(q)'
      BY <3>3 DEF Reports
    <3> QED
      BY <3>3, <3>4 DEF ProcessReady
  <2> QED
    BY <2>1, <2>2
<1> QED
  BY <1>2, <1>3

\* A process moves, and the file stays as it is.
LEMMA StoreStep ==
  ASSUME StoreInv, NEW p \in Process, NEW r,
         proc' = [proc EXCEPT ![p] = r],
         UNCHANGED <<file, made, acked, forked, late>>,
         exists => exists', cut => cut', thrown => thrown',
         \A q \in Process \ {p} : (q \in linked' <=> q \in linked)
                                    /\ (q \in overtaken' <=> q \in overtaken),
         ProcessOK(p)', p \notin overtaken' => ProcessReady(p)',
         ~ cut' /\ Reports(p) /\ ~ Decides(p) =>
           Reports(p)' /\ ~ Decides(p)' /\ proc'[p].mine = proc[p].mine
  PROVE  StoreInv'
<1>1. /\ proc' = [q \in Process |-> proc'[q]]
      /\ \A q \in Process \ {p} : proc'[q] = proc[q]
  BY DEF StoreInv, StoreTypes
<1>2. \A q \in Process : ProcessOK(q)'
  <2> SUFFICES ASSUME NEW q \in Process \ {p} PROVE ProcessOK(q)'
    OBVIOUS
  <2>1. ProcessOK(q) /\ proc'[q] = proc[q] /\ (q \in linked' <=> q \in linked)
    BY <1>1 DEF StoreInv
  <2> QED
    BY <2>1 DEF ProcessOK
<1>3. \A q \in Process : q \notin overtaken' => ProcessReady(q)'
  <2> SUFFICES ASSUME NEW q \in Process \ {p}, q \notin overtaken' PROVE ProcessReady(q)'
    OBVIOUS
  <2>1. ProcessReady(q) /\ proc'[q] = proc[q]
    BY <1>1 DEF StoreInv
  <2> QED
    BY <2>1, ReadyStays
<1>4. ASSUME ~ cut' PROVE \A n \in 1..Len(file) : Answered(n) => Answered(n)'
  <2>1. \A q \in Process : Reports(q) /\ ~ Decides(q) =>
          Reports(q)' /\ ~ Decides(q)' /\ proc'[q].mine = proc[q].mine
    BY <1>1, <1>4 DEF Reports, Decides
  <2> QED
    BY <2>1 DEF Answered
<1>5. Storing!Stored' = Storing!Stored
  BY DEF Storing!Stored
<1>6. \A n \in 1..Len(file) : LineOK(file, n) => LineOK(file, n)'
  BY DEF LineOK
<1>7. StoreTypes'
  BY <1>1 DEF StoreInv, StoreTypes
<1> QED
  BY <1>2, <1>3, <1>4, <1>5, <1>6, <1>7 DEF StoreInv

\* What ends a command is alone in it, and reports nothing.
LEMMA LastAlone ==
  ASSUME StoreInv, NEW p \in Process, proc[p].todo # <<>>,
         Head(proc[p].todo).how \in {"gate", "propose", "witness", "import"}
  PROVE  Len(proc[p].todo) = 1 /\ ~ Reports(p) /\ ~ Decides(p)
<1> DEFINE s == proc[p].todo
<1>1. s \in Seq(Tasks) /\ Shaped(s) /\ Len(s) \in Nat /\ 1 \in 1..Len(s) /\ Head(s) = s[1]
  BY Typed DEF ProcessOK, ProcRecord
<1>2. Len(s) = 1 /\ s[1].how # "append"
  BY <1>1 DEF Shaped, ShapedAt
<1>3. s[1].kind \notin {"decision", "minority"}
  BY <1>1, <1>2 DEF Shaped, ShapedAt
<1> QED
  BY <1>2, <1>3 DEF Reports, Decides

LEMMA FinishedOK ==
  ASSUME StoreInv, NEW p \in Process, Storing!Finish(p)
  PROVE  ProcessOK(p)' /\ ProcessReady(p)' /\ ~ Reports(p)'
<1>1. proc'[p] = [todo |-> <<>>, pc |-> "idle", link |-> 0, mine |-> 0]
  BY Typed DEF Storing!Finish, Storing!NoTask
<1>2. <<>> \in Seq(Tasks) /\ Len(<<>>) = 0
  OBVIOUS
<1>3. proc'[p] \in ProcRecord /\ proc'[p].todo = <<>> /\ proc'[p].pc = "idle"
  BY <1>1, <1>2 DEF ProcRecord
<1>4. Shaped(proc'[p].todo) /\ ~ Reports(p)'
  BY <1>2, <1>3 DEF Shaped, Reports
<1>5. ProcessReady(p)'
  BY <1>2, <1>3, <1>4 DEF ProcessReady
<1> QED
  BY <1>3, <1>4, <1>5 DEF ProcessOK

LEMMA FinishKeeps ==
  ASSUME StoreInv, NEW p \in Process, Storing!Finish(p),
         UNCHANGED <<Storing!fileVars>>, cut \/ ~ (Reports(p) /\ ~ Decides(p))
  PROVE  StoreInv'
<1>1. ProcessOK(p)' /\ ProcessReady(p)'
  BY FinishedOK
<1>2. UNCHANGED <<exists, file, made, acked, linked, overtaken, forked, late, cut, thrown>>
  BY DEF Storing!fileVars, Storing!marks
<1> QED
  BY <1>1, <1>2, StoreStep DEF Storing!Finish

\* From one call to the next of the same append.
LEMMA ToKeeps ==
  ASSUME StoreInv, NEW p \in Process, NEW link \in Nat,
         NEW pc \in {"witness", "init", "create", "link", "write", "rewrite"},
         proc[p].todo # <<>>,
         proc' = [proc EXCEPT ![p] = [proc[p] EXCEPT !.pc = pc, !.link = link]],
         UNCHANGED <<file, made, acked, overtaken, forked, late, cut>>,
         exists => exists', thrown => thrown',
         \A q \in Process \ {p} : (q \in linked' <=> q \in linked),
         pc \in {"link", "write"} => Head(proc[p].todo).how # "import",
         pc \in {"link", "write", "rewrite"} => exists',
         pc = "witness" => Head(proc[p].todo).how \in {"gate", "propose"},
         pc = "write" => Storing!Readable(file) /\ link = Storing!Last(file) /\ p \in linked',
         pc = "create" /\ p \notin overtaken => file = <<>>,
         pc \in {"init", "create", "link", "write"} /\ Head(proc[p].todo).how # "import"
           /\ p \notin overtaken => Placed(Head(proc[p].todo))
  PROVE  StoreInv'
<1>1. proc'[p] = [proc[p] EXCEPT !.pc = pc, !.link = link] /\ proc[p] \in ProcRecord
  BY Typed
<1>2. /\ proc'[p].todo = proc[p].todo /\ proc'[p].mine = proc[p].mine
      /\ proc'[p].pc = pc /\ proc'[p].link = link
      /\ proc'[p] \in ProcRecord
  <2>1. PICK old \in ProcRecord : old = proc[p]
    BY <1>1
  <2>2. PICK new : new = [old EXCEPT !.pc = pc, !.link = link]
    OBVIOUS
  <2>3. /\ new \in ProcRecord
        /\ new.todo = old.todo /\ new.mine = old.mine /\ new.pc = pc /\ new.link = link
    BY <2>2 DEF ProcRecord
  <2> QED
    BY <1>1, <2>1, <2>2, <2>3
<1>3. /\ Reports(p)' <=> Reports(p)
      /\ Decides(p)' <=> Decides(p)
  BY <1>2 DEF Reports, Decides
<1>4. /\ Storing!Stored' = Storing!Stored
      /\ \A t : Placed(t)' <=> Placed(t)
      /\ Storing!Last(file)' = Storing!Last(file)
  BY DEF Storing!Stored, Placed, Storing!Last
<1>5. ProcessOK(p)'
  <2>1. pc = "write" => link <= made
    <3>1. pc = "write" => Storing!Last(file) \in 0..made
      BY LastKnown
    <3> QED
      BY <3>1, Typed
  <2>2. ProcessOK(p)
    BY Typed
  <2> QED
    BY <1>2, <1>4, <2>1, <2>2 DEF ProcessOK
<1>6. ASSUME p \notin overtaken PROVE ProcessReady(p)'
  <2>1. ProcessReady(p)
    BY <1>6 DEF StoreInv
  <2>2. Head(proc[p].todo).how = "append" => Placed(Head(proc[p].todo))
    BY <2>1 DEF ProcessReady
  <2>3. pc \in {"init", "create", "link", "write"} /\ Head(proc[p].todo).how # "import" =>
          Placed(Head(proc[p].todo))
    BY <1>6
  <2>4. Placed(Head(proc[p].todo)) => Placed(Head(proc[p].todo))'
    BY <1>2 DEF Placed, Storing!Stored
  <2> QED
    BY <1>2, <1>3, <1>4, <1>6, <2>1, <2>2, <2>3, <2>4 DEF ProcessReady
<1> QED
  BY <1>2, <1>3, <1>5, <1>6, StoreStep

\* A process goes on to the next of its appends.
LEMMA AdvancedShape ==
  ASSUME StoreInv, NEW p \in Process, NEW mine \in Nat, proc[p].todo # <<>>,
         Storing!Advance(p, mine)
  PROVE  LET s == proc[p].todo  r == proc'[p].todo
         IN /\ ProcessOK(p)' /\ proc'[p].pc \in {"idle", "start"}
            /\ s \in Seq(Tasks) /\ 1 \in 1..Len(s) /\ Head(s) = s[1] /\ Shaped(s)
            /\ Len(r) \in Nat /\ Len(r) = Len(s) - 1
            /\ \A n \in 1..Len(r) : r[n] = s[n+1] /\ n + 1 \in 1..Len(s)
            /\ \A n \in 1..Len(s) : n # 1 => n - 1 \in 1..Len(r) /\ r[n-1] = s[n]
            /\ r # <<>> => /\ proc'[p].mine = mine /\ 2 \in 1..Len(s) /\ Head(r) = s[2]
                           /\ 1 \in 1..Len(r)
<1> DEFINE s == proc[p].todo
<1>1. /\ s \in Seq(Tasks) /\ Shaped(s) /\ Len(s) \in Nat /\ 1 \in 1..Len(s) /\ Head(s) = s[1]
      /\ proc[p] \in ProcRecord
  BY Typed DEF ProcessOK, ProcRecord
<1>2. CASE Len(s) = 1
  <2>1. Storing!Finish(p)
    BY <1>2 DEF Storing!Advance, Storing!Finish
  <2>2. proc'[p].todo = <<>> /\ proc'[p].pc = "idle"
    BY <2>1, Typed DEF Storing!Finish, Storing!NoTask
  <2>3. Len(<<>>) = 0
    OBVIOUS
  <2>4. Len(proc'[p].todo) = 0 /\ Len(proc'[p].todo) = Len(s) - 1
    BY <1>2, <2>2, <2>3
  <2>5. 1..Len(proc'[p].todo) = {} /\ 1..Len(s) = {1}
    BY <1>2, <2>4
  <2> QED
    BY <1>1, <2>1, <2>2, <2>4, <2>5, FinishedOK
<1>3. CASE Len(s) # 1
  <2> DEFINE r == proc'[p].todo
  <2>1. proc'[p] = [todo |-> Tail(s), pc |-> "start", link |-> 0, mine |-> mine]
    BY <1>3, Typed DEF Storing!Advance
  <2>2. /\ r = Tail(s) /\ proc'[p].pc = "start" /\ proc'[p].mine = mine
        /\ Tail(s) \in Seq(Tasks) /\ proc'[p] \in ProcRecord
    BY <1>1, <2>1 DEF ProcRecord
  <2>3. /\ Len(r) = Len(s) - 1 /\ Len(r) \in Nat
        /\ \A n \in 1..Len(r) : r[n] = s[n+1] /\ n + 1 \in 1..Len(s)
        /\ \A n \in 1..Len(s) : n # 1 => n - 1 \in 1..Len(r) /\ r[n-1] = s[n]
        /\ r # <<>> /\ Head(r) = s[2] /\ 2 \in 1..Len(s) /\ 1 \in 1..Len(r)
    <3>1. Len(s) > 1
      <4>1. PICK k \in Nat : k = Len(s)
        BY <1>1
      <4>2. k >= 1
        BY <1>1, <4>1
      <4>3. k # 1
        BY <1>3, <4>1
      <4>4. k > 1
        BY <4>2, <4>3
      <4> QED
        BY <4>1, <4>4
    <3> HIDE DEF r, s
    <3>2. /\ Len(r) = Len(s) - 1 /\ Len(r) \in Nat
          /\ \A n \in 1..Len(r) : r[n] = s[n+1]
      BY <1>1, <2>2, <3>1
    <3>3. /\ \A n \in 1..Len(r) : n + 1 \in 1..Len(s)
          /\ \A n \in 1..Len(s) : n # 1 => n - 1 \in 1..Len(r) /\ (n - 1) + 1 = n
          /\ 2 \in 1..Len(s) /\ 1 \in 1..Len(r)
      BY <1>1, <3>1, <3>2
    <3>4. r # <<>> /\ Head(r) = r[1]
      <4>1. Len(<<>>) = 0 /\ 1 \in 1..Len(r) /\ r \in Seq(Tasks)
        BY <2>2, <3>3
      <4> QED
        BY <4>1
    <3>5. r[1] = s[2]
      <4>1. 1 + 1 = 2
        OBVIOUS
      <4> QED
        BY <3>2, <3>3, <4>1
    <3>6. \A n \in 1..Len(s) : n # 1 => n - 1 \in 1..Len(r) /\ r[n-1] = s[n]
      BY <3>2, <3>3
    <3> QED
      BY <3>2, <3>3, <3>4, <3>5, <3>6
  <2> HIDE DEF r
  <2>4. Shaped(r)
    <3> SUFFICES ASSUME NEW n \in 1..Len(r) PROVE ShapedAt(r, n)
      BY DEF Shaped
    <3> DEFINE k == n + 1
    <3>1. k \in 1..Len(s) /\ r[n] = s[k] /\ n \in Nat /\ k = n + 1
      BY <2>3
    <3>2. n > 1 => n - 1 \in 1..Len(r) /\ r[n-1] = s[k-1]
      BY <2>3, <3>1
    <3> HIDE DEF k
    <3>3. ShapedAt(s, k)
      BY <1>1, <3>1 DEF Shaped
    <3>4. ASSUME s[k].kind = "decision"
          PROVE  /\ n + 2 \in 1..Len(r) /\ r[n+2].kind = "minority"
                 /\ \A m \in 1..Len(r) : r[m].kind = "decision" => m = n
      <4>0. /\ k + 2 \in 1..Len(s) /\ s[k+2].kind = "minority"
            /\ \A m \in 1..Len(s) : s[m].kind = "decision" => m = k
        BY <3>3, <3>4 DEF ShapedAt
      <4>1. n + 2 \in 1..Len(r) /\ r[n+2] = s[k+2]
        BY <2>3, <3>1, <4>0
      <4>2. ASSUME NEW m \in 1..Len(r), r[m].kind = "decision" PROVE m = n
        <5>1. m + 1 \in 1..Len(s) /\ s[m+1].kind = "decision"
          BY <2>3, <4>2
        <5> QED
          BY <3>1, <4>0, <5>1
      <4> QED
        BY <4>0, <4>1, <4>2
    <3>5. (k = Len(s) <=> n = Len(r)) /\ k # 1
      BY <2>3, <3>1
    <3>6. /\ s[k].how = "append" => /\ k > 1 => s[k-1].how = "join" /\ s[k-1].by = s[k].by
          /\ n > 1 => k > 1
      BY <3>1, <3>3 DEF ShapedAt
    <3> QED
      BY <3>1, <3>2, <3>3, <3>4, <3>5, <3>6 DEF ShapedAt
  <2>5. Head(r).how # "witness"
    BY <1>1, <2>3 DEF Shaped, ShapedAt
  <2>6. ProcessOK(p)'
    BY <2>2, <2>3, <2>4, <2>5 DEF ProcessOK, r
  <2> QED
    BY <1>1, <2>2, <2>3, <2>6 DEF r
<1> QED
  BY <1>2, <1>3

\* What is left of a command has what it needs: the author of the next append has been
\* introduced, and the report knows its decision.
LEMMA AdvancedOK ==
  ASSUME StoreInv, NEW p \in Process, NEW mine \in Nat, proc[p].todo # <<>>,
         Storing!Advance(p, mine)
  PROVE  /\ ProcessOK(p)'
         /\ Head(proc[p].todo).kind = "decision" =>
              Reports(p)' /\ ~ Decides(p)' /\ proc'[p].mine = mine
         /\ Reports(p) /\ ~ Decides(p) /\ Head(proc[p].todo).kind # "minority" =>
              Reports(p)' /\ ~ Decides(p)' /\ proc'[p].mine = mine
         /\ Reports(p)' => /\ Reports(p) /\ proc'[p].mine = mine
                           /\ Decides(p) /\ ~ Decides(p)' =>
                                Head(proc[p].todo).kind = "decision"
<1> DEFINE s == proc[p].todo  r == proc'[p].todo
<1>1. /\ ProcessOK(p)' /\ proc'[p].pc \in {"idle", "start"}
      /\ s \in Seq(Tasks) /\ 1 \in 1..Len(s) /\ Head(s) = s[1] /\ Shaped(s)
      /\ Len(r) \in Nat /\ Len(r) = Len(s) - 1
      /\ \A n \in 1..Len(r) : r[n] = s[n+1] /\ n + 1 \in 1..Len(s)
      /\ \A n \in 1..Len(s) : n # 1 => n - 1 \in 1..Len(r) /\ r[n-1] = s[n]
      /\ r # <<>> => proc'[p].mine = mine
  BY AdvancedShape
<1>2. /\ Reports(p)' <=> \E n \in 1..Len(r) : r[n].kind = "minority"
      /\ Decides(p)' <=> \E n \in 1..Len(r) : r[n].kind = "decision"
  BY DEF Reports, Decides
<1> HIDE DEF r, s
<1>3. Reports(p) <=> \E n \in 1..Len(s) : s[n].kind = "minority"
  BY DEF Reports, s
<1>4. Decides(p) <=> \E n \in 1..Len(s) : s[n].kind = "decision"
  BY DEF Decides, s
<1>5. Reports(p)' => Reports(p) /\ r # <<>>
  <2>1. ASSUME NEW n \in 1..Len(r), r[n].kind = "minority" PROVE Reports(p) /\ r # <<>>
    <3>1. Len(<<>>) = 0
      OBVIOUS
    <3>2. n + 1 \in 1..Len(s) /\ s[n+1].kind = "minority"
      BY <1>1, <2>1
    <3> QED
      BY <1>3, <2>1, <3>1, <3>2
  <2> QED
    BY <1>2, <2>1
<1>6. ASSUME Reports(p), s[1].kind # "minority" PROVE Reports(p)'
  <2>1. PICK n \in 1..Len(s) : s[n].kind = "minority"
    BY <1>3, <1>6
  <2>2. n # 1
    BY <1>6, <2>1
  <2> QED
    BY <1>1, <1>2, <2>1, <2>2
<1>7. ASSUME Decides(p), s[1].kind # "decision" PROVE Decides(p)'
  <2>1. PICK n \in 1..Len(s) : s[n].kind = "decision"
    BY <1>4, <1>7
  <2>2. n # 1
    BY <1>7, <2>1
  <2> QED
    BY <1>1, <1>2, <2>1, <2>2
<1>8. ASSUME Decides(p)' PROVE Decides(p) /\ s[1].kind # "decision"
  <2>1. PICK n \in 1..Len(r) : r[n].kind = "decision"
    BY <1>2, <1>8
  <2>2. n + 1 \in 1..Len(s) /\ s[n+1].kind = "decision" /\ n + 1 # 1
    BY <1>1, <2>1
  <2>3. s[1].kind = "decision" => n + 1 = 1
    <3>1. s[1].kind = "decision" => \A m \in 1..Len(s) : s[m].kind = "decision" => m = 1
      BY <1>1 DEF Shaped, ShapedAt
    <3> QED
      BY <2>2, <3>1
  <2> QED
    BY <1>4, <2>2, <2>3
<1>9. s[1].kind = "decision" => Reports(p) /\ s[1].kind # "minority"
  <2>1. s[1].kind = "decision" => 1 + 2 \in 1..Len(s) /\ s[1+2].kind = "minority"
    BY <1>1 DEF Shaped, ShapedAt
  <2> QED
    BY <1>3, <2>1
<1>10. Head(proc[p].todo) = s[1]
  BY <1>1 DEF s
<1> QED
  BY <1>1, <1>2, <1>5, <1>6, <1>7, <1>8, <1>9, <1>10

LEMMA AdvancedReady ==
  ASSUME StoreInv, NEW p \in Process, NEW mine \in Nat, proc[p].todo # <<>>,
         Storing!Advance(p, mine), ProcessReady(p),
         Storing!Stored \subseteq Storing!Stored',
         Head(proc[p].todo).how = "join" =>
           Storing!Joined(Storing!Events(file)', Head(proc[p].todo).by),
         Head(proc[p].todo).kind # "decision" =>
           \A r : Storing!Decided(Storing!Events(file)', r) =>
                    Storing!Decided(Storing!Events(file), r),
         IF Head(proc[p].todo).kind = "decision" THEN mine \in Storing!Stored'
         ELSE mine = proc[p].mine
  PROVE  ProcessReady(p)'
<1> DEFINE s == proc[p].todo  r == proc'[p].todo
<1>1. /\ proc'[p].pc \in {"idle", "start"}
      /\ s \in Seq(Tasks) /\ 1 \in 1..Len(s) /\ Head(s) = s[1] /\ Shaped(s)
      /\ Len(r) \in Nat /\ Len(r) = Len(s) - 1
      /\ \A n \in 1..Len(r) : r[n] = s[n+1] /\ n + 1 \in 1..Len(s)
      /\ r # <<>> => 2 \in 1..Len(s) /\ Head(r) = s[2] /\ 1 \in 1..Len(r)
  BY AdvancedShape
<1> HIDE DEF r, s
<1>2. ASSUME NEW n \in 1..Len(r), r[n].kind = "decision"
      PROVE  /\ r[n].of \subseteq Storing!Stored'
             /\ \A x \in r[n].of : ~ Storing!Decided(Storing!Events(file)', x)
  <2>1. n + 1 \in 1..Len(s) /\ r[n] = s[n+1] /\ n + 1 # 1
    BY <1>1
  <2>2. s[1].kind # "decision"
    <3>1. \A m \in 1..Len(s) : s[m].kind = "decision" => m = n + 1
      BY <1>1, <1>2, <2>1 DEF Shaped, ShapedAt
    <3> QED
      BY <1>1, <2>1, <3>1
  <2>3. /\ s[n+1].of \subseteq Storing!Stored
        /\ \A x \in s[n+1].of : ~ Storing!Decided(Storing!Events(file), x)
    BY <1>2, <2>1 DEF ProcessReady, s
  <2>4. Head(proc[p].todo).kind # "decision"
    BY <1>1, <2>2 DEF s
  <2> QED
    BY <2>1, <2>3, <2>4
<1>3. ASSUME r # <<>>, Head(r).how = "append" PROVE Placed(Head(proc[p].todo))'
  <2>1. /\ s[2] = Head(r) /\ 2 \in 1..Len(s) /\ r[1] = s[2] /\ 1 \in 1..Len(r)
    <3>1. 1 + 1 = 2
      OBVIOUS
    <3> QED
      BY <1>1, <1>3, <3>1
  <2>2. ShapedAt(s, 2)
    BY <1>1, <2>1 DEF Shaped
  <2>3. /\ s[2].kind # "joined" /\ (s[2].kind # "decision" => s[2].of = {})
        /\ s[1].how = "join" /\ s[1].by = s[2].by
    <3>1. 2 > 1 /\ 2 - 1 = 1
      OBVIOUS
    <3> QED
      BY <1>3, <2>1, <2>2, <3>1 DEF ShapedAt
  <2>4. Storing!Joined(Storing!Events(file)', s[2].by)
    BY <1>1, <2>3 DEF s
  <2>5. /\ s[2].of \subseteq Storing!Stored'
        /\ s[2].kind = "decision" =>
             \A x \in s[2].of : ~ Storing!Decided(Storing!Events(file)', x)
    BY <1>2, <2>1, <2>3
  <2>6. PICK t : t = s[2]
    OBVIOUS
  <2>7. Placed(t)'
    BY <2>3, <2>4, <2>5, <2>6 DEF Placed
  <2>8. Head(proc'[p].todo) = t
    BY <2>1, <2>6 DEF r
  <2> QED
    BY <2>7, <2>8 DEF Placed
<1>4. Reports(p)' => Decides(p)' \/ proc'[p].mine \in Storing!Stored'
  <2>1. ASSUME Reports(p)', ~ Decides(p)' PROVE proc'[p].mine \in Storing!Stored'
    <3>1. /\ Reports(p) /\ proc'[p].mine = mine
          /\ Decides(p) => Head(proc[p].todo).kind = "decision"
      BY <2>1, AdvancedOK
    <3>2. Decides(p) \/ proc[p].mine \in Storing!Stored
      BY <3>1 DEF ProcessReady
    <3> QED
      BY <3>1, <3>2
  <2> QED
    BY <2>1
<1> QED
  BY <1>1, <1>2, <1>3, <1>4 DEF ProcessReady, r

LEMMA ToIs ==
  ASSUME StoreInv, NEW p \in Process, NEW pc, Storing!To(p, pc)
  PROVE  /\ proc[p].link \in Nat
         /\ proc' = [proc EXCEPT ![p] = [proc[p] EXCEPT !.pc = pc, !.link = proc[p].link]]
<1>1. proc[p] \in ProcRecord
  BY Typed
<1>2. [proc[p] EXCEPT !.pc = pc, !.link = proc[p].link] = [proc[p] EXCEPT !.pc = pc]
  BY <1>1 DEF ProcRecord
<1> QED
  BY <1>1, <1>2 DEF Storing!To, ProcRecord

\* The task a process is at.
LEMMA Current ==
  ASSUME StoreInv, NEW p \in Process, proc[p].pc # "idle"
  PROVE  /\ proc[p].todo # <<>> /\ Head(proc[p].todo) \in Tasks
         /\ Head(proc[p].todo).how # "import" => Head(proc[p].todo).kind \in EventKinds
         /\ Head(proc[p].todo).how = "join" =>
              Head(proc[p].todo).kind = "joined" /\ Head(proc[p].todo).of = {}
         /\ Head(proc[p].todo).kind \in {"decision", "minority"} =>
              Head(proc[p].todo).how = "append"
         /\ Head(proc[p].todo).kind = "minority" =>
              ~ Decides(p) /\ Reports(p) /\ Head(proc[p].todo).of = {}
         /\ Head(proc[p].todo).kind = "decision" => Decides(p)
<1> DEFINE s == proc[p].todo
<1>1. /\ s # <<>> /\ s \in Seq(Tasks) /\ Shaped(s) /\ Len(s) \in Nat
      /\ 1 \in 1..Len(s) /\ Head(s) = s[1]
  BY Typed DEF ProcessOK, ProcRecord
<1>2. s[1] \in Tasks /\ ShapedAt(s, 1)
  BY <1>1 DEF Shaped
<1>3. ASSUME s[1].kind = "minority" PROVE ~ Decides(p) /\ Reports(p) /\ s[1].of = {}
  <2>1. Len(s) = 1 /\ s[1].how = "append" /\ s[1].of = {}
    BY <1>1, <1>2, <1>3 DEF ShapedAt
  <2> QED
    BY <1>1, <1>3, <2>1 DEF Decides, Reports
<1>4. s[1].kind = "decision" => Decides(p)
  BY <1>1 DEF Decides
<1> QED
  BY <1>1, <1>2, <1>3, <1>4 DEF ShapedAt

\* What is admitted may be appended.
LEMMA AdmittedPlaced ==
  ASSUME StoreInv, NEW p \in Process, NEW t \in Tasks, t.kind \in EventKinds \ {"minority"},
         Storing!Admits(p, t)
  PROVE  Placed(t)
<1>0. Storing!Readable(file) /\ StoreTypes /\ file \in Seq(Lines)
  BY DEF Storing!Admits, StoreInv, StoreTypes
<1>1. PICK e : e = Storing!Event(t, Storing!Last(file), p)
  OBVIOUS
<1>2. e \in EventRecord /\ e.kind = t.kind /\ e.by = t.by /\ e.of = t.of
  <2>1. Storing!Last(file) \in Nat /\ made + 1 \in Nat
    BY <1>0, LastKnown, Typed
  <2> QED
    BY <1>1, <2>1 DEF Storing!Event, EventRecord, Tasks
<1>3. PICK f : f = Append(file, e)
  OBVIOUS
<1>4. Len(file) + 1 \in DOMAIN f
  BY <1>0, <1>2, <1>3 DEF Lines
<1>5. Storing!InOrder(f, Len(file) + 1)
  BY <1>1, <1>3, <1>4 DEF Storing!Admits, Storing!Valid
<1>6. Placed(e)
  BY <1>0, <1>2, <1>3, <1>5, AppendedInOrder DEF Lines
<1> QED
  BY <1>2, <1>6 DEF Placed

-----------------------------------------------------------------------------

\* A command as it is begun, by its first task, the requests it decides, and that it
\* reports what it decides alone.
Command(job, first, decided) ==
  /\ job # <<>> /\ job \in Seq(Tasks) /\ Shaped(job) /\ Head(job).how = first
  /\ \A n \in 1..Len(job) : job[n].kind = "decision" => job[n].of \subseteq decided
  /\ (\E n \in 1..Len(job) : job[n].kind = "minority") =>
       \E n \in 1..Len(job) : job[n].kind = "decision"

LEMMA NoteCommand ==
  ASSUME NEW a \in Actor, NEW kind \in {"object", "request"}
  PROVE  Command(Storing!Note(a, kind), "join", {})
  BY DEF Command, Storing!Note, Storing!Join, Storing!Task, Tasks, Shaped, ShapedAt, EventKinds

LEMMA ProposeCommand ==
  ASSUME NEW a \in Actor, NEW of \in SUBSET Nat
  PROVE  Command(Storing!Propose(a, of), "join", {})
  BY DEF Command, Storing!Propose, Storing!Join, Storing!Task, Tasks, Shaped, ShapedAt, EventKinds

LEMMA GatedCommand ==
  ASSUME NEW a \in Actor, NEW kind \in {"joined", "object"}
  PROVE  Command(Storing!Gated(a, kind), "gate", {})
  BY DEF Command, Storing!Gated, Storing!Task, Tasks, Shaped, ShapedAt, EventKinds

LEMMA MergeCommand ==
  ASSUME NEW a \in Actor, NEW b \in Actor, NEW r \in Nat
  PROVE  Command(Storing!Merge(a, b, r), "join", {r})
  BY DEF Command, Storing!Merge, Storing!Join, Storing!Task, Tasks, Shaped, ShapedAt, EventKinds

LEMMA ImportCommand ==
  ASSUME NEW a \in Actor, NEW over \in {"empty", "any"}
  PROVE  Command(Storing!Import(a, over), "import", {})
  BY DEF Command, Storing!Import, Storing!Task, Tasks, Shaped, ShapedAt, EventKinds

LEMMA StoredIds ==
  ASSUME StoreInv
  PROVE  \A e \in Storing!Events(file) : e \in EventRecord /\ e.id \in Nat
<1>1. file \in Seq(Lines)
  BY DEF StoreInv, StoreTypes
<1> QED
  BY <1>1, Reading DEF Lines, EventRecord

LEMMA JobsAre ==
  ASSUME StoreInv, NEW a \in Actor, NEW job \in Storing!Jobs(a)
  PROVE  \E first \in {"join", "gate", "import"} : Command(job, first, Storing!Mergeable)
<1>1. /\ \A id \in {0} \cup Storing!Objects : {id} \in SUBSET Nat
      /\ Storing!Mergeable \subseteq Nat /\ {} \in SUBSET Nat
  BY StoredIds DEF Storing!Objects, Storing!Mergeable
<1>2. \A first, decided : Command(job, first, decided) /\ decided \subseteq Storing!Mergeable
        => Command(job, first, Storing!Mergeable)
  BY DEF Command
<1>3. CASE \E kind \in {"object", "request"} : job = Storing!Note(a, kind)
  BY <1>2, <1>3, NoteCommand
<1>4. CASE \E id \in {0} \cup Storing!Objects : job = Storing!Propose(a, {id})
  BY <1>1, <1>2, <1>4, ProposeCommand
<1>5. CASE job = Storing!Propose(a, {})
  BY <1>1, <1>2, <1>5, ProposeCommand
<1>6. CASE \E kind \in {"joined", "object"} : job = Storing!Gated(a, kind)
  BY <1>2, <1>6, GatedCommand
<1>7. CASE \E b \in Actor, r \in Storing!Mergeable : job = Storing!Merge(a, b, r)
  <2>1. PICK b \in Actor, r \in Storing!Mergeable : job = Storing!Merge(a, b, r)
    BY <1>7
  <2>2. Command(job, "join", {r}) /\ {r} \subseteq Storing!Mergeable
    BY <1>1, <2>1, MergeCommand
  <2> QED
    BY <1>2, <2>2
<1>8. CASE \E over \in {"empty", "any"} : job = Storing!Import(a, over)
  BY <1>2, <1>8, ImportCommand
<1> QED
  BY <1>3, <1>4, <1>5, <1>6, <1>7, <1>8 DEF Storing!Jobs

-----------------------------------------------------------------------------
(* Each step keeps the store accounted for *)

LEMMA BeginKeeps ==
  ASSUME StoreInv, NEW p \in Process, Storing!Begin(p)
  PROVE  StoreInv'
<1>0. PICK a \in Actor : \E job \in Storing!Jobs(a) :
        proc' = [proc EXCEPT ![p] = [todo |-> job, pc |-> "start", link |-> 0, mine |-> 0]]
  BY DEF Storing!Begin
<1>1. PICK job \in Storing!Jobs(a) :
        proc' = [proc EXCEPT ![p] = [todo |-> job, pc |-> "start", link |-> 0, mine |-> 0]]
  BY <1>0
<1>2. PICK r : r = [todo |-> job, pc |-> "start", link |-> 0, mine |-> 0]
  OBVIOUS
<1>3. PICK first \in {"join", "gate", "import"} : Command(job, first, Storing!Mergeable)
  BY JobsAre
<1>4. proc'[p] = r /\ proc' = [proc EXCEPT ![p] = r]
  BY <1>1, <1>2, Typed
<1>5. r \in ProcRecord /\ r.todo = job /\ r.pc = "start" /\ r.mine = 0 /\ r.link = 0
  BY <1>2, <1>3 DEF ProcRecord, Command
<1>6. Reports(p)' => Decides(p)'
  BY <1>3, <1>4, <1>5 DEF Reports, Decides, Command
<1>7. ProcessOK(p)'
  BY <1>3, <1>4, <1>5 DEF ProcessOK, Command
<1>8. /\ proc[p].pc = "idle"
      /\ UNCHANGED <<exists, file, made, acked, linked, forked, late, cut, thrown>>
      /\ overtaken' = overtaken \ {p}
  BY DEF Storing!Begin, Storing!marks, Storing!At
<1>9. \A x \in Storing!Mergeable :
        x \in Storing!Stored /\ ~ Storing!Decided(Storing!Events(file), x)
  BY DEF Storing!Mergeable, Storing!Stored
<1>10. ProcessReady(p)'
  <2>1. Storing!Stored' = Storing!Stored /\ Storing!Events(file)' = Storing!Events(file)
    BY <1>8 DEF Storing!Stored
  <2>2. \A n \in 1..Len(job) : job[n].kind = "decision" =>
          /\ job[n].of \subseteq Storing!Stored'
          /\ \A x \in job[n].of : ~ Storing!Decided(Storing!Events(file)', x)
    BY <1>3, <1>9, <2>1 DEF Command
  <2>3. Head(job).how # "append"
    BY <1>3 DEF Command
  <2> QED
    BY <1>4, <1>5, <1>6, <2>2, <2>3 DEF ProcessReady
<1>11. ~ Reports(p)
  <2>1. proc[p].todo = <<>> /\ Len(<<>>) = 0
    BY <1>8, Typed DEF ProcessOK
  <2> QED
    BY <2>1 DEF Reports
<1> QED
  BY <1>4, <1>7, <1>8, <1>10, <1>11, StoreStep

LEMMA StartKeeps ==
  ASSUME StoreInv, NEW p \in Process, Storing!Start(p)
  PROVE  StoreInv'
<1>1. PICK t : t = Head(proc[p].todo)
  OBVIOUS
<1>2. /\ proc[p].pc = "start" /\ proc[p].todo # <<>> /\ t \in Tasks
      /\ t.how # "import" => t.kind \in EventKinds
      /\ t.how = "join" => t.kind = "joined" /\ t.of = {}
      /\ t.kind \in {"decision", "minority"} => t.how = "append"
  BY <1>1, Current DEF Storing!Start, Storing!At
<1>3. cut \/ Storing!Readable(file)
  <2>1. file \in Seq(Lines) /\ \A n \in 1..Len(file) : file[n] = Storing!Torn => cut
    BY DEF StoreInv, StoreTypes, LineOK
  <2> QED
    BY <2>1, Reading
<1>4. ASSUME UNCHANGED Storing!fileVars
      PROVE  UNCHANGED <<exists, file, made, acked, linked, overtaken, forked, late, cut, thrown>>
  BY <1>4 DEF Storing!fileVars, Storing!marks
<1>5. ASSUME NEW pc \in {"init", "witness"}, Storing!To(p, pc), UNCHANGED Storing!fileVars,
             pc = "witness" => t.how \in {"gate", "propose"},
             pc = "init" /\ t.how # "import" /\ p \notin overtaken => Placed(t)
      PROVE  StoreInv'
  <2>1. /\ proc[p].link \in Nat
        /\ proc' = [proc EXCEPT ![p] = [proc[p] EXCEPT !.pc = pc, !.link = proc[p].link]]
    BY <1>5, ToIs
  <2>2. UNCHANGED <<exists, file, made, acked, linked, overtaken, forked, late, cut, thrown>>
    BY <1>4, <1>5
  <2>3. /\ proc[p].todo # <<>>
        /\ pc = "witness" => Head(proc[p].todo).how \in {"gate", "propose"}
        /\ pc = "init" /\ Head(proc[p].todo).how # "import" /\ p \notin overtaken =>
             Placed(Head(proc[p].todo))
    BY <1>1, <1>2, <1>5
  <2>4. pc \notin {"create", "link", "write", "rewrite"}
    OBVIOUS
  <2> QED
    BY <2>1, <2>2, <2>3, <2>4, ToKeeps
<1>6. ASSUME t.how = "join", Storing!JoinTask(p, t) PROVE StoreInv'
  <2>1. UNCHANGED Storing!fileVars
    BY <1>6 DEF Storing!JoinTask
  <2>2. CASE ~ Storing!Readable(file)
    BY <1>3, <1>6, <2>1, <2>2, FinishKeeps DEF Storing!JoinTask
  <2>3. CASE Storing!Readable(file) /\ Storing!Introduced(t.by)
    <3>1. Storing!Advance(p, proc[p].mine)
      BY <1>6, <2>3 DEF Storing!JoinTask
    <3>2. Storing!Joined(Storing!Events(file), t.by)
      BY <2>3 DEF Storing!Introduced
    <3>3. /\ file' = file /\ Storing!Stored' = Storing!Stored
          /\ Storing!Events(file)' = Storing!Events(file)
      BY <1>4, <2>1 DEF Storing!Stored
    <3>4. proc[p].mine \in Nat
      BY Typed DEF ProcRecord
    <3>5. PICK mine \in Nat : mine = proc[p].mine
      BY <3>4
    <3>6. /\ ProcessOK(p)'
          /\ Reports(p) /\ ~ Decides(p) =>
               Reports(p)' /\ ~ Decides(p)' /\ proc'[p].mine = mine
      BY <1>1, <1>2, <1>6, <3>1, <3>5, AdvancedOK
    <3>7. ASSUME p \notin overtaken PROVE ProcessReady(p)'
      <4>1. ProcessReady(p)
        BY <3>7 DEF StoreInv
      <4> QED
        BY <1>1, <1>2, <1>6, <3>1, <3>2, <3>3, <3>5, <4>1, AdvancedReady
    <3>8. UNCHANGED <<exists, file, made, acked, linked, overtaken, forked, late, cut, thrown>>
      BY <1>4, <2>1
    <3>9. PICK r : proc' = [proc EXCEPT ![p] = r]
      BY <3>1 DEF Storing!Advance
    <3> QED
      BY <3>5, <3>6, <3>7, <3>8, <3>9, StoreStep
  <2>4. CASE Storing!Readable(file) /\ ~ Storing!Introduced(t.by)
    <3>1. Placed(t)
      BY <1>2, <1>6, <2>4 DEF Placed, Storing!Introduced
    <3> QED
      BY <1>5, <1>6, <2>1, <2>4, <3>1 DEF Storing!JoinTask
  <2> QED
    BY <2>2, <2>3, <2>4
<1>7. ASSUME t.how = "append", Storing!To(p, "init"), UNCHANGED <<Storing!fileVars, jobs>>
      PROVE  StoreInv'
  <2>1. p \notin overtaken => Placed(t)
    BY <1>1, <1>2, <1>7 DEF StoreInv, ProcessReady
  <2> QED
    BY <1>5, <1>7, <2>1
<1>8. ASSUME t.how \in {"gate", "propose"}, Storing!GateTask(p, t) PROVE StoreInv'
  <2>1. UNCHANGED Storing!fileVars
    BY <1>8 DEF Storing!GateTask
  <2>2. CASE Storing!Finish(p)
    <3>1. ~ Reports(p)
      BY <1>1, <1>2, <1>8, LastAlone
    <3> QED
      BY <2>1, <2>2, <3>1, FinishKeeps
  <2>3. CASE Storing!To(p, "witness")
    BY <1>5, <1>8, <2>1, <2>3
  <2>4. CASE Storing!To(p, "init") /\ Storing!Admits(p, t)
    <3>1. Placed(t)
      BY <1>2, <1>8, <2>4, AdmittedPlaced
    <3> QED
      BY <1>5, <2>1, <2>4, <3>1
  <2> QED
    BY <1>8, <2>2, <2>3, <2>4 DEF Storing!GateTask
<1>9. ASSUME t.how = "import", Storing!ImportTask(p, t) PROVE StoreInv'
  <2>1. UNCHANGED Storing!fileVars
    BY <1>9 DEF Storing!ImportTask
  <2>2. CASE Storing!Finish(p)
    <3>1. ~ Reports(p)
      BY <1>1, <1>2, <1>9, LastAlone
    <3> QED
      BY <2>1, <2>2, <3>1, FinishKeeps
  <2>3. CASE Storing!To(p, "init")
    BY <1>5, <1>9, <2>1, <2>3
  <2> QED
    BY <1>9, <2>2, <2>3 DEF Storing!ImportTask
<1> QED
  BY <1>1, <1>6, <1>7, <1>8, <1>9 DEF Storing!Start

LEMMA WitnessKeeps ==
  ASSUME StoreInv, NEW p \in Process, Storing!Witness(p)
  PROVE  StoreInv'
<1>1. PICK t : t = Storing!Witnessed(Head(proc[p].todo))
  OBVIOUS
<1>2. /\ proc[p].pc = "witness" /\ proc[p].todo # <<>> /\ Head(proc[p].todo) \in Tasks
      /\ Head(proc[p].todo).how \in {"gate", "propose"}
  BY Current, Typed DEF Storing!Witness, Storing!At, ProcessOK
<1>3. /\ t \in Tasks /\ t.how = "witness" /\ t.kind = "rejection"
  BY <1>1, <1>2 DEF Storing!Witnessed, Storing!Task, Tasks, EventKinds
<1>4. /\ UNCHANGED Storing!fileVars
      /\ UNCHANGED <<exists, file, made, acked, linked, overtaken, forked, late, cut, thrown>>
  BY DEF Storing!Witness, Storing!fileVars, Storing!marks
<1>5. ~ Reports(p)
  BY <1>2, LastAlone
<1>6. CASE Storing!Finish(p)
  BY <1>4, <1>5, <1>6, FinishKeeps
<1>7. CASE Storing!Admits(p, t) /\ proc' = [proc EXCEPT ![p].todo = <<t>>, ![p].pc = "init"]
  <2>1. PICK old \in ProcRecord : old = proc[p]
    BY Typed
  <2>2. PICK new : new = [old EXCEPT !.todo = <<t>>, !.pc = "init"]
    OBVIOUS
  <2>3. /\ new \in ProcRecord /\ new.todo = <<t>> /\ new.pc = "init"
    <3>1. <<t>> \in Seq(Tasks)
      BY <1>3
    <3>2. PICK s \in Seq(Tasks) : s = <<t>>
      BY <3>1
    <3>3. new = [old EXCEPT !.todo = s, !.pc = "init"]
      BY <2>2, <3>2
    <3>4. new \in ProcRecord /\ new.todo = s /\ new.pc = "init"
      BY <3>3 DEF ProcRecord
    <3> QED
      BY <3>2, <3>4
  <2>4. proc' = [proc EXCEPT ![p] = new] /\ proc'[p] = new
    BY <1>7, <2>1, <2>2, Typed
  <2>5. Placed(t)
    BY <1>3, <1>7, AdmittedPlaced DEF EventKinds
  <2>6. Placed(Head(proc[p].todo))'
    <3>1. Placed(t)'
      BY <1>4, <2>5 DEF Placed, Storing!Stored
    <3>2. Head(proc'[p].todo) = t
      BY <2>3, <2>4
    <3> QED
      BY <3>1, <3>2 DEF Placed
  <2>7. /\ Len(<<t>>) = 1 /\ <<t>>[1] = t /\ <<t>> # <<>> /\ Head(<<t>>) = t
        /\ \A n \in 1..Len(<<t>>) : n = 1
    OBVIOUS
  <2>8. Shaped(<<t>>)
    BY <1>3, <2>7 DEF Shaped, ShapedAt, EventKinds
  <2>9. ~ Reports(p)' /\ ~ Decides(p)'
    BY <1>3, <2>3, <2>4, <2>7 DEF Reports, Decides
  <2>10. ProcessOK(p)'
    BY <1>3, <2>3, <2>4, <2>7, <2>8 DEF ProcessOK
  <2>11. ProcessReady(p)'
    BY <1>3, <2>3, <2>4, <2>6, <2>7, <2>9 DEF ProcessReady
  <2> QED
    BY <1>4, <1>5, <2>4, <2>10, <2>11, StoreStep
<1> QED
  BY <1>1, <1>6, <1>7 DEF Storing!Witness

LEMMA InitStoreKeeps ==
  ASSUME StoreInv, NEW p \in Process, Storing!InitStore(p)
  PROVE  StoreInv'
<1>1. PICK pc : pc = IF exists THEN Storing!Ready(p) ELSE "create"
  OBVIOUS
<1>2. /\ proc[p].pc = "init" /\ Storing!To(p, pc)
      /\ UNCHANGED <<exists, file, made, acked, linked, overtaken, forked, late, cut, thrown>>
  BY <1>1 DEF Storing!InitStore, Storing!At, Storing!fileVars, Storing!marks
<1>3. /\ pc \in {"create", "link", "rewrite"}
      /\ pc = "link" => Head(proc[p].todo).how # "import"
      /\ pc # "create" => exists
      /\ pc = "create" => file = <<>>
  <2>1. ~ exists => file = <<>>
    BY DEF StoreInv, StoreTypes
  <2> QED
    BY <1>1, <2>1 DEF Storing!Ready
<1>4. /\ proc[p].todo # <<>>
      /\ Head(proc[p].todo).how # "import" /\ p \notin overtaken => Placed(Head(proc[p].todo))
  BY <1>2 DEF StoreInv, ProcessOK, ProcessReady
<1>5. /\ proc[p].link \in Nat
      /\ proc' = [proc EXCEPT ![p] = [proc[p] EXCEPT !.pc = pc, !.link = proc[p].link]]
  BY <1>2, ToIs
<1> QED
  BY <1>2, <1>3, <1>4, <1>5, ToKeeps

LEMMA LinkKeeps ==
  ASSUME StoreInv, NEW p \in Process, Storing!Link(p)
  PROVE  StoreInv'
<1>1. /\ proc[p].pc = "link" /\ exists
      /\ UNCHANGED <<exists, file, made, acked, overtaken, forked, late, cut, thrown>>
  BY Typed DEF Storing!Link, Storing!At, Storing!marks, ProcessOK
<1>2. CASE ~ Storing!Readable(file)
  <2>1. Storing!Finish(p) /\ UNCHANGED Storing!fileVars
    BY <1>1, <1>2 DEF Storing!Link, Storing!fileVars, Storing!marks
  <2>2. cut
    <3>1. file \in Seq(Lines) /\ \A n \in 1..Len(file) : file[n] = Storing!Torn => cut
      BY DEF StoreInv, StoreTypes, LineOK
    <3> QED
      BY <1>2, <3>1, Reading
  <2> QED
    BY <2>1, <2>2, FinishKeeps
<1>3. CASE Storing!Readable(file)
  <2>1. Storing!Last(file) \in Nat
    BY <1>3, LastKnown, Typed
  <2>2. PICK link \in Nat : link = Storing!Last(file)
    BY <2>1
  <2>3. /\ proc' = [proc EXCEPT ![p] = [proc[p] EXCEPT !.pc = "write", !.link = link]]
        /\ linked' = linked \cup {p}
    BY <1>3, <2>2, Typed DEF Storing!Link
  <2>4. /\ proc[p].todo # <<>> /\ Head(proc[p].todo).how # "import"
        /\ p \notin overtaken => Placed(Head(proc[p].todo))
    BY <1>1 DEF StoreInv, ProcessOK, ProcessReady
  <2> QED
    BY <1>1, <1>3, <2>2, <2>3, <2>4, ToKeeps
<1> QED
  BY <1>2, <1>3

\* Only the file that is there before a process has read any of it is thrown away so.
LEMMA CreateKeeps ==
  ASSUME StoreInv, NEW p \in Process, Storing!Create(p)
  PROVE  StoreInv'
<1>1. /\ proc[p].pc = "create" /\ Storing!To(p, Storing!Ready(p)) /\ exists' = TRUE
      /\ file' = <<>> /\ linked' = (IF file = <<>> THEN linked ELSE {}) /\ Storing!Overtakes(p)
      /\ thrown' = (thrown \/ file # <<>>) /\ UNCHANGED <<made, acked, forked, late, cut>>
  BY DEF Storing!Create, Storing!At
<1>2. PICK pc : pc = Storing!Ready(p)
  OBVIOUS
<1>3. /\ pc \in {"link", "rewrite"}
      /\ pc = "link" => Head(proc[p].todo).how # "import"
  BY <1>2 DEF Storing!Ready
<1>4. /\ proc[p].todo # <<>> /\ Shaped(proc[p].todo) /\ proc[p] \in ProcRecord
      /\ Head(proc[p].todo).how # "import" /\ p \notin overtaken => Placed(Head(proc[p].todo))
      /\ p \notin overtaken => file = <<>>
  BY <1>1 DEF StoreInv, ProcessOK, ProcessReady
<1>5. /\ proc[p].link \in Nat
      /\ proc' = [proc EXCEPT ![p] = [proc[p] EXCEPT !.pc = pc, !.link = proc[p].link]]
  BY <1>1, <1>2, ToIs
<1>6. CASE file = <<>>
  <2>1. /\ UNCHANGED <<file, made, acked, overtaken, forked, late, cut>> /\ linked' = linked
        /\ thrown => thrown'
    BY <1>1, <1>6, Typed DEF Storing!Overtakes
  <2> QED
    BY <1>1, <1>3, <1>4, <1>5, <2>1, ToKeeps
<1>7. CASE file # <<>>
  <2>1. p \in overtaken' /\ file' # file /\ linked' = {} /\ thrown'
    BY <1>1, <1>4, <1>7 DEF Storing!Overtakes
  <2>2. \A q \in Process \ {p} : proc'[q] = proc[q]
    BY <1>5, Typed
  <2>3. /\ <<>> \in Seq(Lines) /\ Len(<<>>) = 0 /\ 1..Len(file') = {}
        /\ Storing!Last(file') = 0
    BY <1>1 DEF Storing!Last
  <2>4. \A q \in Process \ {p} : ProcessOK(q)' /\ (q \notin overtaken' => ProcessReady(q)')
    <3>1. made' \in Nat /\ made <= made' /\ \A l \in 1..made : Storing!Last(file') # l
      BY <1>1, <2>3, Typed
    <3> QED
      BY <1>1, <2>1, <2>2, <3>1, OthersOK
  <2>5. ProcessOK(p)'
    <3>1. PICK old \in ProcRecord : old = proc[p]
      BY <1>4
    <3>2. PICK new : new = [old EXCEPT !.pc = pc, !.link = old.link]
      OBVIOUS
    <3>3. new \in ProcRecord /\ new.todo = old.todo /\ new.pc = pc
      BY <1>3, <3>2 DEF ProcRecord
    <3>4. proc'[p] = new
      BY <1>5, <3>1, <3>2, Typed
    <3> QED
      BY <1>1, <1>3, <1>4, <3>1, <3>3, <3>4 DEF ProcessOK
  <2>6. StoreTypes'
    BY <1>1, <1>5, <2>3 DEF StoreInv, StoreTypes
  <2> QED
    BY <2>1, <2>3, <2>4, <2>5, <2>6 DEF StoreInv
<1> QED
  BY <1>6, <1>7

\* What is written: the next event, as it was linked.
LEMMA WrittenIs ==
  ASSUME StoreInv, NEW p \in Process, proc[p].pc = "write"
  PROVE  LET t == Head(proc[p].todo)  e == Storing!Written(p)
         IN /\ e \in EventRecord /\ e.id = made + 1 /\ made + 1 \in Nat
            /\ e.kind = t.kind /\ e.by = t.by /\ e.link = proc[p].link /\ e.link <= made
            /\ e.of = (IF t.kind = "minority" THEN {proc[p].mine} ELSE t.of)
            /\ p \notin overtaken => Placed(e)
<1> DEFINE t == Head(proc[p].todo)  e == Storing!Written(p)
<1>1. /\ t \in Tasks /\ t.how # "import" /\ t.kind \in EventKinds
      /\ t.kind = "minority" => ~ Decides(p) /\ Reports(p)
      /\ proc[p] \in ProcRecord /\ proc[p].link <= made /\ made \in Nat
  BY Current, Typed DEF ProcessOK
<1>2. e = [kind |-> t.kind, by |-> t.by, id |-> made + 1, link |-> proc[p].link,
           of |-> IF t.kind = "minority" THEN {proc[p].mine} ELSE t.of]
  BY DEF Storing!Written, Storing!Event
<1>3. e \in EventRecord /\ made + 1 \in Nat
  <2>1. proc[p].mine \in Nat /\ t.of \in SUBSET Nat /\ t.by \in Actor /\ proc[p].link \in Nat
    BY <1>1 DEF ProcRecord, Tasks
  <2>2. (IF t.kind = "minority" THEN {proc[p].mine} ELSE t.of) \in SUBSET Nat
    BY <2>1
  <2> QED
    BY <1>1, <1>2, <2>1, <2>2 DEF EventRecord
<1>4. /\ e.id = made + 1 /\ e.kind = t.kind /\ e.by = t.by /\ e.link = proc[p].link
      /\ e.of = (IF t.kind = "minority" THEN {proc[p].mine} ELSE t.of)
  BY <1>2
<1>5. ASSUME p \notin overtaken PROVE Placed(e)
  <2>1. Placed(t) /\ (Reports(p) => Decides(p) \/ proc[p].mine \in Storing!Stored)
    BY <1>1, <1>5 DEF StoreInv, ProcessReady
  <2>2. t.kind = "minority" => proc[p].mine \in Storing!Stored
    BY <1>1, <2>1
  <2> HIDE DEF e, t
  <2> QED
    BY <1>4, <2>1, <2>2 DEF Placed
<1> QED
  BY <1>1, <1>3, <1>4, <1>5

\* An event that is written over another's leaves its mark, and every other is in place.
LEMMA WriteKeeps ==
  ASSUME StoreInv, NEW p \in Process, Storing!Write(p)
  PROVE  StoreInv'
<1>1. PICK t : t = Head(proc[p].todo)
  OBVIOUS
<1>2. PICK e : e = Storing!Written(p)
  OBVIOUS
<1>3. PICK k \in Nat : k = Len(file)
  BY Typed
<1>4. /\ proc[p].pc = "write" /\ linked' = {} /\ Storing!Overtakes(p)
      /\ file' = Storing!Line(file, e)
      /\ Storing!Advance(p, IF t.kind = "decision" THEN e.id ELSE proc[p].mine)
      /\ acked' = acked \cup {e.id} /\ made' = made + 1
      /\ forked' = (IF p \in linked THEN forked ELSE forked \cup {e.id})
      /\ late' = (IF p \in overtaken THEN late \cup {e.id} ELSE late)
      /\ UNCHANGED <<exists, cut, thrown>>
  BY <1>1, <1>2 DEF Storing!Write, Storing!At
<1>5. /\ e \in EventRecord /\ e.id = made + 1 /\ made + 1 \in Nat
      /\ e.kind = t.kind /\ e.by = t.by /\ e.link = proc[p].link
      /\ e.of = (IF t.kind = "minority" THEN {proc[p].mine} ELSE t.of)
      /\ p \notin overtaken => Placed(e)
  BY <1>1, <1>2, <1>4, WrittenIs
<1>6. /\ made \in Nat /\ file \in Seq(Lines) /\ forked \subseteq 1..made /\ exists
      /\ proc[p].todo # <<>> /\ proc[p] \in ProcRecord
      /\ t.how = "join" => t.kind = "joined"
      /\ t.kind = "minority" => ~ Decides(p) /\ Reports(p)
      /\ t.kind = "decision" => Decides(p)
      /\ p \in linked => Storing!Readable(file) /\ e.link = Storing!Last(file)
      /\ p \notin linked /\ Storing!Readable(file) /\ e.link # 0 => e.link # Storing!Last(file)
      /\ StoreTypes
  BY <1>1, <1>4, <1>5, Current, Typed DEF ProcessOK, StoreInv, StoreTypes
<1>7. /\ proc' = [q \in Process |-> proc'[q]]
      /\ \A q \in Process \ {p} : proc'[q] = proc[q]
  BY <1>4, Typed DEF Storing!Advance
<1>8. PICK mine \in Nat : mine = IF t.kind = "decision" THEN e.id ELSE proc[p].mine
  BY <1>5, <1>6 DEF ProcRecord
<1>9. /\ ProcessOK(p)'
      /\ t.kind = "decision" => Reports(p)' /\ ~ Decides(p)' /\ proc'[p].mine = e.id
      /\ Reports(p) /\ ~ Decides(p) /\ t.kind # "minority" =>
           Reports(p)' /\ ~ Decides(p)' /\ proc'[p].mine = proc[p].mine
  <2>1. /\ ProcessOK(p)'
        /\ t.kind = "decision" => Reports(p)' /\ ~ Decides(p)' /\ proc'[p].mine = mine
        /\ Reports(p) /\ ~ Decides(p) /\ t.kind # "minority" =>
             Reports(p)' /\ ~ Decides(p)' /\ proc'[p].mine = mine
    BY <1>1, <1>4, <1>6, <1>8, AdvancedOK
  <2>2. Reports(p) /\ ~ Decides(p) => t.kind # "decision"
    BY <1>6
  <2> QED
    BY <1>8, <2>1, <2>2
<1>10. /\ forked' \subseteq 1..made' /\ overtaken \subseteq overtaken' /\ made' \in Nat
       /\ made <= made' /\ \A i \in 1..made : (i \in forked' <=> i \in forked) /\ i \in 1..made'
       /\ late \subseteq late'
  BY <1>4, <1>5, <1>6 DEF Storing!Overtakes
<1>11. CASE file # <<>> /\ file[Len(file)] = Storing!Torn
  <2>1. file' = file
    BY <1>4, <1>11 DEF Storing!Line
  <2>2. Len(file) \in 1..Len(file) /\ ~ Storing!Readable(file)
    <3>1. Len(file) \in 1..Len(file)
      BY <1>6, <1>11
    <3> QED
      BY <1>6, <1>11, <3>1, Reading
  <2>3. p \notin linked /\ p \in overtaken /\ cut
    <3>1. p \notin overtaken => Storing!Readable(file)
      BY <1>4 DEF StoreInv, ProcessReady
    <3>2. LineOK(file, Len(file))
      BY <2>2 DEF StoreInv
    <3> QED
      BY <1>6, <1>11, <2>2, <3>1, <3>2 DEF LineOK
  <2>4. \A q \in Process \ {p} : ProcessOK(q)' /\ (q \notin overtaken' => ProcessReady(q)')
    BY <1>4, <1>7, <1>10, <2>1, <2>2, OthersOK
  <2>5. ASSUME NEW n \in 1..Len(file) PROVE LineOK(file, n)'
    <3>1. LineOK(file, n)
      BY DEF StoreInv
    <3> QED
      BY <1>4, <1>10, <2>1, <3>1 DEF LineOK
  <2>6. Storing!Stored' = Storing!Stored
    BY <2>1 DEF Storing!Stored
  <2>7. thrown' \/ acked' \subseteq Storing!Stored' \cup forked'
    BY <1>4, <2>3, <2>6 DEF StoreInv
  <2>8. StoreTypes'
    BY <1>4, <1>6, <1>7, <1>10, <2>1 DEF StoreTypes
  <2>9. p \in overtaken'
    BY <1>10, <2>3
  <2> QED
    BY <1>4, <1>9, <2>1, <2>3, <2>4, <2>5, <2>7, <2>8, <2>9 DEF StoreInv
<1>12. CASE ~ (file # <<>> /\ file[Len(file)] = Storing!Torn)
  <2>1. file' = Append(file, e) /\ e \in Lines /\ e # Storing!Torn
    BY <1>4, <1>5, <1>12, NotTorn DEF Storing!Line, Lines
  <2>2. PICK g : g = file'
    OBVIOUS
  <2>3. /\ g = Append(file, e)
        /\ g \in Seq(Lines) /\ Len(g) = k + 1 /\ g[k + 1] = e /\ \A n \in 1..k : g[n] = file[n]
        /\ Storing!Events(g) = Storing!Events(file) \cup {e}
    <3>1. PICK f \in Seq(Lines) : f = file
      BY <1>6
    <3>2. /\ Append(f, e) \in Seq(Lines)
          /\ Len(Append(f, e)) = Len(f) + 1 /\ Append(f, e)[Len(f) + 1] = e
          /\ \A n \in 1..Len(f) : Append(f, e)[n] = f[n]
          /\ Storing!Events(Append(f, e)) = Storing!Events(f) \cup ({e} \ {Storing!Torn})
      BY <2>1, Appended
    <3> QED
      BY <1>3, <2>1, <2>2, <3>1, <3>2
  <2>4. /\ Storing!InOrder(g, k + 1) <=> Placed(e)
        /\ Storing!Linked(g, k + 1) <=> (e.link # 0 => file # <<>> /\ e.link = file[k].id)
        /\ \A n \in 1..k :
             /\ Storing!InOrder(g, n) <=> Storing!InOrder(file, n)
             /\ Storing!Linked(g, n) <=> Storing!Linked(file, n)
    BY <1>3, <1>6, <2>1, <2>3, AppendedInOrder
  <2>5. Storing!Readable(file)
    <3>1. ASSUME NEW n \in 1..Len(file), file[n] = Storing!Torn PROVE FALSE
      <4>1. n = Len(file)
        BY <3>1 DEF StoreInv, LineOK
      <4>2. Len(<<>>) = 0
        OBVIOUS
      <4> QED
        BY <1>12, <3>1, <4>1, <4>2
    <3> QED
      BY <1>6, <3>1, Reading
  <2>6. \A n \in 1..k : n \in 1..(k+1) /\ file[n] # Storing!Torn
    BY <1>3, <1>6, <2>5, Reading
  <2>7. /\ Storing!Events(file)' = Storing!Events(file) \cup {e}
        /\ Storing!Stored' = Storing!Stored \cup {made + 1}
    BY <1>5, <2>2, <2>3 DEF Storing!Stored
  <2>8. \A q \in Process \ {p} : ProcessOK(q)' /\ (q \notin overtaken' => ProcessReady(q)')
    <3>1. Storing!Last(file') = made + 1
      <4>1. g # <<>> /\ g[Len(g)] = e
        <5>1. Len(<<>>) = 0
          OBVIOUS
        <5> QED
          BY <2>3, <5>1
      <4> QED
        BY <1>5, <2>2, <4>1 DEF Storing!Last
    <3>2. \A l \in 1..made : Storing!Last(file') # l
      BY <1>6, <3>1
    <3> QED
      BY <1>4, <1>7, <1>10, <3>2, OthersOK
  <2>9. ASSUME p \notin overtaken' PROVE ProcessReady(p)'
    <3>1. ProcessReady(p)
      BY <1>10, <2>9 DEF StoreInv
    <3>2. Storing!Advance(p, mine)
      BY <1>4, <1>8
    <3>3. t.how = "join" => Storing!Joined(Storing!Events(file)', t.by)
      BY <1>5, <1>6, <2>7 DEF Storing!Joined
    <3>4. t.kind # "decision" =>
            \A r : Storing!Decided(Storing!Events(file)', r) =>
                     Storing!Decided(Storing!Events(file), r)
      BY <1>5, <2>7 DEF Storing!Decided
    <3>5. IF t.kind = "decision" THEN mine \in Storing!Stored' ELSE mine = proc[p].mine
      BY <1>5, <1>8, <2>7
    <3>6. Storing!Stored \subseteq Storing!Stored'
      BY <2>7
    <3> QED
      BY <1>1, <1>6, <3>1, <3>2, <3>3, <3>4, <3>5, <3>6, AdvancedReady
  <2>10. ASSUME NEW n \in 1..(k+1) PROVE LineOK(file, n)'
    <3>1. CASE n \in 1..k
      <4>1. LineOK(file, n) /\ file[n] # Storing!Torn /\ g[n] = file[n]
        BY <1>3, <2>3, <2>6, <3>1 DEF StoreInv
      <4>2. file[n].id \in 1..made
        BY <4>1 DEF LineOK
      <4>3. file[n].id \in 1..made' /\ (file[n].id \in forked' <=> file[n].id \in forked)
        BY <1>10, <4>2
      <4> QED
        BY <1>10, <2>2, <2>4, <3>1, <4>1, <4>3 DEF LineOK
    <3>2. CASE n = k + 1
      <4>1. g[n] = e /\ e # Storing!Torn /\ e.id \in 1..made' /\ e.id \notin forked
        BY <1>4, <1>5, <1>6, <2>1, <2>3, <3>2
      <4>2. (Storing!Linked(g, n) /\ (e.link = 0 => n = 1)) \/ e.id \in forked'
        <5>1. CASE p \in linked /\ file = <<>>
          <6>1. e.link = 0 /\ k = 0
            BY <1>3, <1>6, <5>1, LastIs
          <6> QED
            BY <2>4, <3>2, <6>1
        <5>2. CASE p \in linked /\ file # <<>>
          <6>1. e.link = file[k].id /\ e.link # 0
            BY <1>3, <1>6, <2>5, <5>2, LastIs, LastKnown
          <6> QED
            BY <2>4, <3>2, <5>2, <6>1
        <5>3. CASE p \notin linked
          BY <1>4, <5>3
        <5> QED
          BY <5>1, <5>2, <5>3
      <4>3. e.id \in forked' /\ e.link # 0 => ~ Storing!Linked(g, n)
        <5>1. e.id \in forked' => p \notin linked
          BY <1>4, <4>1
        <5>2. p \notin linked /\ e.link # 0 => e.link # Storing!Last(file)
          BY <1>6, <2>5
        <5>3. file # <<>> => Storing!Last(file) = file[k].id
          BY <1>3, <1>6, LastIs
        <5> QED
          BY <2>4, <3>2, <5>1, <5>2, <5>3
      <4>4. Storing!InOrder(g, n) \/ e.id \in late'
        BY <1>4, <1>5, <2>4, <3>2
      <4> QED
        BY <2>2, <4>1, <4>2, <4>3, <4>4 DEF LineOK
    <3> QED
      BY <3>1, <3>2
  <2>11. ASSUME ~ cut, NEW n \in 1..(k+1), g[n].kind = "decision" PROVE Answered(n)'
    <3>1. CASE n = k + 1
      <4>1. Reports(p)' /\ ~ Decides(p)' /\ proc'[p].mine = file'[n].id
        BY <1>5, <1>9, <2>2, <2>3, <2>11, <3>1
      <4> QED
        BY <4>1 DEF Answered
    <3>2. CASE n \in 1..k
      <4>1. g[n] = file[n] /\ Answered(n)
        BY <1>3, <2>3, <2>11, <3>2 DEF StoreInv
      <4>2. ASSUME NEW m \in 1..k, file[m].kind = "minority" /\ file[n].id \in file[m].of
            PROVE  Answered(n)'
        <5>1. m \in 1..Len(g) /\ g[m] = file[m]
          BY <2>3
        <5> QED
          BY <2>2, <4>1, <4>2, <5>1 DEF Answered
      <4>3. ASSUME NEW q \in Process, Reports(q) /\ ~ Decides(q) /\ proc[q].mine = file[n].id
            PROVE  Answered(n)'
        <5>1. CASE q # p
          <6>1. Reports(q)' /\ ~ Decides(q)' /\ proc'[q].mine = file'[n].id
            BY <1>7, <2>2, <4>1, <4>3, <5>1 DEF Reports, Decides
          <6> QED
            BY <6>1 DEF Answered
        <5>2. CASE q = p /\ t.kind = "minority"
          <6>1. k + 1 \in 1..Len(g) /\ g[k+1] = e /\ g[n].id \in e.of /\ e.kind = "minority"
            BY <1>5, <2>3, <4>1, <4>3, <5>2
          <6> QED
            BY <2>2, <6>1 DEF Answered
        <5>3. CASE q = p /\ t.kind # "minority"
          <6>1. Reports(p)' /\ ~ Decides(p)' /\ proc'[p].mine = file'[n].id
            BY <1>9, <2>2, <4>1, <4>3, <5>3
          <6> QED
            BY <6>1 DEF Answered
        <5> QED
          BY <5>1, <5>2, <5>3
      <4> QED
        BY <1>3, <4>1, <4>2, <4>3 DEF Answered
    <3> QED
      BY <3>1, <3>2
  <2>12. thrown' \/ acked' \subseteq Storing!Stored' \cup forked'
    <3>1. thrown \/ acked \subseteq Storing!Stored \cup forked
      BY DEF StoreInv
    <3>2. forked \subseteq forked'
      BY <1>4
    <3> QED
      BY <1>4, <1>5, <2>7, <3>1, <3>2
  <2>13. StoreTypes'
    BY <1>4, <1>6, <1>7, <1>10, <2>2, <2>3 DEF StoreTypes
  <2>14. Len(file') = k + 1
    BY <2>2, <2>3
  <2> QED
    BY <1>4, <1>9, <2>2, <2>8, <2>9, <2>10, <2>11, <2>12, <2>13, <2>14 DEF StoreInv
<1> QED
  BY <1>11, <1>12

\* A file that begins anew with one event.
LEMMA OneEvent ==
  ASSUME NEW e \in EventRecord, e.kind = "joined", e.of = {}, e.link = 0
  PROVE  /\ <<e>> \in Seq(Lines) /\ Len(<<e>>) = 1 /\ <<e>>[1] = e /\ e # Storing!Torn
         /\ Storing!Events(<<e>>) = {e} /\ Storing!Last(<<e>>) = e.id
         /\ Storing!InOrder(<<e>>, 1) /\ Storing!Linked(<<e>>, 1)
<1>1. PICK f : f = <<e>>
  OBVIOUS
<1>2. f \in Seq(Lines) /\ Len(f) = 1 /\ f[1] = e /\ e # Storing!Torn /\ f # <<>>
  BY <1>1, NotTorn DEF Lines
<1>3. 1 \in 1..Len(f) /\ {f[m] : m \in 1..(1-1)} = {}
  BY <1>2
<1>4. Storing!Before(f, 1) = {}
  BY <1>2, <1>3, Reading
<1>5. Storing!InOrder(f, 1)
  BY <1>2, <1>4 DEF Storing!InOrder, Storing!Joined
<1>6. Storing!Events(f) = {e}
  <2>1. Storing!Events(f) = {f[n] : n \in 1..Len(f)} \ {Storing!Torn}
    BY <1>2, Reading
  <2>2. 1..Len(f) = {1}
    BY <1>2
  <2> QED
    BY <1>2, <2>1, <2>2
<1>7. Storing!Linked(f, 1) /\ Storing!Last(f) = e.id
  BY <1>2 DEF Storing!Linked, Storing!Last
<1> QED
  BY <1>1, <1>2, <1>5, <1>6, <1>7

LEMMA RewriteKeeps ==
  ASSUME StoreInv, NEW p \in Process, Storing!Rewrite(p)
  PROVE  StoreInv'
<1>1. PICK e : e = [kind |-> "joined", by |-> Head(proc[p].todo).by, id |-> made + 1,
                    link |-> 0, of |-> {}]
  OBVIOUS
<1>2. /\ proc[p].pc = "rewrite" /\ file' = <<e>> /\ Storing!Finish(p)
      /\ acked' = {made + 1} \cup (IF p \in overtaken THEN acked ELSE {})
      /\ made' = made + 1 /\ linked' = {} /\ Storing!Overtakes(p)
      /\ thrown' = (thrown \/ p \in overtaken)
      /\ UNCHANGED <<exists, forked, late, cut>>
  BY <1>1 DEF Storing!Rewrite, Storing!At
<1>3. Head(proc[p].todo) \in Tasks /\ made \in Nat /\ exists
  BY <1>2, Current, Typed DEF ProcessOK
<1>4. /\ e \in EventRecord /\ e.kind = "joined" /\ e.of = {} /\ e.link = 0 /\ e.id = made + 1
      /\ made + 1 \in Nat
  BY <1>1, <1>3 DEF EventRecord, EventKinds, Tasks
<1>5. /\ file' \in Seq(Lines) /\ Len(file') = 1 /\ file'[1] = e /\ e # Storing!Torn
      /\ Storing!Events(file') = {e} /\ Storing!Last(file') = made + 1
      /\ Storing!InOrder(file', 1) /\ Storing!Linked(file', 1)
  BY <1>2, <1>4, OneEvent
<1>6. /\ proc' = [q \in Process |-> proc'[q]]
      /\ \A q \in Process \ {p} : proc'[q] = proc[q]
  BY <1>2, Typed DEF Storing!Finish
<1>7. ProcessOK(p)' /\ ProcessReady(p)'
  BY <1>2, FinishedOK
<1>8. \A q \in Process \ {p} : ProcessOK(q)' /\ (q \notin overtaken' => ProcessReady(q)')
  <2>1. made' \in Nat /\ made <= made' /\ \A l \in 1..made : Storing!Last(file') # l
    BY <1>2, <1>3, <1>5
  <2> QED
    BY <1>2, <1>6, <2>1, OthersOK
<1>9. forked' \subseteq 1..made' /\ made + 1 \notin forked'
  BY <1>2, <1>3 DEF StoreInv, StoreTypes
<1>10. LineOK(file, 1)'
  <2>1. PICK g : g = file'
    OBVIOUS
  <2>2. PICK k : k = made + 1
    OBVIOUS
  <2>3. g = <<e>>
    BY <1>2, <2>1
  <2>4. g[1] = e /\ e # Storing!Torn /\ Storing!InOrder(g, 1) /\ Storing!Linked(g, 1)
    BY <1>4, <2>3, OneEvent
  <2>5. k \in Nat /\ made' = k /\ e.id = k
    BY <1>2, <1>4, <2>2
  <2>6. k \in 1..made' /\ k \notin forked'
    <3>1. k \in Nat /\ k >= 1
      BY <1>3, <2>2
    <3> QED
      BY <1>9, <2>2, <2>5, <3>1
  <2> QED
    BY <1>4, <2>1, <2>4, <2>5, <2>6 DEF LineOK
<1>11. Storing!Stored' = {made + 1}
  BY <1>4, <1>5 DEF Storing!Stored
<1>12. thrown' \/ acked' \subseteq Storing!Stored' \cup forked'
  BY <1>2, <1>11
<1>13. StoreTypes'
  BY <1>2, <1>3, <1>4, <1>5, <1>6, <1>9 DEF StoreTypes
<1>14. \A n \in 1..Len(file') : n = 1 /\ file'[n].kind # "decision"
  BY <1>4, <1>5
<1> QED
  BY <1>7, <1>8, <1>10, <1>12, <1>13, <1>14 DEF StoreInv

\* A process that is killed leaves the file as it is, or cut, or empty.
LEMMA KillKeeps ==
  ASSUME StoreInv, NEW p \in Process, Storing!Kill(p)
  PROVE  StoreInv'
<1>1. /\ proc[p].pc # "idle" /\ Storing!Finish(p) /\ cut' = TRUE
      /\ linked' = (IF file' = file THEN linked ELSE {}) /\ Storing!Overtakes(p)
      /\ thrown' = (thrown \/ (proc[p].pc = "rewrite" /\ file' # file))
      /\ UNCHANGED <<exists, made, acked, forked, late>>
  BY DEF Storing!Kill, Storing!At
<1>2. \/ file' = file
      \/ proc[p].pc = "write" /\ file' = Storing!Line(file, Storing!Torn)
      \/ proc[p].pc = "rewrite" /\ file' \in {<<>>, <<Storing!Torn>>}
  BY DEF Storing!Kill, Storing!At
<1>3. ProcessOK(p)' /\ ProcessReady(p)'
  BY <1>1, FinishedOK
<1>4. /\ proc' = [q \in Process |-> proc'[q]]
      /\ \A q \in Process \ {p} : proc'[q] = proc[q]
      /\ StoreTypes /\ file \in Seq(Lines) /\ made \in Nat
  BY <1>1, Typed DEF Storing!Finish, StoreInv
<1>5. CASE file' = file
  <2>1. linked' = linked /\ overtaken' = overtaken /\ (thrown => thrown') /\ cut'
    BY <1>1, <1>5 DEF Storing!Overtakes
  <2> QED
    BY <1>1, <1>3, <1>5, <2>1, StoreStep DEF Storing!Finish
<1>6. ASSUME file' # file, file' \in Seq(Lines), exists,
             Storing!Readable(file') => Storing!Last(file') = 0,
             \A n \in 1..Len(file') : LineOK(file, n)',
             thrown' \/ Storing!Stored \subseteq Storing!Stored'
      PROVE  StoreInv'
  <2>1. \A q \in Process \ {p} : ProcessOK(q)' /\ (q \notin overtaken' => ProcessReady(q)')
    <3>1. made' \in Nat /\ made <= made'
      BY <1>1, <1>4
    <3>2. Storing!Readable(file') => \A l \in 1..made : Storing!Last(file') # l
      BY <1>4, <1>6
    <3> QED
      BY <1>1, <1>4, <1>6, <3>1, <3>2, OthersOK
  <2>2. thrown' \/ acked' \subseteq Storing!Stored' \cup forked'
    BY <1>1, <1>6 DEF StoreInv
  <2>3. StoreTypes'
    BY <1>1, <1>4, <1>6 DEF StoreTypes
  <2> QED
    BY <1>1, <1>3, <1>6, <2>1, <2>2, <2>3 DEF StoreInv
<1>7. proc[p].pc \in {"write", "rewrite"} => exists
  BY Typed DEF ProcessOK
<1>8. Storing!Torn \in Lines
  BY DEF Lines
<1>9. CASE proc[p].pc = "write" /\ file' = Storing!Line(file, Storing!Torn) /\ file' # file
  <2>1. file' = Append(file, Storing!Torn) /\ ~ (file # <<>> /\ file[Len(file)] = Storing!Torn)
    BY <1>9 DEF Storing!Line
  <2>2. PICK g : g = file'
    OBVIOUS
  <2>3. PICK k \in Nat : k = Len(file)
    BY <1>4
  <2>4. /\ g \in Seq(Lines) /\ Len(g) = k + 1 /\ g[k + 1] = Storing!Torn
        /\ \A n \in 1..k : g[n] = file[n]
        /\ Storing!Events(g) = Storing!Events(file)
    <3>1. PICK f \in Seq(Lines) : f = file
      BY <1>4
    <3>2. /\ Append(f, Storing!Torn) \in Seq(Lines)
          /\ Len(Append(f, Storing!Torn)) = Len(f) + 1
          /\ Append(f, Storing!Torn)[Len(f) + 1] = Storing!Torn
          /\ \A n \in 1..Len(f) : Append(f, Storing!Torn)[n] = f[n]
          /\ Storing!Events(Append(f, Storing!Torn)) =
               Storing!Events(f) \cup ({Storing!Torn} \ {Storing!Torn})
      BY <1>8, Appended
    <3> QED
      BY <2>1, <2>2, <2>3, <3>1, <3>2
  <2>5. \A n \in 1..k : /\ Storing!InOrder(g, n) <=> Storing!InOrder(file, n)
                        /\ Storing!Linked(g, n) <=> Storing!Linked(file, n)
    BY <1>4, <1>8, <2>1, <2>2, <2>3, AppendedInOrder
  <2>6. ~ Storing!Readable(file')
    <3>1. k + 1 \in 1..Len(g)
      BY <2>4
    <3> QED
      BY <2>2, <2>4, <3>1, Reading
  <2>7. ASSUME NEW n \in 1..(k+1) PROVE LineOK(file, n)'
    <3>1. CASE n = k + 1
      BY <1>1, <2>2, <2>4, <3>1 DEF LineOK
    <3>2. CASE n \in 1..k
      <4>1. LineOK(file, n) /\ g[n] = file[n]
        BY <2>3, <2>4, <3>2 DEF StoreInv
      <4>2. file[n] # Storing!Torn
        <5>1. file[n] = Storing!Torn => n = Len(file)
          BY <4>1 DEF LineOK
        <5>2. Len(<<>>) = 0
          OBVIOUS
        <5> QED
          BY <2>1, <2>3, <3>2, <5>1, <5>2
      <4> QED
        BY <1>1, <2>2, <2>5, <3>2, <4>1, <4>2 DEF LineOK
    <3> QED
      BY <3>1, <3>2
  <2>8. Storing!Stored' = Storing!Stored
    BY <2>2, <2>4 DEF Storing!Stored
  <2>9. \A n \in 1..Len(file') : LineOK(file, n)'
    BY <2>2, <2>4, <2>7
  <2> QED
    BY <1>6, <1>7, <1>9, <2>2, <2>4, <2>6, <2>8, <2>9
<1>10. CASE proc[p].pc = "rewrite" /\ file' = <<>> /\ file' # file
  <2>1. <<>> \in Seq(Lines) /\ Len(<<>>) = 0 /\ 1..Len(file') = {} /\ Storing!Last(file') = 0
    BY <1>10 DEF Storing!Last
  <2>2. thrown'
    BY <1>1, <1>10
  <2> QED
    BY <1>6, <1>7, <1>10, <2>1, <2>2
<1>11. CASE proc[p].pc = "rewrite" /\ file' = <<Storing!Torn>> /\ file' # file
  <2>1. PICK g : g = file'
    OBVIOUS
  <2>2. g \in Seq(Lines) /\ Len(g) = 1 /\ g[1] = Storing!Torn /\ 1 \in 1..Len(g)
    BY <1>8, <1>11, <2>1
  <2>3. ~ Storing!Readable(g)
    BY <2>2, Reading
  <2>4. thrown'
    BY <1>1, <1>11
  <2>5. \A n \in 1..Len(g) : n = 1
    BY <2>2
  <2>6. LineOK(file, 1)'
    BY <1>1, <2>1, <2>2 DEF LineOK
  <2>7. \A n \in 1..Len(file') : LineOK(file, n)'
    BY <2>1, <2>5, <2>6
  <2> QED
    BY <1>6, <1>7, <1>11, <2>1, <2>2, <2>3, <2>4, <2>7
<1> QED
  BY <1>2, <1>5, <1>9, <1>10, <1>11

-----------------------------------------------------------------------------

LEMMA StoreInit ==
  ASSUME Storing!Init
  PROVE  StoreInv
<1>1. /\ file = <<>> /\ made = 0 /\ acked = {} /\ forked = {}
      /\ proc = [p \in Process |-> Storing!NoTask]
  BY DEF Storing!Init
<1>2. <<>> \in Seq(Lines) /\ <<>> \in Seq(Tasks) /\ Len(<<>>) = 0
  OBVIOUS
<1>3. ASSUME NEW p \in Process PROVE ProcessOK(p) /\ ProcessReady(p)
  <2>1. /\ proc[p] \in ProcRecord /\ proc[p].todo = <<>> /\ proc[p].pc = "idle"
    BY <1>1, <1>2 DEF Storing!NoTask, ProcRecord
  <2>2. Shaped(proc[p].todo)
    BY <1>2, <2>1 DEF Shaped
  <2> QED
    BY <2>1, <2>2, IdleReady DEF ProcessOK
<1>4. proc = [p \in Process |-> proc[p]]
  BY <1>1
<1> QED
  BY <1>1, <1>2, <1>3, <1>4 DEF StoreInv, StoreTypes

LEMMA StoreNext ==
  ASSUME StoreInv, [Storing!Next]_(Storing!vars)
  PROVE  StoreInv'
<1>1. CASE Storing!Next
  <2>1. PICK p \in Process :
          \/ Storing!Begin(p) \/ Storing!Start(p) \/ Storing!Witness(p)
          \/ Storing!InitStore(p) \/ Storing!Create(p) \/ Storing!Link(p) \/ Storing!Write(p)
          \/ Storing!Rewrite(p) \/ Storing!Kill(p)
    BY <1>1 DEF Storing!Next
  <2> QED
    BY <2>1, BeginKeeps, StartKeeps, WitnessKeeps, InitStoreKeeps, CreateKeeps, LinkKeeps,
      WriteKeeps, RewriteKeeps, KillKeeps
<1>2. CASE UNCHANGED Storing!vars
  <2>1. UNCHANGED <<exists, file, proc, made, acked, linked, overtaken, forked, late, cut, thrown>>
    BY <1>2 DEF Storing!vars
  <2>2. \A p \in Process : ProcessOK(p) => ProcessOK(p)'
    BY <2>1 DEF ProcessOK
  <2>3. \A p \in Process : p \notin overtaken' => ProcessReady(p)'
    BY <2>1, ReadyStays DEF StoreInv
  <2>4. \A n \in 1..Len(file) : Answered(n) => Answered(n)'
    BY <2>1 DEF Answered, Reports, Decides
  <2>5. \A n \in 1..Len(file) : LineOK(file, n) => LineOK(file, n)'
    BY <2>1 DEF LineOK
  <2>6. Storing!Stored' = Storing!Stored /\ StoreTypes'
    BY <2>1 DEF Storing!Stored, StoreInv, StoreTypes
  <2> QED
    BY <2>1, <2>2, <2>3, <2>4, <2>5, <2>6 DEF StoreInv
<1> QED
  BY <1>1, <1>2

\* At rest no process is left with a report to make.
LEMMA StoreAccounted ==
  ASSUME StoreInv
  PROVE  Storing!FlawsHaveCauses
<1>1. file \in Seq(Lines) /\ DOMAIN file = 1..Len(file)
  BY Reading DEF StoreInv, StoreTypes
<1>2. ASSUME NEW n \in DOMAIN file
      PROVE  IF file[n] = Storing!Torn THEN cut
             ELSE /\ \/ Storing!Linked(file, n) /\ (file[n].link = 0 => n = 1)
                     \/ file[n].id \in forked
                  /\ file[n].id \in forked /\ file[n].link # 0 => ~ Storing!Linked(file, n)
                  /\ Storing!InOrder(file, n) \/ file[n].id \in late
  BY <1>1 DEF StoreInv, LineOK
<1>3. ASSUME Storing!Quiet, ~ cut PROVE Storing!Reported(file)
  <2>1. \A p \in Process : ~ Reports(p)
    <3>1. ASSUME NEW p \in Process PROVE ~ Reports(p)
      <4>1. proc[p].todo = <<>> /\ Len(<<>>) = 0
        BY <1>3, Typed DEF ProcessOK, Storing!Quiet, Storing!At
      <4> QED
        BY <4>1 DEF Reports
    <3> QED
      BY <3>1
  <2>2. \A n \in 1..Len(file) : file[n].kind = "decision" =>
          \E m \in 1..Len(file) : file[m].kind = "minority" /\ file[n].id \in file[m].of
    BY <1>3, <2>1 DEF StoreInv, Answered
  <2> QED
    BY <1>1, <2>2 DEF Storing!Reported
<1> QED
  BY <1>2, <1>3 DEF Storing!FlawsHaveCauses, StoreInv


StorePart == part = "store" => StoreInv

LEMMA StorePartHolds == Spec => []StorePart
<1>1. Init => StorePart
  BY StoreInit DEF Init, StorePart
<1>2. StorePart /\ [Next]_partsVars => StorePart'
  <2> SUFFICES ASSUME StorePart, [Next]_partsVars, part' = "store" PROVE StoreInv'
    BY DEF StorePart
  <2>1. CASE NextStore
    BY <2>1, StoreNext DEF NextStore, StorePart
  <2>2. CASE NextRecovery \/ NextMerges \/ NextAmendments \/ NextExchange
    BY <2>2 DEF NextRecovery, NextMerges, NextAmendments, NextExchange
  <2>3. CASE UNCHANGED partsVars
    <3>1. StoreInv /\ UNCHANGED Storing!vars
      BY <2>3 DEF partsVars, storeVars, StorePart, Storing!vars
    <3> QED
      BY <3>1, StoreNext
  <2> QED
    BY <2>1, <2>2, <2>3 DEF Next
<1> QED
  BY <1>1, <1>2, PTL DEF Spec

\* Whatever processes work on the store, and however they overtake each other or are
\* killed: a flaw in the log has the cause that explains it, an append that was linked
\* too late breaks the chain, and what was reported is kept but by the causes named.
THEOREM StoreFlawsHaveCauses == Spec => []FlawsHaveCauses
<1>1. StorePart => FlawsHaveCauses
  BY StoreAccounted DEF StorePart, FlawsHaveCauses
<1> QED
  BY <1>1, StorePartHolds, PTL
=============================================================================

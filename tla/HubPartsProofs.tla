--------------------------- MODULE HubPartsProofs ----------------------------
(***************************************************************************)
(* The parts of a hub beside its notary (HubParts), for hubs, addresses,   *)
(* threads, writers and bounds of any size: the import, the write limiter, *)
(* the public reads and the sandbox.  That an armed sandbox is swept in    *)
(* the end is liveness, and stays with TLC.                                *)
(***************************************************************************)
EXTENDS HubParts, Sequences, WellFoundedInduction, FiniteSetTheorems, TLAPS

-----------------------------------------------------------------------------
(* The import *)

\* Positions without a gap or a double, each record on the one before it.
Chains(records) ==
  /\ \A r \in records : r.seq \in 0 .. MaxSeq
  /\ \A r \in records : r.seq = 0 => r.prev = Null
  /\ \A r \in records : r.seq # 0 =>
       r.prev \in records /\ r.prev.thread = r.thread /\ r.prev.seq = r.seq - 1
  /\ \A r, q \in records : r.thread = q.thread /\ r.seq = q.seq => r = q

HubOK(st) ==
  /\ st = [threads |-> st.threads, records |-> st.records]
  /\ Chains(st.records)
  /\ \A r \in st.records : Known(st, r.thread)

\* What an import left is still there.
Kept(st, dump) ==
  dump.records \subseteq st.records /\ \A row \in dump.threads : Known(st, row.id)

ImportInv ==
  /\ HubOK(source)
  /\ HubOK(target)
  /\ \A dump \in dumps : Chains(dump.records)
  /\ \A dump \in imported : Kept(target, dump)

LEMMA LastOf ==
  ASSUME NEW records, Chains(records), records # {}
  PROVE  \E r \in records : \A q \in records : q.seq <= r.seq
<1>1. MaxSeq \in Nat
  BY ImportAssumption
<1> DEFINE Left == {n \in Nat : \E r \in records : n = MaxSeq - r.seq}
<1>2. \A r \in records : r.seq \in Nat /\ MaxSeq - r.seq \in Left
  BY <1>1 DEF Chains
<1>3. Left # {} /\ Left \subseteq Nat
  BY <1>2
<1> HIDE DEF Left
<1>4. PICK n \in Left : \A m \in Left : ~ (<<m, n>> \in OpToRel(<, Nat))
  BY <1>3, NatLessThanWellFounded, WFMin
<1>5. \A m \in Left : ~ (m < n)
  BY <1>3, <1>4 DEF OpToRel
<1>6. PICK r \in records : n = MaxSeq - r.seq
  BY DEF Left
<1>7. \A q \in records : q.seq <= r.seq
  BY <1>1, <1>2, <1>5, <1>6
<1> QED
  BY <1>7

LEMMA HeadIsLast ==
  ASSUME NEW st, HubOK(st), NEW t, RecordsOf(st, t) # {}
  PROVE  /\ HeadOf(st, t) \in RecordsOf(st, t)
         /\ \A q \in RecordsOf(st, t) : q.seq <= HeadOf(st, t).seq
<1>1. \E r \in RecordsOf(st, t) : \A q \in RecordsOf(st, t) : q.seq <= r.seq
  <2>1. Chains(RecordsOf(st, t))
    BY DEF HubOK, Chains, RecordsOf
  <2> QED
    BY <2>1, LastOf
<1> QED
  BY <1>1 DEF HeadOf

\* A hub's own writes.
LEMMA CreatedOK ==
  ASSUME NEW st, HubOK(st), NEW t, NEW slug, NEW hub, ~ Known(st, t)
  PROVE  /\ HubOK(Created(st, t, slug, hub))
         /\ \A dump : Kept(st, dump) => Kept(Created(st, t, slug, hub), dump)
<1>1. PICK r : r = Record(t, 0, Null, hub)
  OBVIOUS
<1>2. r.thread = t /\ r.seq = 0 /\ r.prev = Null
  BY <1>1 DEF Record
<1>3. PICK row : row = [id |-> t, slug |-> slug]
  OBVIOUS
<1>4. row.id = t
  BY <1>3
<1>5. PICK new : new = Created(st, t, slug, hub)
  OBVIOUS
<1>6. /\ new = [threads |-> st.threads \cup {row}, records |-> st.records \cup {r}]
      /\ new.threads = st.threads \cup {row} /\ new.records = st.records \cup {r}
  BY <1>1, <1>3, <1>5 DEF Created
<1>7. \A q \in st.records : q.thread # t
  BY DEF HubOK
<1>8. Chains(new.records)
  BY <1>2, <1>6, <1>7, ImportAssumption DEF HubOK, Chains
<1>9. \A u : Known(st, u) => Known(new, u)
  BY <1>6 DEF Known
<1>10. Known(new, t)
  BY <1>4, <1>6 DEF Known
<1> QED
  BY <1>2, <1>5, <1>6, <1>8, <1>9, <1>10 DEF HubOK, Kept

LEMMA AppendedOK ==
  ASSUME NEW st, HubOK(st), NEW t, NEW hub, Known(st, t), RoomIn(st, t)
  PROVE  /\ HubOK(Appended(st, t, hub))
         /\ \A dump : Kept(st, dump) => Kept(Appended(st, t, hub), dump)
<1>1. PICK r : r = IF RecordsOf(st, t) = {} THEN Record(t, 0, Null, hub)
                   ELSE Record(t, HeadOf(st, t).seq + 1, HeadOf(st, t), hub)
  OBVIOUS
<1>2. PICK new : new = Appended(st, t, hub)
  OBVIOUS
<1>3. /\ new = [threads |-> st.threads, records |-> st.records \cup {r}]
      /\ new.threads = st.threads /\ new.records = st.records \cup {r}
  BY <1>1, <1>2 DEF Appended, HubOK
<1>4. Chains(new.records) /\ r.thread = t
  <2>1. CASE RecordsOf(st, t) = {}
    <3>1. r.thread = t /\ r.seq = 0 /\ r.prev = Null
      BY <1>1, <2>1 DEF Record
    <3> QED
      BY <1>3, <2>1, <3>1, ImportAssumption DEF HubOK, Chains, RecordsOf
  <2>2. CASE RecordsOf(st, t) # {}
    <3>1. PICK h : h = HeadOf(st, t)
      OBVIOUS
    <3>2. /\ h \in st.records /\ h.thread = t /\ h.seq \in 0 .. MaxSeq /\ h.seq < MaxSeq
          /\ \A q \in st.records : q.thread = t => q.seq <= h.seq
      BY <2>2, <3>1, HeadIsLast DEF RecordsOf, RoomIn, HubOK, Chains
    <3>3. r.thread = t /\ r.seq = h.seq + 1 /\ r.prev = h
      BY <1>1, <2>2, <3>1 DEF Record
    <3>4. \A q \in st.records : q.seq \in Nat
      BY DEF HubOK, Chains
    <3>5. r.seq \in 0 .. MaxSeq /\ r.seq # 0 /\ r.seq - 1 = h.seq
      BY <3>2, <3>3, ImportAssumption
    <3>6. \A q \in st.records : q.thread = t => q.seq # r.seq
      BY <3>2, <3>3, <3>4
    <3> QED
      BY <1>3, <3>2, <3>3, <3>5, <3>6 DEF HubOK, Chains
  <2> QED
    BY <2>1, <2>2
<1>5. \A u : Known(new, u) <=> Known(st, u)
  BY <1>3 DEF Known
<1> QED
  BY <1>2, <1>3, <1>4, <1>5 DEF HubOK, Kept

\* An export, cut at any position.
LEMMA CutOK ==
  ASSUME NEW st, HubOK(st), NEW last \in Int
  PROVE  Chains({r \in st.records : r.seq <= last})
<1>1. \A r \in st.records : r.seq \in Nat
  BY DEF HubOK, Chains
<1>2. ASSUME NEW r \in st.records, r.seq <= last, r.seq # 0
      PROVE  r.prev \in {q \in st.records : q.seq <= last}
  <2>1. r.prev \in st.records /\ r.prev.seq = r.seq - 1
    BY <1>2 DEF HubOK, Chains
  <2> QED
    BY <1>1, <1>2, <2>1
<1> QED
  BY <1>2 DEF HubOK, Chains

\* What is merged without a conflict goes on from what is there.
LEMMA MergedOK ==
  ASSUME NEW st, HubOK(st), NEW dump, Chains(dump.records), ~ Conflict(st, dump)
  PROVE  /\ HubOK(Merged(st, dump))
         /\ Kept(Merged(st, dump), dump)
         /\ \A old : Kept(st, old) => Kept(Merged(st, dump), old)
<1>1. PICK new : new = Merged(st, dump)
  OBVIOUS
<1>2. /\ new = [threads |-> st.threads \cup NewThreads(st, dump),
                records |-> st.records \cup NewRecords(st, dump)]
      /\ new.threads = st.threads \cup NewThreads(st, dump)
      /\ new.records = st.records \cup dump.records
  BY <1>1 DEF Merged, NewRecords
<1>3. \A u : Known(st, u) => Known(new, u)
  BY <1>2 DEF Known
<1>4. \A row \in dump.threads : Known(new, row.id)
  BY <1>2 DEF Known, NewThreads
<1>5. \A r \in dump.records \ st.records :
        /\ \A q \in st.records : ~ (q.thread = r.thread /\ q.seq = r.seq)
        /\ Known(st, r.thread) \/ \E row \in dump.threads : row.id = r.thread
  BY DEF Conflict, NewRecords
<1>6. Chains(new.records)
  BY <1>2, <1>5 DEF HubOK, Chains
<1>7. \A r \in new.records : Known(new, r.thread)
  BY <1>2, <1>3, <1>4, <1>5 DEF HubOK
<1> QED
  BY <1>1, <1>2, <1>3, <1>4, <1>6, <1>7 DEF HubOK, Kept

LEMMA ImportInit == Init => ImportInv
<1> SUFFICES ASSUME Init PROVE ImportInv
  OBVIOUS
<1>1. Empty.records = {} /\ Empty = [threads |-> Empty.threads, records |-> Empty.records]
  BY DEF Empty
<1> QED
  BY <1>1 DEF Init, ImportInv, HubOK, Chains

LEMMA ImportNext ==
  ASSUME ImportInv, [Next]_vars
  PROVE  ImportInv'
<1>1. ASSUME NEW t \in Thread, NEW slug \in Slug, SourceCreates(t, slug) PROVE ImportInv'
  BY <1>1, CreatedOK DEF SourceCreates, Fresh, ImportInv
<1>2. ASSUME NEW t \in Thread, NEW slug \in Slug, TargetCreates(t, slug) PROVE ImportInv'
  BY <1>2, CreatedOK DEF TargetCreates, Fresh, ImportInv
<1>3. ASSUME NEW t \in Thread, SourceAppends(t) PROVE ImportInv'
  BY <1>3, AppendedOK DEF SourceAppends, ImportInv
<1>4. ASSUME NEW t \in Thread, TargetAppends(t) PROVE ImportInv'
  BY <1>4, AppendedOK DEF TargetAppends, ImportInv
<1>5. ASSUME NEW last \in -1 .. MaxSeq, Export(source, last) \/ Export(target, last)
      PROVE  ImportInv'
  <2>1. PICK st \in {source, target} : Export(st, last)
    BY <1>5
  <2>2. HubOK(st) /\ last \in Int
    BY ImportAssumption DEF ImportInv
  <2>3. PICK records : records = {r \in st.records : r.seq <= last}
    OBVIOUS
  <2>4. Chains(records)
    BY <2>2, <2>3, CutOK
  <2>5. dumps' = dumps \cup {[threads |-> st.threads, records |-> records]}
        /\ UNCHANGED <<source, target, imported>>
    BY <2>1, <2>3 DEF Export
  <2> QED
    BY <2>4, <2>5 DEF ImportInv
<1>6. ASSUME NEW dump \in dumps, Import(dump) PROVE ImportInv'
  BY <1>6, MergedOK DEF Import, ImportInv
<1>7. ASSUME UNCHANGED vars PROVE ImportInv'
  BY <1>7 DEF vars, ImportInv
<1> QED
  BY <1>1, <1>2, <1>3, <1>4, <1>5, <1>6, <1>7 DEF Next, ImportRollsBack

LEMMA ImportHolds == SpecParts => []ImportInv
<1>1. InitParts => ImportInv
  BY ImportInit DEF InitParts
<1>2. ImportInv /\ [NextParts]_allVars => ImportInv'
  <2>1. [NextParts]_allVars => [Next]_vars
    BY DEF NextParts, NextImport, NextLimiter, NextReads, NextSandbox, allVars, vars
  <2> QED
    BY <2>1, ImportNext
<1> QED
  BY <1>1, <1>2, PTL DEF SpecParts

\* Whatever was exported, cut and imported, when and how often: each thread of the
\* target is one unbroken chain.
THEOREM ImportLeavesChains == SpecParts => []TargetVerifies
<1>1. ImportInv => TargetVerifies
  BY DEF ImportInv, HubOK, Chains, TargetVerifies, RecordsOf
<1> QED
  BY <1>1, ImportHolds, PTL

\* What was imported stays there whole, and importing it again adds nothing.
THEOREM ImportsStay == SpecParts => []ImportedIsThere
<1>1. ASSUME ImportInv, NEW dump \in imported
      PROVE  /\ dump.records \subseteq target.records
             /\ \A row \in dump.threads : Known(target, row.id)
             /\ ~ Conflict(target, dump)
             /\ Merged(target, dump) = target
  <2>1. Kept(target, dump) /\ target = [threads |-> target.threads, records |-> target.records]
    BY <1>1 DEF ImportInv, HubOK
  <2>2. NewThreads(target, dump) = {} /\ NewRecords(target, dump) = {}
    BY <2>1 DEF Kept, NewThreads, NewRecords
  <2> QED
    BY <2>1, <2>2 DEF Kept, Conflict, Merged
<1>2. ImportInv => ImportedIsThere
  BY <1>1 DEF ImportedIsThere
<1> QED
  BY <1>2, ImportHolds, PTL

-----------------------------------------------------------------------------
(* The write limiter *)

Row == [count : 1 .. Max, resetAt : Nat]

\* The entries of a history H, and their number, within a window's length from t on.
In(H, kinds, t) == {h \in H : h.what \in kinds /\ t <= h.at /\ h.at < t + Window}

N(H, kinds, t) == Cardinality(In(H, kinds, t))

Nth(H, w) == Cardinality({h \in H : h.what = w})

\* A finite history of the past, each kind numbered as it came.
Good(H) ==
  /\ IsFiniteSet(H)
  /\ \A h \in H : h.at \in Nat /\ h.at <= now /\ h.nth \in Nat /\ h.nth < Nth(H, h.what)

Hit(t) == t <= now /\ now < t + Window

LimiterTypeOK ==
  /\ now \in Nat
  /\ Good(history)
  /\ windows = [ip \in Ip |-> windows[ip]]
  /\ \A ip \in Ip :
       \/ windows[ip] = Limiter!NoWindow
       \/ windows[ip] \in Row /\ windows[ip].resetAt <= now + Window
  /\ IsFiniteSet(Limiter!Tracked)

\* The quotas n losses give back, and the traffic n further clearings take.
Quotas(n) == n * Max

Refills(n) == n * (MaxWindows + 1)

\* What the stretch from t on owes to the window that runs now, or to the last one.
Share(ip, t) ==
  IF now >= t + Window THEN Max
  ELSE IF Limiter!Live(ip) THEN windows[ip].count ELSE 0

\* One window may have begun before t, and its opening is no longer in the stretch.
Paced(ip, t) ==
  /\ N(history, {ip}, t) <= Max - 1 + Quotas(N(history, Limiter!Loss, t)) + Share(ip, t)
  /\ (/\ Limiter!Live(ip)
      /\ now < t + Window
      /\ windows[ip].resetAt < t + Window) =>
        N(history, {ip}, t) <= windows[ip].count - 1

\* The table was filled by requests of the stretch since it was last cleared in it.
Filled(t) ==
  LET clearings == N(history, {"cleared"}, t)
      requests == N(history, Ip, t)
  IN clearings > 0 =>
       /\ requests > Refills(clearings - 1)
       /\ now < t + Window => requests >= Refills(clearings - 1) + Cardinality(Limiter!Tracked)

LimiterInv ==
  /\ LimiterTypeOK
  /\ \A t \in Nat : Filled(t) /\ \A ip \in Ip : Paced(ip, t)

LEMMA Counts == \A S : Limiter!Cardinality(S) = Cardinality(S)
  BY DEF Cardinality, Limiter!Cardinality

LEMMA LimiterConstants ==
  /\ Max \in Nat /\ Max >= 1 /\ Window \in Nat /\ Window >= 1 /\ MaxWindows \in Nat
  /\ "cleared" \notin Ip /\ "restarted" \notin Ip
  BY PartsAssumption DEF Limiter!Loss

LEMMA QuotasAdd ==
  ASSUME NEW n \in Nat
  PROVE  Quotas(n) \in Nat /\ Quotas(n + 1) = Quotas(n) + Max
  BY LimiterConstants DEF Quotas

LEMMA RefillsAdd ==
  ASSUME NEW n \in Nat
  PROVE  /\ Refills(n) \in Nat /\ Refills(n + 1) = Refills(n) + MaxWindows + 1
         /\ Refills(0) = 0
  BY LimiterConstants DEF Refills

LEMMA NumberOf ==
  ASSUME NEW H, IsFiniteSet(H), NEW kinds, NEW t
  PROVE  IsFiniteSet(In(H, kinds, t)) /\ N(H, kinds, t) \in Nat
<1>1. In(H, kinds, t) \in SUBSET H
  BY DEF In
<1> QED
  BY <1>1, FS_Subset, FS_CardinalityType DEF N

\* Nothing of the history lies ahead.
LEMMA NoneAhead ==
  ASSUME now \in Nat, NEW H, Good(H), NEW kinds, NEW t \in Nat, now < t
  PROVE  N(H, kinds, t) = 0
<1>1. In(H, kinds, t) = {}
  BY DEF In, Good
<1> QED
  BY <1>1, FS_EmptySet DEF N

\* What an entry of now, of kind w, adds to a stretch.
One(w, kinds, t) == IF w \in kinds /\ Hit(t) THEN 1 ELSE 0

\* One entry more, of now: it counts for the stretches that are going on.
LEMMA Added ==
  ASSUME now \in Nat, NEW H, Good(H), NEW w, NEW x,
         x = [what |-> w, at |-> now, nth |-> Nth(H, w)]
  PROVE  /\ Good(H \cup {x})
         /\ \A kinds : \A t \in Nat :
              /\ N(H, kinds, t) \in Nat
              /\ N(H \cup {x}, kinds, t) = N(H, kinds, t) + One(w, kinds, t)
<1> DEFINE OfW(K, v) == {h \in K : h.what = v}
<1>1. \A v : IsFiniteSet(OfW(H, v)) /\ Cardinality(OfW(H, v)) \in Nat /\ Nth(H, v) = Cardinality(OfW(H, v))
  <2>1. \A v : OfW(H, v) \in SUBSET H
    OBVIOUS
  <2>2. \A v : IsFiniteSet(OfW(H, v))
    BY <2>1, FS_Subset DEF Good
  <2> QED
    BY <2>2, FS_CardinalityType DEF Nth
<1>2. x.what = w /\ x.at = now /\ x.nth = Nth(H, w) /\ x.nth \in Nat
  BY <1>1
<1>3. x \notin H
  <2> SUFFICES ASSUME x \in H PROVE FALSE
    OBVIOUS
  <2>1. x.nth < Nth(H, x.what)
    BY DEF Good
  <2> QED
    BY <1>1, <1>2, <2>1
<1>4. \A v : Nth(H \cup {x}, v) = IF v = w THEN Nth(H, v) + 1 ELSE Nth(H, v)
  <2> SUFFICES ASSUME NEW v PROVE Nth(H \cup {x}, v) = IF v = w THEN Nth(H, v) + 1 ELSE Nth(H, v)
    OBVIOUS
  <2>1. CASE v = w
    <3>1. OfW(H \cup {x}, v) = OfW(H, v) \cup {x} /\ x \notin OfW(H, v)
      BY <1>2, <1>3, <2>1
    <3>2. PICK S : S = OfW(H, v)
      OBVIOUS
    <3>3. IsFiniteSet(S) /\ Nth(H, v) = Cardinality(S) /\ x \notin S
      BY <1>1, <3>1, <3>2
    <3>4. Nth(H \cup {x}, v) = Cardinality(S \cup {x})
      BY <3>1, <3>2 DEF Nth
    <3> QED
      BY <2>1, <3>3, <3>4, FS_AddElement
  <2>2. CASE v # w
    <3>1. OfW(H \cup {x}, v) = OfW(H, v)
      BY <1>2, <2>2
    <3> QED
      BY <2>2, <3>1 DEF Nth
  <2> QED
    BY <2>1, <2>2
<1>5. Good(H \cup {x})
  <2>1. IsFiniteSet(H \cup {x})
    BY FS_AddElement DEF Good
  <2>2. ASSUME NEW h \in H \cup {x}
        PROVE  h.at \in Nat /\ h.at <= now /\ h.nth \in Nat /\ h.nth < Nth(H \cup {x}, h.what)
    <3>1. CASE h = x
      <4>1. Nth(H \cup {x}, h.what) = Nth(H, w) + 1 /\ Nth(H, w) \in Nat
        BY <1>1, <1>2, <1>4, <3>1
      <4> QED
        BY <1>2, <3>1, <4>1
    <3>2. CASE h \in H
      <4> HIDE DEF OfW
      <4>0. PICK v : v = h.what
        OBVIOUS
      <4>1. Nth(H, v) \in Nat /\ Nth(H \cup {x}, v) >= Nth(H, v)
        BY <1>1, <1>4
      <4>2. h.at \in Nat /\ h.at <= now /\ h.nth \in Nat /\ h.nth < Nth(H, v)
        BY <3>2, <4>0 DEF Good
      <4>3. \A a, b, c \in Nat : a < b /\ c >= b => a < c
        OBVIOUS
      <4>4. Nth(H \cup {x}, v) \in Nat
        <5>1. Nth(H \cup {x}, v) = Nth(H, v) + 1 \/ Nth(H \cup {x}, v) = Nth(H, v)
          BY <1>4
        <5> QED
          BY <4>1, <5>1
      <4> QED
        BY <4>0, <4>1, <4>2, <4>3, <4>4
    <3> QED
      BY <3>1, <3>2
  <2> QED
    BY <2>1, <2>2 DEF Good
<1>6. ASSUME NEW kinds, NEW t \in Nat
      PROVE  /\ N(H, kinds, t) \in Nat
             /\ N(H \cup {x}, kinds, t) = N(H, kinds, t) + One(w, kinds, t)
  <2>1. IsFiniteSet(In(H, kinds, t)) /\ N(H, kinds, t) \in Nat
    BY NumberOf DEF Good
  <2>2. CASE w \in kinds /\ Hit(t)
    <3>1. In(H \cup {x}, kinds, t) = In(H, kinds, t) \cup {x} /\ x \notin In(H, kinds, t)
      BY <1>2, <1>3, <2>2 DEF In, Hit
    <3>2. PICK S : S = In(H, kinds, t)
      OBVIOUS
    <3>3. Cardinality(S \cup {x}) = Cardinality(S) + 1
      BY <2>1, <3>1, <3>2, FS_AddElement
    <3>4. N(H \cup {x}, kinds, t) = N(H, kinds, t) + 1
      BY <3>1, <3>2, <3>3 DEF N
    <3>5. One(w, kinds, t) = 1
      BY <2>2 DEF One
    <3> QED
      BY <2>1, <3>4, <3>5
  <2>3. CASE ~ (w \in kinds /\ Hit(t))
    <3>1. In(H \cup {x}, kinds, t) = In(H, kinds, t)
      BY <1>2, <2>3 DEF In, Hit
    <3> QED
      BY <2>1, <2>3, <3>1 DEF N, One
  <2> QED
    BY <2>2, <2>3
<1> QED
  BY <1>5, <1>6

LEMMA RowIsNone == Limiter!NoWindow \notin Row
  BY DEF Limiter!NoWindow, Row

LEMMA LiveRow ==
  ASSUME LimiterTypeOK, NEW ip \in Ip
  PROVE  Limiter!Live(ip) <=> windows[ip] \in Row /\ now < windows[ip].resetAt
  BY RowIsNone DEF LimiterTypeOK, Limiter!Live, Limiter!Tracked

LEMMA FreshIsRow ==
  ASSUME now \in Nat
  PROVE  Limiter!Fresh \in Row /\ Limiter!Fresh.count = 1 /\ Limiter!Fresh.resetAt = now + Window
  BY LimiterConstants DEF Limiter!Fresh, Row

\* The stretches' numbers after an entry of now, told from what they were.
LEMMA AddedHere ==
  ASSUME LimiterTypeOK, NEW w, history' = history \cup {Limiter!Now(w)}, now' = now
  PROVE  /\ Good(history)'
         /\ \A kinds : \A t \in Nat :
              /\ N(history, kinds, t) \in Nat
              /\ N(history', kinds, t) = N(history, kinds, t) + One(w, kinds, t)
<1>1. PICK x : x = Limiter!Now(w)
  OBVIOUS
<1>2. x = [what |-> w, at |-> now, nth |-> Nth(history, w)]
  BY <1>1, Counts DEF Limiter!Now, Limiter!Of, Nth
<1>3. now \in Nat /\ Good(history) /\ history' = history \cup {x}
  BY <1>1 DEF LimiterTypeOK
<1>4. /\ Good(history \cup {x})
      /\ \A kinds : \A t \in Nat :
           /\ N(history, kinds, t) \in Nat
           /\ N(history \cup {x}, kinds, t) = N(history, kinds, t) + One(w, kinds, t)
  BY <1>2, <1>3, Added
<1>5. Good(history)'
  BY <1>3, <1>4 DEF Good
<1> QED
  BY <1>3, <1>4, <1>5

\* A clearing, and the request that caused it.
LEMMA ClearedHere ==
  ASSUME LimiterTypeOK, NEW ip \in Ip, now' = now,
         history' = history \cup {Limiter!Now("cleared"), Limiter!Now(ip)}
  PROVE  /\ Good(history)'
         /\ \A kinds : \A t \in Nat :
              /\ N(history, kinds, t) \in Nat
              /\ N(history', kinds, t) =
                   N(history, kinds, t) + One("cleared", kinds, t) + One(ip, kinds, t)
<1>1. PICK x, y : x = Limiter!Now("cleared") /\ y = Limiter!Now(ip)
  OBVIOUS
<1>2. /\ x = [what |-> "cleared", at |-> now, nth |-> Nth(history, "cleared")]
      /\ y = [what |-> ip, at |-> now, nth |-> Nth(history, ip)]
  BY <1>1, Counts DEF Limiter!Now, Limiter!Of, Nth
<1>3. now \in Nat /\ Good(history)
  BY DEF LimiterTypeOK
<1>4. PICK H : H = history \cup {x}
  OBVIOUS
<1>5. /\ Good(H)
      /\ \A kinds : \A t \in Nat :
           /\ N(history, kinds, t) \in Nat
           /\ N(H, kinds, t) = N(history, kinds, t) + One("cleared", kinds, t)
  BY <1>2, <1>3, <1>4, Added
<1>6. y = [what |-> ip, at |-> now, nth |-> Nth(H, ip)]
  <2>1. x.what # ip
    BY <1>2, LimiterConstants
  <2>2. {h \in H : h.what = ip} = {h \in history : h.what = ip}
    BY <1>4, <2>1
  <2> QED
    BY <1>2, <2>2 DEF Nth
<1>7. /\ Good(H \cup {y})
      /\ \A kinds : \A t \in Nat :
           N(H \cup {y}, kinds, t) = N(H, kinds, t) + One(ip, kinds, t)
  <2>1. PICK w : w = ip
    OBVIOUS
  <2>2. y = [what |-> w, at |-> now, nth |-> Nth(H, w)]
    BY <1>6, <2>1
  <2>3. /\ Good(H \cup {y})
        /\ \A kinds : \A t \in Nat :
             N(H \cup {y}, kinds, t) = N(H, kinds, t) + One(w, kinds, t)
    <3>1. Good(H)
      BY <1>5
    <3>2. now \in Nat
      BY <1>3
    <3> QED
      BY <2>2, <3>1, <3>2, Added
  <2> QED
    BY <2>1, <2>3
<1>8. history' = H \cup {y}
  BY <1>1, <1>4
<1>9. Good(history)'
  BY <1>7, <1>8 DEF Good
<1> QED
  BY <1>5, <1>7, <1>8, <1>9

\* A request let through counts for its own address, and for no loss.
LEMMA OneOfAddress ==
  ASSUME NEW ip \in Ip, NEW t \in Nat,
         \A kinds : /\ N(history, kinds, t) \in Nat
                    /\ N(history', kinds, t) = N(history, kinds, t) + One(ip, kinds, t)
  PROVE  LET one == IF Hit(t) THEN 1 ELSE 0
         IN /\ N(history', {"cleared"}, t) = N(history, {"cleared"}, t)
            /\ N(history', Limiter!Loss, t) = N(history, Limiter!Loss, t)
            /\ N(history', Ip, t) = N(history, Ip, t) + one
            /\ N(history', {ip}, t) = N(history, {ip}, t) + one
            /\ \A j \in Ip \ {ip} : N(history', {j}, t) = N(history, {j}, t)
<1>1. \A kinds : One(ip, kinds, t) = IF ip \in kinds THEN (IF Hit(t) THEN 1 ELSE 0) ELSE 0
  BY DEF One
<1>2. ip \notin Limiter!Loss /\ ip # "cleared"
  BY LimiterConstants DEF Limiter!Loss
<1>3. N(history', {"cleared"}, t) = N(history, {"cleared"}, t)
  BY <1>1, <1>2
<1>4. N(history', Limiter!Loss, t) = N(history, Limiter!Loss, t)
  BY <1>1, <1>2
<1>5. N(history', Ip, t) = N(history, Ip, t) + (IF Hit(t) THEN 1 ELSE 0)
  BY <1>1
<1>6. N(history', {ip}, t) = N(history, {ip}, t) + (IF Hit(t) THEN 1 ELSE 0)
  BY <1>1
<1>7. ASSUME NEW j \in Ip \ {ip} PROVE N(history', {j}, t) = N(history, {j}, t)
  <2>1. ip \notin {j}
    OBVIOUS
  <2> QED
    BY <1>1, <2>1
<1> QED
  BY <1>3, <1>4, <1>5, <1>6, <1>7

LEMMA ShareIs ==
  ASSUME LimiterTypeOK, NEW ip \in Ip, NEW t \in Nat
  PROVE  Share(ip, t) \in 0 .. Max
<1>1. Limiter!Live(ip) => windows[ip].count \in 1 .. Max
  BY LiveRow DEF Row
<1> QED
  BY <1>1, LimiterConstants DEF Share, LimiterTypeOK

LEMMA NumbersAre ==
  ASSUME LimiterTypeOK, NEW kinds, NEW t \in Nat
  PROVE  N(history, kinds, t) \in Nat /\ (now < t => N(history, kinds, t) = 0)
<1>1. now \in Nat /\ Good(history) /\ IsFiniteSet(history)
  BY DEF LimiterTypeOK, Good
<1> QED
  BY <1>1, NumberOf, NoneAhead

LEMMA LiveNext ==
  ASSUME LimiterTypeOK', NEW ip \in Ip
  PROVE  Limiter!Live(ip)' <=> windows'[ip] \in Row /\ now' < windows'[ip].resetAt
  BY RowIsNone DEF LimiterTypeOK, Limiter!Live, Limiter!Tracked

\* An address whose window is lost has its quota back, and a loss more.
LEMMA LostPaced ==
  ASSUME LimiterTypeOK, NEW ip \in Ip, NEW t \in Nat, Paced(ip, t),
         now' = now, ~ Limiter!Live(ip)',
         N(history', {ip}, t) = N(history, {ip}, t),
         N(history', Limiter!Loss, t) = N(history, Limiter!Loss, t) + (IF Hit(t) THEN 1 ELSE 0)
  PROVE  Paced(ip, t)'
<1>1. PICK p \in Nat, l \in Nat, s \in 0 .. Max :
        p = N(history, {ip}, t) /\ l = N(history, Limiter!Loss, t) /\ s = Share(ip, t)
  BY NumbersAre, ShareIs
<1>2. p <= Max - 1 + Quotas(l) + s /\ (now < t => p = 0)
  BY <1>1, NumbersAre DEF Paced
<1>3. Share(ip, t)' = IF now >= t + Window THEN Max ELSE 0
  BY DEF Share
<1>4. Quotas(l) \in Nat /\ Quotas(l + 1) = Quotas(l) + Max /\ now \in Nat
  BY QuotasAdd DEF LimiterTypeOK
<1>5. p <= Max - 1 + Quotas(N(history', Limiter!Loss, t)) + Share(ip, t)'
  <2>1. CASE now >= t + Window
    <3>1. Share(ip, t) = Max /\ ~ Hit(t)
      BY <2>1, <1>4, LimiterConstants DEF Share, Hit
    <3> QED
      BY <1>1, <1>2, <1>3, <1>4, <2>1, <3>1
  <2>2. CASE t <= now /\ now < t + Window
    <3>1. N(history', Limiter!Loss, t) = l + 1
      BY <1>1, <2>2 DEF Hit
    <3> QED
      BY <1>2, <1>3, <1>4, <2>2, <3>1, LimiterConstants
  <2>3. CASE now < t
    <3>1. N(history', Limiter!Loss, t) = l
      BY <1>1, <1>4, <2>3 DEF Hit
    <3> QED
      BY <1>2, <1>3, <1>4, <2>3, <3>1, LimiterConstants
  <2> QED
    BY <1>4, <2>1, <2>2, <2>3, LimiterConstants
<1> QED
  BY <1>1, <1>5 DEF Paced

\* An address nothing happens to while nothing is lost.
LEMMA LeftPaced ==
  ASSUME LimiterTypeOK, NEW ip \in Ip, NEW t \in Nat, Paced(ip, t),
         now' = now, windows'[ip] = windows[ip],
         Limiter!Live(ip)' <=> Limiter!Live(ip),
         N(history', {ip}, t) = N(history, {ip}, t),
         N(history', Limiter!Loss, t) = N(history, Limiter!Loss, t)
  PROVE  Paced(ip, t)'
<1>1. Share(ip, t)' = Share(ip, t)
  BY DEF Share
<1> QED
  BY <1>1 DEF Paced

\* An address that opens a window.
LEMMA OpenedPaced ==
  ASSUME LimiterTypeOK, NEW ip \in Ip, NEW t \in Nat, Paced(ip, t),
         now' = now, ~ Limiter!Live(ip), windows'[ip] = Limiter!Fresh, Limiter!Live(ip)',
         N(history', {ip}, t) = N(history, {ip}, t) + (IF Hit(t) THEN 1 ELSE 0),
         \/ N(history', Limiter!Loss, t) = N(history, Limiter!Loss, t)
         \/ N(history', Limiter!Loss, t) = N(history, Limiter!Loss, t) + 1
  PROVE  Paced(ip, t)'
<1>1. PICK p \in Nat, l \in Nat, s \in 0 .. Max :
        p = N(history, {ip}, t) /\ l = N(history, Limiter!Loss, t) /\ s = Share(ip, t)
  BY NumbersAre, ShareIs
<1>2. p <= Max - 1 + Quotas(l) + s /\ (now < t => p = 0)
  BY <1>1, NumbersAre DEF Paced
<1>3. /\ Share(ip, t)' = IF now >= t + Window THEN Max ELSE 1
      /\ s = IF now >= t + Window THEN Max ELSE 0
      /\ windows'[ip].count = 1 /\ windows'[ip].resetAt = now + Window
  BY <1>1, FreshIsRow DEF Share, LimiterTypeOK
<1>4. Quotas(l) \in Nat /\ Quotas(l + 1) = Quotas(l) + Max /\ now \in Nat
  BY QuotasAdd DEF LimiterTypeOK
<1>5. PICK q \in Nat, m \in Nat :
        /\ q = N(history', {ip}, t) /\ m = N(history', Limiter!Loss, t)
        /\ m = l \/ m = l + 1
        /\ q = IF Hit(t) THEN p + 1 ELSE p
  BY <1>1
<1>6. Quotas(m) \in Nat /\ Quotas(m) >= Quotas(l)
  BY <1>4, <1>5, LimiterConstants
<1>7. q <= Max - 1 + Quotas(m) + Share(ip, t)'
  <2>1. CASE Hit(t)
    BY <1>2, <1>3, <1>4, <1>5, <1>6, <2>1, LimiterConstants DEF Hit
  <2>2. CASE ~ Hit(t)
    BY <1>2, <1>3, <1>4, <1>5, <1>6, <2>2, LimiterConstants DEF Hit
  <2> QED
    BY <2>1, <2>2
<1>8. now < t + Window /\ windows'[ip].resetAt < t + Window => q <= windows'[ip].count - 1
  <2>1. now + Window < t + Window => now < t
    BY <1>4, LimiterConstants
  <2>2. now < t => q = 0
    BY <1>2, <1>4, <1>5 DEF Hit
  <2> QED
    BY <1>3, <2>1, <2>2
<1> QED
  BY <1>5, <1>7, <1>8 DEF Paced

\* An address that is let through within its window.
LEMMA CountedPaced ==
  ASSUME LimiterTypeOK, NEW ip \in Ip, NEW t \in Nat, Paced(ip, t),
         now' = now, Limiter!Live(ip), Limiter!Live(ip)',
         windows'[ip].count = windows[ip].count + 1, windows'[ip].count <= Max,
         windows'[ip].resetAt = windows[ip].resetAt,
         N(history', {ip}, t) = N(history, {ip}, t) + (IF Hit(t) THEN 1 ELSE 0),
         N(history', Limiter!Loss, t) = N(history, Limiter!Loss, t)
  PROVE  Paced(ip, t)'
<1>1. PICK p \in Nat, l \in Nat, c \in 1 .. Max, r \in Nat :
        /\ p = N(history, {ip}, t) /\ l = N(history, Limiter!Loss, t)
        /\ c = windows[ip].count /\ r = windows[ip].resetAt
  BY NumbersAre, LiveRow DEF Row
<1>2. /\ p <= Max - 1 + Quotas(l) + (IF now >= t + Window THEN Max ELSE c)
      /\ now < t + Window /\ r < t + Window => p <= c - 1
      /\ now < t => p = 0
  BY <1>1, NumbersAre DEF Paced, Share
<1>3. Share(ip, t)' = IF now >= t + Window THEN Max ELSE c + 1
  BY <1>1 DEF Share
<1>4. Quotas(l) \in Nat /\ now \in Nat
  BY QuotasAdd DEF LimiterTypeOK
<1>5. PICK q \in Nat : q = N(history', {ip}, t) /\ q = IF Hit(t) THEN p + 1 ELSE p
  BY <1>1
<1>6. q <= Max - 1 + Quotas(l) + Share(ip, t)'
  BY <1>1, <1>2, <1>3, <1>4, <1>5, LimiterConstants DEF Hit
<1>7. now < t + Window /\ r < t + Window => q <= c + 1 - 1
  BY <1>1, <1>2, <1>4, <1>5, LimiterConstants DEF Hit
<1> QED
  BY <1>1, <1>5, <1>6, <1>7 DEF Paced

LEMMA TickPaced ==
  ASSUME LimiterTypeOK, LimiterTypeOK', NEW ip \in Ip, NEW t \in Nat, Paced(ip, t),
         now' = now + 1, windows' = windows, history' = history
  PROVE  Paced(ip, t)'
<1>1. PICK p \in Nat, l \in Nat, s \in 0 .. Max :
        p = N(history, {ip}, t) /\ l = N(history, Limiter!Loss, t) /\ s = Share(ip, t)
  BY NumbersAre, ShareIs
<1>2. p <= Max - 1 + Quotas(l) + s
  BY <1>1 DEF Paced
<1>3. p = N(history', {ip}, t) /\ l = N(history', Limiter!Loss, t)
  BY <1>1
<1>4. Quotas(l) \in Nat /\ now \in Nat
  BY QuotasAdd DEF LimiterTypeOK
<1>5. Limiter!Live(ip)' => Limiter!Live(ip)
  BY <1>4, LiveRow, LiveNext DEF Row
<1>6. p <= Max - 1 + Quotas(l) + Share(ip, t)'
  <2>1. CASE now + 1 >= t + Window
    <3>1. Share(ip, t)' = Max
      BY <2>1 DEF Share
    <3> QED
      BY <1>2, <1>4, <3>1, LimiterConstants
  <2>2. CASE now + 1 < t + Window /\ (Limiter!Live(ip)' <=> Limiter!Live(ip))
    <3>1. Share(ip, t)' = s
      BY <1>1, <1>4, <2>2, LimiterConstants DEF Share
    <3> QED
      BY <1>2, <3>1
  <2>3. CASE now + 1 < t + Window /\ Limiter!Live(ip) /\ ~ Limiter!Live(ip)'
    <3>1. windows[ip] \in Row /\ now < windows[ip].resetAt /\ ~ (now + 1 < windows[ip].resetAt)
      BY <2>3, LiveRow, LiveNext
    <3>2. windows[ip].resetAt < t + Window /\ now < t + Window /\ windows[ip].count <= Max
      BY <1>4, <2>3, <3>1, LimiterConstants DEF Row
    <3>3. p <= windows[ip].count - 1 /\ windows[ip].count \in Nat
      BY <1>1, <2>3, <3>1, <3>2, LimiterConstants DEF Paced, Row
    <3>4. Share(ip, t)' \in Nat
      BY <2>3, LimiterConstants DEF Share
    <3> QED
      BY <1>4, <3>2, <3>3, <3>4, LimiterConstants
  <2> QED
    BY <1>4, <1>5, <2>1, <2>2, <2>3, LimiterConstants
<1>7. Limiter!Live(ip)' /\ now' < t + Window /\ windows'[ip].resetAt < t + Window =>
        p <= windows'[ip].count - 1
  <2>1. now + 1 < t + Window => now < t + Window
    BY <1>4, LimiterConstants
  <2> QED
    BY <1>1, <1>5, <2>1 DEF Paced
<1> QED
  BY <1>3, <1>6, <1>7 DEF Paced

\* The table grows by a request at most, and shrinks for nothing.
LEMMA KeptFilled ==
  ASSUME LimiterTypeOK, LimiterTypeOK', NEW t \in Nat, Filled(t), now' = now,
         N(history', {"cleared"}, t) = N(history, {"cleared"}, t),
         N(history', Ip, t) \in Nat,
         \/ /\ N(history', Ip, t) >= N(history, Ip, t)
            /\ Cardinality(Limiter!Tracked') <= Cardinality(Limiter!Tracked)
         \/ /\ N(history', Ip, t) = N(history, Ip, t) + (IF Hit(t) THEN 1 ELSE 0)
            /\ Cardinality(Limiter!Tracked') <= Cardinality(Limiter!Tracked) + 1
  PROVE  Filled(t)'
<1>1. PICK c \in Nat, a \in Nat, b \in Nat, n \in Nat, m \in Nat :
        /\ c = N(history, {"cleared"}, t) /\ a = N(history, Ip, t) /\ b = N(history', Ip, t)
        /\ n = Cardinality(Limiter!Tracked) /\ m = Cardinality(Limiter!Tracked')
  BY NumbersAre, FS_CardinalityType DEF LimiterTypeOK
<1>2. c > 0 => a > Refills(c - 1) /\ (now < t + Window => a >= Refills(c - 1) + n)
  BY <1>1, Counts DEF Filled
<1>3. now < t => c = 0
  BY <1>1, NumbersAre
<1>4. c > 0 => Refills(c - 1) \in Nat
  BY RefillsAdd
<1>5. \/ b >= a /\ m <= n
      \/ b = a + (IF Hit(t) THEN 1 ELSE 0) /\ m <= n + 1
  BY <1>1
<1>6. c > 0 => b > Refills(c - 1) /\ (now < t + Window => b >= Refills(c - 1) + m)
  <2> SUFFICES ASSUME c > 0 PROVE b > Refills(c - 1) /\ (now < t + Window => b >= Refills(c - 1) + m)
    OBVIOUS
  <2>1. now \in Nat /\ t <= now
    BY <1>3 DEF LimiterTypeOK
  <2>2. PICK f \in Nat : f = Refills(c - 1)
    BY <1>4
  <2>3. a > f /\ (now < t + Window => a >= f + n)
    BY <1>2, <2>2
  <2>4. b > f /\ (now < t + Window => b >= f + m)
    BY <1>5, <2>1, <2>3, LimiterConstants DEF Hit
  <2> QED
    BY <2>2, <2>4
<1> QED
  BY <1>1, <1>6, Counts DEF Filled

\* A clearing, of a table that has outgrown its bound.
LEMMA ClearedFilled ==
  ASSUME LimiterTypeOK, NEW t \in Nat, Filled(t), now' = now,
         Cardinality(Limiter!Tracked) >= MaxWindows + 1,
         Cardinality(Limiter!Tracked') = 1,
         N(history', {"cleared"}, t) = N(history, {"cleared"}, t) + (IF Hit(t) THEN 1 ELSE 0),
         N(history', Ip, t) = N(history, Ip, t) + (IF Hit(t) THEN 1 ELSE 0)
  PROVE  Filled(t)'
<1>1. PICK c \in Nat, a \in Nat, n \in Nat :
        /\ c = N(history, {"cleared"}, t) /\ a = N(history, Ip, t)
        /\ n = Cardinality(Limiter!Tracked)
  BY NumbersAre, FS_CardinalityType DEF LimiterTypeOK
<1>2. c > 0 => a > Refills(c - 1) /\ (now < t + Window => a >= Refills(c - 1) + n)
  BY <1>1, Counts DEF Filled
<1>3. now \in Nat /\ (now < t => c = 0)
  BY <1>1, NumbersAre DEF LimiterTypeOK
<1>4. CASE Hit(t)
  <2>1. a + 1 > Refills(c)
    <3>1. CASE c = 0
      BY <3>1, RefillsAdd
    <3>2. CASE c > 0
      <4>1. c - 1 \in Nat /\ (c - 1) + 1 = c
        BY <3>2
      <4>2. Refills(c) = Refills(c - 1) + MaxWindows + 1 /\ Refills(c - 1) \in Nat
        BY <4>1, RefillsAdd
      <4>3. a >= Refills(c - 1) + n
        BY <1>2, <1>4, <3>2 DEF Hit
      <4> QED
        BY <1>1, <4>2, <4>3, LimiterConstants
    <3> QED
      BY <3>1, <3>2
  <2>2. N(history', {"cleared"}, t) = c + 1 /\ N(history', Ip, t) = a + 1
    BY <1>1, <1>4
  <2>3. (c + 1) - 1 = c /\ Refills(c) \in Nat
    BY RefillsAdd
  <2>4. a + 1 >= Refills(c) + 1
    BY <2>1, <2>3
  <2> QED
    BY <2>1, <2>2, <2>3, <2>4, Counts DEF Filled
<1>5. CASE ~ Hit(t)
  <2>1. N(history', {"cleared"}, t) = c /\ N(history', Ip, t) = a
    BY <1>1, <1>5
  <2>2. now < t + Window => c = 0
    BY <1>3, <1>5 DEF Hit
  <2> QED
    BY <1>1, <1>2, <2>1, <2>2, Counts DEF Filled
<1> QED
  BY <1>4, <1>5

LEMMA LimiterInit == Limiter!Init => LimiterInv
<1> SUFFICES ASSUME Limiter!Init PROVE LimiterInv
  OBVIOUS
<1>1. /\ now = 0 /\ windows = [ip \in Ip |-> Limiter!NoWindow] /\ history = {}
      /\ Limiter!Tracked = {}
  BY DEF Limiter!Init, Limiter!Tracked
<1>2. LimiterTypeOK
  BY <1>1, FS_EmptySet DEF LimiterTypeOK, Good
<1>3. \A kinds : \A t : N(history, kinds, t) = 0
  BY <1>1, FS_EmptySet DEF N, In
<1>4. \A ip \in Ip : ~ Limiter!Live(ip)
  BY <1>1 DEF Limiter!Live
<1>5. ASSUME NEW t \in Nat, NEW ip \in Ip PROVE Paced(ip, t)
  <2>1. Quotas(0) \in Nat /\ Share(ip, t) \in 0 .. Max
    BY <1>2, QuotasAdd, ShareIs
  <2> QED
    BY <1>3, <1>4, <2>1, LimiterConstants DEF Paced
<1> QED
  BY <1>2, <1>3, <1>5 DEF LimiterInv, Filled

LEMMA LimiterOpens ==
  ASSUME LimiterInv, NEW ip \in Ip, Limiter!OpenWindow(ip)
  PROVE  LimiterInv'
<1>1. LimiterTypeOK /\ \A t \in Nat : Filled(t) /\ \A j \in Ip : Paced(j, t)
  BY DEF LimiterInv
<1>2. now' = now /\ now \in Nat /\ ~ Limiter!Live(ip) /\ windows'[ip] = Limiter!Fresh
  BY <1>1 DEF Limiter!OpenWindow, LimiterTypeOK
<1>3. Limiter!Fresh \in Row /\ Limiter!Fresh.resetAt = now + Window
  BY <1>2, FreshIsRow
<1>4. CASE Limiter!Outgrown /\ history' = history \cup {Limiter!Now("cleared"), Limiter!Now(ip)}
             /\ windows' = [j \in Ip |-> IF j = ip THEN Limiter!Fresh ELSE Limiter!NoWindow]
  <2>1. /\ Good(history)'
        /\ \A kinds : \A t \in Nat :
             /\ N(history, kinds, t) \in Nat
             /\ N(history', kinds, t) =
                  N(history, kinds, t) + One("cleared", kinds, t) + One(ip, kinds, t)
    BY <1>1, <1>2, <1>4, ClearedHere
  <2>2. Limiter!Tracked' = {ip} /\ Cardinality({ip}) = 1 /\ IsFiniteSet({ip})
    BY <1>3, <1>4, RowIsNone, FS_Singleton DEF Limiter!Tracked
  <2>3. LimiterTypeOK'
    <3>1. windows' = [j \in Ip |-> windows'[j]] /\ IsFiniteSet(Limiter!Tracked)'
      BY <1>4, <2>2
    <3>2. ASSUME NEW j \in Ip
          PROVE  \/ windows'[j] = Limiter!NoWindow
                 \/ windows'[j] \in Row /\ windows'[j].resetAt <= now' + Window
      <4>1. CASE j = ip
        BY <1>2, <1>3, <4>1, LimiterConstants
      <4>2. CASE j # ip
        BY <1>4, <4>2
      <4> QED
        BY <4>1, <4>2
    <3> QED
      BY <1>2, <2>1, <3>1, <3>2 DEF LimiterTypeOK
  <2>4. Limiter!Live(ip)' /\ \A j \in Ip \ {ip} : ~ Limiter!Live(j)'
    <3>1. windows'[ip] \in Row /\ now' < windows'[ip].resetAt
      BY <1>2, <1>3, LimiterConstants
    <3>2. \A j \in Ip \ {ip} : j \notin Limiter!Tracked'
      BY <2>2
    <3> QED
      BY <2>3, <3>1, <3>2, LiveNext DEF Limiter!Live
  <2>5. ASSUME NEW t \in Nat
        PROVE  LET one == IF Hit(t) THEN 1 ELSE 0
               IN /\ N(history', {"cleared"}, t) = N(history, {"cleared"}, t) + one
                  /\ N(history', Limiter!Loss, t) = N(history, Limiter!Loss, t) + one
                  /\ N(history', Ip, t) = N(history, Ip, t) + one
                  /\ N(history', {ip}, t) = N(history, {ip}, t) + one
                  /\ \A j \in Ip \ {ip} : N(history', {j}, t) = N(history, {j}, t)
    <3>1. \A w, kinds : One(w, kinds, t) = IF w \in kinds THEN (IF Hit(t) THEN 1 ELSE 0) ELSE 0
      BY DEF One
    <3>2. /\ "cleared" \in Limiter!Loss /\ ip \notin Limiter!Loss
          /\ "cleared" \notin Ip /\ ip # "cleared"
      BY LimiterConstants DEF Limiter!Loss
    <3>3. \A kinds : N(history, kinds, t) \in Nat
      BY <2>1
    <3>4. N(history', {"cleared"}, t) = N(history, {"cleared"}, t) + (IF Hit(t) THEN 1 ELSE 0)
      BY <2>1, <3>1, <3>2, <3>3
    <3>5. N(history', Limiter!Loss, t) = N(history, Limiter!Loss, t) + (IF Hit(t) THEN 1 ELSE 0)
      BY <2>1, <3>1, <3>2, <3>3
    <3>6. N(history', Ip, t) = N(history, Ip, t) + (IF Hit(t) THEN 1 ELSE 0)
      BY <2>1, <3>1, <3>2, <3>3
    <3>7. N(history', {ip}, t) = N(history, {ip}, t) + (IF Hit(t) THEN 1 ELSE 0)
      BY <2>1, <3>1, <3>2, <3>3
    <3>8. ASSUME NEW j \in Ip \ {ip} PROVE N(history', {j}, t) = N(history, {j}, t)
      <4>1. "cleared" \notin {j} /\ ip \notin {j}
        BY <3>2
      <4> QED
        BY <2>1, <3>1, <3>3, <4>1
    <3> QED
      BY <3>4, <3>5, <3>6, <3>7, <3>8
  <2>6. ASSUME NEW t \in Nat PROVE Filled(t)'
    <3>1. Cardinality(Limiter!Tracked) >= MaxWindows + 1
      <4>1. Cardinality(Limiter!Tracked) \in Nat
        BY <1>1, FS_CardinalityType DEF LimiterTypeOK
      <4> QED
        BY <1>4, <4>1, Counts, LimiterConstants DEF Limiter!Outgrown
    <3>2. Cardinality(Limiter!Tracked') = 1
      BY <2>2
    <3> QED
      BY <1>1, <1>2, <2>5, <3>1, <3>2, ClearedFilled
  <2>7. ASSUME NEW t \in Nat PROVE Paced(ip, t)'
    <3>1. \/ N(history', Limiter!Loss, t) = N(history, Limiter!Loss, t)
          \/ N(history', Limiter!Loss, t) = N(history, Limiter!Loss, t) + 1
      BY <2>1, <2>5
    <3> QED
      BY <1>1, <1>2, <2>4, <2>5, <3>1, OpenedPaced
  <2>8. ASSUME NEW t \in Nat, NEW j \in Ip \ {ip} PROVE Paced(j, t)'
    BY <1>1, <1>2, <2>4, <2>5, LostPaced
  <2> QED
    BY <2>3, <2>6, <2>7, <2>8 DEF LimiterInv
<1>5. CASE history' = history \cup {Limiter!Now(ip)}
             /\ windows' = [windows EXCEPT ![ip] = Limiter!Fresh]
  <2>1. /\ Good(history)'
        /\ \A kinds : \A t \in Nat :
             /\ N(history, kinds, t) \in Nat
             /\ N(history', kinds, t) = N(history, kinds, t) + One(ip, kinds, t)
    BY <1>1, <1>2, <1>5, AddedHere
  <2>2. /\ windows' = [j \in Ip |-> windows'[j]]
        /\ \A j \in Ip \ {ip} : windows'[j] = windows[j]
    BY <1>1, <1>5 DEF LimiterTypeOK
  <2>3. /\ Limiter!Tracked' \in SUBSET (Limiter!Tracked \cup {ip})
        /\ IsFiniteSet(Limiter!Tracked')
        /\ Cardinality(Limiter!Tracked') <= Cardinality(Limiter!Tracked) + 1
    <3>1. Limiter!Tracked' \in SUBSET (Limiter!Tracked \cup {ip})
      BY <2>2 DEF Limiter!Tracked
    <3>2. PICK T : T = Limiter!Tracked
      OBVIOUS
    <3>3. IsFiniteSet(T) /\ Cardinality(T) \in Nat
      BY <1>1, <3>2, FS_CardinalityType DEF LimiterTypeOK
    <3>4. IsFiniteSet(T \cup {ip}) /\ Cardinality(T \cup {ip}) <= Cardinality(T) + 1
      <4>1. IsFiniteSet(T \cup {ip})
        BY <3>3, FS_AddElement
      <4>2. Cardinality(T \cup {ip}) = Cardinality(T) \/ Cardinality(T \cup {ip}) = Cardinality(T) + 1
        BY <3>3, FS_AddElement
      <4> QED
        BY <3>3, <4>1, <4>2
    <3>5. PICK U : U = Limiter!Tracked'
      OBVIOUS
    <3>6. U \in SUBSET (T \cup {ip})
      BY <3>1, <3>2, <3>5
    <3>7. IsFiniteSet(U) /\ Cardinality(U) <= Cardinality(T \cup {ip}) /\ Cardinality(U) \in Nat
      BY <3>4, <3>6, FS_Subset, FS_CardinalityType
    <3>8. Cardinality(T \cup {ip}) \in Nat
      BY <3>4, FS_CardinalityType
    <3> QED
      BY <3>1, <3>2, <3>3, <3>4, <3>5, <3>7, <3>8
  <2>4. LimiterTypeOK'
    <3>1. ASSUME NEW j \in Ip
          PROVE  \/ windows'[j] = Limiter!NoWindow
                 \/ windows'[j] \in Row /\ windows'[j].resetAt <= now' + Window
      <4>1. CASE j = ip
        BY <1>2, <1>3, <4>1, LimiterConstants
      <4>2. CASE j # ip
        BY <1>1, <1>2, <2>2, <4>2 DEF LimiterTypeOK
      <4> QED
        BY <4>1, <4>2
    <3>2. IsFiniteSet(Limiter!Tracked)' /\ now' \in Nat
      BY <1>2, <2>3
    <3> QED
      BY <2>1, <2>2, <3>1, <3>2 DEF LimiterTypeOK
  <2>5. Limiter!Live(ip)' /\ \A j \in Ip \ {ip} : Limiter!Live(j)' <=> Limiter!Live(j)
    <3>1. windows'[ip] \in Row /\ now' < windows'[ip].resetAt
      BY <1>2, <1>3, LimiterConstants
    <3> QED
      BY <1>1, <1>2, <2>2, <2>4, <3>1, LiveNext, LiveRow
  <2>6. ASSUME NEW t \in Nat
        PROVE  LET one == IF Hit(t) THEN 1 ELSE 0
               IN /\ N(history', {"cleared"}, t) = N(history, {"cleared"}, t)
                  /\ N(history', Limiter!Loss, t) = N(history, Limiter!Loss, t)
                  /\ N(history', Ip, t) = N(history, Ip, t) + one
                  /\ N(history', {ip}, t) = N(history, {ip}, t) + one
                  /\ \A j \in Ip \ {ip} : N(history', {j}, t) = N(history, {j}, t)
    BY <2>1, OneOfAddress
  <2>7. ASSUME NEW t \in Nat PROVE Filled(t)'
    <3>1. N(history', Ip, t) \in Nat
      BY <2>1, <2>6
    <3> QED
      BY <1>1, <1>2, <2>3, <2>4, <2>6, <3>1, KeptFilled
  <2>8. ASSUME NEW t \in Nat PROVE Paced(ip, t)'
    BY <1>1, <1>2, <2>5, <2>6, OpenedPaced
  <2>9. ASSUME NEW t \in Nat, NEW j \in Ip \ {ip} PROVE Paced(j, t)'
    BY <1>1, <1>2, <2>2, <2>5, <2>6, LeftPaced
  <2> QED
    BY <2>4, <2>7, <2>8, <2>9 DEF LimiterInv
<1> QED
  BY <1>4, <1>5 DEF Limiter!OpenWindow

LEMMA LimiterCounts ==
  ASSUME LimiterInv, NEW ip \in Ip, Limiter!CountAllowed(ip)
  PROVE  LimiterInv'
<1>1. LimiterTypeOK /\ \A t \in Nat : Filled(t) /\ \A j \in Ip : Paced(j, t)
  BY DEF LimiterInv
<1>2. /\ now' = now /\ now \in Nat /\ Limiter!Live(ip) /\ windows[ip].count < Max
      /\ windows[ip] \in Row /\ windows[ip].resetAt <= now + Window
      /\ windows' = [windows EXCEPT ![ip].count = @ + 1]
      /\ history' = history \cup {Limiter!Now(ip)}
  BY <1>1, LiveRow, RowIsNone DEF Limiter!CountAllowed, LimiterTypeOK
<1>3. PICK old \in Row : old = windows[ip]
  BY <1>2
<1>4. PICK new : new = [old EXCEPT !.count = old.count + 1]
  OBVIOUS
<1>5. new \in Row /\ new.resetAt = old.resetAt /\ new.count = old.count + 1 /\ new.count <= Max
  BY <1>2, <1>3, <1>4, LimiterConstants DEF Row
<1>6. /\ windows'[ip] = new /\ windows' = [j \in Ip |-> windows'[j]]
      /\ \A j \in Ip \ {ip} : windows'[j] = windows[j]
  BY <1>1, <1>2, <1>3, <1>4 DEF LimiterTypeOK
<1>7. /\ Good(history)'
      /\ \A kinds : \A t \in Nat :
           /\ N(history, kinds, t) \in Nat
           /\ N(history', kinds, t) = N(history, kinds, t) + One(ip, kinds, t)
  BY <1>1, <1>2, AddedHere
<1>8. Limiter!Tracked' = Limiter!Tracked
  BY <1>3, <1>5, <1>6, RowIsNone DEF Limiter!Tracked
<1>9. LimiterTypeOK'
  <2>1. ASSUME NEW j \in Ip
        PROVE  \/ windows'[j] = Limiter!NoWindow
               \/ windows'[j] \in Row /\ windows'[j].resetAt <= now' + Window
    <3>1. CASE j = ip
      BY <1>2, <1>3, <1>5, <1>6, <3>1
    <3>2. CASE j # ip
      BY <1>1, <1>2, <1>6, <3>2 DEF LimiterTypeOK
    <3> QED
      BY <3>1, <3>2
  <2>2. IsFiniteSet(Limiter!Tracked)' /\ now' \in Nat
    BY <1>1, <1>2, <1>8 DEF LimiterTypeOK
  <2> QED
    BY <1>6, <1>7, <2>1, <2>2 DEF LimiterTypeOK
<1>10. \A j \in Ip : Limiter!Live(j)' <=> Limiter!Live(j)
  BY <1>1, <1>2, <1>3, <1>5, <1>6, <1>9, LiveNext, LiveRow
<1>11. ASSUME NEW t \in Nat
       PROVE  LET one == IF Hit(t) THEN 1 ELSE 0
              IN /\ N(history', {"cleared"}, t) = N(history, {"cleared"}, t)
                 /\ N(history', Limiter!Loss, t) = N(history, Limiter!Loss, t)
                 /\ N(history', Ip, t) = N(history, Ip, t) + one
                 /\ N(history', {ip}, t) = N(history, {ip}, t) + one
                 /\ \A j \in Ip \ {ip} : N(history', {j}, t) = N(history, {j}, t)
  BY <1>7, OneOfAddress
<1>12. ASSUME NEW t \in Nat PROVE Filled(t)'
  <2>1. N(history', Ip, t) \in Nat /\ N(history', Ip, t) >= N(history, Ip, t)
    BY <1>7, <1>11
  <2>2. Cardinality(Limiter!Tracked') <= Cardinality(Limiter!Tracked)
    BY <1>1, <1>8, FS_CardinalityType DEF LimiterTypeOK
  <2> QED
    BY <1>1, <1>2, <1>9, <1>11, <2>1, <2>2, KeptFilled
<1>13. ASSUME NEW t \in Nat PROVE Paced(ip, t)'
  BY <1>1, <1>2, <1>3, <1>5, <1>6, <1>10, <1>11, CountedPaced
<1>14. ASSUME NEW t \in Nat, NEW j \in Ip \ {ip} PROVE Paced(j, t)'
  BY <1>1, <1>2, <1>6, <1>10, <1>11, LeftPaced
<1> QED
  BY <1>9, <1>12, <1>13, <1>14 DEF LimiterInv

LEMMA LimiterRestarts ==
  ASSUME LimiterInv, Limiter!Restart
  PROVE  LimiterInv'
<1>1. LimiterTypeOK /\ \A t \in Nat : Filled(t) /\ \A j \in Ip : Paced(j, t)
  BY DEF LimiterInv
<1>2. /\ now' = now /\ now \in Nat /\ windows' = [j \in Ip |-> Limiter!NoWindow]
      /\ history' = history \cup {Limiter!Now("restarted")}
  BY <1>1 DEF Limiter!Restart, LimiterTypeOK
<1>3. /\ Good(history)'
      /\ \A kinds : \A t \in Nat :
           /\ N(history, kinds, t) \in Nat
           /\ N(history', kinds, t) = N(history, kinds, t) + One("restarted", kinds, t)
  BY <1>1, <1>2, AddedHere
<1>4. Limiter!Tracked' = {} /\ IsFiniteSet({}) /\ Cardinality({}) = 0
  BY <1>2, FS_EmptySet DEF Limiter!Tracked
<1>5. LimiterTypeOK'
  BY <1>2, <1>3, <1>4 DEF LimiterTypeOK
<1>6. \A j \in Ip : ~ Limiter!Live(j)'
  BY <1>4 DEF Limiter!Live
<1>7. ASSUME NEW t \in Nat
      PROVE  /\ N(history', {"cleared"}, t) = N(history, {"cleared"}, t)
             /\ N(history', Limiter!Loss, t) =
                  N(history, Limiter!Loss, t) + (IF Hit(t) THEN 1 ELSE 0)
             /\ N(history', Ip, t) = N(history, Ip, t)
             /\ \A j \in Ip : N(history', {j}, t) = N(history, {j}, t)
  <2>1. \A kinds : One("restarted", kinds, t) =
          IF "restarted" \in kinds THEN (IF Hit(t) THEN 1 ELSE 0) ELSE 0
    BY DEF One
  <2>2. "restarted" \in Limiter!Loss /\ "restarted" \notin {"cleared"} /\ "restarted" \notin Ip
    BY LimiterConstants DEF Limiter!Loss
  <2>3. N(history', {"cleared"}, t) = N(history, {"cleared"}, t)
    BY <1>3, <2>1, <2>2
  <2>4. N(history', Limiter!Loss, t) = N(history, Limiter!Loss, t) + (IF Hit(t) THEN 1 ELSE 0)
    BY <1>3, <2>1, <2>2
  <2>5. N(history', Ip, t) = N(history, Ip, t)
    BY <1>3, <2>1, <2>2
  <2>6. ASSUME NEW j \in Ip PROVE N(history', {j}, t) = N(history, {j}, t)
    <3>1. "restarted" \notin {j}
      BY <2>2
    <3> QED
      BY <1>3, <2>1, <3>1
  <2> QED
    BY <2>3, <2>4, <2>5, <2>6
<1>8. ASSUME NEW t \in Nat PROVE Filled(t)'
  <2>1. N(history', Ip, t) \in Nat /\ N(history', Ip, t) >= N(history, Ip, t)
    BY <1>3, <1>7
  <2>2. Cardinality(Limiter!Tracked') <= Cardinality(Limiter!Tracked)
    BY <1>1, <1>4, FS_CardinalityType DEF LimiterTypeOK
  <2> QED
    BY <1>1, <1>2, <1>5, <1>7, <2>1, <2>2, KeptFilled
<1>9. ASSUME NEW t \in Nat, NEW j \in Ip PROVE Paced(j, t)'
  BY <1>1, <1>2, <1>6, <1>7, LostPaced
<1> QED
  BY <1>5, <1>8, <1>9 DEF LimiterInv

LEMMA LimiterTicks ==
  ASSUME LimiterInv, Limiter!Tick
  PROVE  LimiterInv'
<1>1. LimiterTypeOK /\ \A t \in Nat : Filled(t) /\ \A j \in Ip : Paced(j, t)
  BY DEF LimiterInv
<1>2. now' = now + 1 /\ now \in Nat /\ windows' = windows /\ history' = history
  BY <1>1 DEF Limiter!Tick, LimiterTypeOK
<1>3. Limiter!Tracked' = Limiter!Tracked
  BY <1>2 DEF Limiter!Tracked
<1>4. LimiterTypeOK'
  <2>1. Good(history)'
    BY <1>1, <1>2 DEF LimiterTypeOK, Good
  <2>2. ASSUME NEW j \in Ip
        PROVE  \/ windows'[j] = Limiter!NoWindow
               \/ windows'[j] \in Row /\ windows'[j].resetAt <= now' + Window
    BY <1>1, <1>2, LimiterConstants DEF LimiterTypeOK, Row
  <2> QED
    BY <1>1, <1>2, <1>3, <2>1, <2>2 DEF LimiterTypeOK
<1>5. ASSUME NEW t \in Nat PROVE Filled(t)'
  <2>1. now + 1 < t + Window => now < t + Window
    BY <1>2, LimiterConstants
  <2> QED
    BY <1>1, <1>2, <1>3, <2>1 DEF Filled
<1>6. ASSUME NEW t \in Nat, NEW j \in Ip PROVE Paced(j, t)'
  BY <1>1, <1>2, <1>4, TickPaced
<1> QED
  BY <1>4, <1>5, <1>6 DEF LimiterInv

LEMMA LimiterNext ==
  ASSUME LimiterInv, [Limiter!Next]_limiterVars
  PROVE  LimiterInv'
<1>1. CASE UNCHANGED limiterVars
  BY <1>1 DEF limiterVars, LimiterInv, LimiterTypeOK, Good, Filled, Paced, Share, In, N, Nth,
    Limiter!Live, Limiter!Tracked
<1> QED
  BY <1>1, LimiterTicks, LimiterRestarts, LimiterOpens, LimiterCounts DEF Limiter!Next

\* Whatever the limits, and however often the table is cleared or its process
\* replaced: in a stretch as long as a window an address gets less than two quotas and
\* one more for each loss of the table in it, and a table that was cleared is cleared
\* again only after the stretch's requests have filled it past its bound.
THEOREM QuotasHold == SpecParts => []QuotaHolds
<1>1. InitParts => LimiterInv
  BY LimiterInit DEF InitParts
<1>2. LimiterInv /\ [NextParts]_allVars => LimiterInv'
  <2>1. [NextParts]_allVars => [Limiter!Next]_limiterVars
    BY DEF NextParts, NextImport, NextLimiter, NextReads, NextSandbox, allVars, vars, limiterVars
  <2> QED
    BY <2>1, LimiterNext
<1>3. LimiterInv => QuotaHolds
  <2> SUFFICES ASSUME LimiterInv, NEW t \in 0 .. now
               PROVE  Limiter!ClearingsCost(t) /\ \A ip \in Ip : Limiter!Burst(ip, t)
    BY DEF QuotaHolds, Limiter!QuotaHolds
  <2>1. LimiterTypeOK /\ t \in Nat /\ Filled(t) /\ \A ip \in Ip : Paced(ip, t)
    BY DEF LimiterInv, LimiterTypeOK
  <2>2. \A kinds : Limiter!Cardinality(Limiter!Stretch(kinds, t)) = N(history, kinds, t)
    BY Counts DEF Limiter!Stretch, N, In
  <2>3. Limiter!ClearingsCost(t)
    BY <2>1, <2>2 DEF Limiter!ClearingsCost, Filled, Refills
  <2>4. ASSUME NEW ip \in Ip PROVE Limiter!Burst(ip, t)
    <3>1. PICK p \in Nat, l \in Nat, s \in 0 .. Max :
            p = N(history, {ip}, t) /\ l = N(history, Limiter!Loss, t) /\ s = Share(ip, t)
      BY <2>1, NumbersAre, ShareIs
    <3>2. p <= Max - 1 + Quotas(l) + s
      BY <2>1, <3>1 DEF Paced
    <3>3. /\ Quotas(l) \in Nat /\ Quotas(l + 1) = Quotas(l) + Max
          /\ Quotas(l + 2) = Quotas(l + 1) + Max
      BY QuotasAdd
    <3>4. p < Quotas(2 + l)
      BY <3>1, <3>2, <3>3, LimiterConstants
    <3> QED
      BY <2>2, <3>1, <3>4 DEF Limiter!Burst, Quotas
  <2> QED
    BY <2>3, <2>4
<1> QED
  BY <1>1, <1>2, <1>3, PTL DEF SpecParts

-----------------------------------------------------------------------------
(* The public reads *)

Acts == Reads!Act \cup {"genesis"}

ReadsTypeOK == log \in [Thread -> Seq(Acts)]

\* Erasing what is not public changes no answer, whatever the threads say.
LEMMA ErasedAnswers ==
  ASSUME NEW hub, NEW erased, erased = Reads!Erased(hub)
  PROVE  Reads!PublicView(hub) = Reads!PublicView(erased)
<1>1. \A t \in Thread : erased[t] = IF Reads!Readable(hub, t) THEN hub[t] ELSE <<>>
  BY DEF Reads!Erased, Reads!NoThread
<1>2. \A t \in Thread : Reads!Readable(erased, t) <=> Reads!Readable(hub, t)
  BY <1>1 DEF Reads!Readable, Reads!Exists, Reads!IsPublished, Reads!NoThread
<1>3. \A t \in Thread : Reads!Readable(hub, t) => erased[t] = hub[t]
  BY <1>1
<1>4. Reads!Listed(erased) = Reads!Listed(hub)
  BY <1>2 DEF Reads!Listed
<1>5. Reads!ListAnswer(erased) = Reads!ListAnswer(hub)
  <2>1. {h \in Reads!Listed(hub) \X (1 .. MaxLength) : h[2] \in DOMAIN erased[h[1]]}
          = {h \in Reads!Listed(hub) \X (1 .. MaxLength) : h[2] \in DOMAIN hub[h[1]]}
    <3>1. \A h \in Reads!Listed(hub) \X (1 .. MaxLength) : erased[h[1]] = hub[h[1]]
      BY <1>3 DEF Reads!Listed
    <3> QED
      BY <3>1
  <2> QED
    BY <1>4, <2>1 DEF Reads!ListAnswer
<1>6. \A t \in Thread : Reads!ThreadAnswer(erased, t) = Reads!ThreadAnswer(hub, t)
  BY <1>2, <1>3 DEF Reads!ThreadAnswer
<1>7. \A h \in Reads!Hash : Reads!RecordAnswer(erased, h) = Reads!RecordAnswer(hub, h)
  <2> SUFFICES ASSUME NEW h \in Reads!Hash
               PROVE  Reads!RecordAnswer(erased, h) = Reads!RecordAnswer(hub, h)
    OBVIOUS
  <2>1. h[1] \in Thread
    BY DEF Reads!Hash
  <2>2. CASE Reads!Readable(hub, h[1])
    <3>1. erased[h[1]] = hub[h[1]]
      BY <1>3, <2>1, <2>2
    <3> QED
      BY <3>1 DEF Reads!RecordAnswer, Reads!Stored, Reads!IsPublished
  <2>3. CASE ~ Reads!Readable(hub, h[1])
    <3>1. erased[h[1]] = <<>>
      BY <1>1, <2>1, <2>3
    <3>2. ~ Reads!Stored(erased, h)
      BY <3>1 DEF Reads!Stored
    <3>3. ~ (Reads!Stored(hub, h) /\ Reads!IsPublished(hub, h[1]))
      BY <2>3 DEF Reads!Stored, Reads!Readable, Reads!Exists, Reads!NoThread
    <3> QED
      BY <3>2, <3>3 DEF Reads!RecordAnswer
  <2> QED
    BY <2>2, <2>3
<1> QED
  BY <1>5, <1>6, <1>7 DEF Reads!PublicView

\* No answer depends on a thread that is not public, for any number of threads and
\* records.
THEOREM NothingHiddenShows == SpecParts => []Indistinguishable
<1>1. Indistinguishable
  <2>1. PICK erased : erased = Reads!Erased(log)
    OBVIOUS
  <2> QED
    BY <2>1, ErasedAnswers DEF Indistinguishable, Reads!Indistinguishable
<1> QED
  BY <1>1, PTL

LEMMA ReadsNext ==
  ASSUME ReadsTypeOK, [Reads!Next]_log
  PROVE  ReadsTypeOK'
<1>1. ASSUME NEW t \in Thread, Reads!CreateThread(t) PROVE ReadsTypeOK'
  <2>1. <<"genesis">> \in Seq(Acts)
    BY DEF Acts
  <2> QED
    BY <1>1, <2>1 DEF ReadsTypeOK, Reads!CreateThread
<1>2. ASSUME NEW t \in Thread, NEW act \in Reads!Act, Reads!AppendRecord(t, act)
      PROVE  ReadsTypeOK'
  <2>1. Append(log[t], act) \in Seq(Acts)
    BY DEF Acts, ReadsTypeOK
  <2> QED
    BY <1>2, <2>1 DEF ReadsTypeOK, Reads!AppendRecord
<1> QED
  BY <1>1, <1>2 DEF Reads!Next, ReadsTypeOK

\* What is no publication event leaves a published thread published.
LEMMA StaysPublished ==
  ASSUME NEW records \in Seq(Acts), NEW act \in Acts, ~ Reads!IsPublicationEvent(act),
         Reads!EffectivePublication(records)
  PROVE  Reads!EffectivePublication(Append(records, act))
<1>1. PICK n \in DOMAIN records :
        /\ records[n] = "publish"
        /\ \A m \in DOMAIN records : m > n => ~ Reads!IsPublicationEvent(records[m])
  BY DEF Reads!EffectivePublication
<1>2. PICK k \in Nat : k = Len(records) /\ DOMAIN records = 1 .. k
  OBVIOUS
<1>3. PICK longer : longer = Append(records, act)
  OBVIOUS
<1>4. /\ DOMAIN longer = 1 .. (k + 1) /\ longer[k + 1] = act
      /\ \A m \in 1 .. k : longer[m] = records[m]
  BY <1>2, <1>3
<1>5. longer[n] = "publish" /\ n \in DOMAIN longer
  BY <1>1, <1>2, <1>4
<1>6. ASSUME NEW m \in DOMAIN longer, m > n PROVE ~ Reads!IsPublicationEvent(longer[m])
  BY <1>1, <1>2, <1>4, <1>6
<1> QED
  BY <1>3, <1>5, <1>6 DEF Reads!EffectivePublication

LEMMA CitedStep ==
  ASSUME ReadsTypeOK, [Reads!Next]_log, NEW h \in Reads!Hash,
         Reads!RecordAnswer(log, h) # Reads!NotFound
  PROVE  \/ Reads!RecordAnswer(log, h)' = Reads!RecordAnswer(log, h)
         \/ \E act \in Reads!Act : /\ Reads!IsPublicationEvent(act)
                                   /\ log'[h[1]] = Append(log[h[1]], act)
<1>1. /\ h[1] \in Thread /\ Reads!Stored(log, h) /\ Reads!IsPublished(log, h[1])
      /\ log[h[1]] \in Seq(Acts)
  BY DEF Reads!Hash, Reads!RecordAnswer, ReadsTypeOK
<1>2. CASE log'[h[1]] = log[h[1]]
  <2>1. (Reads!Stored(log, h)' <=> Reads!Stored(log, h))
        /\ (Reads!IsPublished(log, h[1])' <=> Reads!IsPublished(log, h[1]))
    BY <1>2 DEF Reads!Stored, Reads!IsPublished
  <2> QED
    BY <2>1 DEF Reads!RecordAnswer
<1>3. ASSUME NEW act \in Reads!Act, log'[h[1]] = Append(log[h[1]], act),
             ~ Reads!IsPublicationEvent(act)
      PROVE  Reads!RecordAnswer(log, h)' = Reads!RecordAnswer(log, h)
  <2>1. Reads!IsPublished(log, h[1])'
    BY <1>1, <1>3, StaysPublished DEF Reads!IsPublished, Acts
  <2>2. Reads!Stored(log, h)'
    <3>1. PICK k \in Nat : k = Len(log[h[1]]) /\ DOMAIN log[h[1]] = 1 .. k
      BY <1>1
    <3>2. /\ DOMAIN log'[h[1]] = 1 .. (k + 1)
          /\ \A m \in 1 .. k : log'[h[1]][m] = log[h[1]][m]
      BY <1>1, <1>3, <3>1
    <3>3. h[2] \in 1 .. k /\ log[h[1]][h[2]] = h[3]
      BY <1>1, <3>1 DEF Reads!Stored
    <3>4. h[2] \in DOMAIN log'[h[1]] /\ log'[h[1]][h[2]] = h[3]
      BY <3>2, <3>3
    <3> QED
      BY <3>4 DEF Reads!Stored
  <2> QED
    BY <1>1, <2>1, <2>2 DEF Reads!RecordAnswer
<1>4. ASSUME NEW t \in Thread, Reads!CreateThread(t) PROVE log'[h[1]] = log[h[1]]
  <2>1. log[h[1]] # <<>>
    BY <1>1 DEF Reads!Stored
  <2> QED
    BY <1>1, <1>4, <2>1 DEF Reads!CreateThread, Reads!Exists, Reads!NoThread, ReadsTypeOK
<1>5. ASSUME NEW t \in Thread, NEW act \in Reads!Act, Reads!AppendRecord(t, act)
      PROVE  log'[h[1]] = log[h[1]] \/ log'[h[1]] = Append(log[h[1]], act)
  BY <1>1, <1>5 DEF Reads!AppendRecord, ReadsTypeOK
<1> QED
  BY <1>2, <1>3, <1>4, <1>5 DEF Reads!Next

\* A public record stays citable until its own thread withdraws it.
THEOREM CitationsHold == SpecParts => CitableUntilWithdrawn
<1>1. InitParts => ReadsTypeOK
  <2>1. <<>> \in Seq(Acts)
    OBVIOUS
  <2> QED
    BY <2>1 DEF InitParts, Reads!Init, Reads!NoThread, ReadsTypeOK
<1>2. [NextParts]_allVars => [Reads!Next]_log
  BY DEF NextParts, NextImport, NextLimiter, NextReads, NextSandbox, allVars
<1>3. ReadsTypeOK /\ [NextParts]_allVars => ReadsTypeOK'
  BY <1>2, ReadsNext
<1>4. ReadsTypeOK /\ [NextParts]_allVars =>
        [\A h \in Reads!Hash :
           Reads!RecordAnswer(log, h) # Reads!NotFound =>
             \/ Reads!RecordAnswer(log, h)' = Reads!RecordAnswer(log, h)
             \/ \E act \in Reads!Act : /\ Reads!IsPublicationEvent(act)
                                       /\ log'[h[1]] = Append(log[h[1]], act)]_log
  BY <1>2, CitedStep
<1> QED
  BY <1>1, <1>3, <1>4, PTL DEF SpecParts, CitableUntilWithdrawn, Reads!CitableUntilWithdrawn

-----------------------------------------------------------------------------
(* The sandbox *)

TryRow == [slug : TrySlug \cup DemoSlug, created_by : Writer, age : Nat]

\* The two records of a try.
Pair(w) == <<[kind |-> "genesis", author |-> w], [kind |-> "ThreadPublished", author |-> w]>>

IsLive(st, t) == st.threads[t] # Box!NoThread

StoreShaped(st) ==
  /\ st = [writers |-> st.writers, threads |-> st.threads, records |-> st.records]
  /\ st.threads = [t \in TryThread |-> st.threads[t]]
  /\ st.records = [t \in TryThread |-> st.records[t]]
  /\ \A t \in TryThread : st.threads[t] = Box!NoThread \/ st.threads[t] \in TryRow

\* A thread, its writer and its records come and go together.
StoreWhole(st) ==
  /\ \A t \in TryThread :
       IF IsLive(st, t)
       THEN /\ st.records[t] = Pair(st.threads[t].created_by)
            /\ st.threads[t].created_by \in st.writers
       ELSE st.records[t] = <<>>
  /\ \A w \in st.writers : \E t \in TryThread : IsLive(st, t) /\ st.threads[t].created_by = w
  /\ \A t, u \in TryThread :
       IsLive(st, t) /\ IsLive(st, u) /\ st.threads[t].created_by = st.threads[u].created_by
         => t = u

StoreOK(st) == StoreShaped(st) /\ StoreWhole(st)

LEMMA NoRow == Box!NoThread \notin TryRow
<1>1. ASSUME Box!NoThread \in TryRow PROVE FALSE
  <2>1. DOMAIN Box!NoThread = {"slug", "created_by", "age"}
    BY <1>1 DEF TryRow
  <2>2. DOMAIN Box!NoThread = {"inserted"}
    BY DEF Box!NoThread
  <2> QED
    BY <2>1, <2>2
<1> QED
  BY <1>1

\* Of two stores of one shape, equal fields make them equal.
LEMMA SameStore ==
  ASSUME NEW st, NEW new, StoreShaped(st), StoreShaped(new), new.writers = st.writers,
         \A t \in TryThread : new.threads[t] = st.threads[t] /\ new.records[t] = st.records[t]
  PROVE  new = st
<1>1. new.threads = st.threads
  BY DEF StoreShaped
<1>2. new.records = st.records
  BY DEF StoreShaped
<1> QED
  BY <1>1, <1>2 DEF StoreShaped

\* The statements of a mint.
LEMMA MintedIs ==
  ASSUME NEW st, StoreShaped(st), NEW t \in TryThread, NEW w \in Writer,
         NEW slug \in TrySlug \cup DemoSlug, st.records[t] = <<>>, NEW n \in 1 .. 4,
         NEW new, new = Box!Minted(st, t, slug, w, n)
  PROVE  /\ StoreShaped(new)
         /\ new.writers = st.writers \cup {w}
         /\ \A u \in TryThread \ {t} :
              new.threads[u] = st.threads[u] /\ new.records[u] = st.records[u]
         /\ n = 1 => new.threads[t] = st.threads[t] /\ new.records[t] = <<>>
         /\ n # 1 => new.threads[t] = [slug |-> slug, created_by |-> w, age |-> 0]
         /\ n = 4 => new.records[t] = Pair(w)
<1>1. PICK s1 : s1 = Box!InsertIdentity(st, w)
  OBVIOUS
<1>2. PICK s2 : s2 = Box!InsertThread(s1, t, slug, w)
  OBVIOUS
<1>3. PICK s3 : s3 = Box!AppendRecord(s2, t, "genesis", w)
  OBVIOUS
<1>4. PICK s4 : s4 = Box!AppendRecord(s3, t, "ThreadPublished", w)
  OBVIOUS
<1>5. PICK row \in TryRow : row = [slug |-> slug, created_by |-> w, age |-> 0]
  BY DEF TryRow
<1>6. /\ StoreShaped(s1) /\ s1.writers = st.writers \cup {w}
      /\ s1.threads = st.threads /\ s1.records = st.records
  BY <1>1 DEF Box!InsertIdentity, StoreShaped
<1>7. /\ StoreShaped(s2) /\ s2.writers = s1.writers /\ s2.records = s1.records
      /\ s2.threads = [st.threads EXCEPT ![t] = row] /\ s2.threads[t] = row
      /\ \A u \in TryThread \ {t} : s2.threads[u] = st.threads[u]
  <2>1. s2 = [s1 EXCEPT !.threads = [s1.threads EXCEPT ![t] = row]]
    BY <1>2, <1>5 DEF Box!InsertThread
  <2>2. PICK threads : threads = [s1.threads EXCEPT ![t] = row]
    OBVIOUS
  <2>3. /\ threads = [u \in TryThread |-> threads[u]] /\ threads[t] = row
        /\ \A u \in TryThread \ {t} : threads[u] = st.threads[u]
    BY <1>6, <2>2 DEF StoreShaped
  <2>4. s2 = [writers |-> s1.writers, threads |-> threads, records |-> s1.records]
    BY <1>6, <2>1, <2>2 DEF StoreShaped
  <2>5. s2.writers = s1.writers /\ s2.threads = threads /\ s2.records = s1.records
    BY <2>4
  <2> QED
    BY <1>5, <1>6, <2>2, <2>3, <2>4, <2>5 DEF StoreShaped
<1>8. ASSUME NEW kind, NEW old, StoreShaped(old), NEW next, next = Box!AppendRecord(old, t, kind, w)
      PROVE  /\ StoreShaped(next) /\ next.writers = old.writers /\ next.threads = old.threads
             /\ next.records[t] = Append(old.records[t], [kind |-> kind, author |-> w])
             /\ \A u \in TryThread \ {t} : next.records[u] = old.records[u]
  <2>1. PICK records : records = [old.records EXCEPT ![t] = Append(@, [kind |-> kind, author |-> w])]
    OBVIOUS
  <2>2. /\ records = [u \in TryThread |-> records[u]]
        /\ records[t] = Append(old.records[t], [kind |-> kind, author |-> w])
        /\ \A u \in TryThread \ {t} : records[u] = old.records[u]
    BY <1>8, <2>1 DEF StoreShaped
  <2>3. next = [writers |-> old.writers, threads |-> old.threads, records |-> records]
    BY <1>8, <2>1 DEF StoreShaped, Box!AppendRecord
  <2>4. next.writers = old.writers /\ next.threads = old.threads /\ next.records = records
    BY <2>3
  <2> QED
    BY <1>8, <2>2, <2>3, <2>4 DEF StoreShaped
<1>9. /\ StoreShaped(s3) /\ s3.writers = s1.writers /\ s3.threads = s2.threads
      /\ s3.records[t] = <<[kind |-> "genesis", author |-> w]>>
      /\ \A u \in TryThread \ {t} : s3.records[u] = st.records[u]
  BY <1>3, <1>6, <1>7, <1>8
<1>10. /\ StoreShaped(s4) /\ s4.writers = s1.writers /\ s4.threads = s2.threads
       /\ s4.records[t] = Pair(w)
       /\ \A u \in TryThread \ {t} : s4.records[u] = st.records[u]
  <2>1. PICK g : g = [kind |-> "genesis", author |-> w]
    OBVIOUS
  <2>2. PICK p : p = [kind |-> "ThreadPublished", author |-> w]
    OBVIOUS
  <2>3. /\ StoreShaped(s4) /\ s4.writers = s3.writers /\ s4.threads = s3.threads
        /\ s4.records[t] = Append(s3.records[t], [kind |-> "ThreadPublished", author |-> w])
        /\ \A u \in TryThread \ {t} : s4.records[u] = s3.records[u]
    <3>1. StoreShaped(s3)
      BY <1>9
    <3> QED
      BY <1>4, <1>8, <3>1
  <2>4. s3.records[t] = <<g>> /\ Pair(w) = <<g, p>>
    BY <1>9, <2>1, <2>2 DEF Pair
  <2>5. Append(<<g>>, p) = <<g, p>>
    <3>0. <<g>> \in Seq({g, p}) /\ <<g, p>> \in Seq({g, p})
      OBVIOUS
    <3>1. PICK one \in Seq({g, p}) : one = <<g>>
      BY <3>0
    <3>2. PICK two \in Seq({g, p}) : two = <<g, p>>
      BY <3>0
    <3>3. Len(two) = 2 /\ two[1] = g /\ two[2] = p /\ Len(one) = 1 /\ one[1] = g
      BY <3>1, <3>2
    <3>4. PICK app : app = Append(one, p)
      OBVIOUS
    <3>5. app \in Seq({g, p}) /\ Len(app) = 2 /\ app[1] = g /\ app[2] = p
      BY <3>1, <3>3, <3>4
    <3>6. app = two
      <4>1. \A i \in 1 .. 2 : app[i] = two[i]
        BY <3>3, <3>5
      <4>2. DOMAIN app = 1 .. 2 /\ DOMAIN two = 1 .. 2
        BY <3>2, <3>3, <3>5
      <4>3. app = [i \in 1 .. 2 |-> app[i]] /\ two = [i \in 1 .. 2 |-> two[i]]
        BY <3>2, <3>5, <4>2
      <4> QED
        BY <4>1, <4>3
    <3> QED
      BY <3>1, <3>2, <3>4, <3>6
  <2> QED
    BY <1>9, <2>2, <2>3, <2>4, <2>5
<1>11. new = <<s1, s2, s3, s4>>[n]
  BY <1>1, <1>2, <1>3, <1>4 DEF Box!Minted
<1>12. CASE n = 1
  BY <1>6, <1>11, <1>12
<1>13. CASE n = 2
  <2>1. new = s2
    BY <1>11, <1>13
  <2>2. /\ StoreShaped(new) /\ new.writers = st.writers \cup {w} /\ new.threads[t] = row
        /\ \A u \in TryThread \ {t} :
             new.threads[u] = st.threads[u] /\ new.records[u] = st.records[u]
    BY <1>6, <1>7, <2>1
  <2> QED
    BY <1>5, <1>13, <2>2
<1>14. CASE n = 3
  <2>1. new = s3
    BY <1>11, <1>14
  <2>2. /\ StoreShaped(new) /\ new.writers = st.writers \cup {w} /\ new.threads[t] = row
        /\ \A u \in TryThread \ {t} :
             new.threads[u] = st.threads[u] /\ new.records[u] = st.records[u]
    BY <1>6, <1>7, <1>9, <2>1
  <2> QED
    BY <1>5, <1>14, <2>2
<1>15. CASE n = 4
  <2>1. new = s4
    BY <1>11, <1>15
  <2>2. /\ StoreShaped(new) /\ new.writers = st.writers \cup {w} /\ new.threads[t] = row /\ new.records[t] = Pair(w)
        /\ \A u \in TryThread \ {t} :
             new.threads[u] = st.threads[u] /\ new.records[u] = st.records[u]
    BY <1>6, <1>7, <1>10, <2>1
  <2> QED
    BY <1>5, <1>15, <2>2
<1> QED
  BY <1>12, <1>13, <1>14, <1>15

\* What is undone leaves no trace.
LEMMA RolledBackIs ==
  ASSUME NEW st, StoreOK(st), NEW t \in TryThread, ~ IsLive(st, t), NEW w \in Writer,
         w \notin st.writers, NEW slug \in TrySlug \cup DemoSlug, NEW n \in 1 .. 3
  PROVE  Box!RolledBack(Box!Minted(st, t, slug, w, n), t, w) = st
<1>1. PICK new : new = Box!Minted(st, t, slug, w, n)
  OBVIOUS
<1>2. /\ StoreShaped(new) /\ new.writers = st.writers \cup {w}
      /\ \A u \in TryThread \ {t} :
           new.threads[u] = st.threads[u] /\ new.records[u] = st.records[u]
      /\ n = 1 => new.threads[t] = st.threads[t] /\ new.records[t] = <<>>
      /\ n # 1 => new.threads[t] = [slug |-> slug, created_by |-> w, age |-> 0]
  BY <1>1, MintedIs DEF StoreOK, StoreWhole
<1>3. st.threads[t] = Box!NoThread /\ st.records[t] = <<>> /\ StoreShaped(st)
  BY DEF StoreOK, StoreWhole, IsLive
<1>4. ASSUME NEW old, StoreShaped(old), old.writers \ {w} = st.writers,
             \A u \in TryThread : old.threads[u] = st.threads[u] /\ old.records[u] = st.records[u]
      PROVE  Box!DeleteIdentity(old, w) = st
  <2>1. PICK next : next = Box!DeleteIdentity(old, w)
    OBVIOUS
  <2>2. /\ StoreShaped(next) /\ next.writers = old.writers \ {w}
        /\ next.threads = old.threads /\ next.records = old.records
    BY <1>4, <2>1 DEF Box!DeleteIdentity, StoreShaped
  <2> QED
    BY <1>3, <1>4, <2>1, <2>2, SameStore
<1>5. CASE n = 1
  <2>1. Box!DeleteThreadCascade(new, t) = new
    BY <1>2, <1>3, <1>5 DEF Box!DeleteThreadCascade
  <2> QED
    BY <1>1, <1>2, <1>3, <1>4, <1>5, <2>1 DEF Box!RolledBack
<1>6. CASE n # 1
  <2>1. PICK row \in TryRow : row = [slug |-> slug, created_by |-> w, age |-> 0]
    BY DEF TryRow
  <2>2. new.threads[t] = row /\ row.created_by = w /\ row # Box!NoThread
    BY <1>2, <1>6, <2>1, NoRow
  <2>3. PICK rest : rest = [new EXCEPT !.records[t] = <<>>, !.threads[t] = Box!NoThread]
    OBVIOUS
  <2>4. /\ StoreShaped(rest) /\ rest.writers = st.writers \cup {w}
        /\ \A u \in TryThread : rest.threads[u] = st.threads[u] /\ rest.records[u] = st.records[u]
    <3>1. PICK records : records = [new.records EXCEPT ![t] = <<>>]
      OBVIOUS
    <3>2. PICK threads : threads = [new.threads EXCEPT ![t] = Box!NoThread]
      OBVIOUS
    <3>3. rest = [writers |-> new.writers, threads |-> threads, records |-> records]
      BY <1>2, <2>3, <3>1, <3>2 DEF StoreShaped
    <3>4. rest.writers = new.writers /\ rest.threads = threads /\ rest.records = records
      BY <3>3
    <3>5. /\ records = [u \in TryThread |-> records[u]] /\ threads = [u \in TryThread |-> threads[u]]
          /\ \A u \in TryThread : threads[u] = st.threads[u] /\ records[u] = st.records[u]
      BY <1>2, <1>3, <3>1, <3>2 DEF StoreShaped
    <3> QED
      BY <1>2, <1>3, <3>3, <3>4, <3>5 DEF StoreShaped
  <2>5. PICK gone : gone = Box!DeleteThreadCascade(new, t)
    OBVIOUS
  <2>6. gone = IF Box!WriterInUse(rest, w) THEN rest ELSE Box!DeleteIdentity(rest, w)
    BY <2>2, <2>3, <2>5 DEF Box!DeleteThreadCascade
  <2>7. CASE gone = rest
    BY <1>1, <1>4, <2>4, <2>5, <2>7 DEF Box!RolledBack
  <2>8. CASE gone = Box!DeleteIdentity(rest, w)
    <3>1. gone = st
      BY <1>4, <2>4, <2>8
    <3>2. Box!DeleteIdentity(st, w) = st
      BY <1>3, <1>4
    <3> QED
      BY <1>1, <2>5, <3>1, <3>2 DEF Box!RolledBack
  <2> QED
    BY <2>6, <2>7, <2>8
<1> QED
  BY <1>5, <1>6

\* The tables without the threads D.
Without(st, D, new) ==
  /\ StoreShaped(new)
  /\ \A t \in TryThread :
       /\ new.threads[t] = IF t \in D THEN Box!NoThread ELSE st.threads[t]
       /\ new.records[t] = IF t \in D THEN <<>> ELSE st.records[t]
  /\ new.writers = {w \in st.writers : \A t \in D : st.threads[t].created_by # w}

\* A thread that is left uses its own writer, and nobody else's.
LEMMA UsesItsOwn ==
  ASSUME NEW st, StoreOK(st), NEW D \in SUBSET TryThread, \A t \in D : IsLive(st, t),
         NEW rest,
         \A t \in TryThread :
           /\ rest.threads[t] = IF t \in D THEN Box!NoThread ELSE st.threads[t]
           /\ rest.records[t] = IF t \in D THEN <<>> ELSE st.records[t],
         NEW u \in D
  PROVE  ~ Box!WriterInUse(rest, st.threads[u].created_by)
<1> DEFINE w == st.threads[u].created_by
<1>1. ASSUME NEW t \in TryThread, rest.threads[t] # Box!NoThread, rest.threads[t].created_by = w
      PROVE  FALSE
  BY <1>1 DEF StoreOK, StoreWhole, IsLive
<1>2. ASSUME NEW t \in TryThread, NEW n \in DOMAIN rest.records[t], rest.records[t][n].author = w
      PROVE  FALSE
  <2>1. CASE t \in D
    BY <1>2, <2>1
  <2>2. CASE t \notin D /\ ~ IsLive(st, t)
    BY <1>2, <2>2 DEF StoreOK, StoreWhole
  <2>3. CASE t \notin D /\ IsLive(st, t)
    <3>1. PICK v : v = st.threads[t].created_by
      OBVIOUS
    <3>2. rest.records[t] = Pair(v)
      BY <2>3, <3>1 DEF StoreOK, StoreWhole
    <3>3. \A m \in DOMAIN Pair(v) : Pair(v)[m].author = v
      <4>1. PICK g : g = [kind |-> "genesis", author |-> v]
        OBVIOUS
      <4>2. PICK p : p = [kind |-> "ThreadPublished", author |-> v]
        OBVIOUS
      <4>3. Pair(v) = <<g, p>> /\ g.author = v /\ p.author = v
        BY <4>1, <4>2 DEF Pair
      <4> QED
        BY <4>3
    <3>4. v = w
      BY <1>2, <3>2, <3>3
    <3> QED
      BY <2>3, <3>1, <3>4 DEF StoreOK, StoreWhole
  <2> QED
    BY <2>1, <2>2, <2>3
<1> QED
  BY <1>1, <1>2 DEF Box!WriterInUse

LEMMA DeletedIs ==
  ASSUME NEW st, StoreOK(st), NEW D \in SUBSET TryThread, \A t \in D : IsLive(st, t)
  PROVE  Without(st, D, Box!DeletedCascades(st, D))
<1>1. PICK threads : threads = [t \in TryThread |-> IF t \in D THEN Box!NoThread ELSE st.threads[t]]
  OBVIOUS
<1>2. PICK records : records = [t \in TryThread |-> IF t \in D THEN <<>> ELSE st.records[t]]
  OBVIOUS
<1>3. PICK rest : rest = [st EXCEPT
          !.records = [t \in TryThread |-> IF t \in D THEN <<>> ELSE st.records[t]],
          !.threads = [t \in TryThread |-> IF t \in D THEN Box!NoThread ELSE st.threads[t]]]
  OBVIOUS
<1>4. PICK writers : writers = {w \in st.writers :
          (\E t \in D : st.threads[t].created_by = w) => Box!WriterInUse(rest, w)}
  OBVIOUS
<1>5. PICK new : new = [rest EXCEPT !.writers = writers]
  OBVIOUS
<1>6. Box!DeletedCascades(st, D) = new
  BY <1>3, <1>4, <1>5 DEF Box!DeletedCascades
<1>7. rest = [writers |-> st.writers, threads |-> threads, records |-> records]
  <2>1. rest = [st EXCEPT !.records = records, !.threads = threads]
    BY <1>1, <1>2, <1>3
  <2>2. st = [writers |-> st.writers, threads |-> st.threads, records |-> st.records]
    BY DEF StoreOK, StoreShaped
  <2> QED
    BY <2>1, <2>2
<1>8. rest.threads = threads /\ rest.records = records
  BY <1>7
<1>9. \A t \in TryThread :
        /\ threads[t] = IF t \in D THEN Box!NoThread ELSE st.threads[t]
        /\ records[t] = IF t \in D THEN <<>> ELSE st.records[t]
  BY <1>1, <1>2
<1>10. \A t \in D : ~ Box!WriterInUse(rest, st.threads[t].created_by)
  <2>1. \A t \in TryThread :
          /\ rest.threads[t] = IF t \in D THEN Box!NoThread ELSE st.threads[t]
          /\ rest.records[t] = IF t \in D THEN <<>> ELSE st.records[t]
    BY <1>8, <1>9
  <2> QED
    BY <2>1, UsesItsOwn
<1>11. writers = {w \in st.writers : \A t \in D : st.threads[t].created_by # w}
  BY <1>4, <1>10
<1>12. new = [writers |-> writers, threads |-> threads, records |-> records]
  BY <1>5, <1>7
<1>13. new.writers = writers /\ new.threads = threads /\ new.records = records
  BY <1>12
<1>14. StoreShaped(new)
  <2>1. /\ threads = [t \in TryThread |-> threads[t]] /\ records = [t \in TryThread |-> records[t]]
    BY <1>1, <1>2
  <2>2. \A t \in TryThread : threads[t] = Box!NoThread \/ threads[t] \in TryRow
    BY <1>9 DEF StoreShaped, StoreOK
  <2> QED
    BY <1>12, <1>13, <2>1, <2>2 DEF StoreShaped
<1> QED
  BY <1>6, <1>9, <1>11, <1>13, <1>14 DEF Without

\* A store without some of its threads is as whole as before.
LEMMA WithoutOK ==
  ASSUME NEW st, StoreOK(st), NEW D \in SUBSET TryThread, \A t \in D : IsLive(st, t),
         NEW new, Without(st, D, new)
  PROVE  StoreOK(new)
<1>1. ASSUME NEW t \in TryThread, IsLive(new, t)
      PROVE  /\ t \notin D /\ IsLive(st, t)
             /\ new.threads[t] = st.threads[t] /\ new.records[t] = st.records[t]
  BY <1>1 DEF Without, IsLive
<1>2. ASSUME NEW t \in TryThread, IsLive(new, t)
      PROVE  /\ new.records[t] = Pair(new.threads[t].created_by)
             /\ new.threads[t].created_by \in new.writers
  <2>1. st.records[t] = Pair(st.threads[t].created_by) /\ st.threads[t].created_by \in st.writers
    BY <1>1, <1>2 DEF StoreOK, StoreWhole
  <2>2. ASSUME NEW u \in D, st.threads[u].created_by = st.threads[t].created_by PROVE FALSE
    BY <1>1, <1>2, <2>2 DEF StoreOK, StoreWhole
  <2> QED
    BY <1>1, <1>2, <2>1, <2>2 DEF Without
<1>3. ASSUME NEW t \in TryThread, ~ IsLive(new, t) PROVE new.records[t] = <<>>
  BY <1>3 DEF Without, IsLive, StoreOK, StoreWhole
<1>4. ASSUME NEW w \in new.writers
      PROVE  \E t \in TryThread : IsLive(new, t) /\ new.threads[t].created_by = w
  <2>1. w \in st.writers /\ \A t \in D : st.threads[t].created_by # w
    BY DEF Without
  <2>2. PICK t \in TryThread : IsLive(st, t) /\ st.threads[t].created_by = w
    BY <2>1 DEF StoreOK, StoreWhole
  <2>3. t \notin D /\ new.threads[t] = st.threads[t]
    BY <2>1, <2>2 DEF Without
  <2> QED
    BY <2>2, <2>3 DEF IsLive
<1>5. ASSUME NEW t \in TryThread, NEW u \in TryThread, IsLive(new, t), IsLive(new, u),
             new.threads[t].created_by = new.threads[u].created_by
      PROVE  t = u
  BY <1>1, <1>5 DEF StoreOK, StoreWhole
<1> QED
  BY <1>2, <1>3, <1>4, <1>5 DEF StoreOK, StoreWhole, Without

LEMMA WithoutSame ==
  ASSUME NEW st, StoreOK(st), NEW D, NEW one, NEW other, Without(st, D, one), Without(st, D, other)
  PROVE  one = other
  BY SameStore DEF Without

\* The cascade takes one thread away.
LEMMA CascadeIs ==
  ASSUME NEW st, StoreOK(st), NEW t \in TryThread, IsLive(st, t)
  PROVE  Without(st, {t}, Box!DeleteThreadCascade(st, t))
<1>1. PICK rest : rest = [st EXCEPT !.records[t] = <<>>, !.threads[t] = Box!NoThread]
  OBVIOUS
<1>2. PICK w : w = st.threads[t].created_by
  OBVIOUS
<1>3. PICK threads : threads = [st.threads EXCEPT ![t] = Box!NoThread]
  OBVIOUS
<1>4. PICK records : records = [st.records EXCEPT ![t] = <<>>]
  OBVIOUS
<1>5. rest = [writers |-> st.writers, threads |-> threads, records |-> records]
  BY <1>1, <1>3, <1>4 DEF StoreOK, StoreShaped
<1>6. rest.writers = st.writers /\ rest.threads = threads /\ rest.records = records
  BY <1>5
<1>7. \A u \in TryThread :
        /\ threads[u] = IF u \in {t} THEN Box!NoThread ELSE st.threads[u]
        /\ records[u] = IF u \in {t} THEN <<>> ELSE st.records[u]
  BY <1>3, <1>4 DEF StoreOK, StoreShaped
<1>8. ~ Box!WriterInUse(rest, w)
  BY <1>2, <1>6, <1>7, UsesItsOwn
<1>9. Box!DeleteThreadCascade(st, t) = Box!DeleteIdentity(rest, w)
  BY <1>1, <1>2, <1>8 DEF Box!DeleteThreadCascade, IsLive
<1>10. PICK new : new = [writers |-> st.writers \ {w}, threads |-> threads, records |-> records]
  OBVIOUS
<1>11. new.writers = st.writers \ {w} /\ new.threads = threads /\ new.records = records
  BY <1>10
<1>12. Box!DeleteIdentity(rest, w) = new
  BY <1>5, <1>6, <1>10 DEF Box!DeleteIdentity
<1>13. StoreShaped(new)
  <2>1. /\ threads = [u \in TryThread |-> threads[u]] /\ records = [u \in TryThread |-> records[u]]
    BY <1>3, <1>4 DEF StoreOK, StoreShaped
  <2> QED
    BY <1>7, <1>10, <1>11, <2>1 DEF StoreShaped, StoreOK
<1>14. st.writers \ {w} = {v \in st.writers : \A u \in {t} : st.threads[u].created_by # v}
  BY <1>2
<1> QED
  BY <1>7, <1>9, <1>11, <1>12, <1>13, <1>14 DEF Without

\* DeletedCascades is what the loop of the sweep builds, in whatever order it takes
\* the threads: nothing to begin with, and one more with each round.
THEOREM SweepIsTheLoop ==
  ASSUME NEW st, StoreOK(st), NEW D \in SUBSET TryThread, NEW t \in TryThread \ D,
         \A u \in D \cup {t} : IsLive(st, u)
  PROVE  /\ Box!DeletedCascades(st, {}) = st
         /\ Box!DeleteThreadCascade(Box!DeletedCascades(st, D), t)
              = Box!DeletedCascades(st, D \cup {t})
<1>1. Box!DeletedCascades(st, {}) = st
  <2>1. Without(st, {}, Box!DeletedCascades(st, {}))
    BY DeletedIs
  <2>2. Without(st, {}, st)
    BY DEF Without, StoreOK
  <2> QED
    BY <2>1, <2>2, WithoutSame
<1>2. PICK partly : partly = Box!DeletedCascades(st, D)
  OBVIOUS
<1>3. Without(st, D, partly) /\ StoreOK(partly)
  BY <1>2, DeletedIs, WithoutOK
<1>4. IsLive(partly, t) /\ partly.threads[t] = st.threads[t]
  BY <1>3 DEF Without, IsLive
<1>5. PICK next : next = Box!DeleteThreadCascade(partly, t)
  OBVIOUS
<1>6. Without(partly, {t}, next)
  BY <1>3, <1>4, <1>5, CascadeIs
<1>7. Without(st, D \cup {t}, next)
  <2>1. next.writers = {w \in st.writers : \A u \in D \cup {t} : st.threads[u].created_by # w}
    BY <1>3, <1>4, <1>6 DEF Without
  <2>2. ASSUME NEW u \in TryThread
        PROVE  /\ next.threads[u] = IF u \in D \cup {t} THEN Box!NoThread ELSE st.threads[u]
               /\ next.records[u] = IF u \in D \cup {t} THEN <<>> ELSE st.records[u]
    BY <1>3, <1>6 DEF Without
  <2> QED
    BY <1>6, <2>1, <2>2 DEF Without
<1>8. Without(st, D \cup {t}, Box!DeletedCascades(st, D \cup {t}))
  BY DeletedIs
<1>9. next = Box!DeletedCascades(st, D \cup {t})
  BY <1>7, <1>8, WithoutSame
<1> QED
  BY <1>1, <1>2, <1>5, <1>9


Armed(st, left, at, t) ==
  IF left = Box!NoAlarm THEN at = "arming" /\ st.threads[t].age = 0
  ELSE st.threads[t].age + left <= Ttl + Sweep

\* While no alarm is lost, the alarm is close enough for every try: one without an
\* alarm has just been minted, and the call that minted it is about to set it.
BoxInv ==
  /\ StoreOK(store)
  /\ alarm \in {Box!NoAlarm} \cup 0 .. Sweep
  /\ lost \in BOOLEAN
  /\ ~ lost => \A t \in TryThread : Box!Try(t) => Armed(store, alarm, pc, t)

LEMMA BoxConstants == Ttl \in Nat /\ Sweep \in Nat /\ Sweep >= 1 /\ TrySlug \cap DemoSlug = {}
  BY PartsAssumption

LEMMA BoxInit == Box!Init => BoxInv
<1> SUFFICES ASSUME Box!Init PROVE BoxInv
  OBVIOUS
<1>1. store = [writers |-> {}, threads |-> [t \in TryThread |-> Box!NoThread],
               records |-> [t \in TryThread |-> <<>>]]
  BY DEF Box!Init
<1>2. /\ store.writers = {} /\ store.threads = [t \in TryThread |-> Box!NoThread]
      /\ store.records = [t \in TryThread |-> <<>>]
  BY <1>1
<1>3. StoreOK(store)
  BY <1>1, <1>2 DEF StoreOK, StoreShaped, StoreWhole, IsLive
<1>4. \A t \in TryThread : ~ Box!Try(t)
  BY <1>2 DEF Box!Try, Box!Live
<1> QED
  BY <1>3, <1>4 DEF BoxInv, Box!Init

\* What a mint that goes through leaves.
LEMMA MintOK ==
  ASSUME StoreOK(store), NEW t \in TryThread, NEW w \in Writer, NEW slug \in TrySlug \cup DemoSlug,
         Box!MintSucceeds(t, w, slug)
  PROVE  /\ StoreOK(store')
         /\ store'.threads[t] = [slug |-> slug, created_by |-> w, age |-> 0]
         /\ \A u \in TryThread \ {t} :
              store'.threads[u] = store.threads[u] /\ store'.records[u] = store.records[u]
<1>1. PICK old : old = store
  OBVIOUS
<1>2. PICK new : new = store'
  OBVIOUS
<1>3. /\ StoreOK(old) /\ ~ IsLive(old, t) /\ w \notin old.writers
      /\ new = Box!Minted(old, t, slug, w, 4)
  BY <1>1, <1>2 DEF Box!MintSucceeds, Box!Live, IsLive
<1>4. StoreShaped(old) /\ old.records[t] = <<>> /\ 4 \in 1 .. 4
  BY <1>3 DEF StoreOK, StoreWhole
<1>5. /\ StoreShaped(new)
      /\ new.writers = old.writers \cup {w}
      /\ \A u \in TryThread \ {t} :
           new.threads[u] = old.threads[u] /\ new.records[u] = old.records[u]
      /\ new.threads[t] = [slug |-> slug, created_by |-> w, age |-> 0]
      /\ new.records[t] = Pair(w)
  BY <1>3, <1>4, MintedIs
<1>6. PICK row \in TryRow : row = [slug |-> slug, created_by |-> w, age |-> 0]
  BY DEF TryRow
<1>7. new.threads[t] = row /\ row.created_by = w /\ IsLive(new, t)
  BY <1>5, <1>6, NoRow DEF IsLive
<1>8. \A u \in TryThread \ {t} :
        /\ IsLive(new, u) <=> IsLive(old, u)
        /\ IsLive(new, u) => /\ new.threads[u].created_by = old.threads[u].created_by
                             /\ new.threads[u].created_by \in old.writers
  BY <1>3, <1>5 DEF IsLive, StoreOK, StoreWhole
<1>9. ASSUME NEW u \in TryThread
      PROVE  IF IsLive(new, u)
             THEN /\ new.records[u] = Pair(new.threads[u].created_by)
                  /\ new.threads[u].created_by \in new.writers
             ELSE new.records[u] = <<>>
  <2>1. CASE u = t
    BY <1>5, <1>7, <2>1
  <2>2. CASE u # t
    BY <1>3, <1>5, <1>8, <2>2 DEF StoreOK, StoreWhole
  <2> QED
    BY <2>1, <2>2
<1>10. ASSUME NEW v \in new.writers
       PROVE  \E u \in TryThread : IsLive(new, u) /\ new.threads[u].created_by = v
  <2>1. CASE v = w
    BY <1>7, <2>1
  <2>2. CASE v # w
    <3>1. PICK u \in TryThread : IsLive(old, u) /\ old.threads[u].created_by = v
      BY <1>3, <1>5, <2>2 DEF StoreOK, StoreWhole
    <3> QED
      BY <1>3, <1>8, <3>1
  <2> QED
    BY <2>1, <2>2
<1>11. ASSUME NEW u \in TryThread, NEW v \in TryThread, IsLive(new, u), IsLive(new, v),
              new.threads[u].created_by = new.threads[v].created_by
       PROVE  u = v
  <2>1. CASE u # t /\ v # t
    BY <1>3, <1>8, <1>11, <2>1 DEF StoreOK, StoreWhole
  <2>2. CASE u = t \/ v = t
    BY <1>3, <1>7, <1>8, <1>11, <2>2
  <2> QED
    BY <2>1, <2>2
<1>12. StoreOK(new)
  BY <1>5, <1>9, <1>10, <1>11 DEF StoreOK, StoreWhole
<1> QED
  BY <1>1, <1>2, <1>5, <1>12

\* A mint that fails leaves nothing.
LEMMA MintUndone ==
  ASSUME StoreOK(store), NEW t \in TryThread, NEW w \in Writer, NEW slug \in TrySlug \cup DemoSlug,
         Box!MintFails(t, w, slug)
  PROVE  store' = store
<1>1. PICK n \in 1 .. 3 : store' = Box!RolledBack(Box!Minted(store, t, slug, w, n), t, w)
  BY DEF Box!MintFails
<1>2. ~ IsLive(store, t) /\ w \notin store.writers
  BY DEF Box!MintFails, Box!Live, IsLive
<1> QED
  BY <1>1, <1>2, RolledBackIs

\* What the sweep leaves.
LEMMA SweptIs ==
  ASSUME StoreOK(store)
  PROVE  /\ StoreOK(Box!Swept)
         /\ \A t \in TryThread :
              /\ Box!Swept.threads[t] = IF Box!Expired(t) THEN Box!NoThread ELSE store.threads[t]
              /\ Box!Swept.records[t] = IF Box!Expired(t) THEN <<>> ELSE store.records[t]
<1>1. PICK D \in SUBSET TryThread : D = {t \in TryThread : Box!Expired(t)}
  OBVIOUS
<1>2. \A t \in D : IsLive(store, t)
  BY <1>1 DEF Box!Expired, Box!Live, IsLive
<1>3. PICK new : new = Box!Swept
  OBVIOUS
<1>4. Without(store, D, new)
  BY <1>1, <1>2, <1>3, DeletedIs DEF Box!Swept
<1>5. StoreOK(new)
  BY <1>2, <1>4, WithoutOK
<1> QED
  BY <1>1, <1>3, <1>4, <1>5 DEF Without

\* A moment later.
LEMMA AgedIs ==
  ASSUME StoreOK(store), Box!Tick
  PROVE  /\ StoreOK(store') /\ store'.records = store.records
         /\ \A t \in TryThread :
              \/ store'.threads[t] = store.threads[t]
              \/ /\ store.threads[t] \in TryRow
                 /\ store'.threads[t] = [store.threads[t] EXCEPT !.age = @ + 1]
<1>1. PICK old : old = store
  OBVIOUS
<1>2. PICK new : new = store'
  OBVIOUS
<1>3. PICK threads : threads =
        [t \in TryThread |->
           IF old.threads[t] # Box!NoThread /\ old.threads[t].age < Box!OldestAge
           THEN [old.threads[t] EXCEPT !.age = @ + 1] ELSE old.threads[t]]
  OBVIOUS
<1>4. new = [old EXCEPT !.threads = threads]
  BY <1>1, <1>2, <1>3 DEF Box!Tick, Box!Aged, Box!Live
<1>5. StoreShaped(old) /\ StoreWhole(old)
  BY <1>1 DEF StoreOK
<1>6. new = [writers |-> old.writers, threads |-> threads, records |-> old.records]
  BY <1>4, <1>5 DEF StoreShaped
<1>7. new.writers = old.writers /\ new.threads = threads /\ new.records = old.records
  BY <1>6
<1>8. ASSUME NEW t \in TryThread
      PROVE  \/ threads[t] = old.threads[t]
             \/ /\ old.threads[t] \in TryRow
                /\ threads[t] = [old.threads[t] EXCEPT !.age = @ + 1]
  BY <1>3, <1>5 DEF StoreShaped
<1>9. ASSUME NEW row \in TryRow, NEW next, next = [row EXCEPT !.age = @ + 1]
      PROVE  /\ next \in TryRow /\ next.created_by = row.created_by /\ next.slug = row.slug
             /\ next.age = row.age + 1
  BY <1>9 DEF TryRow
<1>10. ASSUME NEW t \in TryThread
       PROVE  /\ threads[t] = Box!NoThread \/ threads[t] \in TryRow
              /\ IsLive(new, t) <=> IsLive(old, t)
              /\ IsLive(new, t) => new.threads[t].created_by = old.threads[t].created_by
  <2>1. CASE threads[t] = old.threads[t]
    BY <1>5, <1>7, <2>1 DEF StoreShaped, IsLive
  <2>2. CASE old.threads[t] \in TryRow /\ threads[t] = [old.threads[t] EXCEPT !.age = @ + 1]
    <3>1. PICK row \in TryRow : row = old.threads[t]
      BY <2>2
    <3>2. PICK next : next = threads[t]
      OBVIOUS
    <3>3. next = [row EXCEPT !.age = @ + 1]
      BY <2>2, <3>1, <3>2
    <3>4. next \in TryRow /\ next.created_by = row.created_by
      BY <1>9, <3>3
    <3> QED
      BY <1>7, <3>1, <3>2, <3>4, NoRow DEF IsLive
  <2> QED
    BY <1>8, <2>1, <2>2
<1>11. StoreShaped(new)
  <2>1. threads = [t \in TryThread |-> threads[t]] /\ old.records = [t \in TryThread |-> old.records[t]]
    BY <1>3, <1>5 DEF StoreShaped
  <2> QED
    BY <1>6, <1>7, <1>10, <2>1 DEF StoreShaped
<1>12. StoreWhole(new)
  BY <1>5, <1>7, <1>10 DEF StoreWhole
<1> QED
  BY <1>1, <1>2, <1>7, <1>8, <1>11, <1>12 DEF StoreOK


LEMMA TryIs ==
  ASSUME NEW t \in TryThread
  PROVE  Box!Try(t) <=> IsLive(store, t) /\ store.threads[t].slug \in TrySlug
  BY DEF Box!Try, Box!Live, IsLive

LEMMA BoxCreate ==
  ASSUME BoxInv, NEW t \in TryThread, NEW w \in Writer, NEW slug \in TrySlug,
         Box!CreateTry(t, w, slug)
  PROVE  BoxInv'
<1>1. /\ StoreOK(store')
      /\ store'.threads[t] = [slug |-> slug, created_by |-> w, age |-> 0]
      /\ \A u \in TryThread \ {t} :
           store'.threads[u] = store.threads[u] /\ store'.records[u] = store.records[u]
  BY MintOK DEF BoxInv, Box!CreateTry
<1>2. pc = "idle" /\ pc' = "arming" /\ alarm' = alarm /\ lost' = lost
  BY DEF Box!CreateTry
<1>3. ASSUME ~ lost, NEW u \in TryThread, Box!Try(u)' PROVE Armed(store, alarm, pc, u)'
  <2>1. CASE u = t
    <3>1. store'.threads[u].age = 0
      BY <1>1, <2>1
    <3> QED
      BY <1>2, <3>1, BoxConstants DEF BoxInv, Armed, Box!NoAlarm
  <2>2. CASE u # t
    <3>1. Box!Try(u)
      BY <1>1, <1>3, <2>2 DEF Box!Try, Box!Live
    <3>2. Armed(store, alarm, pc, u)
      BY <1>3, <3>1 DEF BoxInv
    <3> QED
      BY <1>1, <1>2, <2>2, <3>2 DEF Armed
  <2> QED
    BY <2>1, <2>2
<1> QED
  BY <1>1, <1>2, <1>3 DEF BoxInv

LEMMA BoxSame ==
  ASSUME BoxInv, store' = store, alarm' = alarm, pc' = pc, lost' = lost
  PROVE  BoxInv'
  BY DEF BoxInv, Armed, Box!Try, Box!Live

LEMMA BoxDemo ==
  ASSUME BoxInv, NEW t \in TryThread, NEW w \in Writer, NEW slug \in DemoSlug,
         Box!EnsureDemo(t, w, slug)
  PROVE  BoxInv'
<1>1. pc' = pc /\ alarm' = alarm /\ lost' = lost /\ StoreOK(store)
  BY DEF Box!EnsureDemo, BoxInv
<1>2. CASE Box!MintFails(t, w, slug)
  BY <1>1, <1>2, MintUndone, BoxSame
<1>3. CASE Box!MintSucceeds(t, w, slug)
  <2>1. /\ StoreOK(store')
        /\ store'.threads[t] = [slug |-> slug, created_by |-> w, age |-> 0]
        /\ \A u \in TryThread \ {t} : store'.threads[u] = store.threads[u]
    BY <1>1, <1>3, MintOK
  <2>2. ASSUME ~ lost, NEW u \in TryThread, Box!Try(u)' PROVE Armed(store, alarm, pc, u)'
    <3>1. u # t
      BY <2>1, <2>2, BoxConstants DEF Box!Try
    <3>2. Box!Try(u)
      BY <2>1, <2>2, <3>1 DEF Box!Try, Box!Live
    <3>3. Armed(store, alarm, pc, u)
      BY <2>2, <3>2 DEF BoxInv
    <3> QED
      BY <1>1, <2>1, <3>1, <3>3 DEF Armed
  <2> QED
    BY <1>1, <2>1, <2>2 DEF BoxInv
<1> QED
  BY <1>2, <1>3 DEF Box!EnsureDemo

LEMMA BoxArm ==
  ASSUME BoxInv, Box!EnsureAlarm
  PROVE  BoxInv'
<1>1. store' = store /\ lost' = lost /\ alarm' = IF alarm = Box!NoAlarm THEN Sweep ELSE alarm
  BY DEF Box!EnsureAlarm
<1>2. StoreOK(store') /\ alarm' \in {Box!NoAlarm} \cup 0 .. Sweep /\ alarm' # Box!NoAlarm
  BY <1>1, BoxConstants DEF BoxInv, Box!NoAlarm
<1>3. ASSUME ~ lost, NEW t \in TryThread, Box!Try(t)' PROVE Armed(store, alarm, pc, t)'
  <2>1. Armed(store, alarm, pc, t)
    BY <1>1, <1>3 DEF BoxInv, Box!Try, Box!Live
  <2> QED
    BY <1>1, <1>2, <2>1, BoxConstants DEF Armed
<1> QED
  BY <1>1, <1>2, <1>3 DEF BoxInv

LEMMA BoxEvicted ==
  ASSUME BoxInv, Box!Evicted
  PROVE  BoxInv'
<1>1. /\ store' = store /\ alarm' = alarm
      /\ lost' = (lost \/ alarm = Box!NoAlarm)
  BY DEF Box!Evicted
<1>2. ASSUME ~ lost', NEW t \in TryThread, Box!Try(t)' PROVE Armed(store, alarm, pc, t)'
  <2>1. Armed(store, alarm, pc, t)
    BY <1>1, <1>2 DEF BoxInv, Box!Try, Box!Live
  <2> QED
    BY <1>1, <1>2, <2>1 DEF Armed
<1> QED
  BY <1>1, <1>2 DEF BoxInv

\* What the sweep leaves is a sweep away from its time.
LEMMA BoxAlarm ==
  ASSUME BoxInv, Box!Alarm
  PROVE  BoxInv'
<1>1. /\ StoreOK(store')
      /\ \A t \in TryThread :
           store'.threads[t] = IF Box!Expired(t) THEN Box!NoThread ELSE store.threads[t]
  BY SweptIs DEF BoxInv, Box!Alarm
<1>2. /\ lost' = lost
      /\ alarm' = IF \E t \in TryThread : store'.threads[t] # Box!NoThread THEN Sweep ELSE Box!NoAlarm
  BY DEF Box!Alarm
<1>3. alarm' \in {Box!NoAlarm} \cup 0 .. Sweep
  BY <1>2, BoxConstants
<1>4. ASSUME NEW t \in TryThread, Box!Try(t)' PROVE Armed(store, alarm, pc, t)'
  <2>1. alarm' = Sweep
    BY <1>2, <1>4 DEF Box!Try, Box!Live
  <2>2. ~ Box!Expired(t) /\ store'.threads[t] = store.threads[t] /\ Box!Live(t)
    BY <1>1, <1>4 DEF Box!Try, Box!Live
  <2>3. store.threads[t].slug \in TrySlug
    BY <1>4, <2>2 DEF Box!Try
  <2>4. store.threads[t].age \in Nat
    BY <2>2 DEF BoxInv, StoreOK, StoreShaped, Box!Live, TryRow
  <2>5. store.threads[t].age <= Ttl
    BY <2>2, <2>3, <2>4, BoxConstants DEF Box!Expired
  <2> QED
    BY <2>1, <2>2, <2>4, <2>5, BoxConstants DEF Armed, Box!NoAlarm
<1> QED
  BY <1>1, <1>2, <1>3, <1>4 DEF BoxInv

LEMMA BoxTick ==
  ASSUME BoxInv, Box!Tick
  PROVE  BoxInv'
<1>1. /\ StoreOK(store')
      /\ \A t \in TryThread :
           \/ store'.threads[t] = store.threads[t]
           \/ /\ store.threads[t] \in TryRow
              /\ store'.threads[t] = [store.threads[t] EXCEPT !.age = @ + 1]
  BY AgedIs DEF BoxInv
<1>2. /\ pc = "idle" /\ pc' = pc /\ lost' = lost /\ alarm # 0
      /\ alarm' = IF alarm = Box!NoAlarm THEN Box!NoAlarm ELSE alarm - 1
  BY DEF Box!Tick
<1>3. alarm' \in {Box!NoAlarm} \cup 0 .. Sweep
  BY <1>2, BoxConstants DEF BoxInv
<1>4. ASSUME ~ lost, NEW t \in TryThread, Box!Try(t)' PROVE Armed(store, alarm, pc, t)'
  <2>1. PICK row : row = store.threads[t]
    OBVIOUS
  <2>2. PICK next : next = store'.threads[t]
    OBVIOUS
  <2>3. next # Box!NoThread /\ next.slug \in TrySlug
    BY <1>4, <2>2 DEF Box!Try, Box!Live
  <2>4. row \in TryRow /\ (next = row \/ next = [row EXCEPT !.age = @ + 1])
    BY <1>1, <2>1, <2>2, <2>3 DEF BoxInv, StoreOK, StoreShaped
  <2>5. row.slug = next.slug /\ row.age \in Nat /\ next.age \in {row.age, row.age + 1}
    BY <2>4 DEF TryRow
  <2>6. Box!Try(t)
    BY <2>1, <2>3, <2>4, <2>5, NoRow DEF Box!Try, Box!Live
  <2>7. Armed(store, alarm, pc, t)
    BY <1>4, <2>6 DEF BoxInv
  <2>8. alarm # Box!NoAlarm /\ alarm \in 0 .. Sweep /\ row.age + alarm <= Ttl + Sweep
    BY <1>2, <2>1, <2>7 DEF Armed, BoxInv
  <2>9. alarm' = alarm - 1
    BY <1>2, <2>8
  <2>10. next.age + alarm' <= Ttl + Sweep /\ alarm' # Box!NoAlarm
    BY <1>2, <2>5, <2>8, <2>9, BoxConstants DEF Box!NoAlarm
  <2> QED
    BY <2>2, <2>10 DEF Armed
<1> QED
  BY <1>1, <1>2, <1>3, <1>4 DEF BoxInv

LEMMA BoxNext == BoxInv /\ [Box!Next]_sandboxVars => BoxInv'
<1> SUFFICES ASSUME BoxInv, [Box!Next]_sandboxVars PROVE BoxInv'
  OBVIOUS
<1>1. ASSUME NEW t \in TryThread, NEW w \in Writer, NEW slug \in TrySlug,
             Box!CreateTry(t, w, slug) \/ Box!CreateTryFails(t, w, slug)
      PROVE  BoxInv'
  <2>1. CASE Box!CreateTry(t, w, slug)
    BY <2>1, BoxCreate
  <2>2. CASE Box!CreateTryFails(t, w, slug)
    <3>1. store' = store
      BY <2>2, MintUndone DEF BoxInv, Box!CreateTryFails
    <3> QED
      BY <2>2, <3>1, BoxSame DEF Box!CreateTryFails
  <2> QED
    BY <1>1, <2>1, <2>2
<1>2. CASE UNCHANGED sandboxVars
  BY <1>2, BoxSame DEF sandboxVars
<1> QED
  BY <1>1, <1>2, BoxDemo, BoxArm, BoxEvicted, BoxAlarm, BoxTick DEF Box!Next

LEMMA SandboxHolds == SpecParts => []BoxInv
<1>1. InitParts => BoxInv
  BY BoxInit DEF InitParts
<1>2. BoxInv /\ [NextParts]_allVars => BoxInv'
  <2>1. [NextParts]_allVars => [Box!Next]_sandboxVars
    BY DEF NextParts, NextImport, NextLimiter, NextReads, NextSandbox, allVars, sandboxVars
  <2> QED
    BY <2>1, BoxNext
<1> QED
  BY <1>1, <1>2, PTL DEF SpecParts

\* No orphans: a live thread is whole and published, a writer has exactly one thread,
\* and no record is left without its thread, whatever fails and whatever is swept.
THEOREM SweepLeavesNoOrphan == SpecParts => []NoOrphans
<1>1. BoxInv => NoOrphans
  <2> SUFFICES ASSUME BoxInv PROVE NoOrphans
    OBVIOUS
  <2>1. StoreWhole(store)
    BY DEF BoxInv, StoreOK
  <2>2. ASSUME NEW w \in store.writers
        PROVE  Box!Cardinality({t \in TryThread : Box!Live(t) /\ store.threads[t].created_by = w}) = 1
    <3>1. PICK t \in TryThread : IsLive(store, t) /\ store.threads[t].created_by = w
      BY <2>1 DEF StoreWhole
    <3>2. {u \in TryThread : Box!Live(u) /\ store.threads[u].created_by = w} = {t}
      BY <2>1, <3>1 DEF StoreWhole, IsLive, Box!Live
    <3>3. Box!Cardinality({t}) = Cardinality({t})
      BY DEF Cardinality, Box!Cardinality
    <3> QED
      BY <3>2, <3>3, FS_Singleton
  <2>3. ASSUME NEW t \in TryThread
        PROVE  IF Box!Live(t)
               THEN /\ store.records[t] = Pair(store.threads[t].created_by)
                    /\ store.threads[t].created_by \in store.writers
               ELSE store.records[t] = <<>>
    BY <2>1 DEF StoreWhole, IsLive, Box!Live
  <2> QED
    BY <2>2, <2>3 DEF NoOrphans, Box!NoOrphans, Pair
<1> QED
  BY <1>1, SandboxHolds, PTL

\* A try has an alarm, but for one just minted, and the first alarm after its time to
\* live takes it, while no object is lost between the first mint and its alarm.
THEOREM TriesGoAtNextSweep == SpecParts => []GoneAtNextSweep
<1>1. BoxInv => GoneAtNextSweep
  BY DEF BoxInv, Armed, GoneAtNextSweep, Box!GoneAtNextSweep
<1> QED
  BY <1>1, SandboxHolds, PTL

\* No step takes a seeded demo away.
LEMMA DemoStep ==
  ASSUME BoxInv, Box!Next, NEW t \in TryThread, Box!Live(t), store.threads[t].slug \in DemoSlug
  PROVE  store'.threads[t] # Box!NoThread /\ store'.records[t] = store.records[t]
<1>0. StoreOK(store)
  BY DEF BoxInv
<1>1. ASSUME NEW u \in TryThread, NEW w \in Writer, NEW slug \in TrySlug \cup DemoSlug,
             Box!MintSucceeds(u, w, slug) \/ Box!MintFails(u, w, slug)
      PROVE  store'.threads[t] # Box!NoThread /\ store'.records[t] = store.records[t]
  <2>1. CASE Box!MintFails(u, w, slug)
    BY <1>0, <2>1, MintUndone DEF Box!Live
  <2>2. CASE Box!MintSucceeds(u, w, slug)
    <3>1. u # t
      BY <2>2 DEF Box!MintSucceeds
    <3> QED
      BY <1>0, <2>2, <3>1, MintOK DEF Box!Live
  <2> QED
    BY <1>1, <2>1, <2>2
<1>2. ASSUME NEW u \in TryThread, NEW w \in Writer, NEW slug \in TrySlug,
             Box!CreateTry(u, w, slug) \/ Box!CreateTryFails(u, w, slug)
      PROVE  store'.threads[t] # Box!NoThread /\ store'.records[t] = store.records[t]
  BY <1>1, <1>2 DEF Box!CreateTry, Box!CreateTryFails
<1>3. ASSUME NEW u \in TryThread, NEW w \in Writer, NEW slug \in DemoSlug, Box!EnsureDemo(u, w, slug)
      PROVE  store'.threads[t] # Box!NoThread /\ store'.records[t] = store.records[t]
  BY <1>1, <1>3 DEF Box!EnsureDemo
<1>4. CASE Box!EnsureAlarm \/ Box!Evicted
  BY <1>4 DEF Box!EnsureAlarm, Box!Evicted, Box!Live
<1>5. CASE Box!Alarm
  <2>1. ~ Box!Expired(t)
    BY DEF Box!Expired
  <2> QED
    BY <1>0, <1>5, <2>1, SweptIs DEF Box!Alarm, Box!Live
<1>6. CASE Box!Tick
  <2>1. PICK row : row = store.threads[t]
    OBVIOUS
  <2>2. PICK next : next = store'.threads[t]
    OBVIOUS
  <2>3. next = row \/ (row \in TryRow /\ next = [row EXCEPT !.age = @ + 1])
    BY <1>0, <1>6, <2>1, <2>2, AgedIs
  <2>4. row \in TryRow /\ next = [row EXCEPT !.age = @ + 1] => next \in TryRow
    BY DEF TryRow
  <2>5. next # Box!NoThread
    BY <2>1, <2>3, <2>4, NoRow DEF Box!Live
  <2>6. store'.records = store.records
    BY <1>0, <1>6, AgedIs
  <2> QED
    BY <2>2, <2>5, <2>6
<1> QED
  BY <1>2, <1>3, <1>4, <1>5, <1>6 DEF Box!Next

\* A demo, once seeded, is there for good, its records unchanged.
THEOREM DemosStay == SpecParts => DemoStays
<1>1. BoxInv /\ [NextParts]_allVars =>
        [\A t \in TryThread :
           (Box!Live(t) /\ store.threads[t].slug \in DemoSlug) =>
             store'.threads[t] # Box!NoThread /\ store'.records[t] = store.records[t]]_sandboxVars
  <2>1. [NextParts]_allVars => [Box!Next]_sandboxVars
    BY DEF NextParts, NextImport, NextLimiter, NextReads, NextSandbox, allVars, sandboxVars
  <2> QED
    BY <2>1, DemoStep
<1>2. DemoStays <=>
        [][\A t \in TryThread :
             (Box!Live(t) /\ store.threads[t].slug \in DemoSlug) =>
               store'.threads[t] # Box!NoThread /\ store'.records[t] = store.records[t]]_sandboxVars
  BY DEF DemoStays, Box!DemoStays, Box!vars, sandboxVars
<1> QED
  BY <1>1, <1>2, SandboxHolds, PTL DEF SpecParts
=============================================================================

---------------------------- MODULE CockpitProofs ----------------------------
(***************************************************************************)
(* The cockpit's worker, for any number of requests, humans, items and     *)
(* threads and for logs of any length: what a thread's log can come to     *)
(* (AppThread), what the index says of it, and what triage leaves          *)
(* (Intake).                                                               *)
(***************************************************************************)
EXTENDS Cockpit, WellFoundedInduction, FiniteSetTheorems, SequenceTheorems, TLAPS

Entry == [kind : Kind, via : {"append", "companion", "ingest"}]

Objection == Event("objection", "append")
Minted    == Event("trigger", "companion")

-----------------------------------------------------------------------------
(* The last event of a kind *)

LEMMA MaxIs ==
  ASSUME NEW L \in Nat, NEW I \in SUBSET (1 .. L), I # {}
  PROVE  Max(I) \in I /\ \A i \in I : i <= Max(I)
<1> DEFINE Left == {n \in Nat : \E i \in I : n = L - i}
<1>1. \A i \in I : i \in Nat /\ L - i \in Left
  OBVIOUS
<1>2. Left # {} /\ Left \subseteq Nat
  BY <1>1
<1> HIDE DEF Left
<1>3. PICK n \in Left : \A m \in Left : ~ (<<m, n>> \in OpToRel(<, Nat))
  BY <1>2, NatLessThanWellFounded, WFMin
<1>4. \A m \in Left : ~ (m < n)
  BY <1>2, <1>3 DEF OpToRel
<1>5. PICK i \in I : n = L - i
  BY DEF Left
<1>6. \A j \in I : i >= j
  BY <1>1, <1>4, <1>5
<1>7. Max(I) \in I /\ \A j \in I : Max(I) >= j
  BY <1>6 DEF Max
<1> QED
  BY <1>1, <1>7

\* The status before position n is "decided", and k the decision.
DecidedAt(events, k, n) ==
  /\ k \in 1 .. n - 1
  /\ events[k].kind = "merge"
  /\ \A j \in k + 1 .. n - 1 : events[j].kind \notin DOMAIN StatusOf

LEMMA StatusKinds == DOMAIN StatusOf = {"created", "request", "merge", "trigger"}
  BY DEF StatusOf

LEMMA DecidedIs ==
  ASSUME NEW events \in Seq(Entry)
  PROVE  Status(events) = "decided" <=> \E k : DecidedAt(events, k, Len(events) + 1)
<1> DEFINE I == {n \in 1 .. Len(events) : events[n].kind \in DOMAIN StatusOf}
<1>0. Len(events) \in Nat
  OBVIOUS
<1>1. I \subseteq 1 .. Len(events) /\ 0 \notin I
  BY <1>0
<1>2. SelectLastInSeq(events, LAMBDA e : e.kind \in DOMAIN StatusOf) = IF I # {} THEN Max(I) ELSE 0
  BY DEF SelectLastInSeq
<1>3. CASE I = {}
  <2>1. Status(events) = "none"
    BY <1>2, <1>3 DEF Status
  <2>2. ASSUME NEW k, DecidedAt(events, k, Len(events) + 1) PROVE FALSE
    <3>1. k \in I
      BY <1>0, <2>2, StatusKinds DEF DecidedAt
    <3> QED
      BY <1>3, <3>1
  <2> QED
    BY <2>1, <2>2
<1>4. CASE I # {}
  <2>1. PICK n : n = Max(I)
    OBVIOUS
  <2>2. n \in I /\ \A i \in I : i <= n
    BY <1>0, <1>1, <1>4, <2>1, MaxIs
  <2>3. n \in 1 .. Len(events) /\ events[n].kind \in DOMAIN StatusOf
    BY <2>2
  <2>4. Status(events) = StatusOf[events[n].kind]
    BY <1>2, <1>4, <2>1, <2>3 DEF Status
  <2>5. Status(events) = "decided" <=> events[n].kind = "merge"
    BY <2>3, <2>4, StatusKinds DEF StatusOf
  <2>6. events[n].kind = "merge" => DecidedAt(events, n, Len(events) + 1)
    BY <1>0, <2>2, <2>3 DEF DecidedAt
  <2>7. ASSUME NEW k, DecidedAt(events, k, Len(events) + 1) PROVE events[n].kind = "merge"
    <3>1. k \in I /\ \A j \in k + 1 .. Len(events) : j \notin I
      BY <1>0, <2>7, StatusKinds DEF DecidedAt
    <3>2. n = k
      BY <1>0, <2>2, <2>3, <3>1
    <3> QED
      BY <2>7, <3>2 DEF DecidedAt
  <2> QED
    BY <2>5, <2>6, <2>7
<1> QED
  BY <1>3, <1>4

-----------------------------------------------------------------------------
(* The log *)

\* An objection to a decision is answered at once, and nothing else mints a trigger.
Answered(events) ==
  /\ \A n \in 1 .. Len(events) :
       events[n] = Objection /\ (\E k : DecidedAt(events, k, n)) =>
         n + 1 \in 1 .. Len(events) /\ events[n + 1] = Minted
  /\ \A n \in 1 .. Len(events) :
       events[n] = Minted =>
         /\ n - 1 \in 1 .. Len(events)
         /\ events[n - 1] = Objection
         /\ \E k : DecidedAt(events, k, n - 1)

LogInv == log \in Seq(Entry) /\ Answered(log)

\* new is old and more.
Extends(old, new) ==
  Len(old) <= Len(new) /\ \A n \in 1 .. Len(old) : new[n] = old[n]

LEMMA DecidedStays ==
  ASSUME NEW old \in Seq(Entry), NEW new \in Seq(Entry), Extends(old, new),
         NEW n \in 1 .. Len(old) + 1, NEW k
  PROVE  DecidedAt(new, k, n) <=> DecidedAt(old, k, n)
<1>1. \A j \in 1 .. n - 1 : new[j] = old[j]
  BY DEF Extends
<1>2. DecidedAt(new, k, n) => k \in 1 .. n - 1
  BY DEF DecidedAt
<1>3. DecidedAt(old, k, n) => k \in 1 .. n - 1
  BY DEF DecidedAt
<1>4. k \in 1 .. n - 1 => \A j \in k + 1 .. n - 1 : new[j] = old[j]
  BY <1>1
<1> QED
  BY <1>1, <1>2, <1>3, <1>4 DEF DecidedAt

\* What append leaves.
AppendedLog(kind) == Append(log, Event(kind, "append")) \o Companions(log, kind)

LEMMA AppendIs ==
  ASSUME log \in Seq(Entry), NEW kind \in Kind, NEW new,
         new = AppendedLog(kind)
  PROVE  /\ new \in Seq(Entry)
         /\ Extends(log, new)
         /\ new[Len(log) + 1] = Event(kind, "append")
         /\ IF kind = "objection" /\ Status(log) = "decided"
            THEN Len(new) = Len(log) + 2 /\ new[Len(log) + 2] = Minted
            ELSE Len(new) = Len(log) + 1
<1>1. PICK e \in Entry : e = Event(kind, "append")
  BY DEF Entry, Event
<1>2. PICK t \in Entry : t = Minted
  BY DEF Entry, Event, Minted, Kind
<1>3. PICK one : one = Append(log, e)
  OBVIOUS
<1>4. /\ one \in Seq(Entry) /\ Len(one) = Len(log) + 1 /\ one[Len(log) + 1] = e
      /\ \A n \in 1 .. Len(log) : one[n] = log[n]
  BY <1>3
<1>5. CASE kind = "objection" /\ Status(log) = "decided"
  <2>1. new = one \o <<t>>
    BY <1>1, <1>2, <1>3, <1>5 DEF Companions, Minted, AppendedLog
  <2>2. new = Append(one, t)
    BY <1>4, <2>1, AppendIsConcat
  <2>4. /\ new \in Seq(Entry) /\ Len(new) = Len(one) + 1 /\ new[Len(one) + 1] = t
        /\ \A n \in 1 .. Len(one) : new[n] = one[n]
    BY <1>4, <2>2
  <2>5. Len(new) = Len(log) + 2 /\ new[Len(log) + 2] = Minted /\ new[Len(log) + 1] = e
    BY <1>2, <1>4, <2>4
  <2>6. Extends(log, new)
    BY <1>4, <2>4 DEF Extends
  <2> QED
    BY <1>1, <1>5, <2>4, <2>5, <2>6
<1>6. CASE ~ (kind = "objection" /\ Status(log) = "decided")
  <2>2. new = one \o <<>>
    BY <1>1, <1>3, <1>6 DEF Companions, AppendedLog
  <2>3. new = one
    BY <1>4, <2>2, ConcatEmptySeq
  <2>4. Extends(log, new)
    BY <1>4, <2>3 DEF Extends
  <2> QED
    BY <1>1, <1>4, <1>6, <2>3, <2>4
<1> QED
  BY <1>5, <1>6

LEMMA AppendAnswers ==
  ASSUME LogInv, NEW kind \in Kind, NEW new,
         new = AppendedLog(kind)
  PROVE  Answered(new)
<1>0. log \in Seq(Entry)
  BY DEF LogInv
<1>1. /\ log \in Seq(Entry) /\ new \in Seq(Entry) /\ Extends(log, new) /\ Len(log) \in Nat
      /\ new[Len(log) + 1] = Event(kind, "append")
      /\ IF kind = "objection" /\ Status(log) = "decided"
         THEN Len(new) = Len(log) + 2 /\ new[Len(log) + 2] = Minted
         ELSE Len(new) = Len(log) + 1
  BY <1>0, AppendIs
<1>2. PICK L \in Nat : L = Len(log)
  BY <1>1
<1>3. PICK M \in Nat : M = Len(new) /\ (M = L + 1 \/ M = L + 2)
  BY <1>1, <1>2
<1>4. /\ \A n \in 1 .. L : new[n] = log[n]
      /\ new[L + 1] = Event(kind, "append")
      /\ M = L + 2 => kind = "objection" /\ Status(log) = "decided" /\ new[L + 2] = Minted
      /\ kind = "objection" /\ Status(log) = "decided" => M = L + 2
  BY <1>1, <1>2, <1>3 DEF Extends
<1>5. Event(kind, "append") # Minted /\ (Event(kind, "append") = Objection => kind = "objection")
      /\ Minted # Objection
  BY DEF Event, Minted, Objection
<1>6. \A n \in 1 .. L + 1 : \A k : DecidedAt(new, k, n) <=> DecidedAt(log, k, n)
  BY <1>1, <1>2, DecidedStays
<1>7. ASSUME NEW n \in 1 .. M, new[n] = Objection, NEW k, DecidedAt(new, k, n)
      PROVE  n + 1 \in 1 .. M /\ new[n + 1] = Minted
  <2>1. CASE n \in 1 .. L
    <3>1. log[n] = Objection /\ DecidedAt(log, k, n)
      BY <1>3, <1>4, <1>6, <1>7, <2>1
    <3>2. n + 1 \in 1 .. L /\ log[n + 1] = Minted
      BY <1>3, <1>2, <2>1, <3>1 DEF LogInv, Answered
    <3> QED
      BY <1>3, <1>4, <3>2
  <2>2. CASE n = L + 1
    <3>1. kind = "objection"
      BY <1>3, <1>4, <1>5, <1>7, <2>2
    <3>2. DecidedAt(log, k, L + 1)
      BY <1>3, <1>4, <1>6, <1>7, <2>2
    <3>3. Status(log) = "decided"
      BY <1>1, <1>2, <3>2, DecidedIs
    <3> QED
      BY <1>3, <1>4, <2>2, <3>1, <3>3
  <2>3. CASE n = L + 2
    BY <1>3, <1>4, <1>5, <1>7, <2>3
  <2> QED
    BY <1>3, <1>4, <2>1, <2>2, <2>3
<1>8. ASSUME NEW n \in 1 .. M, new[n] = Minted
      PROVE  /\ n - 1 \in 1 .. M /\ new[n - 1] = Objection
             /\ \E k : DecidedAt(new, k, n - 1)
  <2>1. CASE n \in 1 .. L
    <3>1. log[n] = Minted
      BY <1>3, <1>4, <1>8, <2>1
    <3>2. PICK k : n - 1 \in 1 .. L /\ log[n - 1] = Objection /\ DecidedAt(log, k, n - 1)
      BY <1>3, <1>2, <2>1, <3>1 DEF LogInv, Answered
    <3>3. DecidedAt(new, k, n - 1)
      BY <1>3, <1>4, <1>6, <3>2
    <3> QED
      BY <1>3, <1>4, <3>2, <3>3
  <2>2. CASE n = L + 1
    BY <1>3, <1>4, <1>5, <1>8, <2>2
  <2>3. CASE n = L + 2
    <3>1. kind = "objection" /\ Status(log) = "decided"
      BY <1>3, <1>4, <2>3
    <3>2. PICK k : DecidedAt(log, k, L + 1)
      BY <1>1, <1>2, <3>1, DecidedIs
    <3>3. DecidedAt(new, k, L + 1)
      BY <1>3, <1>4, <1>6, <3>2
    <3>4. new[n - 1] = Objection
      BY <1>3, <1>4, <2>3, <3>1 DEF Objection
    <3> QED
      BY <1>3, <1>4, <2>3, <3>3, <3>4
  <2> QED
    BY <1>3, <1>4, <2>1, <2>2, <2>3
<1> QED
  BY <1>7, <1>8, <1>3 DEF Answered


LEMMA IngestAnswers ==
  ASSUME NEW kinds \in Batch, NEW new, new = [n \in DOMAIN kinds |-> Event(kinds[n], "ingest")]
  PROVE  new \in Seq(Entry) /\ Answered(new)
<1>1. kinds \in Seq(Kind)
  BY AppAssumption
<1>2. \A kind \in Kind : Event(kind, "ingest") \in Entry
  BY DEF Event, Entry
<1>3. new \in Seq(Entry) /\ Len(new) = Len(kinds) /\ DOMAIN new = 1 .. Len(new)
  BY <1>1, <1>2
<1>4. \A n \in 1 .. Len(new) : new[n].via = "ingest"
  BY <1>1, <1>3 DEF Event
<1>5. Objection.via # "ingest" /\ Minted.via # "ingest"
  BY DEF Objection, Minted, Event
<1> QED
  BY <1>3, <1>4, <1>5 DEF Answered

LEMMA LogInit == Init => LogInv
  BY DEF Init, LogInv, Answered

LEMMA LogNext == LogInv /\ [Next]_vars => LogInv'
<1> SUFFICES ASSUME LogInv, [Next]_vars PROVE LogInv'
  OBVIOUS
<1>1. ASSUME NEW r \in Request, NEW kind \in Appended, AppendEvent(r, kind) PROVE LogInv'
  <2>1. kind \in Kind
    BY AppAssumption
  <2>2. PICK new : new = log'
    OBVIOUS
  <2>3. new = AppendedLog(kind)
    BY <1>1, <2>2 DEF AppendEvent, AppendedLog
  <2>4. new \in Seq(Entry)
    BY <2>1, <2>3, AppendIs DEF LogInv
  <2>5. Answered(new)
    BY <2>1, <2>3, AppendAnswers
  <2> QED
    BY <2>2, <2>4, <2>5 DEF LogInv
<1>2. ASSUME NEW r \in Request, NEW kinds \in Batch, Ingest(r, kinds) PROVE LogInv'
  <2>1. PICK new : new = log'
    OBVIOUS
  <2>2. new \in Seq(Entry) /\ Answered(new)
    BY <1>2, <2>1, IngestAnswers DEF Ingest
  <2> QED
    BY <2>1, <2>2 DEF LogInv
<1>3. ASSUME NEW r \in Request, Purge(r) PROVE LogInv'
  BY <1>3 DEF Purge, LogInv, Answered
<1>4. ASSUME log' = log PROVE LogInv'
  BY <1>4 DEF LogInv
<1>5. ASSUME NEW r \in Request,
             Rebuild(r) \/ Step(r) \/ Die(r) \/ PurgeCheck(r) \/ RemoveRow(r)
      PROVE  LogInv'
  BY <1>4, <1>5 DEF Rebuild, Step, ReadCard, Upsert, Notify, Die, PurgeCheck, RemoveRow
<1>6. CASE UNCHANGED vars
  BY <1>4, <1>6 DEF vars
<1> QED
  BY <1>1, <1>2, <1>3, <1>5, <1>6 DEF Next, Write

LEMMA ThreadSteps == [NextThread \/ NextInbox]_<<part, vars, intakeVars>> => [Next]_vars
  BY DEF NextThread, NextInbox

LEMMA LogHolds == SpecParts => []LogInv
<1>1. InitParts => LogInv
  BY LogInit DEF InitParts
<1>2. LogInv /\ [NextThread \/ NextInbox]_<<part, vars, intakeVars>> => LogInv'
  BY ThreadSteps, LogNext
<1> QED
  BY <1>1, <1>2, PTL DEF SpecParts

\* A log whose status is "decided" ends in a decision nobody has objected to since, however
\* many decisions, objections and re-reviews came before and whatever requests overlap.
THEOREM DecisionsStandUncontradicted == SpecParts => []NoContradictedDecision
<1>1. LogInv => NoContradictedDecision
  <2> SUFFICES ASSUME LogInv, Status(log) = "decided",
                      NEW n \in LastOf(log, "merge") .. Len(log), n > 0, log[n] = Objection
               PROVE  FALSE
    BY DEF NoContradictedDecision, Objection
  <2>1. PICK L \in Nat : L = Len(log)
    BY DEF LogInv
  <2>2. PICK k : DecidedAt(log, k, L + 1)
    BY <2>1, DecidedIs DEF LogInv
  <2>3. PICK I \in SUBSET (1 .. L) : I = {i \in 1 .. L : log[i].kind = "merge"}
    OBVIOUS
  <2>4. k \in I
    BY <2>2, <2>3 DEF DecidedAt
  <2>5. LastOf(log, "merge") = Max(I)
    BY <2>1, <2>3, <2>4 DEF LastOf, SelectLastInSeq
  <2>6. PICK m \in I : m = Max(I) /\ k <= m
    BY <2>4, MaxIs
  <2>7. k \in 1 .. L /\ n \in k .. L
    <3>1. n \in m .. L
      BY <2>1, <2>5, <2>6
    <3> QED
      BY <2>4, <2>6, <3>1
  <2>8. n # k
    BY <2>2 DEF DecidedAt, Objection, Event
  <2>9. DecidedAt(log, k, n)
    BY <2>2, <2>7, <2>8 DEF DecidedAt
  <2>10. n + 1 \in 1 .. L /\ log[n + 1] = Minted
    <3>1. n \in 1 .. L
      BY <2>7
    <3> QED
      BY <2>1, <2>9, <3>1 DEF LogInv, Answered
  <2>11. log[n + 1].kind = "trigger"
    BY <2>10 DEF Minted, Event
  <2> QED
    BY <2>2, <2>7, <2>10, <2>11, StatusKinds DEF DecidedAt
<1> QED
  BY <1>1, LogHolds, PTL

\* Between one decision and the next the object mints at most one trigger, right behind
\* the objection that caused it.
THEOREM OneTriggerEach == SpecParts => []OneTriggerPerEpoch
<1>1. LogInv => OneTriggerPerEpoch
  <2> SUFFICES ASSUME LogInv PROVE OneTriggerPerEpoch
    OBVIOUS
  <2>1. PICK L \in Nat : L = Len(log) /\ DOMAIN log = 1 .. L
    BY DEF LogInv
  <2>2. ASSUME NEW n \in 1 .. L, log[n] = Minted
        PROVE  log[n - 1] = Objection
    BY <2>1, <2>2 DEF LogInv, Answered
  <2>3. ASSUME NEW n \in 1 .. L, log[n] = Minted, NEW m \in 1 .. L, log[m] = Minted, m < n
        PROVE  \E k \in m .. n : log[k].kind = "merge"
    <3>1. PICK k : log[n - 1] = Objection /\ DecidedAt(log, k, n - 1)
      BY <2>1, <2>3 DEF LogInv, Answered
    <3>2. log[m].kind = "trigger" /\ log[n - 1].kind = "objection"
      BY <2>3, <3>1 DEF Minted, Objection, Event
    <3>3. m # n - 1
      BY <3>2
    <3>4. ~ (m \in k + 1 .. n - 2)
      BY <3>1, <3>2, StatusKinds DEF DecidedAt
    <3>5. k \in 1 .. n - 2 /\ log[k].kind = "merge"
      BY <3>1 DEF DecidedAt
    <3> QED
      BY <2>3, <3>3, <3>4, <3>5
  <2> QED
    BY <2>1, <2>2, <2>3 DEF OneTriggerPerEpoch, Minted, Objection
<1> QED
  BY <1>1, LogHolds, PTL


-----------------------------------------------------------------------------
(* The index, while requests are served one at a time *)

OneAtATime == \A r, s \in Request : r = s

\* The objection behind the last trigger the object has minted.
FlagOf(events) ==
  LET n == SelectLastInSeq(events, LAMBDA e : e = Event("trigger", "companion"))
  IN IF n = 0 THEN NoFlag ELSE n - 1

MintedAt(events) == {i \in 1 .. Len(events) : events[i] = Minted}

LEMMA FlagIs ==
  ASSUME NEW events
  PROVE  FlagOf(events) = LET n == IF MintedAt(events) # {} THEN Max(MintedAt(events)) ELSE 0
                          IN IF n = 0 THEN NoFlag ELSE n - 1
  BY DEF FlagOf, SelectLastInSeq, MintedAt, Minted

LEMMA FlagNone == FlagOf(<<>>) = NoFlag
<1>1. MintedAt(<<>>) = {}
  BY DEF MintedAt
<1> QED
  BY <1>1, FlagIs

LEMMA FlagIngested ==
  ASSUME NEW kinds \in Batch, NEW new, new = [n \in DOMAIN kinds |-> Event(kinds[n], "ingest")]
  PROVE  FlagOf(new) = NoFlag
<1>1. kinds \in Seq(Kind)
  BY AppAssumption
<1>2. \A n \in 1 .. Len(new) : new[n].via = "ingest"
  BY <1>1 DEF Event
<1>3. Minted.via # "ingest"
  BY DEF Minted, Event
<1>4. MintedAt(new) = {}
  BY <1>2, <1>3 DEF MintedAt
<1> QED
  BY <1>4, FlagIs

LEMMA FlagAppended ==
  ASSUME log \in Seq(Entry), NEW kind \in Kind, NEW new, new = AppendedLog(kind)
  PROVE  FlagOf(new) = IF Companions(log, kind) # <<>> THEN Len(log) + 1 ELSE FlagOf(log)
<1>1. /\ new \in Seq(Entry) /\ Extends(log, new)
      /\ new[Len(log) + 1] = Event(kind, "append")
      /\ IF kind = "objection" /\ Status(log) = "decided"
         THEN Len(new) = Len(log) + 2 /\ new[Len(log) + 2] = Minted
         ELSE Len(new) = Len(log) + 1
  BY AppendIs
<1>2. PICK L \in Nat : L = Len(log)
  OBVIOUS
<1>3. PICK M \in Nat : M = Len(new)
  BY <1>1
<1>4. Event(kind, "append") # Minted
  BY DEF Event, Minted
<1>5. CASE kind = "objection" /\ Status(log) = "decided"
  <2>1. M = L + 2 /\ new[M] = Minted
    BY <1>1, <1>2, <1>3, <1>5
  <2>2. MintedAt(new) \in SUBSET (1 .. M) /\ M \in MintedAt(new)
    BY <1>3, <2>1 DEF MintedAt
  <2>3. Max(MintedAt(new)) \in MintedAt(new) /\ M <= Max(MintedAt(new))
    BY <2>2, MaxIs
  <2>4. Max(MintedAt(new)) = M
    BY <2>2, <2>3
  <2>5. FlagOf(new) = M - 1
    BY <1>2, <2>1, <2>2, <2>4, FlagIs
  <2>6. Companions(log, kind) # <<>>
    <3>1. Companions(log, kind) = <<Minted>>
      BY <1>5 DEF Companions, Minted
    <3> QED
      BY <3>1
  <2> QED
    BY <1>2, <2>1, <2>5, <2>6
<1>6. CASE ~ (kind = "objection" /\ Status(log) = "decided")
  <2>1. M = L + 1 /\ new[M] # Minted
    BY <1>1, <1>2, <1>3, <1>4, <1>6
  <2>2. \A i \in 1 .. L : new[i] = log[i]
    BY <1>1, <1>2 DEF Extends
  <2>3. \A i \in 1 .. M : i \in 1 .. L \/ i = M
    BY <1>2, <1>3, <2>1
  <2>4. MintedAt(new) = MintedAt(log)
    BY <1>2, <1>3, <2>1, <2>2, <2>3 DEF MintedAt
  <2>5. FlagOf(new) = FlagOf(log)
    BY <2>4, FlagIs
  <2>6. Companions(log, kind) = <<>>
    BY <1>6 DEF Companions
  <2> QED
    BY <2>5, <2>6
<1> QED
  BY <1>5, <1>6

LEMMA RegisteredStays ==
  ASSUME NEW old \in Seq(Entry), NEW new \in Seq(Entry), Extends(old, new), Registered(old)
  PROVE  Registered(new)
<1>1. PICK n \in 1 .. Len(old) : old[n].kind = "created"
  BY DEF Registered, Has
<1>2. n \in 1 .. Len(new) /\ new[n].kind = "created"
  BY <1>1 DEF Extends
<1> QED
  BY <1>2 DEF Registered, Has

LEMMA NotRegistered == ~ Registered(<<>>)
  BY DEF Registered, Has

LEMMA GotoIs ==
  ASSUME DOMAIN req = Request, NEW r \in Request, NEW at, Goto(r, at)
  PROVE  /\ req'[r] = at
         /\ DOMAIN req' = Request
         /\ \A s \in Request \ {r} : req'[s] = req[s]
  BY DEF Goto

InSync == card = IF Registered(log) THEN IndexCard(log) ELSE NoCard

\* The flag is as the log has it, or will be once the objection is flagged.
Due(objection) ==
  IF objection = NoFlag THEN flag = FlagOf(log) ELSE objection = FlagOf(log)

\* What is known at each of a request's calls, none having died on the way.
Serving(r) ==
  \/ req[r] = Idle /\ (~ died => InSync /\ flag = FlagOf(log))
  \/ /\ req[r].at = "register"
     /\ ~ died => (Registered(log) \/ card = NoCard) /\ Due(req[r].objection)
  \/ /\ req[r].at = "upsert"
     /\ ~ died => Registered(log) /\ req[r].card = IndexCard(log) /\ Due(req[r].objection)
  \/ /\ req[r].at = "notify"
     /\ ~ died => InSync /\ req[r].objection = FlagOf(log)
  \/ /\ req[r].at = "purge"
     /\ ~ Registered(log)
     /\ ~ died => card = NoCard /\ flag = FlagOf(log)
  \/ req[r].at = "remove" /\ log = <<>>

SerialInv ==
  /\ DOMAIN req = Request
  /\ OneAtATime => (\A r \in Request : Serving(r)) /\ (Request = {} => InSync /\ flag = FlagOf(log))

LEMMA SerialInit == Init => SerialInv
<1> SUFFICES ASSUME Init PROVE SerialInv
  OBVIOUS
<1>1. InSync /\ flag = FlagOf(log) /\ \A r \in Request : req[r] = Idle
  BY FlagNone, NotRegistered DEF Init, InSync
<1>2. DOMAIN req = Request
  BY DEF Init
<1> QED
  BY <1>1, <1>2 DEF SerialInv, Serving

LEMMA SerialStep ==
  ASSUME LogInv, SerialInv, OneAtATime, NEW r \in Request,
         Write(r) \/ PurgeCheck(r) \/ Purge(r) \/ RemoveRow(r)
  PROVE  Serving(r)'
<1>0. DOMAIN req = Request /\ Serving(r) /\ log \in Seq(Entry)
  BY DEF SerialInv, LogInv
<1>1. Idle.at = "idle"
  BY DEF Idle
<1>2. ASSUME NEW kind \in Appended, AppendEvent(r, kind) PROVE Serving(r)'
  <2>1. kind \in Kind
    BY AppAssumption
  <2>2. PICK new : new = log'
    OBVIOUS
  <2>3. new = AppendedLog(kind)
    BY <1>2, <2>2 DEF AppendEvent, AppendedLog
  <2>4. Extends(log, new) /\ new \in Seq(Entry) /\ Len(log) \in Nat
    BY <1>0, <2>1, <2>3, AppendIs
  <2>5. FlagOf(new) = IF Companions(log, kind) # <<>> THEN Len(log) + 1 ELSE FlagOf(log)
    BY <1>0, <2>1, <2>3, FlagAppended
  <2>6. PICK at : at = [at |-> "register",
                        objection |-> IF Companions(log, kind) # <<>> THEN Len(log) + 1 ELSE NoFlag]
    OBVIOUS
  <2>7. req[r] = Idle /\ Goto(r, at) /\ card' = card /\ flag' = flag /\ died' = died
    BY <1>2, <2>6 DEF AppendEvent
  <2>8. req'[r] = at
    BY <1>0, <2>7, GotoIs
  <2>9. ~ died => InSync /\ flag = FlagOf(log)
    BY <1>0, <1>1, <2>7 DEF Serving
  <2>10. ~ died => Registered(new) \/ card = NoCard
    BY <1>0, <2>4, <2>9, RegisteredStays DEF InSync
  <2>11. ~ died => IF at.objection = NoFlag THEN flag = FlagOf(new) ELSE at.objection = FlagOf(new)
    BY <2>4, <2>5, <2>6, <2>9 DEF NoFlag
  <2> QED
    BY <2>2, <2>6, <2>7, <2>8, <2>10, <2>11 DEF Serving, Due
<1>3. ASSUME NEW kinds \in Batch, Ingest(r, kinds) PROVE Serving(r)'
  <2>1. PICK at : at = [at |-> "register", objection |-> NoFlag]
    OBVIOUS
  <2>2. /\ req[r] = Idle /\ log = <<>> /\ Goto(r, at)
        /\ card' = card /\ flag' = flag /\ died' = died
    BY <1>3, <2>1 DEF Ingest
  <2>3. req'[r] = at
    BY <1>0, <2>2, GotoIs
  <2>4. ~ died => card = NoCard /\ flag = NoFlag
    BY <1>0, <1>1, <2>2, FlagNone, NotRegistered DEF Serving, InSync
  <2>5. FlagOf(log') = NoFlag
    BY <1>3, FlagIngested DEF Ingest
  <2> QED
    BY <2>1, <2>2, <2>3, <2>4, <2>5 DEF Serving, Due
<1>4. CASE Rebuild(r)
  <2>1. PICK at : at = [at |-> "register", objection |-> NoFlag]
    OBVIOUS
  <2>2. /\ req[r] = Idle /\ card # NoCard /\ Goto(r, at) /\ log' = log
        /\ card' = card /\ flag' = flag /\ died' = died
    BY <1>4, <2>1 DEF Rebuild
  <2>3. req'[r] = at
    BY <1>0, <2>2, GotoIs
  <2>4. ~ died => Registered(log) /\ flag = FlagOf(log)
    BY <1>0, <1>1, <2>2 DEF Serving, InSync
  <2> QED
    BY <2>1, <2>2, <2>3, <2>4 DEF Serving, Due
<1>5. ASSUME NEW objection, ~ died => InSync /\ Due(objection),
             log' = log, card' = card, flag' = flag, died' = died, req'[r] = Notifying(objection)
      PROVE  Serving(r)'
  <2>1. CASE objection = NoFlag
    BY <1>5, <2>1 DEF Serving, InSync, Due, Notifying
  <2>2. CASE objection # NoFlag
    BY <1>5, <2>2 DEF Serving, InSync, Due, Notifying
  <2> QED
    BY <2>1, <2>2
<1>6. CASE ReadCard(r)
  <2>1. req[r].at = "register" /\ log' = log /\ card' = card /\ flag' = flag /\ died' = died
    BY <1>6 DEF ReadCard
  <2>2. ~ died => (Registered(log) \/ card = NoCard) /\ Due(req[r].objection)
    BY <1>0, <1>1, <2>1 DEF Serving
  <2>3. CASE Registered(log)
    <3>1. PICK at : at = [at |-> "upsert", objection |-> req[r].objection, card |-> IndexCard(log)]
      OBVIOUS
    <3>2. req'[r] = at
      BY <1>0, <1>6, <2>3, <3>1, GotoIs DEF ReadCard
    <3> QED
      BY <2>1, <2>2, <2>3, <3>1, <3>2 DEF Serving, Due
  <2>4. CASE ~ Registered(log)
    <3>1. req'[r] = Notifying(req[r].objection)
      BY <1>0, <1>6, <2>4, GotoIs DEF ReadCard
    <3>2. ~ died => InSync
      BY <2>2, <2>4 DEF InSync
    <3> QED
      BY <1>5, <2>1, <2>2, <3>1, <3>2
  <2> QED
    BY <2>3, <2>4
<1>7. CASE Upsert(r)
  <2>1. /\ req[r].at = "upsert" /\ card' = req[r].card
        /\ log' = log /\ flag' = flag /\ died' = died
    BY <1>7 DEF Upsert
  <2>2. ~ died => Registered(log) /\ req[r].card = IndexCard(log) /\ Due(req[r].objection)
    BY <1>0, <1>1, <2>1 DEF Serving
  <2>3. req'[r] = Notifying(req[r].objection)
    BY <1>0, <1>7, GotoIs DEF Upsert
  <2>4. ~ died => InSync'
    BY <2>1, <2>2 DEF InSync
  <2> QED
    BY <2>1, <2>2, <2>3, <2>4 DEF Serving, InSync, Due, Notifying
<1>8. CASE Notify(r)
  <2>1. /\ req[r].at = "notify" /\ flag' = req[r].objection
        /\ log' = log /\ card' = card /\ died' = died
    BY <1>8 DEF Notify
  <2>2. ~ died => InSync /\ req[r].objection = FlagOf(log)
    BY <1>0, <1>1, <2>1 DEF Serving
  <2>3. req'[r] = Idle
    BY <1>0, <1>8, GotoIs DEF Notify
  <2> QED
    BY <2>1, <2>2, <2>3 DEF Serving, InSync
<1>9. CASE Die(r)
  <2>1. req'[r] = Idle /\ died' = TRUE
    BY <1>0, <1>9, GotoIs DEF Die
  <2> QED
    BY <2>1 DEF Serving
<1>10. CASE PurgeCheck(r)
  <2>1. PICK at : at = [at |-> "purge"]
    OBVIOUS
  <2>2. /\ req[r] = Idle /\ ~ Registered(log) /\ Goto(r, at)
        /\ log' = log /\ card' = card /\ flag' = flag /\ died' = died
    BY <1>10, <2>1 DEF PurgeCheck
  <2>3. req'[r] = at
    BY <1>0, <2>2, GotoIs
  <2>4. ~ died => card = NoCard /\ flag = FlagOf(log)
    BY <1>0, <1>1, <2>2 DEF Serving, InSync
  <2> QED
    BY <2>1, <2>2, <2>3, <2>4 DEF Serving
<1>11. CASE Purge(r)
  <2>1. PICK at : at = [at |-> "remove"]
    OBVIOUS
  <2>2. log' = <<>> /\ Goto(r, at)
    BY <1>11, <2>1 DEF Purge
  <2>3. req'[r] = at
    BY <1>0, <2>2, GotoIs
  <2> QED
    BY <2>1, <2>2, <2>3 DEF Serving
<1>12. CASE RemoveRow(r)
  <2>1. /\ req[r].at = "remove" /\ log' = log /\ card' = NoCard /\ flag' = NoFlag
        /\ Goto(r, Idle)
    BY <1>12 DEF RemoveRow
  <2>2. log = <<>>
    BY <1>0, <1>1, <2>1 DEF Serving
  <2>3. req'[r] = Idle
    BY <1>0, <2>1, GotoIs
  <2> QED
    BY <2>1, <2>2, <2>3, FlagNone, NotRegistered DEF Serving, InSync
<1> QED
  BY <1>2, <1>3, <1>4, <1>6, <1>7, <1>8, <1>9, <1>10, <1>11, <1>12 DEF Write, Step


LEMMA RequestsStay ==
  ASSUME DOMAIN req = Request, NEW r \in Request,
         Write(r) \/ PurgeCheck(r) \/ Purge(r) \/ RemoveRow(r)
  PROVE  DOMAIN req' = Request
<1>1. \E at : Goto(r, at)
  BY DEF Write, AppendEvent, Ingest, Rebuild, Step, ReadCard, Upsert, Notify, Die, PurgeCheck,
         Purge, RemoveRow
<1> QED
  BY <1>1, GotoIs

LEMMA SerialNext == LogInv /\ SerialInv /\ [Next]_vars => SerialInv'
<1> SUFFICES ASSUME LogInv, SerialInv, [Next]_vars PROVE SerialInv'
  OBVIOUS
<1>1. ASSUME NEW r \in Request, Write(r) \/ PurgeCheck(r) \/ Purge(r) \/ RemoveRow(r)
      PROVE  SerialInv'
  <2>1. DOMAIN req' = Request
    BY <1>1, RequestsStay DEF SerialInv
  <2>2. OneAtATime => Serving(r)'
    BY <1>1, SerialStep
  <2>3. OneAtATime => \A s \in Request : s = r
    BY DEF OneAtATime
  <2> QED
    BY <2>1, <2>2, <2>3 DEF SerialInv, OneAtATime
<1>2. CASE UNCHANGED vars
  BY <1>2 DEF vars, SerialInv, Serving, InSync, Due, OneAtATime
<1> QED
  BY <1>1, <1>2 DEF Next

LEMMA SerialHolds == SpecParts => []SerialInv
<1>1. InitParts => SerialInv
  BY SerialInit DEF InitParts
<1>2. LogInv /\ SerialInv /\ [NextThread \/ NextInbox]_<<part, vars, intakeVars>> => SerialInv'
  BY ThreadSteps, SerialNext
<1> QED
  BY <1>1, <1>2, LogHolds, PTL DEF SpecParts

\* "Keep the thread index in sync after a write": while requests come one after the
\* other, the row is the projection of the log once they have all ended well.
THEOREM IndexFollowsLog == SpecParts => [](OneAtATime => IndexInSync)
<1>1. SerialInv => (OneAtATime => IndexInSync)
  <2> SUFFICES ASSUME SerialInv, OneAtATime, Settled PROVE InSync
    BY DEF IndexInSync, InSync
  <2>1. CASE Request = {}
    BY <2>1 DEF SerialInv
  <2>2. CASE Request # {}
    BY <2>2 DEF SerialInv, Serving, Settled, Idle
  <2> QED
    BY <2>1, <2>2
<1> QED
  BY <1>1, SerialHolds, PTL

\* A trigger the object has minted reaches the owner's flag, while requests come one
\* after the other and end well.
THEOREM TriggersReachTheFlag == SpecParts => [](OneAtATime => TriggerIsFlagged)
<1>1. SerialInv => (OneAtATime => TriggerIsFlagged)
  <2> SUFFICES ASSUME SerialInv, OneAtATime, Settled PROVE flag = FlagOf(log)
    BY DEF TriggerIsFlagged, FlagOf
  <2>1. CASE Request = {}
    BY <2>1 DEF SerialInv
  <2>2. CASE Request # {}
    BY <2>2 DEF SerialInv, Serving, Settled, Idle
  <2> QED
    BY <2>1, <2>2
<1> QED
  BY <1>1, SerialHolds, PTL

\* Purging "refuses registered threads to keep legitimate logs append-only", while
\* requests come one after the other, dying ones included.
THEOREM RegisteredKeepTheirLog == SpecParts => (OneAtATime => RegisteredAppendOnly)
<1>1. ASSUME OneAtATime
      PROVE  LogInv /\ SerialInv /\ [Next]_vars => [Registered(log) => IsPrefix(log, log')]_vars
  <2> SUFFICES ASSUME LogInv, SerialInv, Next, Registered(log)
               PROVE  IsPrefix(log, log')
    OBVIOUS
  <2>0. log \in Seq(Entry)
    BY DEF LogInv
  <2>1. ASSUME NEW new \in Seq(Entry), Extends(log, new) PROVE IsPrefix(log, new)
    <3>1. Len(log) \in Nat /\ Len(new) \in Nat /\ Len(log) <= Len(new)
      BY <2>0, <2>1 DEF Extends
    <3>2. SubSeq(log, 1, Len(log)) = [n \in 1 .. Len(log) |-> log[n]]
      BY <2>0, <3>1
    <3>3. SubSeq(new, 1, Len(log)) = [n \in 1 .. Len(log) |-> new[n]]
      BY <2>1, <3>1
    <3>4. \A n \in 1 .. Len(log) : new[n] = log[n]
      BY <2>1 DEF Extends
    <3> QED
      BY <3>1, <3>2, <3>3, <3>4 DEF IsPrefix
  <2>2. ASSUME log' = log PROVE IsPrefix(log, log')
    BY <2>0, <2>1, <2>2 DEF Extends
  <2>3. PICK r \in Request : Write(r) \/ PurgeCheck(r) \/ Purge(r) \/ RemoveRow(r)
    BY DEF Next
  <2>4. ASSUME NEW kind \in Appended, AppendEvent(r, kind) PROVE IsPrefix(log, log')
    <3>1. PICK new : new = log'
      OBVIOUS
    <3>2. kind \in Kind /\ new = AppendedLog(kind)
      BY <2>4, <3>1, AppAssumption DEF AppendEvent, AppendedLog
    <3>3. new \in Seq(Entry) /\ Extends(log, new)
      BY <2>0, <3>2, AppendIs
    <3> QED
      BY <2>1, <3>1, <3>3
  <2>5. ASSUME NEW kinds \in Batch, Ingest(r, kinds) PROVE FALSE
    BY <2>5, NotRegistered DEF Ingest
  <2>6. CASE Purge(r)
    <3>1. req[r].at = "purge" /\ Serving(r)
      BY <1>1, <2>6 DEF Purge, SerialInv
    <3> QED
      BY <3>1, NotRegistered DEF Serving, Idle
  <2>7. CASE Rebuild(r) \/ Step(r) \/ Die(r) \/ PurgeCheck(r) \/ RemoveRow(r)
    BY <2>2, <2>7 DEF Rebuild, Step, ReadCard, Upsert, Notify, Die, PurgeCheck, RemoveRow
  <2> QED
    BY <2>3, <2>4, <2>5, <2>6, <2>7 DEF Write
<1>2. CASE OneAtATime
  <2>1. LogInv /\ SerialInv /\ [Next]_vars => [Registered(log) => IsPrefix(log, log')]_vars
    BY <1>1, <1>2
  <2> QED
    BY <2>1, ThreadSteps, LogHolds, SerialHolds, PTL DEF SpecParts, RegisteredAppendOnly
<1> QED
  BY <1>2

-----------------------------------------------------------------------------
(* The index, whatever requests overlap, while nobody purges *)

\* A row the log has really had.
Snapshot(row) ==
  /\ row.events \in 0 .. Len(log)
  /\ row = IndexCard(SubSeq(log, 1, row.events))

ListInv ==
  /\ log \in Seq(Entry)
  /\ DOMAIN req = Request
  /\ card = NoCard \/ Snapshot(card)
  /\ \A r \in Request : req[r].at = "upsert" => Snapshot(req[r].card)
  /\ ~ died /\ Registered(log) =>
       card # NoCard \/ \E r \in Request : req[r].at \in {"register", "upsert"}

LEMMA CardIs ==
  ASSUME NEW events
  PROVE  /\ IndexCard(events) # NoCard
         /\ IndexCard(events).events = Len(events)
<1>1. IndexCard(events).listed = TRUE /\ IndexCard(events).events = Len(events)
  BY DEF IndexCard
<1>2. NoCard.listed = FALSE
  BY DEF NoCard
<1> QED
  BY <1>1, <1>2

LEMMA SnapshotStays ==
  ASSUME log \in Seq(Entry), log' \in Seq(Entry), Extends(log, log'), NEW row, Snapshot(row)
  PROVE  Snapshot(row)'
<1>1. PICK old \in Seq(Entry) : old = log
  OBVIOUS
<1>2. PICK new \in Seq(Entry) : new = log'
  OBVIOUS
<1>3. PICK n \in 0 .. Len(old) : n = row.events
  BY <1>1 DEF Snapshot
<1>4. n \in 0 .. Len(new) /\ \A i \in 1 .. n : new[i] = old[i]
  BY <1>1, <1>2 DEF Extends
<1>5. SubSeq(old, 1, n) = [i \in 1 .. n |-> old[i]]
  OBVIOUS
<1>6. SubSeq(new, 1, n) = [i \in 1 .. n |-> new[i]]
  BY <1>4
<1>7. SubSeq(new, 1, n) = SubSeq(old, 1, n)
  BY <1>4, <1>5, <1>6
<1> QED
  BY <1>1, <1>2, <1>3, <1>4, <1>7 DEF Snapshot

LEMMA NowIsSnapshot ==
  ASSUME log \in Seq(Entry)
  PROVE  Snapshot(IndexCard(log))
<1>1. SubSeq(log, 1, Len(log)) = log
  OBVIOUS
<1>2. Len(log) \in 0 .. Len(log)
  OBVIOUS
<1> QED
  BY <1>1, <1>2, CardIs DEF Snapshot

LEMMA ListInit == Init => ListInv
  BY NotRegistered DEF Init, ListInv, Idle

\* A step that writes to the log leaves a request that will register the thread.
LEMMA ListWrites ==
  ASSUME ListInv, log' \in Seq(Entry), Extends(log, log'), NEW r \in Request,
         NEW objection, Goto(r, [at |-> "register", objection |-> objection]),
         UNCHANGED <<card, flag, died>>
  PROVE  ListInv'
<1>1. PICK at : at = [at |-> "register", objection |-> objection]
  OBVIOUS
<1>2. /\ req'[r] = at /\ DOMAIN req' = Request /\ at.at = "register"
      /\ \A s \in Request \ {r} : req'[s] = req[s]
  BY <1>1, GotoIs DEF ListInv
<1>3. card' = NoCard \/ Snapshot(card)'
  BY SnapshotStays DEF ListInv, Snapshot
<1>4. ASSUME NEW s \in Request, req'[s].at = "upsert" PROVE Snapshot(req[s].card)'
  <2>1. req'[s] = req[s]
    BY <1>2, <1>4
  <2>2. PICK row : row = req[s].card
    OBVIOUS
  <2>3. Snapshot(row)'
    BY <1>4, <2>1, <2>2, SnapshotStays DEF ListInv
  <2> QED
    BY <2>1, <2>2, <2>3 DEF Snapshot
<1> QED
  BY <1>2, <1>3, <1>4 DEF ListInv


\* A step that leaves the log alone.
LEMMA ListSteps ==
  ASSUME ListInv, log' = log, NEW r \in Request, Rebuild(r) \/ Step(r) \/ Die(r)
  PROVE  ListInv'
<1>0. log \in Seq(Entry) /\ DOMAIN req = Request
  BY DEF ListInv
<1>1. \A row : Snapshot(row) <=> /\ row.events \in 0 .. Len(log')
                                 /\ row = IndexCard(SubSeq(log', 1, row.events))
  BY DEF Snapshot
<1>2. CASE Rebuild(r)
  <2>1. PICK at : at = [at |-> "register", objection |-> NoFlag]
    OBVIOUS
  <2>2. Goto(r, at) /\ card' = card /\ died' = died
    BY <1>2, <2>1 DEF Rebuild
  <2>3. /\ req'[r] = at /\ DOMAIN req' = Request /\ at.at = "register"
        /\ \A s \in Request \ {r} : req'[s] = req[s]
    BY <1>0, <2>1, <2>2, GotoIs
  <2>4. \A s \in Request : req'[s].at = "upsert" => req'[s] = req[s]
    BY <2>3
  <2> QED
    BY <1>1, <2>2, <2>3, <2>4 DEF ListInv, Snapshot
<1>3. CASE ReadCard(r)
  <2>1. card' = card /\ died' = died /\ req[r].at = "register"
    BY <1>3 DEF ReadCard
  <2>2. CASE Registered(log)
    <3>1. PICK at : at = [at |-> "upsert", objection |-> req[r].objection, card |-> IndexCard(log)]
      OBVIOUS
    <3>2. Goto(r, at)
      BY <1>3, <2>2, <3>1 DEF ReadCard
    <3>3. /\ req'[r] = at /\ DOMAIN req' = Request /\ at.at = "upsert" /\ Snapshot(at.card)
          /\ \A s \in Request \ {r} : req'[s] = req[s]
      BY <1>0, <3>1, <3>2, GotoIs, NowIsSnapshot
    <3>4. \A s \in Request : req'[s].at = "upsert" => Snapshot(req'[s].card)
      BY <3>3 DEF ListInv
    <3> QED
      BY <1>1, <2>1, <3>3, <3>4 DEF ListInv, Snapshot
  <2>3. CASE ~ Registered(log)
    <3>1. /\ req'[r] = Notifying(req[r].objection) /\ DOMAIN req' = Request
          /\ \A s \in Request \ {r} : req'[s] = req[s]
      BY <1>0, <1>3, <2>3, GotoIs DEF ReadCard
    <3>2. \A s \in Request : req'[s].at = "upsert" => req'[s] = req[s]
      BY <3>1 DEF Notifying, Idle
    <3>3. ~ Registered(log')
      BY <2>3
    <3> QED
      BY <1>1, <2>1, <3>1, <3>2, <3>3 DEF ListInv, Snapshot
  <2> QED
    BY <2>2, <2>3
<1>4. CASE Upsert(r)
  <2>1. card' = req[r].card /\ died' = died /\ req[r].at = "upsert"
    BY <1>4 DEF Upsert
  <2>2. /\ req'[r] = Notifying(req[r].objection) /\ DOMAIN req' = Request
        /\ \A s \in Request \ {r} : req'[s] = req[s]
    BY <1>0, <1>4, GotoIs DEF Upsert
  <2>3. \A s \in Request : req'[s].at = "upsert" => req'[s] = req[s]
    BY <2>2 DEF Notifying, Idle
  <2>4. Snapshot(card') /\ card' # NoCard
    BY <2>1, CardIs DEF ListInv, Snapshot
  <2> QED
    BY <1>1, <2>1, <2>2, <2>3, <2>4 DEF ListInv, Snapshot
<1>5. CASE Notify(r)
  <2>1. card' = card /\ died' = died /\ req[r].at = "notify"
    BY <1>5 DEF Notify
  <2>2. /\ req'[r] = Idle /\ DOMAIN req' = Request
        /\ \A s \in Request \ {r} : req'[s] = req[s]
    BY <1>0, <1>5, GotoIs DEF Notify
  <2>3. \A s \in Request : /\ req'[s].at = "upsert" => req'[s] = req[s]
                           /\ req[s].at \in {"register", "upsert"} => req'[s] = req[s]
    BY <2>1, <2>2 DEF Idle
  <2>4. card' # NoCard \/ (\E s \in Request : req'[s].at \in {"register", "upsert"})
          \/ died' \/ ~ Registered(log')
    BY <2>1, <2>3 DEF ListInv
  <2> QED
    BY <1>1, <2>1, <2>2, <2>3, <2>4 DEF ListInv, Snapshot
<1>6. CASE Die(r)
  <2>1. card' = card /\ died' = TRUE
    BY <1>6 DEF Die
  <2>2. /\ req'[r] = Idle /\ DOMAIN req' = Request
        /\ \A s \in Request \ {r} : req'[s] = req[s]
    BY <1>0, <1>6, GotoIs DEF Die
  <2>3. \A s \in Request : req'[s].at = "upsert" => req'[s] = req[s]
    BY <2>2 DEF Idle
  <2> QED
    BY <1>1, <2>1, <2>2, <2>3 DEF ListInv, Snapshot
<1> QED
  BY <1>2, <1>3, <1>4, <1>5, <1>6 DEF Step

LEMMA ListNext == ListInv /\ [NextUnpurged]_vars => ListInv'
<1> SUFFICES ASSUME ListInv, [NextUnpurged]_vars PROVE ListInv'
  OBVIOUS
<1>0. log \in Seq(Entry)
  BY DEF ListInv
<1>1. ASSUME NEW r \in Request, NEW kind \in Appended, AppendEvent(r, kind) PROVE ListInv'
  <2>1. kind \in Kind
    BY AppAssumption
  <2>2. PICK new : new = log'
    OBVIOUS
  <2>3. new = AppendedLog(kind)
    BY <1>1, <2>2 DEF AppendEvent, AppendedLog
  <2>4. log' \in Seq(Entry) /\ Extends(log, log')
    BY <1>0, <2>1, <2>2, <2>3, AppendIs
  <2>5. PICK objection : objection = IF Companions(log, kind) # <<>> THEN Len(log) + 1 ELSE NoFlag
    OBVIOUS
  <2>6. Goto(r, [at |-> "register", objection |-> objection]) /\ UNCHANGED <<card, flag, died>>
    BY <1>1, <2>5 DEF AppendEvent
  <2> QED
    BY <2>4, <2>6, ListWrites
<1>2. ASSUME NEW r \in Request, NEW kinds \in Batch, Ingest(r, kinds) PROVE ListInv'
  <2>1. PICK new : new = log'
    OBVIOUS
  <2>2. new \in Seq(Entry)
    BY <1>2, <2>1, IngestAnswers DEF Ingest
  <2>3. Extends(log, log')
    BY <1>2, <2>1, <2>2 DEF Ingest, Extends
  <2>4. Goto(r, [at |-> "register", objection |-> NoFlag]) /\ UNCHANGED <<card, flag, died>>
    BY <1>2 DEF Ingest
  <2> QED
    BY <2>1, <2>2, <2>3, <2>4, ListWrites
<1>3. ASSUME NEW r \in Request, Rebuild(r) \/ Step(r) \/ Die(r) PROVE ListInv'
  <2>1. log' = log
    BY <1>3 DEF Rebuild, Step, ReadCard, Upsert, Notify, Die
  <2> QED
    BY <1>3, <2>1, ListSteps
<1>4. CASE UNCHANGED vars
  BY <1>4 DEF vars, ListInv, Snapshot
<1> QED
  BY <1>1, <1>2, <1>3, <1>4 DEF NextUnpurged, Write

\* What the index promises when requests overlap and nobody purges: a created thread is
\* listed once every request has ended well, with a state it really went through.
THEOREM RowsAreSnapshots == SpecUnpurged => []ListedAsItWas
<1>1. ListInv => ListedAsItWas
  BY CardIs DEF ListInv, ListedAsItWas, Snapshot, Settled, Idle
<1> QED
  BY <1>1, ListInit, ListNext, PTL DEF SpecUnpurged


-----------------------------------------------------------------------------
(* The inbox *)

InboxEvent ==
  [kind : {"ParticipantDeclared", "ThreadCreated", "EvidenceCommitted", "ObjectionRaised"},
   actor : Human, item : Item \cup {Inbox!Null}]

InboxRow ==
  [kind : Inbox!ItemKind, status : {"pending", "approved", "dismissed"},
   target : Old \cup {Inbox!Null}, thread : Thread \cup {Inbox!Null}]

Approving == [at : {"create", "join", "commit"}, item : Item, human : Human, as : {"evidence", "objection"}]
Attesting == [at : {"attest"}, item : Item, human : Human, thread : Thread]
Resolving == [at : {"resolve"}, item : Item, status : {"approved", "dismissed"},
              thread : Thread \cup {Inbox!Null}]

\* Event n of thread t is the substance of item i.
Substance(lg, t, n, i) ==
  /\ n \in 1 .. Len(lg[t])
  /\ lg[t][n].item = i
  /\ t \in Old \/ lg[t][n].kind = "ThreadCreated"

Recorded(lg, t, i) == \E n \in Nat : Substance(lg, t, n, i)

HasRow(i) == intake[i] \in InboxRow

\* What is known of a request at each of its calls.
Triaging(r) ==
  \/ triage[r] = Inbox!Idle
  \/ /\ triage[r] \in Approving
     /\ HasRow(triage[r].item)
     /\ intake[triage[r].item].kind = "contribution" <=> triage[r].at \in {"join", "commit"}
  \/ /\ triage[r] \in Attesting
     /\ HasRow(triage[r].item)
     /\ triage[r].thread \notin Old
     /\ Recorded(logs, triage[r].thread, triage[r].item)
  \/ /\ triage[r] \in Resolving
     /\ HasRow(triage[r].item)
     /\ IF triage[r].status = "approved"
        THEN triage[r].thread \in Thread /\ Recorded(logs, triage[r].thread, triage[r].item)
        ELSE triage[r].thread = Inbox!Null

\* Request r has written what becomes of item i, and has not said so in its row.
Wrote(r, i) ==
  \/ triage[r] \in Attesting /\ triage[r].item = i
  \/ triage[r] \in Resolving /\ triage[r].item = i /\ triage[r].status = "approved"

Rows ==
  \A i \in Item :
    \/ intake[i] = Inbox!NoRow
    \/ /\ HasRow(i)
       /\ intake[i].kind = "contribution" <=> intake[i].target # Inbox!Null
       /\ intake[i].thread # Inbox!Null => Recorded(logs, intake[i].thread, i)
       /\ intake[i].status = "approved" => intake[i].thread # Inbox!Null

Logs ==
  /\ logs \in [Thread -> Seq(InboxEvent)]
  /\ \A t \in Old : logs[t] # <<>>

\* What is recorded is in its row, or about to be.
Traced ==
  \A t \in Thread, i \in Item :
    Recorded(logs, t, i) =>
      (HasRow(i) /\ intake[i].thread # Inbox!Null) \/ \E r \in Triage : Wrote(r, i)

\* Requests one after the other.
Singly ==
  /\ \A r, s \in Triage : triage[r] # Inbox!Idle /\ triage[s] # Inbox!Idle => r = s
  /\ \A r \in Triage : triage[r] # Inbox!Idle => intake[triage[r].item].status = "pending"
  /\ \A t \in Thread, i \in Item :
       Recorded(logs, t, i) => intake[i].status = "approved" \/ \E r \in Triage : Wrote(r, i)
  /\ \A i \in Item, t, u \in Thread, n, m \in Nat :
       Substance(logs, t, n, i) /\ Substance(logs, u, m, i) => t = u /\ n = m

InboxInv ==
  /\ DOMAIN triage = Triage
  /\ DOMAIN intake = Item
  /\ Logs
  /\ Rows
  /\ \A r \in Triage : Triaging(r)
  /\ ~ triageDied => Traced
  /\ ~ overlaps /\ ~ triageDied => Singly

LEMMA NullIs == Inbox!Null \notin Thread /\ Inbox!Null \notin Item /\ Old \subseteq Thread
  BY CockpitAssumption

LEMMA GenesisIs ==
  ASSUME NEW h \in Human, NEW it \in Item \cup {Inbox!Null}, NEW g, g = Inbox!Genesis(h, it)
  PROVE  /\ g \in Seq(InboxEvent) /\ Len(g) = 2
         /\ g[1].item = Inbox!Null /\ g[2].item = it /\ g[2].kind = "ThreadCreated"
<1>1. PICK a \in InboxEvent : a = Inbox!Event("ParticipantDeclared", h, Inbox!Null)
  BY DEF InboxEvent, Inbox!Event
<1>2. PICK b \in InboxEvent : b = Inbox!Event("ThreadCreated", h, it)
  BY DEF InboxEvent, Inbox!Event
<1>3. g = <<a, b>>
  BY <1>1, <1>2 DEF Inbox!Genesis
<1>4. a.item = Inbox!Null /\ b.item = it /\ b.kind = "ThreadCreated"
  BY <1>1, <1>2 DEF Inbox!Event
<1>5. <<a, b>> \in Seq(InboxEvent)
  OBVIOUS
<1>6. PICK two \in Seq(InboxEvent) : two = <<a, b>>
  BY <1>5
<1>7. Len(two) = 2 /\ two[1] = a /\ two[2] = b
  BY <1>6
<1> QED
  BY <1>3, <1>4, <1>6, <1>7

LEMMA InboxInit == Inbox!Init => InboxInv
<1> SUFFICES ASSUME Inbox!Init PROVE InboxInv
  OBVIOUS
<1>1. PICK h \in Human : logs = [t \in Thread |-> IF t \in Old THEN Inbox!Genesis(h, Inbox!Null) ELSE <<>>]
  BY DEF Inbox!Init
<1>2. PICK g : g = Inbox!Genesis(h, Inbox!Null)
  OBVIOUS
<1>3. /\ g \in Seq(InboxEvent) /\ Len(g) = 2
      /\ g[1].item = Inbox!Null /\ g[2].item = Inbox!Null
  BY <1>2, GenesisIs
<1>4. logs = [t \in Thread |-> IF t \in Old THEN g ELSE <<>>]
  BY <1>1, <1>2
<1>5. \A t \in Thread : logs[t] = g \/ logs[t] = <<>>
  BY <1>4
<1>6. Logs
  BY <1>3, <1>4, NullIs DEF Logs
<1>7. ASSUME NEW t \in Thread, NEW n, NEW i \in Item, Substance(logs, t, n, i) PROVE FALSE
  <2>1. CASE logs[t] = g
    <3>1. n \in 1 .. 2 /\ g[n].item = i
      BY <1>3, <1>7, <2>1 DEF Substance
    <3>2. n = 1 \/ n = 2
      BY <3>1
    <3> QED
      BY <1>3, <3>1, <3>2, NullIs
  <2>2. CASE logs[t] = <<>>
    BY <1>7, <2>2 DEF Substance
  <2> QED
    BY <1>5, <2>1, <2>2
<1>8. /\ DOMAIN triage = Triage /\ DOMAIN intake = Item
      /\ \A r \in Triage : triage[r] = Inbox!Idle
      /\ \A i \in Item : intake[i] = Inbox!NoRow
  BY DEF Inbox!Init
<1>9. Rows /\ \A r \in Triage : Triaging(r)
  BY <1>8 DEF Rows, Triaging
<1>10. Traced /\ Singly
  BY <1>7, <1>8 DEF Traced, Singly, Recorded
<1> QED
  BY <1>6, <1>8, <1>9, <1>10 DEF InboxInv

LEMMA InboxGoto ==
  ASSUME DOMAIN triage = Triage, NEW r \in Triage, NEW at, Inbox!Goto(r, at)
  PROVE  /\ triage'[r] = at
         /\ DOMAIN triage' = Triage
         /\ \A s \in Triage \ {r} : triage'[s] = triage[s]
  BY DEF Inbox!Goto

\* The forms of a request differ in its call.
LEMMA Forms ==
  /\ \A at \in Approving : at \notin Attesting /\ at \notin Resolving /\ at # Inbox!Idle
  /\ \A at \in Attesting : at \notin Resolving /\ at # Inbox!Idle
  /\ \A at \in Resolving : at # Inbox!Idle
  BY DEF Approving, Attesting, Resolving, Inbox!Idle

\* new is lg and more.
Grows(lg, new) == \A t \in Thread : Extends(lg[t], new[t])

LEMMA RecordedStays ==
  ASSUME NEW lg \in [Thread -> Seq(InboxEvent)], NEW new \in [Thread -> Seq(InboxEvent)],
         Grows(lg, new), NEW t \in Thread, NEW i, NEW n, Substance(lg, t, n, i)
  PROVE  Substance(new, t, n, i)
<1>1. PICK old : old = lg[t]
  OBVIOUS
<1>2. PICK next : next = new[t]
  OBVIOUS
<1>3. Len(old) \in Nat /\ Len(next) \in Nat
  BY <1>1, <1>2
<1>4. Len(old) <= Len(next) /\ \A m \in 1 .. Len(old) : next[m] = old[m]
  BY <1>1, <1>2 DEF Grows, Extends
<1>5. n \in 1 .. Len(old) /\ old[n].item = i /\ (t \in Old \/ old[n].kind = "ThreadCreated")
  BY <1>1 DEF Substance
<1>6. n \in 1 .. Len(next) /\ next[n] = old[n]
  BY <1>3, <1>4, <1>5
<1> QED
  BY <1>2, <1>5, <1>6 DEF Substance

\* One event more, and a new thread.
Added(lg, t, e)        == [lg EXCEPT ![t] = Append(@, e)]
Opened(lg, t, h, item) == [lg EXCEPT ![t] = Inbox!Genesis(h, item)]

LEMMA AddedIs ==
  ASSUME NEW lg \in [Thread -> Seq(InboxEvent)], NEW t \in Thread, NEW e \in InboxEvent,
         NEW new, new = Added(lg, t, e)
  PROVE  /\ new \in [Thread -> Seq(InboxEvent)]
         /\ Grows(lg, new)
         /\ \A u \in Thread : lg[u] # <<>> => new[u] # <<>>
         /\ \A u \in Thread : \A n, i :
              Substance(new, u, n, i) <=>
                \/ Substance(lg, u, n, i)
                \/ /\ u = t /\ n = Len(lg[t]) + 1 /\ e.item = i
                   /\ t \in Old \/ e.kind = "ThreadCreated"
<1>0. Append(lg[t], e) \in Seq(InboxEvent)
  OBVIOUS
<1>1. PICK s \in Seq(InboxEvent) : s = Append(lg[t], e)
  BY <1>0
<1>2. /\ Len(s) = Len(lg[t]) + 1 /\ s[Len(lg[t]) + 1] = e /\ Len(lg[t]) \in Nat
      /\ \A n \in 1 .. Len(lg[t]) : s[n] = lg[t][n]
  BY <1>1
<1>3. new[t] = s /\ \A u \in Thread \ {t} : new[u] = lg[u]
  BY <1>1 DEF Added
<1>4. new \in [Thread -> Seq(InboxEvent)]
  BY <1>1 DEF Added
<1>5. Grows(lg, new)
  <2>1. ASSUME NEW u \in Thread PROVE Extends(lg[u], new[u])
    <3>1. CASE u = t
      BY <1>2, <1>3, <3>1 DEF Extends
    <3>2. CASE u # t
      <4>1. Len(lg[u]) \in Nat /\ new[u] = lg[u]
        BY <1>3, <3>2
      <4> QED
        BY <4>1 DEF Extends
    <3> QED
      BY <3>1, <3>2
  <2> QED
    BY <2>1 DEF Grows
<1>6. ASSUME NEW u \in Thread, lg[u] # <<>> PROVE new[u] # <<>>
  <2>1. CASE u = t
    BY <1>2, <1>3, <2>1
  <2> QED
    BY <1>3, <1>6, <2>1
<1>7. ASSUME NEW u \in Thread, NEW n, NEW i
      PROVE  Substance(new, u, n, i) <=>
                \/ Substance(lg, u, n, i)
                \/ /\ u = t /\ n = Len(lg[t]) + 1 /\ e.item = i
                   /\ t \in Old \/ e.kind = "ThreadCreated"
  <2>1. CASE u = t
    <3>1. n \in 1 .. Len(s) <=> n \in 1 .. Len(lg[t]) \/ n = Len(lg[t]) + 1
      BY <1>2
    <3> QED
      BY <1>2, <1>3, <2>1, <3>1 DEF Substance
  <2>2. CASE u # t
    BY <1>3, <2>2 DEF Substance
  <2> QED
    BY <2>1, <2>2
<1> QED
  BY <1>4, <1>5, <1>6, <1>7

LEMMA CreatedIs ==
  ASSUME NEW lg \in [Thread -> Seq(InboxEvent)], NEW t \in Thread \ Old, lg[t] = <<>>,
         NEW h \in Human, NEW it \in Item, NEW new, new = Opened(lg, t, h, it)
  PROVE  /\ new \in [Thread -> Seq(InboxEvent)]
         /\ Grows(lg, new)
         /\ \A u \in Thread : lg[u] # <<>> => new[u] # <<>>
         /\ \A u \in Thread : \A n : \A i \in Item :
              Substance(new, u, n, i) <=> Substance(lg, u, n, i) \/ (u = t /\ n = 2 /\ i = it)
<1>1. PICK g : g = Inbox!Genesis(h, it)
  OBVIOUS
<1>2. /\ g \in Seq(InboxEvent) /\ Len(g) = 2
      /\ g[1].item = Inbox!Null /\ g[2].item = it /\ g[2].kind = "ThreadCreated"
  BY <1>1, GenesisIs
<1>3. new[t] = g /\ \A u \in Thread \ {t} : new[u] = lg[u]
  BY <1>1 DEF Opened
<1>4. new \in [Thread -> Seq(InboxEvent)]
  BY <1>1, <1>2 DEF Opened
<1>5. Grows(lg, new)
  <2>1. ASSUME NEW u \in Thread PROVE Extends(lg[u], new[u])
    <3>1. CASE u = t
      BY <1>2, <1>3, <3>1 DEF Extends
    <3>2. CASE u # t
      <4>1. Len(lg[u]) \in Nat /\ new[u] = lg[u]
        BY <1>3, <3>2
      <4> QED
        BY <4>1 DEF Extends
    <3> QED
      BY <3>1, <3>2
  <2> QED
    BY <2>1 DEF Grows
<1>6. ASSUME NEW u \in Thread, NEW n, NEW i \in Item
      PROVE  Substance(new, u, n, i) <=> Substance(lg, u, n, i) \/ (u = t /\ n = 2 /\ i = it)
  <2>1. CASE u = t
    <3>1. ~ Substance(lg, t, n, i)
      BY DEF Substance
    <3>2. n \in 1 .. 2 <=> n = 1 \/ n = 2
      OBVIOUS
    <3> QED
      BY <1>2, <1>3, <2>1, <3>1, <3>2, NullIs DEF Substance
  <2>2. CASE u # t
    BY <1>3, <2>2 DEF Substance
  <2> QED
    BY <2>1, <2>2
<1> QED
  BY <1>2, <1>3, <1>4, <1>5, <1>6


Alone(r) == \A s \in Triage \ {r} : triage[s] = Inbox!Idle

\* What every step of request r leaves alone.
Frame(r) ==
  /\ DOMAIN triage' = Triage
  /\ \A s \in Triage \ {r} : triage'[s] = triage[s]
  /\ DOMAIN intake' = Item
  /\ \A i \in Item :
       HasRow(i) => /\ HasRow(i)'
                    /\ intake'[i].kind = intake[i].kind
                    /\ intake[i].thread # Inbox!Null => intake'[i].thread # Inbox!Null
  /\ logs' \in [Thread -> Seq(InboxEvent)]
  /\ Grows(logs, logs')
  /\ \A t \in Thread : logs[t] # <<>> => logs'[t] # <<>>
  /\ triageDied => triageDied'
  /\ overlaps => overlaps'

LEMMA RecordedKept ==
  ASSUME InboxInv, NEW r \in Triage, Frame(r), NEW t \in Thread, NEW i, Recorded(logs, t, i)
  PROVE  Recorded(logs', t, i)
<1>1. PICK n \in Nat : Substance(logs, t, n, i)
  BY DEF Recorded
<1>2. PICK old \in [Thread -> Seq(InboxEvent)] : old = logs
  BY DEF InboxInv, Logs
<1>3. PICK new \in [Thread -> Seq(InboxEvent)] : new = logs'
  BY DEF Frame
<1>4. Substance(new, t, n, i)
  BY <1>1, <1>2, <1>3, RecordedStays DEF Frame
<1> QED
  BY <1>3, <1>4 DEF Recorded

LEMMA TriagingStays ==
  ASSUME InboxInv, NEW r \in Triage, Frame(r), NEW s \in Triage \ {r}
  PROVE  Triaging(s)'
<1>0. triage'[s] = triage[s] /\ Triaging(s)
  BY DEF Frame, InboxInv
<1>1. \A i \in Item : HasRow(i) => HasRow(i)' /\ intake'[i].kind = intake[i].kind
  BY DEF Frame
<1>2. CASE triage[s] = Inbox!Idle
  BY <1>0, <1>2 DEF Triaging
<1>3. CASE triage[s] \in Approving
  <2>1. triage[s].item \in Item
    BY <1>3 DEF Approving
  <2>2. /\ HasRow(triage[s].item)
        /\ intake[triage[s].item].kind = "contribution" <=> triage[s].at \in {"join", "commit"}
    BY <1>0, <1>3, Forms DEF Triaging
  <2> QED
    BY <1>0, <1>1, <1>3, <2>1, <2>2 DEF Triaging
<1>4. CASE triage[s] \in Attesting
  <2>1. triage[s].item \in Item /\ triage[s].thread \in Thread
    BY <1>4 DEF Attesting
  <2>2. /\ HasRow(triage[s].item) /\ triage[s].thread \notin Old
        /\ Recorded(logs, triage[s].thread, triage[s].item)
    BY <1>0, <1>4, Forms DEF Triaging
  <2>3. Recorded(logs', triage[s].thread, triage[s].item)
    BY <2>1, <2>2, RecordedKept
  <2> QED
    BY <1>0, <1>1, <1>4, <2>1, <2>2, <2>3 DEF Triaging
<1>5. CASE triage[s] \in Resolving
  <2>1. triage[s].item \in Item
    BY <1>5 DEF Resolving
  <2>2. /\ HasRow(triage[s].item)
        /\ IF triage[s].status = "approved"
           THEN triage[s].thread \in Thread /\ Recorded(logs, triage[s].thread, triage[s].item)
           ELSE triage[s].thread = Inbox!Null
    BY <1>0, <1>5, Forms DEF Triaging
  <2>3. triage[s].status = "approved" => Recorded(logs', triage[s].thread, triage[s].item)
    BY <2>2, RecordedKept
  <2> QED
    BY <1>0, <1>1, <1>5, <2>1, <2>2, <2>3 DEF Triaging
<1> QED
  BY <1>0, <1>2, <1>3, <1>4, <1>5 DEF Triaging

LEMMA RowsStay ==
  ASSUME InboxInv, NEW r \in Triage, Frame(r), NEW i \in Item, intake'[i] = intake[i]
  PROVE  \/ intake'[i] = Inbox!NoRow
         \/ /\ HasRow(i)'
            /\ intake'[i].kind = "contribution" <=> intake'[i].target # Inbox!Null
            /\ intake'[i].thread # Inbox!Null => Recorded(logs', intake'[i].thread, i)
            /\ intake'[i].status = "approved" => intake'[i].thread # Inbox!Null
<1>1. CASE intake[i] = Inbox!NoRow
  BY <1>1
<1>2. CASE intake[i] # Inbox!NoRow
  <2>1. /\ HasRow(i)
        /\ intake[i].kind = "contribution" <=> intake[i].target # Inbox!Null
        /\ intake[i].thread # Inbox!Null => Recorded(logs, intake[i].thread, i)
        /\ intake[i].status = "approved" => intake[i].thread # Inbox!Null
    BY <1>2 DEF InboxInv, Rows
  <2>2. intake[i].thread \in Thread \cup {Inbox!Null}
    BY <2>1 DEF HasRow, InboxRow
  <2>3. intake[i].thread # Inbox!Null => Recorded(logs', intake[i].thread, i)
    BY <2>1, <2>2, RecordedKept
  <2> QED
    BY <2>1, <2>3 DEF HasRow
<1> QED
  BY <1>1, <1>2

\* What is new on the ledger is what request r has written.
NewIsOf(r) ==
  \A t \in Thread, i \in Item : Recorded(logs', t, i) => Recorded(logs, t, i) \/ Wrote(r, i)'

LEMMA TracedStays ==
  ASSUME InboxInv, NEW r \in Triage, Frame(r), Traced, NewIsOf(r),
         \A i \in Item :
           Wrote(r, i) => Wrote(r, i)' \/ (HasRow(i)' /\ intake'[i].thread # Inbox!Null)
  PROVE  Traced'
<1> SUFFICES ASSUME NEW t \in Thread, NEW i \in Item, Recorded(logs', t, i)
             PROVE  \/ HasRow(i)' /\ intake'[i].thread # Inbox!Null
                    \/ \E s \in Triage : Wrote(s, i)'
  BY DEF Traced
<1>1. CASE Wrote(r, i)'
  BY <1>1
<1>2. CASE Recorded(logs, t, i)
  <2>1. CASE HasRow(i) /\ intake[i].thread # Inbox!Null
    BY <2>1 DEF Frame
  <2>2. ASSUME NEW s \in Triage, Wrote(s, i) PROVE Wrote(s, i)' \/ s = r
    BY <2>2 DEF Frame, Wrote
  <2> QED
    BY <1>2, <2>1, <2>2 DEF Traced
<1> QED
  BY <1>1, <1>2 DEF NewIsOf

Once(lg) ==
  \A i \in Item, t, u \in Thread, n, m \in Nat :
    Substance(lg, t, n, i) /\ Substance(lg, u, m, i) => t = u /\ n = m

LEMMA SinglyStays ==
  ASSUME InboxInv, NEW r \in Triage, Frame(r), Singly, Alone(r), NewIsOf(r), Once(logs'),
         triage'[r] # Inbox!Idle => intake'[triage'[r].item].status = "pending",
         \A i \in Item : intake[i].status = "approved" => intake'[i].status = "approved",
         \A i \in Item : Wrote(r, i) => Wrote(r, i)' \/ intake'[i].status = "approved"
  PROVE  Singly'
<1>1. \A s \in Triage \ {r} : triage'[s] = Inbox!Idle
  BY DEF Frame, Alone
<1>2. ASSUME NEW t \in Thread, NEW i \in Item, Recorded(logs', t, i)
      PROVE  intake'[i].status = "approved" \/ \E s \in Triage : Wrote(s, i)'
  <2>1. CASE Wrote(r, i)'
    BY <2>1
  <2>2. CASE Recorded(logs, t, i)
    <3>1. ASSUME NEW s \in Triage, Wrote(s, i) PROVE s = r
      BY <3>1, Forms DEF Alone, Wrote
    <3> QED
      BY <2>2, <3>1 DEF Singly
  <2> QED
    BY <1>2, <2>1, <2>2 DEF NewIsOf
<1> QED
  BY <1>1, <1>2 DEF Singly, Once

\* A step of request r, put together.
LEMMA StepKeeps ==
  ASSUME InboxInv, NEW r \in Triage, Frame(r), Triaging(r)', Rows',
         ~ triageDied' => Traced', ~ overlaps' /\ ~ triageDied' => Singly'
  PROVE  InboxInv'
<1>1. \A s \in Triage : Triaging(s)'
  BY TriagingStays
<1>2. Logs'
  BY NullIs DEF Frame, InboxInv, Logs
<1> QED
  BY <1>1, <1>2 DEF InboxInv, Frame

\* No item gets anything on the ledger.
NothingNew ==
  \A t \in Thread : \A n : \A i \in Item : Substance(logs', t, n, i) => Substance(logs, t, n, i)

\* A step of request r that changes no row and puts no item on the ledger.
LEMMA QuietKeeps ==
  ASSUME InboxInv, NEW r \in Triage, Frame(r), Triaging(r)', NothingNew, intake' = intake,
         \A i \in Item : Wrote(r, i) => Wrote(r, i)',
         ~ overlaps' /\ ~ triageDied' =>
           Alone(r) /\ (triage'[r] # Inbox!Idle => intake[triage'[r].item].status = "pending")
  PROVE  InboxInv'
<1>1. Rows'
  BY RowsStay DEF Rows
<1>2. NewIsOf(r)
  BY DEF NewIsOf, NothingNew, Recorded
<1>3. ~ triageDied' => Traced'
  BY <1>2, TracedStays DEF InboxInv, Frame
<1>4. ASSUME ~ overlaps', ~ triageDied' PROVE Singly'
  <2>1. Singly
    BY <1>4 DEF InboxInv, Frame
  <2>2. Once(logs')
    BY <2>1 DEF Singly, Once, NothingNew
  <2> QED
    BY <1>2, <1>4, <2>1, <2>2, SinglyStays
<1> QED
  BY <1>1, <1>3, <1>4, StepKeeps

\* The request that is at work is the only one, and its item is pending.
LEMMA Busy ==
  ASSUME InboxInv, NEW r \in Triage, triage[r] # Inbox!Idle, ~ overlaps, ~ triageDied
  PROVE  Singly /\ Alone(r) /\ intake[triage[r].item].status = "pending"
  BY DEF InboxInv, Singly, Alone

LEMMA LogsSame ==
  ASSUME InboxInv, logs' = logs
  PROVE  /\ logs' \in [Thread -> Seq(InboxEvent)]
         /\ Grows(logs, logs')
         /\ \A t \in Thread : logs[t] # <<>> => logs'[t] # <<>>
         /\ NothingNew
<1>1. logs \in [Thread -> Seq(InboxEvent)]
  BY DEF InboxInv, Logs
<1>2. ASSUME NEW t \in Thread PROVE Extends(logs[t], logs[t])
  <2>1. Len(logs[t]) \in Nat
    BY <1>1
  <2> QED
    BY <2>1 DEF Extends
<1> QED
  BY <1>1, <1>2 DEF Grows, NothingNew

LEMMA RowsSame ==
  ASSUME InboxInv, intake' = intake
  PROVE  /\ DOMAIN intake' = Item
         /\ \A i \in Item :
              HasRow(i) => /\ HasRow(i)' /\ intake'[i].kind = intake[i].kind
                           /\ intake[i].thread # Inbox!Null => intake'[i].thread # Inbox!Null
  BY DEF InboxInv, HasRow

LEMMA RowOf ==
  ASSUME InboxInv, NEW i \in Item, intake[i] # Inbox!NoRow
  PROVE  HasRow(i) /\ (intake[i].kind = "contribution" <=> intake[i].target # Inbox!Null)
  BY DEF InboxInv, Rows

LEMMA BeginKeeps ==
  ASSUME InboxInv, NEW r \in Triage, NEW at, Inbox!Begin(r, at), UNCHANGED <<intake, logs, triageDied>>,
         at.item \in Item, intake[at.item].status = "pending", at # Inbox!Idle,
         \/ /\ at \in Approving
            /\ intake[at.item].kind = "contribution" <=> at.at \in {"join", "commit"}
         \/ at \in Resolving /\ at.status = "dismissed" /\ at.thread = Inbox!Null
  PROVE  InboxInv'
<1>1. /\ triage'[r] = at /\ DOMAIN triage' = Triage
      /\ \A s \in Triage \ {r} : triage'[s] = triage[s]
  BY InboxGoto DEF Inbox!Begin, InboxInv
<1>2. /\ triage[r] = Inbox!Idle
      /\ overlaps' = (overlaps \/ \E s \in Triage : triage[s] # Inbox!Idle)
  BY DEF Inbox!Begin
<1>3. Frame(r)
  BY <1>1, <1>2, LogsSame, RowsSame DEF Frame
<1>4. HasRow(at.item)
  BY RowOf DEF Inbox!NoRow
<1>5. Triaging(r)'
  BY <1>1, <1>4 DEF Triaging, HasRow
<1>6. \A i \in Item : ~ Wrote(r, i)
  BY <1>2, Forms DEF Wrote
<1>7. ~ overlaps' => Alone(r)
  BY <1>2 DEF Alone
<1> QED
  BY <1>1, <1>3, <1>5, <1>6, <1>7, LogsSame, QuietKeeps

LEMMA DismissKeeps ==
  ASSUME InboxInv, NEW r \in Triage, NEW i \in Item, Inbox!Dismiss(r, i)
  PROVE  InboxInv'
<1>1. PICK at : at = [at |-> "resolve", item |-> i, status |-> "dismissed", thread |-> Inbox!Null]
  OBVIOUS
<1>2. at \in Resolving /\ at.item = i /\ at.status = "dismissed" /\ at.thread = Inbox!Null
  BY <1>1 DEF Resolving
<1>3. Inbox!Begin(r, at) /\ intake[i].status = "pending" /\ UNCHANGED <<intake, logs, triageDied>>
  BY <1>1 DEF Inbox!Dismiss, Inbox!Actionable
<1> QED
  BY <1>2, <1>3, BeginKeeps, Forms

LEMMA ApproveKeeps ==
  ASSUME InboxInv, NEW r \in Triage, NEW i \in Item, NEW h \in Human, Inbox!Approve(r, i, h)
  PROVE  InboxInv'
<1>1. PICK as \in {"evidence", "objection"} :
        Inbox!Begin(r, [at |-> IF intake[i].kind = "contribution" THEN "join" ELSE "create",
                        item |-> i, human |-> h, as |-> as])
  BY DEF Inbox!Approve
<1>2. PICK at : at = [at |-> IF intake[i].kind = "contribution" THEN "join" ELSE "create",
                      item |-> i, human |-> h, as |-> as]
  OBVIOUS
<1>3. /\ at \in Approving /\ at.item = i
      /\ intake[i].kind = "contribution" <=> at.at \in {"join", "commit"}
  BY <1>2 DEF Approving
<1>4. /\ Inbox!Begin(r, at) /\ intake[i].status = "pending"
      /\ UNCHANGED <<intake, logs, triageDied>>
  BY <1>1, <1>2 DEF Inbox!Approve, Inbox!Actionable
<1> QED
  BY <1>3, <1>4, BeginKeeps, Forms

LEMMA DieKeeps ==
  ASSUME InboxInv, NEW r \in Triage, Inbox!Die(r)
  PROVE  InboxInv'
<1>1. /\ triage'[r] = Inbox!Idle /\ DOMAIN triage' = Triage
      /\ \A s \in Triage \ {r} : triage'[s] = triage[s]
  BY InboxGoto DEF Inbox!Die, InboxInv
<1>2. triageDied' = TRUE /\ UNCHANGED <<intake, logs, overlaps>>
  BY DEF Inbox!Die
<1>3. Frame(r)
  BY <1>1, <1>2, LogsSame, RowsSame DEF Frame
<1>4. Triaging(r)'
  BY <1>1 DEF Triaging
<1>5. Rows'
  BY <1>2, <1>3, RowsStay DEF Rows
<1> QED
  BY <1>2, <1>3, <1>4, <1>5, StepKeeps


LEMMA SubmitKeeps ==
  ASSUME InboxInv, NEW i \in Item, Inbox!Submit(i)
  PROVE  InboxInv'
<1>1. PICK kind \in Inbox!ItemKind, target \in Old \cup {Inbox!Null} :
        /\ (kind = "contribution") <=> (target # Inbox!Null)
        /\ intake' = [intake EXCEPT ![i] =
             [kind |-> kind, status |-> "pending", target |-> target, thread |-> Inbox!Null]]
  BY DEF Inbox!Submit
<1>2. PICK row \in InboxRow :
        row = [kind |-> kind, status |-> "pending", target |-> target, thread |-> Inbox!Null]
  BY DEF InboxRow
<1>3. /\ intake[i] = Inbox!NoRow
      /\ logs' = logs /\ triage' = triage /\ triageDied' = triageDied /\ overlaps' = overlaps
  BY DEF Inbox!Submit
<1>4. /\ DOMAIN intake' = Item /\ intake'[i] = row
      /\ \A j \in Item \ {i} : intake'[j] = intake[j]
  BY <1>1, <1>2 DEF InboxInv
<1>5. /\ row.status = "pending" /\ row.thread = Inbox!Null /\ row.target = target
      /\ row.kind = kind
  BY <1>2
<1>6. ~ HasRow(i) /\ intake[i].status = "none"
  BY <1>3 DEF HasRow, InboxRow, Inbox!NoRow
<1>7. \A j \in Item : HasRow(j) => intake'[j] = intake[j] /\ HasRow(j)'
  BY <1>4, <1>6 DEF HasRow
<1>8. Rows'
  <2>1. ASSUME NEW j \in Item \ {i}
        PROVE  \/ intake'[j] = Inbox!NoRow
               \/ /\ HasRow(j)'
                  /\ intake'[j].kind = "contribution" <=> intake'[j].target # Inbox!Null
                  /\ intake'[j].thread # Inbox!Null => Recorded(logs', intake'[j].thread, j)
                  /\ intake'[j].status = "approved" => intake'[j].thread # Inbox!Null
    BY <1>3, <1>4 DEF InboxInv, Rows, HasRow
  <2> QED
    BY <1>1, <1>4, <1>5, <2>1 DEF Rows, HasRow
<1>9. ASSUME NEW r \in Triage PROVE Triaging(r)'
  <2>1. Triaging(r)
    BY DEF InboxInv
  <2>2. triage[r] # Inbox!Idle => triage[r].item \in Item
    BY <2>1 DEF Triaging, Approving, Attesting, Resolving
  <2> QED
    BY <1>3, <1>7, <2>1, <2>2 DEF Triaging
<1>10. \A r \in Triage : \A j : Wrote(r, j)' <=> Wrote(r, j)
  BY <1>3 DEF Wrote
<1>11. ~ triageDied' => Traced'
  BY <1>3, <1>7, <1>10 DEF InboxInv, Traced
<1>12. ASSUME ~ overlaps', ~ triageDied' PROVE Singly'
  <2>1. Singly
    BY <1>3, <1>12 DEF InboxInv
  <2>2. \A j \in Item : /\ intake[j].status = "approved" => intake'[j].status = "approved"
                        /\ intake[j].status = "pending" => intake'[j].status = "pending"
    BY <1>4, <1>6
  <2>3. \A r \in Triage : triage[r] # Inbox!Idle => triage[r].item \in Item
    BY DEF InboxInv, Triaging, Approving, Attesting, Resolving
  <2> QED
    BY <1>3, <1>10, <2>1, <2>2, <2>3 DEF Singly
<1>13. Logs'
  BY <1>3 DEF InboxInv, Logs
<1> QED
  BY <1>3, <1>4, <1>8, <1>9, <1>11, <1>12, <1>13 DEF InboxInv

\* A step of request r that puts its item on the ledger, where it was not before.
LEMMA WriteKeeps ==
  ASSUME InboxInv, NEW r \in Triage, Frame(r), Triaging(r)', intake' = intake,
         UNCHANGED <<triageDied, overlaps>>, triage[r] \in Approving,
         Wrote(r, triage[r].item)', triage'[r].item = triage[r].item,
         NEW t \in Thread, NEW m \in Nat,
         \A u \in Thread : \A n : \A i \in Item :
           Substance(logs', u, n, i) =>
             Substance(logs, u, n, i) \/ (u = t /\ n = m /\ i = triage[r].item)
  PROVE  InboxInv'
<1>1. Rows'
  BY RowsStay DEF Rows
<1>2. NewIsOf(r)
  BY DEF NewIsOf, Recorded
<1>3. triage[r] # Inbox!Idle /\ \A i \in Item : ~ Wrote(r, i)
  BY Forms DEF Wrote
<1>4. ~ triageDied' => Traced'
  BY <1>2, <1>3, TracedStays DEF InboxInv
<1>5. ASSUME ~ overlaps', ~ triageDied' PROVE Singly'
  <2>1. Singly /\ Alone(r) /\ intake[triage[r].item].status = "pending"
    BY <1>3, <1>5, Busy
  <2>2. triage[r].item \in Item
    BY DEF Approving
  <2>3. \A u \in Thread : \A n \in Nat : ~ Substance(logs, u, n, triage[r].item)
    <3>1. ASSUME NEW s \in Triage, Wrote(s, triage[r].item) PROVE FALSE
      BY <1>3, <2>1, <2>2, <3>1, Forms DEF Alone, Wrote
    <3> QED
      BY <2>1, <2>2, <3>1 DEF Singly, Recorded
  <2>4. Once(logs')
    BY <2>1, <2>3 DEF Singly, Once
  <2> QED
    BY <1>2, <1>3, <2>1, <2>4, SinglyStays
<1> QED
  BY <1>1, <1>4, <1>5, StepKeeps

LEMMA CreateKeeps ==
  ASSUME InboxInv, NEW r \in Triage, Inbox!Create(r)
  PROVE  InboxInv'
<1>1. PICK t \in Thread :
        /\ logs[t] = <<>>
        /\ logs' = [logs EXCEPT ![t] = Inbox!Genesis(triage[r].human, triage[r].item)]
        /\ IF intake[triage[r].item].kind = "run_report"
           THEN Inbox!Goto(r, [at |-> "attest", item |-> triage[r].item,
                               human |-> triage[r].human, thread |-> t])
           ELSE Inbox!Goto(r, Inbox!Resolving(r, t))
  BY DEF Inbox!Create
<1>2. UNCHANGED <<intake, triageDied, overlaps>> /\ triage[r].at = "create"
  BY DEF Inbox!Create
<1>3. triage[r] \in Approving /\ HasRow(triage[r].item)
  BY <1>2 DEF InboxInv, Triaging, Attesting, Resolving, Inbox!Idle
<1>4. triage[r].item \in Item /\ triage[r].human \in Human
  BY <1>3 DEF Approving
<1>5. t \notin Old
  BY <1>1 DEF InboxInv, Logs
<1>6. PICK old \in [Thread -> Seq(InboxEvent)] : old = logs
  BY DEF InboxInv, Logs
<1>7. PICK new : new = logs'
  OBVIOUS
<1>8. /\ new \in [Thread -> Seq(InboxEvent)]
      /\ Grows(old, new)
      /\ \A u \in Thread : old[u] # <<>> => new[u] # <<>>
      /\ \A u \in Thread : \A n : \A i \in Item :
           Substance(new, u, n, i) <=>
             Substance(old, u, n, i) \/ (u = t /\ n = 2 /\ i = triage[r].item)
  <2>1. PICK h \in Human : h = triage[r].human
    BY <1>4
  <2>2. PICK it \in Item : it = triage[r].item
    BY <1>4
  <2>3. t \in Thread \ Old /\ old[t] = <<>> /\ new = Opened(old, t, h, it)
    BY <1>1, <1>5, <1>6, <1>7, <2>1, <2>2 DEF Opened
  <2>4. t \in Thread \ Old /\ old[t] = <<>>
    BY <2>3
  <2>5. new = Opened(old, t, h, it)
    BY <2>3
  <2>6. /\ new \in [Thread -> Seq(InboxEvent)]
        /\ Grows(old, new)
        /\ \A u \in Thread : old[u] # <<>> => new[u] # <<>>
        /\ \A u \in Thread : \A n : \A i \in Item :
             Substance(new, u, n, i) <=> Substance(old, u, n, i) \/ (u = t /\ n = 2 /\ i = it)
    BY <2>4, <2>5, CreatedIs
  <2> QED
    BY <2>2, <2>6
<1>9. \E at : Inbox!Goto(r, at) /\ at = triage'[r]
  BY <1>1, InboxGoto DEF InboxInv
<1>10. DOMAIN triage' = Triage /\ \A s \in Triage \ {r} : triage'[s] = triage[s]
  BY <1>9, InboxGoto DEF InboxInv
<1>11. Frame(r)
  BY <1>2, <1>6, <1>7, <1>8, <1>10, RowsSame DEF Frame
<1>12. Recorded(logs', t, triage[r].item)
  BY <1>4, <1>7, <1>8 DEF Recorded
<1>13. /\ \/ triage'[r] \in Attesting /\ triage'[r].thread = t
          \/ triage'[r] \in Resolving /\ triage'[r].status = "approved" /\ triage'[r].thread = t
       /\ triage'[r].item = triage[r].item
  <2>1. CASE intake[triage[r].item].kind = "run_report"
    <3>1. triage'[r] = [at |-> "attest", item |-> triage[r].item, human |-> triage[r].human,
                        thread |-> t]
      BY <1>1, <2>1, InboxGoto DEF InboxInv
    <3> QED
      BY <1>4, <3>1 DEF Attesting
  <2>2. CASE intake[triage[r].item].kind # "run_report"
    <3>1. triage'[r] = [at |-> "resolve", item |-> triage[r].item, status |-> "approved",
                        thread |-> t]
      BY <1>1, <2>2, InboxGoto DEF InboxInv, Inbox!Resolving
    <3> QED
      BY <1>4, <3>1 DEF Resolving
  <2> QED
    BY <2>1, <2>2
<1>14. HasRow(triage[r].item)'
  BY <1>2, <1>3, <1>13 DEF HasRow
<1>15. Triaging(r)' /\ Wrote(r, triage[r].item)'
  BY <1>5, <1>12, <1>13, <1>14 DEF Triaging, Wrote, HasRow
<1> QED
  BY <1>2, <1>3, <1>6, <1>7, <1>8, <1>11, <1>13, <1>15, WriteKeeps


\* What one more event changes of the ledger.
LEMMA AddedFrame ==
  ASSUME InboxInv, NEW t \in Thread, NEW e \in InboxEvent, logs' = Added(logs, t, e)
  PROVE  /\ logs' \in [Thread -> Seq(InboxEvent)]
         /\ Grows(logs, logs')
         /\ \A u \in Thread : logs[u] # <<>> => logs'[u] # <<>>
         /\ \A u \in Thread : \A n, i :
              Substance(logs', u, n, i) <=>
                \/ Substance(logs, u, n, i)
                \/ /\ u = t /\ n = Len(logs[t]) + 1 /\ e.item = i
                   /\ t \in Old \/ e.kind = "ThreadCreated"
<1>1. PICK old \in [Thread -> Seq(InboxEvent)] : old = logs
  BY DEF InboxInv, Logs
<1>2. PICK new : new = logs'
  OBVIOUS
<1>3. new = Added(old, t, e)
  BY <1>1, <1>2
<1>4. /\ new \in [Thread -> Seq(InboxEvent)]
      /\ Grows(old, new)
      /\ \A u \in Thread : old[u] # <<>> => new[u] # <<>>
      /\ \A u \in Thread : \A n, i :
           Substance(new, u, n, i) <=>
             \/ Substance(old, u, n, i)
             \/ /\ u = t /\ n = Len(old[t]) + 1 /\ e.item = i
                /\ t \in Old \/ e.kind = "ThreadCreated"
  BY <1>3, AddedIs
<1> QED
  BY <1>1, <1>2, <1>4

LEMMA AttestKeeps ==
  ASSUME InboxInv, NEW r \in Triage, Inbox!Attest(r)
  PROVE  InboxInv'
<1>1. /\ triage[r].at = "attest"
      /\ UNCHANGED <<intake, triageDied, overlaps>>
      /\ Inbox!Goto(r, Inbox!Resolving(r, triage[r].thread))
  BY DEF Inbox!Attest
<1>2. /\ triage[r] \in Attesting /\ HasRow(triage[r].item) /\ triage[r].thread \notin Old
      /\ Recorded(logs, triage[r].thread, triage[r].item)
  BY <1>1 DEF InboxInv, Triaging, Approving, Resolving, Inbox!Idle
<1>3. triage[r].item \in Item /\ triage[r].human \in Human /\ triage[r].thread \in Thread
  BY <1>2 DEF Attesting
<1>4. PICK t \in Thread : t = triage[r].thread
  BY <1>3
<1>5. PICK e \in InboxEvent : e = Inbox!Event("EvidenceCommitted", triage[r].human, triage[r].item)
  BY <1>3 DEF InboxEvent, Inbox!Event
<1>6. e.kind = "EvidenceCommitted"
  BY <1>5 DEF Inbox!Event
<1>7. logs' = logs \/ logs' = Added(logs, t, e)
  BY <1>4, <1>5 DEF Inbox!Attest, Added
<1>8. /\ logs' \in [Thread -> Seq(InboxEvent)]
      /\ Grows(logs, logs')
      /\ \A u \in Thread : logs[u] # <<>> => logs'[u] # <<>>
      /\ NothingNew
  <2>1. CASE logs' = logs
    BY <2>1, LogsSame
  <2>2. CASE logs' = Added(logs, t, e)
    BY <1>2, <1>4, <1>6, <2>2, AddedFrame DEF NothingNew
  <2> QED
    BY <1>7, <2>1, <2>2
<1>9. /\ triage'[r] = [at |-> "resolve", item |-> triage[r].item, status |-> "approved",
                       thread |-> triage[r].thread]
      /\ DOMAIN triage' = Triage /\ \A s \in Triage \ {r} : triage'[s] = triage[s]
  BY <1>1, InboxGoto DEF InboxInv, Inbox!Resolving
<1>10. Frame(r)
  BY <1>1, <1>8, <1>9, RowsSame DEF Frame
<1>11. /\ triage'[r] \in Resolving /\ triage'[r].item = triage[r].item
       /\ triage'[r].status = "approved" /\ triage'[r].thread = triage[r].thread
  BY <1>3, <1>9 DEF Resolving
<1>12. Recorded(logs', triage[r].thread, triage[r].item)
  BY <1>2, <1>3, <1>10, RecordedKept
<1>13. Triaging(r)'
  <2>1. HasRow(triage[r].item)'
    BY <1>1, <1>2, <1>11 DEF HasRow
  <2> QED
    BY <1>3, <1>11, <1>12, <2>1 DEF Triaging, HasRow
<1>14. \A i \in Item : Wrote(r, i) => Wrote(r, i)'
  BY <1>2, <1>11, Forms DEF Wrote
<1>15. ~ overlaps' /\ ~ triageDied' =>
         Alone(r) /\ (triage'[r] # Inbox!Idle => intake[triage'[r].item].status = "pending")
  BY <1>1, <1>2, <1>11, Busy, Forms
<1> QED
  BY <1>1, <1>8, <1>10, <1>13, <1>14, <1>15, QuietKeeps

\* An approval of a contribution: the thread it targets is an old one.
LEMMA Targets ==
  ASSUME InboxInv, NEW r \in Triage, triage[r].at \in {"join", "commit"}
  PROVE  /\ triage[r] \in Approving /\ triage[r].item \in Item /\ triage[r].human \in Human
         /\ HasRow(triage[r].item)
         /\ intake[triage[r].item].kind = "contribution"
         /\ intake[triage[r].item].target \in Old
<1>1. /\ triage[r] \in Approving /\ HasRow(triage[r].item)
      /\ intake[triage[r].item].kind = "contribution"
  BY DEF InboxInv, Triaging, Attesting, Resolving, Inbox!Idle
<1>2. triage[r].item \in Item /\ triage[r].human \in Human
  BY <1>1 DEF Approving
<1>3. Inbox!NoRow \notin InboxRow
  <2>1. Inbox!NoRow.status = "none"
    BY DEF Inbox!NoRow
  <2> QED
    BY <2>1 DEF InboxRow
<1>4. intake[triage[r].item].target # Inbox!Null
  BY <1>1, <1>2, <1>3, RowOf DEF HasRow
<1> QED
  BY <1>1, <1>2, <1>4 DEF HasRow, InboxRow

LEMMA JoinKeeps ==
  ASSUME InboxInv, NEW r \in Triage, Inbox!Join(r)
  PROVE  InboxInv'
<1>1. /\ triage[r].at = "join"
      /\ UNCHANGED <<intake, triageDied, overlaps>>
      /\ Inbox!Goto(r, [triage[r] EXCEPT !.at = "commit"])
  BY DEF Inbox!Join
<1>2. /\ triage[r] \in Approving /\ triage[r].item \in Item /\ triage[r].human \in Human
      /\ HasRow(triage[r].item)
      /\ intake[triage[r].item].kind = "contribution"
      /\ intake[triage[r].item].target \in Old
  BY <1>1, Targets
<1>3. PICK t \in Thread : t = intake[triage[r].item].target
  BY <1>2, NullIs
<1>4. PICK e \in InboxEvent : e = Inbox!Event("ParticipantDeclared", triage[r].human, Inbox!Null)
  BY <1>2 DEF InboxEvent, Inbox!Event
<1>5. e.item = Inbox!Null
  BY <1>4 DEF Inbox!Event
<1>6. logs' = logs \/ logs' = Added(logs, t, e)
  BY <1>3, <1>4 DEF Inbox!Join, Added
<1>7. /\ logs' \in [Thread -> Seq(InboxEvent)]
      /\ Grows(logs, logs')
      /\ \A u \in Thread : logs[u] # <<>> => logs'[u] # <<>>
      /\ NothingNew
  <2>1. CASE logs' = logs
    BY <2>1, LogsSame
  <2>2. CASE logs' = Added(logs, t, e)
    BY <1>5, <2>2, AddedFrame, NullIs DEF NothingNew
  <2> QED
    BY <1>6, <2>1, <2>2
<1>8. PICK at : at = [triage[r] EXCEPT !.at = "commit"]
  OBVIOUS
<1>9. /\ triage'[r] = at
      /\ DOMAIN triage' = Triage /\ \A s \in Triage \ {r} : triage'[s] = triage[s]
  BY <1>1, <1>8, InboxGoto DEF InboxInv
<1>10. at \in Approving /\ at.item = triage[r].item /\ at.at = "commit"
  BY <1>2, <1>8 DEF Approving
<1>11. Frame(r)
  BY <1>1, <1>7, <1>9, RowsSame DEF Frame
<1>12. Triaging(r)'
  BY <1>1, <1>2, <1>9, <1>10 DEF Triaging, HasRow
<1>13. \A i \in Item : ~ Wrote(r, i)
  BY <1>2, Forms DEF Wrote
<1>14. ~ overlaps' /\ ~ triageDied' =>
         Alone(r) /\ (triage'[r] # Inbox!Idle => intake[triage'[r].item].status = "pending")
  BY <1>1, <1>2, <1>9, <1>10, Busy, Forms
<1> QED
  BY <1>1, <1>7, <1>11, <1>12, <1>13, <1>14, QuietKeeps

LEMMA CommitKeeps ==
  ASSUME InboxInv, NEW r \in Triage, Inbox!Commit(r)
  PROVE  InboxInv'
<1>1. triage[r].at = "commit" /\ UNCHANGED <<intake, triageDied, overlaps>>
  BY DEF Inbox!Commit
<1>2. /\ triage[r] \in Approving /\ triage[r].item \in Item /\ triage[r].human \in Human
      /\ HasRow(triage[r].item)
      /\ intake[triage[r].item].kind = "contribution"
      /\ intake[triage[r].item].target \in Old
  BY <1>1, Targets
<1>3. PICK t \in Thread : t = intake[triage[r].item].target
  BY <1>2, NullIs
<1>4. PICK kind \in {"ObjectionRaised", "EvidenceCommitted"} :
        kind = IF triage[r].as = "objection" THEN "ObjectionRaised" ELSE "EvidenceCommitted"
  OBVIOUS
<1>5. PICK e \in InboxEvent : e = Inbox!Event(kind, triage[r].human, triage[r].item)
  BY <1>2 DEF InboxEvent, Inbox!Event
<1>6. e.item = triage[r].item
  BY <1>5 DEF Inbox!Event
<1>7. \/ logs' = Added(logs, t, e) /\ Inbox!Goto(r, Inbox!Resolving(r, t))
      \/ logs' = logs /\ Inbox!Goto(r, Inbox!Idle)
  BY <1>3, <1>4, <1>5 DEF Inbox!Commit, Added
<1>8. CASE logs' = logs /\ Inbox!Goto(r, Inbox!Idle)
  <2>1. /\ triage'[r] = Inbox!Idle
        /\ DOMAIN triage' = Triage /\ \A s \in Triage \ {r} : triage'[s] = triage[s]
    BY <1>8, InboxGoto DEF InboxInv
  <2>2. Frame(r)
    BY <1>1, <1>8, <2>1, LogsSame, RowsSame DEF Frame
  <2>3. \A i \in Item : ~ Wrote(r, i)
    BY <1>2, Forms DEF Wrote
  <2>4. ~ overlaps' /\ ~ triageDied' => Alone(r)
    BY <1>1, <1>2, Busy, Forms
  <2>5. Triaging(r)'
    BY <2>1 DEF Triaging
  <2> QED
    BY <1>1, <1>8, <2>1, <2>2, <2>3, <2>4, <2>5, LogsSame, QuietKeeps
<1>9. CASE logs' = Added(logs, t, e) /\ Inbox!Goto(r, Inbox!Resolving(r, t))
  <2>1. /\ triage'[r] = [at |-> "resolve", item |-> triage[r].item, status |-> "approved", thread |-> t]
        /\ DOMAIN triage' = Triage /\ \A s \in Triage \ {r} : triage'[s] = triage[s]
    BY <1>9, InboxGoto DEF InboxInv, Inbox!Resolving
  <2>2. /\ logs' \in [Thread -> Seq(InboxEvent)]
        /\ Grows(logs, logs')
        /\ \A u \in Thread : logs[u] # <<>> => logs'[u] # <<>>
        /\ \A u \in Thread : \A n, i :
             Substance(logs', u, n, i) <=>
               \/ Substance(logs, u, n, i)
               \/ /\ u = t /\ n = Len(logs[t]) + 1 /\ e.item = i
                  /\ t \in Old \/ e.kind = "ThreadCreated"
    BY <1>9, AddedFrame
  <2>3. Frame(r)
    BY <1>1, <2>1, <2>2, RowsSame DEF Frame
  <2>4. PICK m \in Nat : m = Len(logs[t]) + 1
    BY DEF InboxInv, Logs
  <2>5. \A u \in Thread : \A n : \A i \in Item :
          Substance(logs', u, n, i) =>
            Substance(logs, u, n, i) \/ (u = t /\ n = m /\ i = triage[r].item)
    BY <1>6, <2>2, <2>4
  <2>6. Recorded(logs', t, triage[r].item)
    BY <1>2, <1>3, <1>6, <2>2, <2>4 DEF Recorded
  <2>7. /\ triage'[r] \in Resolving /\ triage'[r].item = triage[r].item
        /\ triage'[r].status = "approved" /\ triage'[r].thread = t
    BY <1>2, <2>1 DEF Resolving
  <2>8. Triaging(r)' /\ Wrote(r, triage[r].item)'
    BY <1>1, <1>2, <2>6, <2>7 DEF Triaging, Wrote, HasRow
  <2> QED
    BY <1>1, <1>2, <2>3, <2>4, <2>5, <2>7, <2>8, WriteKeeps
<1> QED
  BY <1>7, <1>8, <1>9


LEMMA ResolveKeeps ==
  ASSUME InboxInv, NEW r \in Triage, Inbox!Resolve(r)
  PROVE  InboxInv'
<1>1. triage[r].at = "resolve" /\ UNCHANGED <<logs, triageDied, overlaps>>
  BY DEF Inbox!Resolve
<1>2. /\ triage[r] \in Resolving
      /\ HasRow(triage[r].item)
      /\ IF triage[r].status = "approved"
         THEN triage[r].thread \in Thread /\ Recorded(logs, triage[r].thread, triage[r].item)
         ELSE triage[r].thread = Inbox!Null
  BY <1>1 DEF InboxInv, Triaging, Approving, Attesting, Inbox!Idle
<1>3. /\ triage[r].item \in Item /\ triage[r].status \in {"approved", "dismissed"}
      /\ triage[r].thread \in Thread \cup {Inbox!Null}
  BY <1>2 DEF Resolving
<1>4. PICK i \in Item : i = triage[r].item
  BY <1>3
<1>5. PICK old \in InboxRow : old = intake[i]
  BY <1>2, <1>4 DEF HasRow
<1>6. PICK row : row = Inbox!Resolved(old, triage[r].status, triage[r].thread)
  OBVIOUS
<1>7. row = [old EXCEPT !.status = triage[r].status,
                        !.thread = IF triage[r].thread = Inbox!Null THEN old.thread
                                   ELSE triage[r].thread]
  BY <1>6 DEF Inbox!Resolved
<1>8. /\ row \in InboxRow /\ row.kind = old.kind /\ row.target = old.target
      /\ row.status = triage[r].status
      /\ row.thread = IF triage[r].thread = Inbox!Null THEN old.thread ELSE triage[r].thread
  BY <1>3, <1>7 DEF InboxRow
<1>9. /\ DOMAIN intake' = Item /\ intake'[i] = row
      /\ \A j \in Item \ {i} : intake'[j] = intake[j]
  BY <1>4, <1>5, <1>6 DEF Inbox!Resolve, InboxInv
<1>10. /\ triage'[r] = Inbox!Idle /\ DOMAIN triage' = Triage
       /\ \A s \in Triage \ {r} : triage'[s] = triage[s]
  BY InboxGoto DEF Inbox!Resolve, InboxInv
<1>11. ASSUME NEW j \in Item, HasRow(j)
       PROVE  /\ HasRow(j)' /\ intake'[j].kind = intake[j].kind
              /\ intake[j].thread # Inbox!Null => intake'[j].thread # Inbox!Null
  <2>1. CASE j = i
    BY <1>5, <1>8, <1>9, <2>1 DEF HasRow
  <2>2. CASE j # i
    BY <1>9, <1>11, <2>2 DEF HasRow
  <2> QED
    BY <2>1, <2>2
<1>12. Frame(r)
  BY <1>1, <1>9, <1>10, <1>11, LogsSame DEF Frame
<1>13. Triaging(r)'
  BY <1>10 DEF Triaging
<1>14. Rows'
  <2>1. /\ old.kind = "contribution" <=> old.target # Inbox!Null
        /\ old.thread # Inbox!Null => Recorded(logs, old.thread, i)
    <3>1. intake[i] # Inbox!NoRow
      <4>1. Inbox!NoRow.status = "none"
        BY DEF Inbox!NoRow
      <4> QED
        BY <1>5, <4>1 DEF InboxRow
    <3> QED
      BY <1>5, <3>1 DEF InboxInv, Rows
  <2>2. /\ row.thread # Inbox!Null => Recorded(logs, row.thread, i)
        /\ row.status = "approved" => row.thread # Inbox!Null
    BY <1>2, <1>4, <1>8, <2>1, NullIs
  <2>3. ASSUME NEW j \in Item
        PROVE  \/ intake'[j] = Inbox!NoRow
               \/ /\ HasRow(j)'
                  /\ intake'[j].kind = "contribution" <=> intake'[j].target # Inbox!Null
                  /\ intake'[j].thread # Inbox!Null => Recorded(logs', intake'[j].thread, j)
                  /\ intake'[j].status = "approved" => intake'[j].thread # Inbox!Null
    <3>1. CASE j = i
      BY <1>1, <1>8, <1>9, <2>1, <2>2, <3>1 DEF HasRow
    <3>2. CASE j # i
      BY <1>9, <1>12, <3>2, RowsStay
    <3> QED
      BY <3>1, <3>2
  <2> QED
    BY <2>3 DEF Rows
<1>15. NewIsOf(r)
  BY <1>1 DEF NewIsOf
<1>16. ASSUME NEW j \in Item, Wrote(r, j)
       PROVE  HasRow(j)' /\ intake'[j].thread # Inbox!Null /\ intake'[j].status = "approved"
  <2>1. j = i /\ triage[r].status = "approved"
    BY <1>2, <1>4, <1>16, Forms DEF Wrote
  <2> QED
    BY <1>2, <1>8, <1>9, <2>1, NullIs DEF HasRow
<1>17. ~ triageDied' => Traced'
  BY <1>1, <1>12, <1>15, <1>16, TracedStays DEF InboxInv
<1>18. ASSUME ~ overlaps', ~ triageDied' PROVE Singly'
  <2>1. Singly /\ Alone(r) /\ intake[i].status = "pending"
    BY <1>1, <1>2, <1>4, <1>18, Busy, Forms
  <2>2. Once(logs')
    BY <1>1, <2>1 DEF Singly, Once
  <2>3. \A j \in Item : intake[j].status = "approved" => intake'[j].status = "approved"
    BY <1>9, <2>1
  <2> QED
    BY <1>10, <1>12, <1>15, <1>16, <2>1, <2>2, <2>3, SinglyStays
<1> QED
  BY <1>12, <1>13, <1>14, <1>17, <1>18, StepKeeps

LEMMA InboxNext == InboxInv /\ [Inbox!Next]_intakeVars => InboxInv'
<1> SUFFICES ASSUME InboxInv, [Inbox!Next]_intakeVars PROVE InboxInv'
  OBVIOUS
<1>1. ASSUME NEW i \in Item, Inbox!Submit(i) PROVE InboxInv'
  BY <1>1, SubmitKeeps
<1>2. ASSUME NEW r \in Triage, NEW i \in Item, Inbox!Dismiss(r, i) PROVE InboxInv'
  BY <1>2, DismissKeeps
<1>3. ASSUME NEW r \in Triage, NEW i \in Item, NEW h \in Human, Inbox!Approve(r, i, h)
      PROVE  InboxInv'
  BY <1>3, ApproveKeeps
<1>4. ASSUME NEW r \in Triage, Inbox!Step(r) PROVE InboxInv'
  BY <1>4, CreateKeeps, AttestKeeps, JoinKeeps, CommitKeeps, ResolveKeeps DEF Inbox!Step
<1>5. ASSUME NEW r \in Triage, Inbox!Die(r) PROVE InboxInv'
  BY <1>5, DieKeeps
<1>6. CASE UNCHANGED intakeVars
  <2>1. /\ intake' = intake /\ logs' = logs /\ triage' = triage
        /\ triageDied' = triageDied /\ overlaps' = overlaps
    BY <1>6 DEF intakeVars
  <2> QED
    BY <2>1 DEF InboxInv, Logs, Rows, HasRow, Triaging, Traced, Singly, Wrote
<1> QED
  BY <1>1, <1>2, <1>3, <1>4, <1>5, <1>6 DEF Inbox!Next

LEMMA InboxHolds == SpecParts => []InboxInv
<1>1. InitParts => InboxInv
  BY InboxInit DEF InitParts
<1>2. [NextThread \/ NextInbox]_<<part, vars, intakeVars>> => [Inbox!Next]_intakeVars
  BY DEF NextThread, NextInbox
<1> QED
  BY <1>1, <1>2, InboxNext, PTL DEF SpecParts

\* The substance of an item, as the run counts it.
LEMMA TracesIs ==
  ASSUME NEW i
  PROVE  /\ \A t \in Thread : \A n : <<t, n>> \in Inbox!Traces(i) <=> n \in DOMAIN logs[t]
                /\ logs[t][n].item = i /\ (t \in Old \/ logs[t][n].kind = "ThreadCreated")
         /\ \A trace \in Inbox!Traces(i) :
              \E t \in Thread : \E n : trace = <<t, n>> /\ n \in DOMAIN logs[t]
  BY DEF Inbox!Traces

LEMMA Traces ==
  ASSUME InboxInv, NEW i
  PROVE  /\ \A t \in Thread, n \in Nat : Substance(logs, t, n, i) => <<t, n>> \in Inbox!Traces(i)
         /\ \A trace \in Inbox!Traces(i) :
              \E t \in Thread, n \in Nat : trace = <<t, n>> /\ Substance(logs, t, n, i)
<1>1. \A t \in Thread : DOMAIN logs[t] = 1 .. Len(logs[t]) /\ Len(logs[t]) \in Nat
  BY DEF InboxInv, Logs
<1>2. ASSUME NEW t \in Thread, NEW n \in Nat, Substance(logs, t, n, i)
      PROVE  <<t, n>> \in Inbox!Traces(i)
  BY <1>1, <1>2, TracesIs DEF Substance
<1>3. ASSUME NEW trace \in Inbox!Traces(i)
      PROVE  \E t \in Thread, n \in Nat : trace = <<t, n>> /\ Substance(logs, t, n, i)
  <2>1. PICK t \in Thread : \E n : trace = <<t, n>> /\ n \in DOMAIN logs[t]
    BY TracesIs
  <2>2. PICK n : trace = <<t, n>> /\ n \in DOMAIN logs[t]
    BY <2>1
  <2>3. <<t, n>> \in Inbox!Traces(i)
    BY <2>2
  <2>4. logs[t][n].item = i /\ (t \in Old \/ logs[t][n].kind = "ThreadCreated")
    BY <2>3, TracesIs
  <2>5. n \in Nat /\ n \in 1 .. Len(logs[t])
    BY <1>1, <2>2
  <2> QED
    BY <2>2, <2>4, <2>5 DEF Substance
<1> QED
  BY <1>2, <1>3

\* No row is marked approved before what was approved stands in the thread it names,
\* whoever else resolves it and whatever dies in between.
THEOREM ApprovalsAreRecorded == SpecParts => []ApprovedIsRecorded
<1>1. ASSUME InboxInv, NEW i \in Item, intake[i].status = "approved"
      PROVE  \E trace \in Inbox!Traces(i) : trace[1] = intake[i].thread
  <2>1. intake[i] # Inbox!NoRow
    BY <1>1 DEF Inbox!NoRow
  <2>2. /\ HasRow(i) /\ intake[i].thread # Inbox!Null
        /\ Recorded(logs, intake[i].thread, i)
    BY <1>1, <2>1 DEF InboxInv, Rows
  <2>3. intake[i].thread \in Thread
    BY <2>2 DEF HasRow, InboxRow
  <2>4. PICK n \in Nat : Substance(logs, intake[i].thread, n, i)
    BY <2>2 DEF Recorded
  <2>5. <<intake[i].thread, n>> \in Inbox!Traces(i)
    BY <1>1, <2>3, <2>4, Traces
  <2> QED
    BY <2>5
<1>2. InboxInv => ApprovedIsRecorded
  BY <1>1 DEF ApprovedIsRecorded, Inbox!ApprovedIsRecorded
<1> QED
  BY <1>2, InboxHolds, PTL

\* Once every request has ended and none has died, what an item put on the ledger is
\* found through its row, whatever resolved it last.
THEOREM RowsLeadToTheLedger == SpecParts => []TracedFromItem
<1>1. ASSUME InboxInv, ~ triageDied, \A r \in Triage : triage[r] = Inbox!Idle,
             NEW i \in Item, Inbox!Traces(i) # {}
      PROVE  \E trace \in Inbox!Traces(i) : trace[1] = intake[i].thread
  <2>1. PICK t \in Thread, n \in Nat : Substance(logs, t, n, i)
    BY <1>1, Traces
  <2>2. HasRow(i) /\ intake[i].thread # Inbox!Null
    BY <1>1, <2>1, Forms DEF InboxInv, Traced, Recorded, Wrote
  <2>3. Recorded(logs, intake[i].thread, i)
    <3>1. intake[i] # Inbox!NoRow
      <4>1. Inbox!NoRow.status = "none"
        BY DEF Inbox!NoRow
      <4> QED
        BY <2>2, <4>1 DEF HasRow, InboxRow
    <3> QED
      BY <1>1, <2>2, <3>1 DEF InboxInv, Rows
  <2>4. intake[i].thread \in Thread
    BY <2>2 DEF HasRow, InboxRow
  <2>5. PICK m \in Nat : Substance(logs, intake[i].thread, m, i)
    BY <2>3 DEF Recorded
  <2>6. <<intake[i].thread, m>> \in Inbox!Traces(i)
    BY <1>1, <2>4, <2>5, Traces
  <2> QED
    BY <2>6
<1>2. InboxInv => TracedFromItem
  BY <1>1 DEF TracedFromItem, Inbox!TracedFromItem
<1> QED
  BY <1>2, InboxHolds, PTL

LEMMA InboxCard ==
  ASSUME NEW S
  PROVE  Inbox!Cardinality(S) = Cardinality(S)
  BY DEF Cardinality, Inbox!Cardinality

\* Unless requests overlap or die, no item reaches the ledger twice and nothing of a
\* dismissed one stands there.
THEOREM ItemsActOnce == SpecParts => []AtMostOnce
<1>1. ASSUME InboxInv, ~ overlaps, ~ triageDied, NEW i \in Item
      PROVE  /\ Inbox!Cardinality(Inbox!Traces(i)) <= 1
             /\ intake[i].status = "dismissed" => Inbox!Traces(i) = {}
  <2>1. Singly
    BY <1>1 DEF InboxInv
  <2>2. \A a, b \in Inbox!Traces(i) : a = b
    BY <1>1, <2>1, Traces DEF Singly
  <2>3. Cardinality(Inbox!Traces(i)) <= 1
    <3>1. CASE Inbox!Traces(i) = {}
      BY <3>1, FS_EmptySet
    <3>2. CASE Inbox!Traces(i) # {}
      <4>1. PICK a : Inbox!Traces(i) = {a}
        BY <2>2, <3>2
      <4> QED
        BY <4>1, FS_Singleton
    <3> QED
      BY <3>1, <3>2
  <2>4. ASSUME intake[i].status = "dismissed", Inbox!Traces(i) # {} PROVE FALSE
    <3>1. PICK t \in Thread, n \in Nat : Substance(logs, t, n, i)
      BY <1>1, <2>4, Traces
    <3>2. PICK r \in Triage : Wrote(r, i)
      BY <2>1, <2>4, <3>1 DEF Singly, Recorded
    <3>3. triage[r] # Inbox!Idle /\ triage[r].item = i
      BY <3>2, Forms DEF Wrote
    <3> QED
      BY <2>1, <2>4, <3>3 DEF Singly
  <2> QED
    BY <2>3, <2>4, InboxCard
<1>2. InboxInv => AtMostOnce
  BY <1>1 DEF AtMostOnce, Inbox!AtMostOnce, Inbox!OneByOne
<1> QED
  BY <1>2, InboxHolds, PTL
=============================================================================

----------------------------- MODULE MergeProofs -----------------------------
(***************************************************************************)
(* Forks and merges, for any threads and objects and logs of any length:   *)
(* the part of ProtocolParts in which one log is read in two ways.         *)
(***************************************************************************)
EXTENDS ProtocolParts, Sequences, WellFoundedInduction, TLAPS

ObjectRecord ==
  [thread : Merging!Thread, from : Merging!Thread \cup {"none"},
   status : {"held", "open", "resolved"},
   shows : {"held", "contested", "open", "preserved", "resolved"}, blocking : BOOLEAN]

\* What a thread holds: by id, an object or none.
Holding == [Merging!Object -> ObjectRecord \cup {Merging!NoObject}]

ReadingRecord == [judged : Holding, shown : Holding, locked : SUBSET Merging!Object]
ForkRecord    == [parent : Merging!Thread, judged : Holding, shown : Holding,
                  locked : SUBSET Merging!Object]
RequestRecord == [source : Fork, target : Merging!Thread, proposed : SUBSET Claim,
                  objections : SUBSET Merging!Object]
CompletionRecord ==
  [id : Completion, accepted : SUBSET Merging!Object, preserved : SUBSET Objection,
   rejected : SUBSET Merging!Object, dissent : SUBSET Merging!Object,
   rationales : SUBSET Merging!Object]

MergeTypeOK ==
  /\ forks \in [Fork -> ForkRecord \cup {Merging!NoFork}]
  /\ objects \in Holding
  /\ proposed \in [Request -> RequestRecord \cup {Merging!NoRequest}]
  /\ conflicts \in [Conflict -> [of : Request, inFork : Merging!Object,
                                 as : {"open", "reject_fork", "preserve_both"}]
                                  \cup {Merging!NoConflict}]
  /\ completions \in [Request -> CompletionRecord \cup {Merging!NoCompletion}]
  /\ merges \in Seq(Request)
  /\ seen \in [Merging!Thread -> ReadingRecord \cup {Merging!NoReading}]

\* Completion n has accepted o from a source that shows it of itself, and not
\* because the target showed it first.
Carries(n, t, o) ==
  /\ proposed[merges[n]].target = t
  /\ o \in completions[merges[n]].accepted
  /\ Merging!Own(proposed[merges[n]].source)[o].from # t

\* What t shows, without the recursion: what a merge accepted, its source shows
\* of itself, so what is merged into the source says nothing about it.
Shows(t, o) ==
  \/ Merging!Own(t)[o] # Merging!NoObject
  \/ \E n \in DOMAIN merges : Carries(n, t, o)

WasAccepted(o) == \E r \in Request : Merging!Completed(r) /\ o \in completions[r].accepted

\* The two statuses of an object, and it is in the thread it was raised in.
ObjectsKept ==
  \A o \in Merging!Object : objects[o] # Merging!NoObject =>
    /\ objects[o].from = "none"
    /\ o \in Claim <=> objects[o].status = "held"
    /\ Merging!Alike(objects[o].status, objects[o].shows, o)

\* A reading that was taken once, now: what it judges by it shows, and as of the
\* thread it is in; what it shows beyond that was merged.
ReadingKept(r) ==
  \A o \in Merging!Object :
    /\ r.judged[o] # Merging!NoObject =>
         /\ r.shown[o] # Merging!NoObject
         /\ Merging!Alike(r.judged[o].status, r.shown[o].shows, o)
         /\ r.shown[o].blocking = r.judged[o].blocking
         /\ objects[o] # Merging!NoObject
         /\ r.shown[o].from = objects[o].thread
    /\ r.judged[o] = Merging!NoObject /\ r.shown[o] # Merging!NoObject => WasAccepted(o)

\* A merge that was completed: the projection has a completion of its id, its source
\* is judged to hold what was accepted and what was objected, and no dissent was lost.
MergeKept(r) ==
  LET c == completions[r] q == proposed[r]
  IN /\ q # Merging!NoRequest
     /\ \E n \in DOMAIN merges : completions[merges[n]].id = c.id
     /\ c.accepted \subseteq Merging!JudgedIds(q.source)
     /\ q.objections \subseteq Merging!JudgedIds(q.source)
     /\ c.dissent \subseteq c.accepted \cup c.preserved \cup (c.rejected \cap c.rationales)
                              \cup reopened

MergeInv ==
  /\ MergeTypeOK
  /\ ObjectsKept
  /\ \A r \in Request : proposed[r] # Merging!NoRequest =>
       Merging!Is(proposed[r].source) /\ Merging!Is(proposed[r].target)
  /\ \A f \in Fork : forks[f] # Merging!NoFork => ReadingKept(forks[f])
  /\ \A t \in Merging!Thread : seen[t] # Merging!NoReading => ReadingKept(seen[t])
  /\ \A n \in DOMAIN merges : Merging!Completed(merges[n])
  /\ \A r \in Request : Merging!Completed(r) => MergeKept(r)

-----------------------------------------------------------------------------
(* Values *)

LEMMA NothingHeld ==
  /\ Merging!NoObject \notin ObjectRecord
  /\ Merging!NoFork \notin ForkRecord
  /\ Merging!NoRequest \notin RequestRecord
  /\ Merging!NoCompletion \notin CompletionRecord
  /\ "none" \notin Merging!Thread
  /\ Merging!Trunk \notin Fork
<1>1. "none" \notin Merging!Thread /\ Merging!Trunk \notin Fork /\ "none" \notin Fork
  BY ProtocolAssumption DEF Merging!Thread, Merging!Trunk
<1>2. Merging!NoObject.status = "none"
  BY DEF Merging!NoObject
<1>3. Merging!NoFork.parent = "none"
  BY DEF Merging!NoFork
<1>4. Merging!NoRequest.source = "none"
  BY DEF Merging!NoRequest
<1>5. Merging!NoCompletion.id = "none"
  BY DEF Merging!NoCompletion
<1> QED
  BY <1>1, <1>2, <1>3, <1>4, <1>5, ProtocolAssumption
  DEF ObjectRecord, ForkRecord, RequestRecord, CompletionRecord

LEMMA OverAt ==
  ASSUME NEW left, NEW right, NEW o \in Merging!Object
  PROVE  /\ right[o] # Merging!NoObject => Merging!Over(left, right)[o] = right[o]
         /\ right[o] = Merging!NoObject => Merging!Over(left, right)[o] = left[o]
  BY DEF Merging!Over

LEMMA DirectAt ==
  ASSUME MergeTypeOK, NEW t, NEW o \in Merging!Object
  PROVE  /\ Merging!Direct(t)[o] \in ObjectRecord \cup {Merging!NoObject}
         /\ Merging!Direct(t)[o] # Merging!NoObject <=>
              objects[o] # Merging!NoObject /\ objects[o].thread = t
         /\ Merging!Direct(t)[o] # Merging!NoObject => Merging!Direct(t)[o] = objects[o]
  BY DEF MergeTypeOK, Holding, Merging!Direct

LEMMA ForkTyped ==
  ASSUME MergeTypeOK, NEW t \in Merging!Thread, Merging!Is(t), t # Merging!Trunk
  PROVE  t \in Fork /\ forks[t] # Merging!NoFork /\ forks[t] \in ForkRecord
  BY DEF MergeTypeOK, Merging!Thread, Merging!Is

\* Own, by cases: an object of the thread, or one of its boundary.
LEMMA OwnAt ==
  ASSUME MergeTypeOK, NEW t \in Merging!Thread, Merging!Is(t), NEW o \in Merging!Object
  PROVE  /\ Merging!Own(t)[o] \in ObjectRecord \cup {Merging!NoObject}
         /\ Merging!Direct(t)[o] # Merging!NoObject => Merging!Own(t)[o] = Merging!Direct(t)[o]
         /\ Merging!Direct(t)[o] = Merging!NoObject /\ t = Merging!Trunk =>
              Merging!Own(t)[o] = Merging!NoObject
         /\ Merging!Direct(t)[o] = Merging!NoObject /\ t # Merging!Trunk =>
              Merging!Own(t)[o] = forks[t].shown[o]
<1>1. CASE t = Merging!Trunk
  BY <1>1, DirectAt DEF Merging!Own
<1>2. CASE t # Merging!Trunk
  <2>1. Merging!Own(t) = Merging!Over(forks[t].shown, Merging!Direct(t))
    BY <1>2 DEF Merging!Own
  <2>2. forks[t].shown[o] \in ObjectRecord \cup {Merging!NoObject}
    BY <1>2, ForkTyped DEF ForkRecord, Holding
  <2> QED
    BY <1>2, <2>1, <2>2, DirectAt, OverAt
<1> QED
  BY <1>1, <1>2

LEMMA JudgedAt ==
  ASSUME MergeTypeOK, NEW t \in Merging!Thread, Merging!Is(t), NEW o \in Merging!Object
  PROVE  /\ Merging!Judged(t)[o] \in ObjectRecord \cup {Merging!NoObject}
         /\ Merging!Direct(t)[o] # Merging!NoObject => Merging!Judged(t)[o] = Merging!Direct(t)[o]
         /\ Merging!Direct(t)[o] = Merging!NoObject /\ t = Merging!Trunk =>
              Merging!Judged(t)[o] = Merging!NoObject
         /\ Merging!Direct(t)[o] = Merging!NoObject /\ t # Merging!Trunk =>
              Merging!Judged(t)[o] = forks[t].judged[o]
<1>1. CASE t = Merging!Trunk
  BY <1>1, DirectAt DEF Merging!Judged
<1>2. CASE t # Merging!Trunk
  <2>1. Merging!Judged(t) = Merging!Over(forks[t].judged, Merging!Direct(t))
    BY <1>2 DEF Merging!Judged
  <2>2. forks[t].judged[o] \in ObjectRecord \cup {Merging!NoObject}
    BY <1>2, ForkTyped DEF ForkRecord, Holding
  <2> QED
    BY <1>2, <2>1, <2>2, DirectAt, OverAt
<1> QED
  BY <1>1, <1>2


-----------------------------------------------------------------------------
(* What a thread shows *)

\* What a thread is judged to hold it shows of itself, in a status like it.
LEMMA JudgedIsOwn ==
  ASSUME MergeInv, NEW t \in Merging!Thread, Merging!Is(t), NEW o \in Merging!Object
  PROVE  /\ Merging!Judged(t)[o] # Merging!NoObject =>
              /\ Merging!Own(t)[o] # Merging!NoObject
              /\ Merging!Alike(Merging!Judged(t)[o].status, Merging!Own(t)[o].shows, o)
              /\ Merging!Own(t)[o].blocking = Merging!Judged(t)[o].blocking
         /\ Merging!Judged(t)[o] = Merging!NoObject /\ Merging!Own(t)[o] # Merging!NoObject =>
              WasAccepted(o)
<1>0. MergeTypeOK
  BY DEF MergeInv
<1>1. CASE Merging!Direct(t)[o] # Merging!NoObject
  <2>1. /\ Merging!Judged(t)[o] = objects[o] /\ Merging!Own(t)[o] = objects[o]
        /\ objects[o] # Merging!NoObject
    BY <1>0, <1>1, OwnAt, JudgedAt, DirectAt
  <2> QED
    BY <2>1 DEF MergeInv, ObjectsKept
<1>2. CASE Merging!Direct(t)[o] = Merging!NoObject /\ t = Merging!Trunk
  BY <1>0, <1>2, OwnAt, JudgedAt
<1>3. CASE Merging!Direct(t)[o] = Merging!NoObject /\ t # Merging!Trunk
  <2>1. ReadingKept(forks[t])
    BY <1>0, <1>3, ForkTyped DEF MergeInv
  <2>2. Merging!Own(t)[o] = forks[t].shown[o] /\ Merging!Judged(t)[o] = forks[t].judged[o]
    BY <1>0, <1>3, OwnAt, JudgedAt
  <2> QED
    BY <2>1, <2>2 DEF ReadingKept
<1> QED
  BY <1>1, <1>2, <1>3

\* What is judged to be in a thread says of itself which thread it is in.
LEMMA JudgedFrom ==
  ASSUME MergeInv, NEW t \in Merging!Thread, Merging!Is(t), NEW o \in Merging!Object,
         Merging!Judged(t)[o] # Merging!NoObject
  PROVE  /\ objects[o] \in ObjectRecord
         /\ Merging!Own(t)[o].from = IF objects[o].thread = t THEN "none"
                                     ELSE objects[o].thread
<1>0. MergeTypeOK
  BY DEF MergeInv
<1>1. CASE Merging!Direct(t)[o] # Merging!NoObject
  <2>1. /\ objects[o] # Merging!NoObject /\ objects[o].thread = t
        /\ Merging!Own(t)[o] = objects[o]
    BY <1>0, <1>1, OwnAt, DirectAt
  <2>2. objects[o] \in ObjectRecord
    BY <1>0, <2>1 DEF MergeTypeOK, Holding
  <2> QED
    BY <2>1, <2>2 DEF MergeInv, ObjectsKept
<1>2. CASE Merging!Direct(t)[o] = Merging!NoObject
  <2>1. t # Merging!Trunk
    BY <1>0, <1>2, JudgedAt
  <2>2. ReadingKept(forks[t])
    BY <1>0, <2>1, ForkTyped DEF MergeInv
  <2>3. Merging!Own(t)[o] = forks[t].shown[o] /\ Merging!Judged(t)[o] = forks[t].judged[o]
    BY <1>0, <1>2, <2>1, OwnAt, JudgedAt
  <2>4. objects[o] # Merging!NoObject /\ Merging!Own(t)[o].from = objects[o].thread
    BY <2>2, <2>3 DEF ReadingKept
  <2>5. objects[o] \in ObjectRecord
    BY <1>0, <2>4 DEF MergeTypeOK, Holding
  <2>6. objects[o].thread # t
    BY <1>0, <1>2, <2>4, DirectAt
  <2> QED
    BY <2>4, <2>5, <2>6
<1> QED
  BY <1>1, <1>2

LEMMA CompletionTyped ==
  ASSUME MergeInv, NEW r \in Request, Merging!Completed(r)
  PROVE  /\ completions[r] \in CompletionRecord
         /\ proposed[r] \in RequestRecord
         /\ proposed[r].source \in Fork
         /\ proposed[r].source \in Merging!Thread
         /\ proposed[r].target \in Merging!Thread
         /\ Merging!Is(proposed[r].source)
         /\ Merging!Is(proposed[r].target)
<1>1. completions[r] \in CompletionRecord
  BY DEF MergeInv, MergeTypeOK, Merging!Completed
<1>2. proposed[r] # Merging!NoRequest
  BY DEF MergeInv, MergeKept
<1>3. proposed[r] \in RequestRecord
  BY <1>2 DEF MergeInv, MergeTypeOK
<1> QED
  BY <1>1, <1>2, <1>3 DEF MergeInv, RequestRecord, Merging!Thread

LEMMA MergeTyped ==
  ASSUME MergeInv, NEW n \in DOMAIN merges
  PROVE  /\ merges[n] \in Request
         /\ Merging!Completed(merges[n])
         /\ completions[merges[n]] \in CompletionRecord
         /\ proposed[merges[n]].source \in Fork
         /\ proposed[merges[n]].source \in Merging!Thread
         /\ proposed[merges[n]].target \in Merging!Thread
         /\ Merging!Is(proposed[merges[n]].source)
         /\ Merging!Is(proposed[merges[n]].target)
<1>1. merges[n] \in Request /\ Merging!Completed(merges[n])
  BY DEF MergeInv, MergeTypeOK
<1> QED
  BY <1>1, CompletionTyped

\* What was accepted of a source is judged to be in it, and the source shows it of
\* itself.
LEMMA AcceptedIsOwn ==
  ASSUME MergeInv, NEW n \in DOMAIN merges, NEW o \in completions[merges[n]].accepted
  PROVE  /\ o \in Merging!Object
         /\ Merging!Judged(proposed[merges[n]].source)[o] # Merging!NoObject
         /\ Merging!Own(proposed[merges[n]].source)[o] \in ObjectRecord
<1>0. MergeTypeOK
  BY DEF MergeInv
<1> DEFINE s == proposed[merges[n]].source
<1>1. s \in Merging!Thread /\ Merging!Is(s)
  BY MergeTyped
<1>2. o \in Merging!JudgedIds(s)
  BY MergeTyped DEF MergeInv, MergeKept
<1>3. o \in Merging!Object /\ Merging!Judged(s)[o] # Merging!NoObject
  BY <1>2 DEF Merging!JudgedIds
<1> HIDE DEF s
<1>4. Merging!Own(s)[o] # Merging!NoObject
  BY <1>1, <1>3, JudgedIsOwn
<1>5. Merging!Own(s)[o] \in ObjectRecord
  BY <1>0, <1>1, <1>3, <1>4, OwnAt
<1> QED
  BY <1>3, <1>5 DEF s

LEMMA LeastIs ==
  ASSUME NEW I \in SUBSET Nat, I # {}
  PROVE  \E n \in I : \A k \in I : n <= k
<1>1. PICK n \in I : \A k \in I : ~ (<<k, n>> \in OpToRel(<, Nat))
  BY NatLessThanWellFounded, WFMin
<1>2. \A k \in I : ~ (k < n)
  BY <1>1 DEF OpToRel
<1> QED
  BY <1>2

\* The completions that bring o to t by a reading that shows, of every source,
\* what it shows of itself.
LEMMA BringsIsCarries ==
  ASSUME MergeInv, NEW t \in Merging!Thread, NEW o \in Merging!Object,
         NEW view, NEW n \in DOMAIN merges,
         \A s \in Merging!Thread : Merging!Own(s)[o] # Merging!NoObject =>
           view[s][o] = Merging!Own(s)[o]
  PROVE  Merging!Brings(view, n, t, o) <=> Carries(n, t, o)
<1> DEFINE s == proposed[merges[n]].source
<1>1. CASE o \in completions[merges[n]].accepted
  <2>1. s \in Merging!Thread /\ Merging!Own(s)[o] \in ObjectRecord
    BY <1>1, MergeTyped, AcceptedIsOwn
  <2>2. view[s][o] = Merging!Own(s)[o] /\ view[s][o] # Merging!NoObject
    BY <2>1, NothingHeld
  <2> QED
    BY <1>1, <2>2 DEF Merging!Brings, Carries
<1>2. CASE o \notin completions[merges[n]].accepted
  BY <1>2 DEF Merging!Brings, Carries
<1> QED
  BY <1>1, <1>2

\* What is merged into t, without the recursion.
First(t, o) ==
  CHOOSE n \in {k \in DOMAIN merges : Carries(k, t, o)} :
    \A k \in {j \in DOMAIN merges : Carries(j, t, o)} : n <= k

LEMMA FirstCarries ==
  ASSUME MergeInv, NEW t, NEW o, \E n \in DOMAIN merges : Carries(n, t, o)
  PROVE  First(t, o) \in DOMAIN merges /\ Carries(First(t, o), t, o)
<1> DEFINE by == {k \in DOMAIN merges : Carries(k, t, o)}
<1>1. by \in SUBSET Nat /\ by # {}
  BY DEF MergeInv, MergeTypeOK
<1>2. First(t, o) = CHOOSE n \in by : \A k \in by : n <= k
  BY DEF First
<1>4. \E n \in by : \A k \in by : n <= k
  <2> HIDE DEF by
  <2> QED
    BY <1>1, LeastIs
<1>3. First(t, o) \in by
  <2> HIDE DEF by
  <2> QED
    BY <1>2, <1>4
<1> QED
  BY <1>3

LEMMA MergedAt ==
  ASSUME MergeInv, NEW t \in Merging!Thread, NEW o \in Merging!Object, NEW view,
         \A s \in Merging!Thread : Merging!Own(s)[o] # Merging!NoObject =>
           view[s][o] = Merging!Own(s)[o]
  PROVE  Merging!MergedInto(view, t)[o] =
           IF \E n \in DOMAIN merges : Carries(n, t, o)
           THEN Merging!Carried(merges[First(t, o)], o,
                  Merging!Own(proposed[merges[First(t, o)]].source)[o])
           ELSE Merging!NoObject
<1> DEFINE by == {n \in DOMAIN merges : Merging!Brings(view, n, t, o)}
           first == CHOOSE n \in by : \A k \in by : n <= k
<1>1. by = {n \in DOMAIN merges : Carries(n, t, o)}
  BY BringsIsCarries
<1>2. first = First(t, o)
  BY <1>1 DEF First
<1>3. Merging!MergedInto(view, t)[o] =
        IF by = {} THEN Merging!NoObject
        ELSE Merging!Carried(merges[first], o, view[proposed[merges[first]].source][o])
  BY DEF Merging!MergedInto
<1> HIDE DEF first
<1>4. CASE \E n \in DOMAIN merges : Carries(n, t, o)
  <2>1. First(t, o) \in DOMAIN merges /\ o \in completions[merges[First(t, o)]].accepted
    BY <1>4, FirstCarries DEF Carries
  <2>2. /\ proposed[merges[First(t, o)]].source \in Merging!Thread
        /\ Merging!Own(proposed[merges[First(t, o)]].source)[o] # Merging!NoObject
    BY <2>1, MergeTyped, AcceptedIsOwn, NothingHeld
  <2>3. by # {}
    BY <1>1, <1>4
  <2> HIDE DEF by
  <2> QED
    BY <1>2, <1>3, <1>4, <2>2, <2>3
<1>5. CASE ~ \E n \in DOMAIN merges : Carries(n, t, o)
  <2>1. by = {}
    BY <1>1, <1>5
  <2> HIDE DEF by
  <2> QED
    BY <1>3, <1>5, <2>1
<1> QED
  BY <1>4, <1>5


\* One reading in which every source shows what it shows of itself.
Plain == [t \in Merging!Thread |->
            Merging!Prefer(Merging!Own(t), Merging!MergedInto([s \in Merging!Thread |->
                                                                Merging!Own(s)], t))]

LEMMA MergedAlike ==
  ASSUME MergeInv, NEW t \in Merging!Thread, NEW view, NEW other,
         \A s \in Merging!Thread, o \in Merging!Object :
           Merging!Own(s)[o] # Merging!NoObject =>
             view[s][o] = Merging!Own(s)[o] /\ other[s][o] = Merging!Own(s)[o]
  PROVE  Merging!MergedInto(view, t) = Merging!MergedInto(other, t)
<1>1. \A o \in Merging!Object :
        Merging!MergedInto(view, t)[o] = Merging!MergedInto(other, t)[o]
  <2> SUFFICES ASSUME NEW o \in Merging!Object
               PROVE  Merging!MergedInto(view, t)[o] = Merging!MergedInto(other, t)[o]
    OBVIOUS
  <2>1. /\ \A s \in Merging!Thread : Merging!Own(s)[o] # Merging!NoObject =>
             view[s][o] = Merging!Own(s)[o]
        /\ \A s \in Merging!Thread : Merging!Own(s)[o] # Merging!NoObject =>
             other[s][o] = Merging!Own(s)[o]
    OBVIOUS
  <2> QED
    BY <2>1, MergedAt
<1>2. \E f, g : /\ Merging!MergedInto(view, t) = [o \in Merging!Object |-> f[o]]
                /\ Merging!MergedInto(other, t) = [o \in Merging!Object |-> g[o]]
  <2>1. /\ Merging!MergedInto(view, t)
             = [o \in Merging!Object |-> Merging!MergedInto(view, t)[o]]
        /\ Merging!MergedInto(other, t)
             = [o \in Merging!Object |-> Merging!MergedInto(other, t)[o]]
    BY DEF Merging!MergedInto
  <2> QED
    BY <2>1
<1> QED
  BY <1>1, <1>2

LEMMA PreferAt ==
  ASSUME NEW t, NEW merged, NEW o \in Merging!Object
  PROVE  /\ Merging!Own(t)[o] # Merging!NoObject =>
              Merging!Prefer(Merging!Own(t), merged)[o] = Merging!Own(t)[o]
         /\ Merging!Own(t)[o] = Merging!NoObject =>
              Merging!Prefer(Merging!Own(t), merged)[o] = merged[o]
  BY OverAt DEF Merging!Prefer

\* The recursion of the projector has a solution.
LEMMA PlainSolves ==
  ASSUME MergeInv
  PROVE  Plain = [t \in Merging!Thread |->
                    Merging!Prefer(Merging!Own(t), Merging!MergedInto(Plain, t))]
<1> DEFINE own == [s \in Merging!Thread |-> Merging!Own(s)]
<1>1. \A s \in Merging!Thread, o \in Merging!Object :
        Merging!Own(s)[o] # Merging!NoObject => Plain[s][o] = Merging!Own(s)[o]
  BY PreferAt DEF Plain
<1>2. \A s \in Merging!Thread : own[s] = Merging!Own(s)
  OBVIOUS
<1>3. ASSUME NEW t \in Merging!Thread
      PROVE  Merging!MergedInto(own, t) = Merging!MergedInto(Plain, t)
  <2> HIDE DEF own
  <2> QED
    BY <1>1, <1>2, MergedAlike
<1> QED
  BY <1>3 DEF Plain

\* So what the projector computes is what it says it computes.
LEMMA ShownSolves ==
  ASSUME MergeInv
  PROVE  Merging!ShownOf = [t \in Merging!Thread |->
           Merging!Prefer(Merging!Own(t), Merging!MergedInto(Merging!ShownOf, t))]
<1>1. Merging!ShownOf = CHOOSE f : f = [t \in Merging!Thread |->
                          Merging!Prefer(Merging!Own(t), Merging!MergedInto(f, t))]
  BY DEF Merging!ShownOf
<1> DEFINE Solves(f) == f = [t \in Merging!Thread |->
                          Merging!Prefer(Merging!Own(t), Merging!MergedInto(f, t))]
<1>2. \E f : Solves(f)
  BY PlainSolves
<1>3. Merging!ShownOf = CHOOSE f : Solves(f)
  BY <1>1
<1>4. Solves(CHOOSE f : Solves(f))
  <2> HIDE DEF Solves
  <2> QED
    BY <1>2
<1> QED
  BY <1>3, <1>4


\* And there is no other: a source shows of itself all that a merge takes of it.
LEMMA ShownIsPlain ==
  ASSUME MergeInv
  PROVE  Merging!ShownOf = Plain
<1> DEFINE own == [s \in Merging!Thread |-> Merging!Own(s)]
<1>1. \A s \in Merging!Thread : Merging!ShownOf[s] =
        Merging!Prefer(Merging!Own(s), Merging!MergedInto(Merging!ShownOf, s))
  BY ShownSolves
<1>2. \A s \in Merging!Thread, o \in Merging!Object :
        Merging!Own(s)[o] # Merging!NoObject => Merging!ShownOf[s][o] = Merging!Own(s)[o]
  BY <1>1, PreferAt
<1>3. \A s \in Merging!Thread : own[s] = Merging!Own(s)
  OBVIOUS
<1>4. ASSUME NEW t \in Merging!Thread
      PROVE  Merging!MergedInto(Merging!ShownOf, t) = Merging!MergedInto(own, t)
  <2> HIDE DEF own
  <2> QED
    BY <1>2, <1>3, MergedAlike
<1>5. Merging!ShownOf = [t \in Merging!Thread |->
        Merging!Prefer(Merging!Own(t), Merging!MergedInto(own, t))]
  <2> HIDE DEF own
  <2> QED
    BY <1>4, ShownSolves
<1> QED
  BY <1>5 DEF Plain

\* What a thread shows, case by case.
LEMMA ShownAt ==
  ASSUME MergeInv, NEW t \in Merging!Thread, NEW o \in Merging!Object
  PROVE  /\ Merging!Own(t)[o] # Merging!NoObject => Merging!Shown(t)[o] = Merging!Own(t)[o]
         /\ Merging!Own(t)[o] = Merging!NoObject /\ (\E n \in DOMAIN merges : Carries(n, t, o)) =>
              Merging!Shown(t)[o] =
                Merging!Carried(merges[First(t, o)], o,
                                Merging!Own(proposed[merges[First(t, o)]].source)[o])
         /\ ~ Shows(t, o) => Merging!Shown(t)[o] = Merging!NoObject
<1>1. \A s \in Merging!Thread :
        Merging!Shown(s) = Merging!Prefer(Merging!Own(s), Merging!MergedInto(Merging!ShownOf, s))
  BY ShownSolves DEF Merging!Shown
<1>2. \A s \in Merging!Thread : Merging!Own(s)[o] # Merging!NoObject =>
        Merging!ShownOf[s][o] = Merging!Own(s)[o]
  BY <1>1, PreferAt DEF Merging!Shown
<1>3. Merging!MergedInto(Merging!ShownOf, t)[o] =
        IF \E n \in DOMAIN merges : Carries(n, t, o)
        THEN Merging!Carried(merges[First(t, o)], o,
               Merging!Own(proposed[merges[First(t, o)]].source)[o])
        ELSE Merging!NoObject
  BY <1>2, MergedAt
<1>4. CASE Merging!Own(t)[o] # Merging!NoObject
  BY <1>1, <1>4, PreferAt DEF Shows
<1>5. CASE Merging!Own(t)[o] = Merging!NoObject
  <2>1. Merging!Shown(t)[o] = Merging!MergedInto(Merging!ShownOf, t)[o]
    BY <1>1, <1>5, PreferAt
  <2> QED
    BY <1>3, <1>5, <2>1 DEF Shows
<1> QED
  BY <1>4, <1>5

LEMMA CarriedTyped ==
  ASSUME MergeInv, NEW t \in Merging!Thread, NEW n \in DOMAIN merges, NEW o, Carries(n, t, o)
  PROVE  LET c == Merging!Carried(merges[n], o, Merging!Own(proposed[merges[n]].source)[o])
         IN /\ c \in ObjectRecord
            /\ c.from = Merging!Own(proposed[merges[n]].source)[o].from
<1> DEFINE x == Merging!Own(proposed[merges[n]].source)[o]
<1>1. x \in ObjectRecord /\ proposed[merges[n]].target \in Merging!Thread
  BY AcceptedIsOwn, MergeTyped DEF Carries
<1> HIDE DEF x
<1>2. Merging!Carried(merges[n], o, x) \in ObjectRecord
  BY <1>1 DEF Merging!Carried, ObjectRecord
<1>3. Merging!Carried(merges[n], o, x).from = x.from
  BY <1>1 DEF Merging!Carried, ObjectRecord
<1> QED
  BY <1>2, <1>3 DEF x

LEMMA ShownTyped ==
  ASSUME MergeInv, NEW t \in Merging!Thread, Merging!Is(t), NEW o \in Merging!Object
  PROVE  /\ Merging!Shown(t)[o] \in ObjectRecord \cup {Merging!NoObject}
         /\ Merging!Shown(t)[o] # Merging!NoObject <=> Shows(t, o)
<1>0. MergeTypeOK
  BY DEF MergeInv
<1>1. CASE Merging!Own(t)[o] # Merging!NoObject
  BY <1>0, <1>1, OwnAt, ShownAt DEF Shows
<1>2. CASE Merging!Own(t)[o] = Merging!NoObject /\ \E n \in DOMAIN merges : Carries(n, t, o)
  <2>1. First(t, o) \in DOMAIN merges /\ Carries(First(t, o), t, o)
    BY <1>2, FirstCarries
  <2>2. Merging!Shown(t)[o] \in ObjectRecord
    BY <1>2, <2>1, ShownAt, CarriedTyped
  <2> QED
    BY <1>2, <2>2, NothingHeld DEF Shows
<1>3. CASE ~ Shows(t, o)
  BY <1>3, ShownAt
<1> QED
  BY <1>1, <1>2, <1>3 DEF Shows

\* The two readings of one log.
LEMMA ReadingsAgree ==
  ASSUME MergeInv, NEW t \in Merging!Thread, Merging!Is(t), NEW o \in Merging!Object
  PROVE  /\ Merging!Judged(t)[o] # Merging!NoObject =>
              /\ Merging!Shown(t)[o] # Merging!NoObject
              /\ Merging!Shown(t)[o] = Merging!Own(t)[o]
              /\ Merging!Alike(Merging!Judged(t)[o].status, Merging!Shown(t)[o].shows, o)
              /\ Merging!Shown(t)[o].blocking = Merging!Judged(t)[o].blocking
         /\ Merging!Judged(t)[o] = Merging!NoObject /\ Merging!Shown(t)[o] # Merging!NoObject =>
              WasAccepted(o)
<1>1. CASE Merging!Own(t)[o] # Merging!NoObject
  <2>1. Merging!Shown(t)[o] = Merging!Own(t)[o]
    BY <1>1, ShownAt
  <2> QED
    BY <1>1, <2>1, JudgedIsOwn
<1>2. CASE Merging!Own(t)[o] = Merging!NoObject
  <2>1. Merging!Judged(t)[o] = Merging!NoObject
    BY <1>2, JudgedIsOwn
  <2>2. ASSUME NEW n \in DOMAIN merges, Carries(n, t, o) PROVE WasAccepted(o)
    BY <2>2, MergeTyped DEF Carries, WasAccepted
  <2>3. Merging!Shown(t)[o] # Merging!NoObject => \E n \in DOMAIN merges : Carries(n, t, o)
    BY <1>2, ShownAt DEF Shows
  <2> QED
    BY <2>1, <2>2, <2>3
<1> QED
  BY <1>1, <1>2

\* What a completion accepted that the projection has, its target shows.
LEMMA AcceptedShows ==
  ASSUME MergeInv, NEW n \in DOMAIN merges, NEW o \in completions[merges[n]].accepted
  PROVE  Merging!Shown(proposed[merges[n]].target)[o] # Merging!NoObject
<1>0. MergeTypeOK
  BY DEF MergeInv
<1>1. PICK s \in Merging!Thread, t \in Merging!Thread :
        /\ s = proposed[merges[n]].source /\ Merging!Is(s)
        /\ t = proposed[merges[n]].target /\ Merging!Is(t)
  BY MergeTyped
<1>2. /\ o \in Merging!Object /\ Merging!Judged(s)[o] # Merging!NoObject
      /\ Merging!Own(s)[o] # Merging!NoObject
  BY <1>1, AcceptedIsOwn, NothingHeld
<1>3. CASE Merging!Own(s)[o].from = t
  <2>1. objects[o] \in ObjectRecord /\ objects[o].thread = t
    BY <1>1, <1>2, <1>3, JudgedFrom, NothingHeld
  <2>2. Merging!Direct(t)[o] # Merging!NoObject
    BY <1>0, <1>2, <2>1, DirectAt, NothingHeld
  <2>3. Shows(t, o)
    BY <1>0, <1>1, <1>2, <2>2, OwnAt DEF Shows
  <2> QED
    BY <1>1, <1>2, <2>3, ShownTyped
<1>4. CASE Merging!Own(s)[o].from # t
  <2>1. Shows(t, o)
    BY <1>1, <1>4 DEF Carries, Shows
  <2> QED
    BY <1>1, <1>2, <2>1, ShownTyped
<1> QED
  BY <1>3, <1>4

LEMMA MergeShows ==
  ASSUME MergeInv
  PROVE  Merging!JudgedIsShown /\ Merging!DissentKept
<1>1. Merging!JudgedIsShown
  BY ReadingsAgree DEF Merging!JudgedIsShown, WasAccepted
<1>2. ASSUME NEW r \in Request, Merging!Completed(r)
      PROVE  \E n \in DOMAIN merges :
               /\ completions[merges[n]].id = completions[r].id
               /\ merges[n] = r => \A o \in completions[r].accepted :
                    Merging!Shown(proposed[r].target)[o] # Merging!NoObject
  <2>1. PICK n \in DOMAIN merges : completions[merges[n]].id = completions[r].id
    BY <1>2 DEF MergeInv, MergeKept
  <2> QED
    BY <2>1, AcceptedShows
<1>3. ASSUME NEW r \in Request, Merging!Completed(r), NEW o \in proposed[r].objections
      PROVE  Merging!Shown(proposed[r].source)[o] # Merging!NoObject
  <2> DEFINE s == proposed[r].source
  <2>1. s \in Merging!Thread /\ Merging!Is(s)
    BY <1>3, CompletionTyped
  <2>2. o \in Merging!Object /\ Merging!Judged(s)[o] # Merging!NoObject
    BY <1>3 DEF MergeInv, MergeKept, Merging!JudgedIds
  <2> HIDE DEF s
  <2>3. Merging!Shown(s)[o] # Merging!NoObject
    BY <2>1, <2>2, ReadingsAgree
  <2> QED
    BY <2>3 DEF s
<1>4. \A r \in Request : Merging!Completed(r) =>
        completions[r].dissent \subseteq completions[r].accepted \cup completions[r].preserved
          \cup (completions[r].rejected \cap completions[r].rationales) \cup reopened
  BY DEF MergeInv, MergeKept
<1> QED
  BY <1>1, <1>2, <1>3, <1>4 DEF Merging!DissentKept


-----------------------------------------------------------------------------
(* What no step takes back *)

\* Forks, requests and completions stay as they are, an object in its thread, and
\* what a decision reopened.
Grows ==
  /\ \A f \in Fork : forks[f] # Merging!NoFork => forks'[f] = forks[f]
  /\ \A o \in Merging!Object : objects[o] # Merging!NoObject =>
       objects'[o] # Merging!NoObject /\ objects'[o].thread = objects[o].thread
  /\ ObjectsKept'
  /\ reopened \subseteq reopened'
  /\ \A r \in Request : proposed[r] # Merging!NoRequest => proposed'[r] = proposed[r]
  /\ \A r \in Request : Merging!Completed(r) => completions'[r] = completions[r]

\* The cases of what a thread holds, in one formula.
ByCases ==
  MergeTypeOK =>
    \A t \in Merging!Thread, o \in Merging!Object : Merging!Is(t) =>
      LET direct == Merging!Direct(t)[o]
      IN /\ direct # Merging!NoObject <=> objects[o] # Merging!NoObject /\ objects[o].thread = t
         /\ direct # Merging!NoObject => /\ direct = objects[o]
                                         /\ Merging!Judged(t)[o] = direct
                                         /\ Merging!Own(t)[o] = direct
         /\ direct = Merging!NoObject /\ t = Merging!Trunk =>
              Merging!Judged(t)[o] = Merging!NoObject /\ Merging!Own(t)[o] = Merging!NoObject
         /\ direct = Merging!NoObject /\ t # Merging!Trunk =>
              Merging!Judged(t)[o] = forks[t].judged[o] /\ Merging!Own(t)[o] = forks[t].shown[o]

LEMMA HeldByCases == ByCases
  BY DirectAt, JudgedAt, OwnAt DEF ByCases

LEMMA HeldByCasesNext == ByCases'
  BY HeldByCases, PTL

LEMMA IsStays ==
  ASSUME MergeInv, Grows, NEW t \in Merging!Thread, Merging!Is(t)
  PROVE  Merging!Is(t)' /\ (t \in Fork => forks'[t] = forks[t])
  BY DEF Merging!Is, Grows

LEMMA DirectStays ==
  ASSUME MergeInv, MergeTypeOK', Grows, NEW t \in Merging!Thread, Merging!Is(t),
         NEW o \in Merging!Object, Merging!Direct(t)[o] # Merging!NoObject
  PROVE  Merging!Direct(t)'[o] # Merging!NoObject
<1>1. objects[o] # Merging!NoObject /\ objects[o].thread = t
  BY HeldByCases DEF ByCases, MergeInv
<1>2. objects'[o] # Merging!NoObject /\ objects'[o].thread = t
  BY <1>1 DEF Grows
<1> QED
  BY <1>2, IsStays, HeldByCasesNext DEF ByCases

LEMMA JudgedStays ==
  ASSUME MergeInv, MergeTypeOK', Grows, NEW t \in Merging!Thread, Merging!Is(t)
  PROVE  Merging!JudgedIds(t) \subseteq Merging!JudgedIds(t)'
<1> SUFFICES ASSUME NEW o \in Merging!Object, Merging!Judged(t)[o] # Merging!NoObject
             PROVE  Merging!Judged(t)'[o] # Merging!NoObject
  BY DEF Merging!JudgedIds
<1>0. MergeTypeOK
  BY DEF MergeInv
<1>1. Merging!Is(t)' /\ (t \in Fork => forks'[t] = forks[t])
  BY IsStays
<1>2. CASE Merging!Direct(t)'[o] # Merging!NoObject
  BY <1>1, <1>2, HeldByCasesNext DEF ByCases
<1>3. CASE Merging!Direct(t)'[o] = Merging!NoObject
  <2>1. Merging!Direct(t)[o] = Merging!NoObject
    BY <1>3, DirectStays
  <2>2. t # Merging!Trunk /\ Merging!Judged(t)[o] = forks[t].judged[o]
    BY <1>0, <2>1, HeldByCases DEF ByCases
  <2>3. Merging!Judged(t)'[o] = forks'[t].judged[o]
    BY <1>1, <1>3, <2>2, HeldByCasesNext DEF ByCases
  <2> QED
    BY <1>1, <2>2, <2>3 DEF Merging!Thread
<1> QED
  BY <1>2, <1>3

LEMMA CompletedStays ==
  ASSUME MergeInv, Grows, NEW r \in Request, Merging!Completed(r)
  PROVE  Merging!Completed(r)' /\ completions'[r] = completions[r]
  BY DEF Grows, Merging!Completed

LEMMA ReadingStays ==
  ASSUME MergeInv, Grows, NEW r, ReadingKept(r)
  PROVE  ReadingKept(r)'
<1> SUFFICES ASSUME NEW o \in Merging!Object
             PROVE
    /\ r.judged[o] # Merging!NoObject =>
         /\ r.shown[o] # Merging!NoObject
         /\ Merging!Alike(r.judged[o].status, r.shown[o].shows, o)'
         /\ r.shown[o].blocking = r.judged[o].blocking
         /\ objects'[o] # Merging!NoObject
         /\ r.shown[o].from = objects'[o].thread
    /\ r.judged[o] = Merging!NoObject /\ r.shown[o] # Merging!NoObject => WasAccepted(o)'
  BY DEF ReadingKept
<1>1. WasAccepted(o) => WasAccepted(o)'
  BY CompletedStays DEF WasAccepted
<1>2. \A x, y : Merging!Alike(x, y, o) => Merging!Alike(x, y, o)'
  BY DEF Merging!Alike, Grows
<1>3. CASE r.judged[o] # Merging!NoObject
  BY <1>2, <1>3 DEF ReadingKept, Grows
<1>4. CASE r.judged[o] = Merging!NoObject
  BY <1>1, <1>4 DEF ReadingKept
<1> QED
  BY <1>3, <1>4

\* What was kept of a merge is kept as long as the projection has its id.
LEMMA MergeStays ==
  ASSUME MergeInv, MergeTypeOK', Grows, NEW r \in Request, Merging!Completed(r),
         \E n \in DOMAIN merges' : completions'[merges'[n]].id = completions[r].id
  PROVE  MergeKept(r)'
<1>1. /\ completions'[r] = completions[r] /\ proposed'[r] = proposed[r]
      /\ proposed[r] # Merging!NoRequest
  BY CompletedStays DEF Grows, MergeInv, MergeKept
<1>2. PICK s \in Merging!Thread : s = proposed[r].source
  BY CompletionTyped
<1>3. Merging!JudgedIds(s) \subseteq Merging!JudgedIds(s)'
  BY <1>2, CompletionTyped, JudgedStays
<1>4. PICK c : c = completions[r]
  OBVIOUS
<1>5. /\ c.accepted \subseteq Merging!JudgedIds(s)
      /\ proposed[r].objections \subseteq Merging!JudgedIds(s)
      /\ c.dissent \subseteq c.accepted \cup c.preserved \cup (c.rejected \cap c.rationales)
                               \cup reopened
  BY <1>2, <1>4 DEF MergeInv, MergeKept
<1>6. c.dissent \subseteq c.accepted \cup c.preserved \cup (c.rejected \cap c.rationales)
                             \cup reopened'
  BY <1>5 DEF Grows
<1>7. /\ s = proposed'[r].source
      /\ c = completions'[r]
  BY <1>1, <1>2, <1>4
<1> QED
  BY <1>1, <1>3, <1>5, <1>6, <1>7 DEF MergeKept

\* A step that takes nothing back keeps the invariant, if what is new has it.
LEMMA MergeStep ==
  ASSUME MergeInv, MergeTypeOK', Grows,
         \A r \in Request : proposed'[r] # Merging!NoRequest =>
           \/ proposed[r] # Merging!NoRequest
           \/ Merging!Is(proposed'[r].source) /\ Merging!Is(proposed'[r].target),
         \A f \in Fork : forks'[f] # Merging!NoFork =>
           forks[f] # Merging!NoFork \/ ReadingKept(forks'[f]),
         \A t \in Merging!Thread : seen'[t] # Merging!NoReading =>
           \/ seen'[t] = seen[t]
           \/ ReadingKept(seen'[t]),
         \A n \in DOMAIN merges' : Merging!Completed(merges[n])',
         \A r \in Request : Merging!Completed(r)' => MergeKept(r)'
  PROVE  MergeInv'
<1>1. ObjectsKept'
  BY DEF Grows
<1>2. \A t \in Merging!Thread : Merging!Is(t) => Merging!Is(t)'
  BY IsStays
<1>3. ASSUME NEW r \in Request, proposed'[r] # Merging!NoRequest
      PROVE  (Merging!Is(proposed[r].source) /\ Merging!Is(proposed[r].target))'
  <2>0. proposed'[r] \in RequestRecord
    BY <1>3 DEF MergeTypeOK
  <2>1. PICK s \in Merging!Thread, t \in Merging!Thread :
          s = proposed'[r].source /\ t = proposed'[r].target
    BY <2>0 DEF RequestRecord, Merging!Thread
  <2>2. Merging!Is(s) /\ Merging!Is(t)
    <3>1. CASE proposed[r] # Merging!NoRequest
      BY <2>1, <3>1 DEF MergeInv, Grows
    <3>2. CASE Merging!Is(proposed'[r].source) /\ Merging!Is(proposed'[r].target)
      BY <2>1, <3>2
    <3> QED
      BY <1>3, <3>1, <3>2
  <2>3. Merging!Is(s)' /\ Merging!Is(t)'
    BY <1>2, <2>2
  <2> QED
    BY <2>1, <2>3
<1>4. ASSUME NEW f \in Fork, forks'[f] # Merging!NoFork
      PROVE  ReadingKept(forks[f])'
  <2>1. PICK r : r = forks'[f]
    OBVIOUS
  <2>2. ReadingKept(r)
    <3>1. CASE forks[f] # Merging!NoFork
      BY <2>1, <3>1 DEF MergeInv, Grows
    <3>2. CASE ReadingKept(forks'[f])
      BY <2>1, <3>2
    <3> QED
      BY <1>4, <3>1, <3>2
  <2>3. ReadingKept(r)'
    BY <2>2, ReadingStays
  <2> QED
    BY <2>1, <2>3
<1>5. ASSUME NEW t \in Merging!Thread, seen'[t] # Merging!NoReading
      PROVE  ReadingKept(seen[t])'
  <2>1. PICK r : r = seen'[t]
    OBVIOUS
  <2>2. ReadingKept(r)
    <3>1. CASE seen'[t] = seen[t]
      BY <1>5, <2>1, <3>1 DEF MergeInv
    <3>2. CASE ReadingKept(seen'[t])
      BY <2>1, <3>2
    <3> QED
      BY <1>5, <3>1, <3>2
  <2>3. ReadingKept(r)'
    BY <2>2, ReadingStays
  <2> QED
    BY <2>1, <2>3
<1> QED
  BY <1>1, <1>3, <1>4, <1>5 DEF MergeInv

\* And one that completes nothing.
LEMMA MergeStepOf ==
  ASSUME MergeInv, MergeTypeOK', Grows, UNCHANGED <<completions, merges>>,
         \A r \in Request : proposed'[r] # Merging!NoRequest =>
           \/ proposed[r] # Merging!NoRequest
           \/ Merging!Is(proposed'[r].source) /\ Merging!Is(proposed'[r].target),
         \A f \in Fork : forks'[f] # Merging!NoFork =>
           forks[f] # Merging!NoFork \/ ReadingKept(forks'[f]),
         \A t \in Merging!Thread : seen'[t] # Merging!NoReading =>
           \/ seen'[t] = seen[t]
           \/ ReadingKept(seen'[t])
  PROVE  MergeInv'
<1>1. ASSUME NEW r \in Request, Merging!Completed(r)' PROVE MergeKept(r)'
  <2>1. Merging!Completed(r)
    BY <1>1 DEF Merging!Completed
  <2>2. \E n \in DOMAIN merges' : completions'[merges'[n]].id = completions[r].id
    BY <2>1 DEF MergeInv, MergeKept
  <2> QED
    BY <2>1, <2>2, MergeStays
<1>2. \A n \in DOMAIN merges' : Merging!Completed(merges[n])'
  BY DEF MergeInv, Merging!Completed
<1> QED
  BY <1>1, <1>2, MergeStep


-----------------------------------------------------------------------------
(* The steps *)

LEMMA ReadingTyped ==
  ASSUME MergeInv, NEW t \in Merging!Thread, Merging!Is(t)
  PROVE  Merging!Reading(t) \in ReadingRecord
<1>0. MergeTypeOK
  BY DEF MergeInv
<1>1. Merging!Judged(t) \in Holding
  <2>1. Merging!Judged(t) = [o \in Merging!Object |-> Merging!Judged(t)[o]]
    BY DEF Merging!Judged, Merging!Direct, Merging!Over
  <2>2. \A o \in Merging!Object : Merging!Judged(t)[o] \in ObjectRecord \cup {Merging!NoObject}
    BY <1>0, JudgedAt
  <2> QED
    BY <2>1, <2>2 DEF Holding
<1>2. Merging!Inherited(t) \in Holding
  <2>1. \A o \in Merging!Object : Merging!Shown(t)[o] \in ObjectRecord \cup {Merging!NoObject}
    BY ShownTyped
  <2>2. \A x \in ObjectRecord : [x EXCEPT !.from = t] \in ObjectRecord
    BY DEF ObjectRecord
  <2>3. \A o \in Merging!Object : Merging!Inherited(t)[o] \in ObjectRecord \cup {Merging!NoObject}
    BY <2>1, <2>2 DEF Merging!Inherited
  <2> QED
    BY <2>3 DEF Holding, Merging!Inherited
<1>3. Merging!Locked(t) \subseteq Merging!Object
  BY DEF Merging!Locked
<1> QED
  BY <1>1, <1>2, <1>3 DEF Merging!Reading, ReadingRecord

LEMMA ReadingTaken ==
  ASSUME MergeInv, NEW t \in Merging!Thread, Merging!Is(t)
  PROVE  ReadingKept(Merging!Reading(t))
<1> SUFFICES ASSUME NEW o \in Merging!Object
             PROVE
    /\ Merging!Judged(t)[o] # Merging!NoObject =>
         /\ Merging!Inherited(t)[o] # Merging!NoObject
         /\ Merging!Alike(Merging!Judged(t)[o].status, Merging!Inherited(t)[o].shows, o)
         /\ Merging!Inherited(t)[o].blocking = Merging!Judged(t)[o].blocking
         /\ objects[o] # Merging!NoObject
         /\ Merging!Inherited(t)[o].from = objects[o].thread
    /\ Merging!Judged(t)[o] = Merging!NoObject /\ Merging!Inherited(t)[o] # Merging!NoObject =>
         WasAccepted(o)
  BY DEF ReadingKept, Merging!Reading
<1> DEFINE x == Merging!Shown(t)[o]
           y == Merging!Inherited(t)[o]
<1>1. x \in ObjectRecord \cup {Merging!NoObject}
  BY ShownTyped
<1>2. y = IF x # Merging!NoObject /\ x.from = "none" THEN [x EXCEPT !.from = t] ELSE x
  BY DEF Merging!Inherited
<1>3. CASE Merging!Judged(t)[o] # Merging!NoObject
  <2>1. /\ x # Merging!NoObject /\ x = Merging!Own(t)[o]
        /\ Merging!Alike(Merging!Judged(t)[o].status, x.shows, o)
        /\ x.blocking = Merging!Judged(t)[o].blocking
    BY <1>3, ReadingsAgree
  <2>2. /\ objects[o] \in ObjectRecord
        /\ x.from = IF objects[o].thread = t THEN "none" ELSE objects[o].thread
    BY <1>3, <2>1, JudgedFrom
  <2>3. objects[o] # Merging!NoObject /\ objects[o].thread # "none"
    BY <2>2, NothingHeld DEF ObjectRecord
  <2>4. x \in ObjectRecord
    BY <1>1, <2>1
  <2> HIDE DEF x, y
  <2>5. y.from = objects[o].thread /\ y.shows = x.shows /\ y.blocking = x.blocking
    BY <1>2, <2>1, <2>2, <2>3, <2>4 DEF ObjectRecord
  <2>6. y \in ObjectRecord
    BY <1>2, <2>4 DEF ObjectRecord
  <2>7. y # Merging!NoObject
    BY <2>6, NothingHeld
  <2> QED
    BY <1>3, <2>1, <2>3, <2>5, <2>7 DEF y
<1>4. CASE Merging!Judged(t)[o] = Merging!NoObject
  <2>1. x # Merging!NoObject => WasAccepted(o)
    BY <1>4, ReadingsAgree
  <2>2. y # Merging!NoObject => x # Merging!NoObject
    <3> HIDE DEF x, y
    <3> QED
      BY <1>2
  <2> QED
    BY <1>4, <2>1, <2>2
<1> QED
  BY <1>3, <1>4

LEMMA MergeInit == Merging!Init => MergeInv
<1> SUFFICES ASSUME Merging!Init PROVE MergeInv
  OBVIOUS
<1>1. /\ forks = [f \in Fork |-> Merging!NoFork]
      /\ objects = [o \in Merging!Object |-> Merging!NoObject]
      /\ proposed = [r \in Request |-> Merging!NoRequest]
      /\ conflicts = [k \in Conflict |-> Merging!NoConflict]
      /\ completions = [r \in Request |-> Merging!NoCompletion]
      /\ merges = <<>>
      /\ seen = [t \in Merging!Thread |-> Merging!NoReading]
  BY DEF Merging!Init
<1>2. MergeTypeOK
  BY <1>1 DEF MergeTypeOK, Holding
<1> QED
  BY <1>1, <1>2 DEF MergeInv, ObjectsKept, Merging!Completed

\* An object changes its status only.
LEMMA StillGrows ==
  ASSUME MergeInv, UNCHANGED <<forks, objects, reopened, completions>>,
         \A r \in Request : proposed[r] # Merging!NoRequest => proposed'[r] = proposed[r]
  PROVE  Grows
<1>1. ObjectsKept'
  BY DEF MergeInv, ObjectsKept, Merging!Alike
<1> QED
  BY <1>1 DEF Grows

LEMMA ReadKeeps ==
  ASSUME MergeInv, NEW t \in Merging!Thread, Merging!Read(t)
  PROVE  MergeInv'
<1>0. MergeTypeOK
  BY DEF MergeInv
<1>1. /\ Merging!Is(t) /\ seen' = [seen EXCEPT ![t] = Merging!Reading(t)]
      /\ UNCHANGED <<forks, objects, reopened, proposed, conflicts, completions, merges>>
  BY DEF Merging!Read, Merging!mergeVars, Merging!objectVars
<1>2. PICK r : r = Merging!Reading(t)
  OBVIOUS
<1>3. r \in ReadingRecord /\ ReadingKept(r)
  BY <1>1, <1>2, ReadingTyped, ReadingTaken
<1>4. MergeTypeOK'
  BY <1>0, <1>1, <1>2, <1>3 DEF MergeTypeOK
<1>5. Grows
  BY <1>1, StillGrows
<1>6. \A s \in Merging!Thread : seen'[s] = seen[s] \/ ReadingKept(seen'[s])
  BY <1>0, <1>1, <1>2, <1>3 DEF MergeTypeOK
<1> QED
  BY <1>1, <1>4, <1>5, <1>6, MergeStepOf

LEMMA StillKeeps ==
  ASSUME MergeInv,
         UNCHANGED <<forks, objects, reopened, proposed, conflicts, completions, merges, seen>>
  PROVE  MergeInv'
<1>1. MergeTypeOK'
  BY DEF MergeTypeOK, MergeInv
<1>2. Grows
  BY StillGrows
<1> QED
  BY <1>1, <1>2, MergeStepOf


LEMMA ForkKeeps ==
  ASSUME MergeInv, NEW e \in Merging!ForkEvent, Merging!ForkAccepted(e), Merging!Forked(e),
         seen' = seen
  PROVE  MergeInv'
<1>0. MergeTypeOK
  BY DEF MergeInv
<1>1. /\ e.thread \in Fork /\ e.parent \in Merging!Thread
      /\ forks[e.thread] = Merging!NoFork
      /\ seen[e.parent] # Merging!NoReading
  <2>1. e.thread \in Fork /\ e.parent \in Merging!Thread
    BY DEF Merging!ForkEvent
  <2> QED
    BY <2>1 DEF Merging!ForkAccepted, Merging!Is
<1>2. seen[e.parent] \in ReadingRecord /\ ReadingKept(seen[e.parent])
  BY <1>1 DEF MergeInv, MergeTypeOK
<1> DEFINE r == seen[e.parent]
<1>3. PICK new : new = [parent |-> e.parent, judged |-> r.judged,
                        shown |-> r.shown, locked |-> r.locked]
  OBVIOUS
<1>4. /\ forks' = [forks EXCEPT ![e.thread] = new]
      /\ UNCHANGED <<objects, reopened, proposed, conflicts, completions, merges>>
  BY <1>3 DEF Merging!Forked, Merging!mergeVars, Merging!objectVars
<1>5. new \in ForkRecord /\ ReadingKept(new)
  <2>1. new.judged = r.judged /\ new.shown = r.shown
    BY <1>3
  <2>2. new \in ForkRecord
    BY <1>1, <1>2, <1>3 DEF ForkRecord, ReadingRecord
  <2> HIDE DEF r
  <2>3. ReadingKept(r)
    BY <1>2 DEF r
  <2>4. ReadingKept(new)
    BY <2>1, <2>3 DEF ReadingKept
  <2> QED
    BY <2>2, <2>4
<1>6. MergeTypeOK'
  BY <1>0, <1>1, <1>4, <1>5 DEF MergeTypeOK
<1>7. Grows
  <2>1. ObjectsKept'
    BY <1>4 DEF MergeInv, ObjectsKept, Merging!Alike
  <2> QED
    BY <1>0, <1>1, <1>4, <2>1 DEF Grows, MergeTypeOK
<1>8. \A f \in Fork : forks'[f] = forks[f] \/ forks'[f] = new
  BY <1>0, <1>1, <1>4 DEF MergeTypeOK
<1>9. \A f \in Fork : forks'[f] # Merging!NoFork =>
        forks[f] # Merging!NoFork \/ ReadingKept(forks'[f])
  BY <1>5, <1>8
<1> QED
  BY <1>4, <1>6, <1>7, <1>9, MergeStepOf

\* A step that raises an object or says more of those there are.
LEMMA ObjectsChange ==
  ASSUME MergeInv, objects' \in Holding, ObjectsKept', reopened \subseteq reopened',
         UNCHANGED <<forks, proposed, conflicts, completions, merges, seen>>,
         \A o \in Merging!Object : objects[o] # Merging!NoObject =>
           objects'[o] # Merging!NoObject /\ objects'[o].thread = objects[o].thread
  PROVE  MergeInv'
<1>1. MergeTypeOK'
  BY DEF MergeInv, MergeTypeOK
<1>2. Grows
  BY DEF Grows
<1> QED
  BY <1>1, <1>2, MergeStepOf

\* An object is raised in the thread it is in, by whoever takes its id from newId.
LEMMA RaiseKeeps ==
  ASSUME MergeInv, NEW e \in Merging!RaiseEvent, Merging!FreshId(e), Merging!RaiseAccepted(e),
         Merging!Raised(e), seen' = seen
  PROVE  MergeInv'
<1>0. MergeTypeOK
  BY DEF MergeInv
<1>1. /\ e.thread \in Merging!Thread /\ e.object \in Merging!Object
      /\ e.type \in {"ObjectionRaised", "ClaimCreated"}
      /\ e.type = "ObjectionRaised" => e.blocking \in BOOLEAN
      /\ e.object \in Claim <=> e.type = "ClaimCreated"
  BY ProtocolAssumption DEF Merging!RaiseEvent, Merging!Object
<1>2. objects[e.object] # Merging!NoObject => objects[e.object].thread = e.thread
  BY <1>1 DEF Merging!FreshId
<1>3. PICK new : new = Merging!New(e)
  OBVIOUS
<1>4. /\ objects' = [o \in Merging!Object |->
                      IF o = e.object THEN new
                      ELSE IF Merging!Contests(e, o) THEN [objects[o] EXCEPT !.shows = "contested"]
                      ELSE objects[o]]
      /\ UNCHANGED <<forks, reopened, proposed, conflicts, completions, merges>>
  BY <1>3 DEF Merging!Raised, Merging!mergeVars
<1>5. /\ new \in ObjectRecord /\ new.thread = e.thread /\ new.from = "none"
      /\ new.shows = new.status /\ (e.object \in Claim <=> new.status = "held")
  BY <1>1, <1>3 DEF ObjectRecord, Merging!New
<1>6. ASSUME NEW o \in Merging!Object
      PROVE  /\ objects'[o] \in ObjectRecord \cup {Merging!NoObject}
             /\ objects[o] # Merging!NoObject =>
                  objects'[o] # Merging!NoObject /\ objects'[o].thread = objects[o].thread
             /\ objects'[o] # Merging!NoObject =>
                  /\ objects'[o].from = "none"
                  /\ o \in Claim <=> objects'[o].status = "held"
                  /\ Merging!Alike(objects'[o].status, objects'[o].shows, o)
  <2>1. CASE o = e.object
    <3>1. objects'[o] = new
      BY <1>4, <2>1
    <3> QED
      BY <1>2, <1>5, <2>1, <3>1, NothingHeld DEF Merging!Alike
  <2>2. CASE o # e.object /\ Merging!Contests(e, o)
    <3>1. /\ objects'[o] = [objects[o] EXCEPT !.shows = "contested"]
          /\ o \in Claim
      BY <1>4, <2>2 DEF Merging!Contests
    <3>2. objects[o] # Merging!NoObject
      BY <2>2 DEF Merging!RaiseAccepted, Merging!Contests
    <3>3. /\ objects[o] \in ObjectRecord /\ objects[o].from = "none"
      BY <1>0, <3>2 DEF MergeInv, MergeTypeOK, Holding, ObjectsKept
    <3>4. /\ objects'[o] \in ObjectRecord /\ objects'[o].from = "none"
          /\ objects'[o].thread = objects[o].thread
          /\ objects'[o].status = objects[o].status /\ objects'[o].shows = "contested"
      BY <3>1, <3>3 DEF ObjectRecord
    <3>5. objects[o].status = "held"
      BY <3>1, <3>2 DEF MergeInv, ObjectsKept
    <3> QED
      BY <3>1, <3>4, <3>5, NothingHeld DEF Merging!Alike
  <2>3. CASE o # e.object /\ ~ Merging!Contests(e, o)
    <3>1. objects'[o] = objects[o]
      BY <1>4, <2>3
    <3> QED
      BY <1>0, <3>1 DEF MergeInv, MergeTypeOK, Holding, ObjectsKept
  <2> QED
    BY <2>1, <2>2, <2>3
<1>7. objects' \in Holding
  BY <1>4, <1>6 DEF Holding
<1>8. ObjectsKept'
  BY <1>4, <1>6 DEF ObjectsKept, Merging!Alike
<1> QED
  BY <1>4, <1>6, <1>7, <1>8, ObjectsChange

LEMMA ResolveKeeps ==
  ASSUME MergeInv, NEW e \in Merging!ResolveEvent, Merging!ResolveAccepted(e),
         Merging!Resolved(e), seen' = seen
  PROVE  MergeInv'
<1>0. MergeTypeOK
  BY DEF MergeInv
<1>1. e.object \in Merging!Object /\ e.object \in Objection /\ objects[e.object] # Merging!NoObject
  <2>1. e.object \in Merging!Object /\ e.object \in Objection
    BY DEF Merging!ResolveEvent, Merging!Object
  <2> QED
    BY <2>1 DEF Merging!ResolveAccepted
<1>2. PICK new : new = [objects[e.object] EXCEPT !.status = "resolved", !.shows = "resolved"]
  OBVIOUS
<1>3. /\ objects' \in {objects, [objects EXCEPT ![e.object] = new]}
      /\ UNCHANGED <<forks, reopened, proposed, conflicts, completions, merges>>
  <2>1. CASE objects[e.object].thread = e.thread
    <3>1. objects' = [objects EXCEPT ![e.object].status = "resolved",
                                     ![e.object].shows = "resolved"]
      BY <2>1 DEF Merging!Resolved
    <3>2. objects' = [objects EXCEPT ![e.object] = new]
      BY <1>0, <1>1, <1>2, <3>1 DEF MergeTypeOK, Holding
    <3> QED
      BY <3>2 DEF Merging!Resolved, Merging!mergeVars
  <2>2. CASE objects[e.object].thread # e.thread
    BY <2>2 DEF Merging!Resolved, Merging!mergeVars
  <2> QED
    BY <2>1, <2>2
<1>4. objects[e.object] \in ObjectRecord /\ objects[e.object].from = "none"
  BY <1>0, <1>1 DEF MergeInv, MergeTypeOK, Holding, ObjectsKept
<1>5. /\ new \in ObjectRecord /\ new.thread = objects[e.object].thread /\ new.from = "none"
      /\ new.status = "resolved" /\ new.shows = "resolved"
  BY <1>2, <1>4 DEF ObjectRecord
<1>6. e.object \notin Claim
  BY <1>1, ProtocolAssumption
<1>7. /\ objects'[e.object] \in {objects[e.object], new}
      /\ \A o \in Merging!Object \ {e.object} : objects'[o] = objects[o]
      /\ objects' \in Holding
  BY <1>0, <1>1, <1>3, <1>5 DEF MergeTypeOK, Holding
<1>8. \A o \in Merging!Object : objects[o] # Merging!NoObject =>
        objects'[o] # Merging!NoObject /\ objects'[o].thread = objects[o].thread
  BY <1>1, <1>5, <1>7, NothingHeld
<1>9. ASSUME NEW o \in Merging!Object, objects'[o] # Merging!NoObject
      PROVE  /\ objects'[o].from = "none"
             /\ o \in Claim <=> objects'[o].status = "held"
             /\ Merging!Alike(objects'[o].status, objects'[o].shows, o)
  <2>1. CASE objects'[o] = objects[o]
    BY <1>9, <2>1 DEF MergeInv, ObjectsKept
  <2>2. CASE objects'[o] # objects[o]
    <3>1. o = e.object /\ objects'[o] = new
      BY <1>7, <2>2
    <3> QED
      BY <1>5, <1>6, <3>1 DEF Merging!Alike
  <2> QED
    BY <2>1, <2>2
<1>10. ObjectsKept'
  BY <1>3, <1>9 DEF ObjectsKept, Merging!Alike
<1> QED
  BY <1>3, <1>7, <1>8, <1>10, ObjectsChange

LEMMA DecideKeeps ==
  ASSUME MergeInv, NEW e \in Merging!DecideEvent, Merging!DecideAccepted(e),
         Merging!Decided(e), seen' = seen
  PROVE  MergeInv'
<1>0. MergeTypeOK
  BY DEF MergeInv
<1>1. e.preserved \subseteq Objection
  BY DEF Merging!DecideEvent
<1>2. PICK P \in SUBSET e.preserved :
        /\ objects' = [o \in Merging!Object |-> IF o \in P
                                               THEN [objects[o] EXCEPT !.shows = "preserved"]
                                               ELSE objects[o]]
        /\ reopened' = reopened \cup {o \in P : objects[o].status = "resolved"}
        /\ UNCHANGED <<forks, proposed, conflicts, completions, merges>>
  BY DEF Merging!Decided, Merging!mergeVars
<1>3. ASSUME NEW o \in Merging!Object
      PROVE  /\ objects'[o] \in ObjectRecord \cup {Merging!NoObject}
             /\ objects[o] # Merging!NoObject =>
                  objects'[o] # Merging!NoObject /\ objects'[o].thread = objects[o].thread
             /\ objects'[o] # Merging!NoObject =>
                  /\ objects'[o].from = "none"
                  /\ o \in Claim <=> objects'[o].status = "held"
                  /\ Merging!Alike(objects[o].status, objects[o].shows, o)'
  <2>1. CASE o \in P
    <3>1. /\ objects'[o] = [objects[o] EXCEPT !.shows = "preserved"]
          /\ objects[o] # Merging!NoObject /\ o \notin Claim
      BY <1>1, <1>2, <2>1, ProtocolAssumption DEF Merging!DecideAccepted
    <3>2. /\ objects[o] \in ObjectRecord /\ objects[o].from = "none"
          /\ objects[o].status # "held"
      BY <1>0, <3>1 DEF MergeInv, MergeTypeOK, Holding, ObjectsKept
    <3>3. /\ objects'[o] \in ObjectRecord /\ objects'[o].from = "none"
          /\ objects'[o].thread = objects[o].thread
          /\ objects'[o].status = objects[o].status /\ objects'[o].shows = "preserved"
      BY <3>1, <3>2 DEF ObjectRecord
    <3>4. objects[o].status = "open" \/ (objects[o].status = "resolved" /\ o \in reopened')
      BY <1>2, <2>1, <3>2 DEF ObjectRecord
    <3> QED
      BY <3>1, <3>2, <3>3, <3>4, NothingHeld DEF Merging!Alike
  <2>2. CASE o \notin P
    <3>1. objects'[o] = objects[o] /\ reopened \subseteq reopened'
      BY <1>2, <2>2
    <3>2. objects[o] # Merging!NoObject => Merging!Alike(objects[o].status, objects[o].shows, o)
      BY DEF MergeInv, ObjectsKept
    <3>3. objects'[o] # Merging!NoObject =>
            Merging!Alike(objects[o].status, objects[o].shows, o)'
      BY <3>1, <3>2 DEF Merging!Alike
    <3> QED
      BY <1>0, <3>1, <3>3 DEF MergeInv, MergeTypeOK, Holding, ObjectsKept
  <2> QED
    BY <2>1, <2>2
<1>4. objects' \in Holding
  BY <1>2, <1>3 DEF Holding
<1>5. ObjectsKept'
  BY <1>3 DEF ObjectsKept
<1> QED
  BY <1>2, <1>3, <1>4, <1>5, ObjectsChange

LEMMA OpenKeeps ==
  ASSUME MergeInv, NEW e \in Merging!OpenEvent, Merging!OpenAccepted(e),
         Merging!Opened(e), seen' = seen
  PROVE  MergeInv'
<1>0. MergeTypeOK
  BY DEF MergeInv
<1>1. /\ e.id \in Request /\ proposed[e.id] = Merging!NoRequest
      /\ Merging!Is(e.thread) /\ Merging!Is(e.source)
  BY DEF Merging!OpenEvent, Merging!OpenAccepted
<1>2. PICK new : new = [source |-> e.source, target |-> e.thread, proposed |-> e.proposed,
                        objections |-> e.objections]
  OBVIOUS
<1>3. /\ proposed' = [proposed EXCEPT ![e.id] = new]
      /\ UNCHANGED <<forks, objects, reopened, conflicts, completions, merges>>
  BY <1>2 DEF Merging!Opened, Merging!objectVars
<1>4. new \in RequestRecord /\ new.source = e.source /\ new.target = e.thread
  BY <1>2 DEF RequestRecord, Merging!OpenEvent
<1>5. MergeTypeOK'
  BY <1>0, <1>1, <1>3, <1>4 DEF MergeTypeOK
<1>6. /\ proposed'[e.id] = new
      /\ \A r \in Request \ {e.id} : proposed'[r] = proposed[r]
  BY <1>0, <1>1, <1>3 DEF MergeTypeOK
<1>7. Grows
  BY <1>1, <1>3, <1>6, StillGrows
<1>8. \A r \in Request : proposed'[r] # Merging!NoRequest =>
        \/ proposed[r] # Merging!NoRequest
        \/ Merging!Is(proposed'[r].source) /\ Merging!Is(proposed'[r].target)
  BY <1>1, <1>4, <1>6
<1> QED
  BY <1>3, <1>5, <1>7, <1>8, MergeStepOf

\* What is said of a conflict changes nothing that is held.
LEMMA ConflictKeeps ==
  ASSUME MergeInv, MergeTypeOK',
         UNCHANGED <<forks, objects, reopened, proposed, completions, merges, seen>>
  PROVE  MergeInv'
<1>1. Grows
  BY StillGrows
<1> QED
  BY <1>1, MergeStepOf

LEMMA DeclareKeeps ==
  ASSUME MergeInv, NEW e \in Merging!ConflictEvent, Merging!Declared(e), seen' = seen
  PROVE  MergeInv'
<1>1. MergeTypeOK'
  BY DEF MergeInv, MergeTypeOK, Merging!ConflictEvent, Merging!Declared, Merging!objectVars
<1> QED
  BY <1>1, ConflictKeeps DEF Merging!Declared, Merging!objectVars

LEMMA SettleKeeps ==
  ASSUME MergeInv, NEW e \in Merging!SettleEvent, Merging!SettleAccepted(e),
         Merging!Settled(e), seen' = seen
  PROVE  MergeInv'
<1>1. /\ e.conflict \in Conflict /\ e.as \in {"reject_fork", "preserve_both"}
      /\ conflicts[e.conflict] # Merging!NoConflict
  BY DEF Merging!SettleEvent, Merging!SettleAccepted
<1>2. conflicts' = [conflicts EXCEPT ![e.conflict].as = e.as]
  BY DEF Merging!Settled
<1>3. MergeTypeOK'
  BY <1>1, <1>2 DEF MergeInv, MergeTypeOK, Merging!Settled, Merging!objectVars
<1> QED
  BY <1>3, ConflictKeeps DEF Merging!Settled, Merging!objectVars


\* What is merged was judged, by what merges.js reads, to keep what is shown as
\* dissent, by what projector.js reads.
LEMMA DissentIsBlocking ==
  ASSUME MergeInv, NEW r \in Request, proposed[r] # Merging!NoRequest, ~ Merging!Throws(r)
  PROVE  Merging!Dissent(r) \subseteq Merging!Blocking(r) \cup reopened
<1>1. PICK s \in Merging!Thread : s = proposed[r].source /\ Merging!Is(s)
  <2>1. proposed[r] \in RequestRecord
    BY DEF MergeInv, MergeTypeOK
  <2> QED
    BY <2>1 DEF MergeInv, RequestRecord, Merging!Thread
<1>2. SUFFICES ASSUME NEW o \in proposed[r].objections, Merging!Shown(s)[o].blocking,
                      Merging!Shown(s)[o].shows \in {"open", "preserved"}
               PROVE  o \in Merging!Blocking(r) \cup reopened
  BY <1>1 DEF Merging!Dissent
<1>3. o \in Objection /\ o \in Merging!Object /\ Merging!Judged(s)[o] # Merging!NoObject
  BY <1>1 DEF Merging!Throws, Merging!JudgedIds
<1>4. /\ Merging!Alike(Merging!Judged(s)[o].status, Merging!Shown(s)[o].shows, o)
      /\ Merging!Shown(s)[o].blocking = Merging!Judged(s)[o].blocking
  BY <1>1, <1>3, ReadingsAgree
<1>5. Merging!Judged(s)[o].status \in {"open", "preserved"} \/ o \in reopened
  BY <1>2, <1>4 DEF Merging!Alike
<1> QED
  BY <1>1, <1>2, <1>3, <1>4, <1>5 DEF Merging!Blocking

\* The projection's completions: the new one, and those of another id.
LEMMA MergedInOrder ==
  ASSUME MergeInv, NEW e \in Merging!CompleteEvent, NEW new, new.id = e.id,
         Merging!Merged(e), ~ Merging!Completed(e.of), completions'[e.of] = new,
         \A r \in Request \ {e.of} : completions'[r] = completions[r]
  PROVE  /\ merges' \in Seq(Request)
         /\ \A n \in DOMAIN merges' : merges'[n] = e.of \/ Merging!Completed(merges'[n])
         /\ \E n \in DOMAIN merges' : merges'[n] = e.of
         /\ \A r \in Request : Merging!Completed(r) =>
              \E n \in DOMAIN merges' : completions'[merges'[n]].id = completions[r].id
<1>1. e.of \in Request /\ merges \in Seq(Request)
  BY DEF Merging!CompleteEvent, MergeInv, MergeTypeOK
<1>2. \A n \in DOMAIN merges : merges[n] \in Request /\ merges[n] # e.of
                              /\ Merging!Completed(merges[n])
  BY MergeTyped
<1>3. \A r \in Request : Merging!Completed(r) =>
        \E n \in DOMAIN merges : completions[merges[n]].id = completions[r].id
  BY DEF MergeInv, MergeKept
<1>4. CASE \E n \in DOMAIN merges : completions[merges[n]].id = e.id
  <2>1. merges' = [n \in DOMAIN merges |-> IF completions[merges[n]].id = e.id
                                           THEN e.of ELSE merges[n]]
    BY <1>4 DEF Merging!Merged
  <2>2. \A n \in DOMAIN merges : completions'[merges'[n]].id = completions[merges[n]].id
    BY <1>2, <2>1
  <2>3. DOMAIN merges' = DOMAIN merges /\ merges' \in Seq(Request)
    BY <1>1, <1>2, <2>1
  <2>4. /\ \A n \in DOMAIN merges' : merges'[n] = e.of \/ Merging!Completed(merges'[n])
        /\ \E n \in DOMAIN merges' : merges'[n] = e.of
    BY <1>2, <1>4, <2>1
  <2> QED
    BY <1>3, <2>2, <2>3, <2>4
<1>5. CASE ~ \E n \in DOMAIN merges : completions[merges[n]].id = e.id
  <2>1. merges' = Append(merges, e.of)
    BY <1>5 DEF Merging!Merged
  <2>2. /\ DOMAIN merges' = DOMAIN merges \cup {Len(merges) + 1} /\ merges' \in Seq(Request)
        /\ \A n \in DOMAIN merges : merges'[n] = merges[n]
        /\ merges'[Len(merges) + 1] = e.of
    BY <1>1, <2>1
  <2>3. \A n \in DOMAIN merges : completions'[merges'[n]] = completions[merges[n]]
    BY <1>2, <2>2
  <2>4. /\ \A n \in DOMAIN merges' : merges'[n] = e.of \/ Merging!Completed(merges'[n])
        /\ \E n \in DOMAIN merges' : merges'[n] = e.of
    BY <1>2, <2>2
  <2>5. \A r \in Request : Merging!Completed(r) =>
          \E n \in DOMAIN merges' : completions'[merges'[n]].id = completions[r].id
    BY <1>3, <2>2, <2>3
  <2> QED
    BY <2>2, <2>4, <2>5
<1> QED
  BY <1>4, <1>5

LEMMA CompleteKeeps ==
  ASSUME MergeInv, NEW e \in Merging!CompleteEvent, Merging!CompleteAccepted(e),
         Merging!Merged(e), seen' = seen
  PROVE  MergeInv'
<1>0. MergeTypeOK
  BY DEF MergeInv
<1>1. /\ e.of \in Request /\ proposed[e.of] # Merging!NoRequest /\ ~ Merging!Completed(e.of)
      /\ ~ Merging!Throws(e.of) /\ e.id \in Completion
      /\ e.accepted \in SUBSET Merging!Object /\ e.preserved \in SUBSET Objection
      /\ e.rejected \in SUBSET Merging!Object
  BY DEF Merging!CompleteEvent, Merging!CompleteAccepted, Merging!Eligible
<1>2. proposed[e.of] \in RequestRecord
  BY <1>0, <1>1 DEF MergeTypeOK
<1>3. PICK s \in Merging!Thread : s = proposed[e.of].source /\ Merging!Is(s)
  BY <1>1, <1>2 DEF MergeInv, RequestRecord, Merging!Thread
<1>4. PICK dissent, rationales :
        dissent = Merging!Dissent(e.of) /\ rationales = Merging!Rationales(e.of)
  OBVIOUS
<1>5. /\ e.accepted \subseteq Merging!JudgedIds(s)
      /\ proposed[e.of].objections \subseteq Merging!JudgedIds(s)
      /\ Merging!Blocking(e.of) \subseteq e.accepted \cup e.preserved
                                            \cup (e.rejected \cap rationales)
  BY <1>3, <1>4 DEF Merging!CompleteAccepted, Merging!Throws, Merging!KeepsDissent
<1>6. dissent \subseteq e.accepted \cup e.preserved \cup (e.rejected \cap rationales)
                       \cup reopened
  BY <1>1, <1>4, <1>5, DissentIsBlocking
<1>7. PICK new : new = [id |-> e.id, accepted |-> e.accepted, preserved |-> e.preserved,
                        rejected |-> e.rejected, dissent |-> dissent,
                        rationales |-> rationales]
  OBVIOUS
<1>8. /\ completions' = [completions EXCEPT ![e.of] = new]
      /\ UNCHANGED <<forks, objects, reopened, proposed, conflicts>>
  BY <1>4, <1>7 DEF Merging!Merged, Merging!objectVars
<1>9. rationales \subseteq Merging!Object
  <2>1. \A k \in Merging!ConflictsOf(e.of) : conflicts[k].inFork \in Merging!Object
    BY <1>0 DEF Merging!ConflictsOf, MergeTypeOK
  <2> QED
    BY <1>4, <2>1 DEF Merging!Rationales
<1>10. new \in CompletionRecord /\ new # Merging!NoCompletion
  <2>1. dissent \subseteq Merging!Object
    BY <1>2, <1>4 DEF Merging!Dissent, RequestRecord
  <2>2. new \in CompletionRecord
    BY <1>1, <1>7, <1>9, <2>1 DEF CompletionRecord
  <2> QED
    BY <2>2, NothingHeld
<1>11. /\ completions'[e.of] = new
       /\ \A r \in Request \ {e.of} : completions'[r] = completions[r]
  BY <1>0, <1>1, <1>8 DEF MergeTypeOK
<1>12. /\ merges' \in Seq(Request)
       /\ \A n \in DOMAIN merges' : merges'[n] = e.of \/ Merging!Completed(merges'[n])
       /\ \E n \in DOMAIN merges' : merges'[n] = e.of
       /\ \A r \in Request : Merging!Completed(r) =>
            \E n \in DOMAIN merges' : completions'[merges'[n]].id = completions[r].id
  <2>1. new.id = e.id
    BY <1>7
  <2> QED
    BY <1>1, <1>11, <2>1, MergedInOrder
<1>13. MergeTypeOK'
  BY <1>0, <1>1, <1>8, <1>10, <1>12 DEF MergeTypeOK
<1>14. Grows
  <2>1. ObjectsKept'
    BY <1>8 DEF MergeInv, ObjectsKept, Merging!Alike
  <2>2. \A r \in Request : Merging!Completed(r) => completions'[r] = completions[r]
    BY <1>1, <1>11
  <2> QED
    BY <1>8, <2>1, <2>2 DEF Grows
<1>15. MergeKept(e.of)'
  <2>1. Merging!JudgedIds(s) \subseteq Merging!JudgedIds(s)'
    BY <1>3, <1>13, <1>14, JudgedStays
  <2>2. /\ proposed'[e.of] = proposed[e.of] /\ completions'[e.of] = new
        /\ s = proposed'[e.of].source /\ reopened' = reopened
    BY <1>3, <1>8, <1>11
  <2>3. /\ new.accepted \subseteq Merging!JudgedIds(s)'
        /\ proposed'[e.of].objections \subseteq Merging!JudgedIds(s)'
        /\ new.dissent \subseteq new.accepted \cup new.preserved
                                   \cup (new.rejected \cap new.rationales) \cup reopened'
    BY <1>5, <1>6, <1>7, <2>1, <2>2
  <2>4. \E n \in DOMAIN merges' : completions'[merges'[n]].id = new.id
    BY <1>12, <2>2
  <2> QED
    BY <1>1, <2>2, <2>3, <2>4 DEF MergeKept
<1>16. ASSUME NEW r \in Request, Merging!Completed(r)' PROVE MergeKept(r)'
  <2>1. CASE r = e.of
    BY <1>15, <2>1
  <2>2. CASE r # e.of
    <3>1. Merging!Completed(r)
      BY <1>11, <1>16, <2>2 DEF Merging!Completed
    <3> QED
      BY <1>12, <1>13, <1>14, <3>1, MergeStays
  <2> QED
    BY <2>1, <2>2
<1>17. \A n \in DOMAIN merges' : Merging!Completed(merges[n])'
  <2>1. \A r \in Request : r = e.of \/ Merging!Completed(r) => Merging!Completed(r)'
    BY <1>10, <1>11 DEF Merging!Completed
  <2>2. \A n \in DOMAIN merges' : merges'[n] \in Request
    BY <1>12
  <2>3. ASSUME NEW n \in DOMAIN merges' PROVE Merging!Completed(merges[n])'
    <3>1. PICK r \in Request : r = merges'[n]
      BY <2>2
    <3>2. Merging!Completed(r)'
      BY <1>12, <2>1, <3>1
    <3> QED
      BY <3>1, <3>2
  <2> QED
    BY <2>3
<1> QED
  BY <1>8, <1>13, <1>14, <1>16, <1>17, MergeStep

LEMMA MergeSubmitKeeps ==
  ASSUME MergeInv,
         NEW e \in UNION {Merging!ForkEvent, Merging!RaiseEvent, Merging!ResolveEvent,
                          Merging!DecideEvent, Merging!OpenEvent, Merging!CompleteEvent,
                          Merging!ReviewEvent, Merging!ConflictEvent, Merging!SettleEvent},
         Merging!Submit(e)
  PROVE  MergeInv'
<1>1. Merging!FreshId(e) /\ Merging!Accepted(e) /\ Merging!Recorded(e) /\ seen' = seen
  BY DEF Merging!Submit
<1>2. CASE e \in Merging!ForkEvent
  BY <1>1, <1>2, ForkKeeps DEF Merging!ForkEvent, Merging!Accepted, Merging!Recorded
<1>3. CASE e \in Merging!RaiseEvent
  BY <1>1, <1>3, RaiseKeeps DEF Merging!RaiseEvent, Merging!Accepted, Merging!Recorded
<1>4. CASE e \in Merging!ResolveEvent
  BY <1>1, <1>4, ResolveKeeps DEF Merging!ResolveEvent, Merging!Accepted, Merging!Recorded
<1>5. CASE e \in Merging!OpenEvent
  BY <1>1, <1>5, OpenKeeps DEF Merging!OpenEvent, Merging!Accepted, Merging!Recorded
<1>6. CASE e \in Merging!CompleteEvent
  BY <1>1, <1>6, CompleteKeeps DEF Merging!CompleteEvent, Merging!Accepted, Merging!Recorded
<1>7. CASE e \in Merging!ReviewEvent
  <2>1. Merging!Reviewed(e)
    BY <1>1, <1>7 DEF Merging!ReviewEvent, Merging!Recorded
  <2> QED
    BY <1>1, <2>1, StillKeeps DEF Merging!Reviewed, Merging!objectVars
<1>8. CASE e \in Merging!ConflictEvent
  BY <1>1, <1>8, DeclareKeeps DEF Merging!ConflictEvent, Merging!Recorded
<1>9. CASE e \in Merging!SettleEvent
  BY <1>1, <1>9, SettleKeeps DEF Merging!SettleEvent, Merging!Accepted, Merging!Recorded
<1>10. CASE e \in Merging!DecideEvent
  BY <1>1, <1>10, DecideKeeps DEF Merging!DecideEvent, Merging!Accepted, Merging!Recorded
<1> QED
  BY <1>2, <1>3, <1>4, <1>5, <1>6, <1>7, <1>8, <1>9, <1>10

LEMMA MergeNext == MergeInv /\ Merging!Next => MergeInv'
<1> SUFFICES ASSUME MergeInv, Merging!Next PROVE MergeInv'
  OBVIOUS
<1>1. CASE \/ \E e \in Merging!ForkEvent \cup Merging!RaiseEvent \cup Merging!ResolveEvent
                         \cup Merging!DecideEvent : Merging!Submit(e)
           \/ \E e \in Merging!OpenEvent \cup Merging!CompleteEvent : Merging!Submit(e)
           \/ \E e \in Merging!ReviewEvent \cup Merging!ConflictEvent \cup Merging!SettleEvent :
                Merging!Submit(e)
  BY <1>1, MergeSubmitKeeps
<1>2. ASSUME NEW e, Merging!Spoil(e) PROVE MergeInv'
  BY <1>2, StillKeeps DEF Merging!Spoil, Merging!mergeVars, Merging!objectVars
<1>3. ASSUME NEW p, NEW r, NEW owning, Merging!Introduce(p, r, owning) PROVE MergeInv'
  BY <1>3, StillKeeps DEF Merging!Introduce, Merging!objectVars
<1>4. CASE \E t \in Merging!Thread : Merging!Read(t)
  BY <1>4, ReadKeeps
<1> QED
  BY <1>1, <1>2, <1>3, <1>4 DEF Merging!Next

MergePart == part = "merges" => MergeInv

LEMMA MergePartHolds == Spec => []MergePart
<1>1. Init => MergePart
  BY MergeInit DEF Init, MergePart
<1>2. MergePart /\ [Next]_partsVars => MergePart'
  <2> SUFFICES ASSUME MergePart, [Next]_partsVars, part' = "merges" PROVE MergeInv'
    BY DEF MergePart
  <2>1. CASE NextMerges
    BY <2>1, MergeNext DEF NextMerges, MergePart
  <2>2. CASE NextRecovery \/ NextAmendments \/ NextStore \/ NextExchange
    BY <2>2 DEF NextRecovery, NextAmendments, NextStore, NextExchange
  <2>3. CASE UNCHANGED partsVars
    BY <2>3, StillKeeps DEF partsVars, mergeVars, MergePart
  <2> QED
    BY <2>1, <2>2, <2>3 DEF Next
<1> QED
  BY <1>1, <1>2, PTL DEF Spec

\* Whatever threads fork and merge: what merges.js judges a thread to hold,
\* projector.js shows; a resolved objection shows as open to neither alone, unless a
\* decision preserved it; and what is shown beyond that was merged.
THEOREM JudgesSeeWhatIsShown == Spec => []JudgedIsShown
<1>1. MergePart => JudgedIsShown
  BY MergeShows DEF MergePart, JudgedIsShown
<1> QED
  BY <1>1, MergePartHolds, PTL

\* Whatever comes after a merge, what it accepted shows in its target until another
\* completion takes its id, and no objection that was proposed and shown to be open was
\* left out of it without a rationale, but for a resolved one that a decision preserved.
THEOREM NoDissentErased == Spec => []DissentKept
<1>1. MergePart => DissentKept
  BY MergeShows DEF MergePart, DissentKept
<1> QED
  BY <1>1, MergePartHolds, PTL


\* valuesForThreadScope asks for all that a source shows, merges into it included,
\* for every completion.  Of what those merges brought it takes nothing: what a
\* thread shows is its own, or its source's own.
THEOREM MergesDoNotCascade ==
  Spec => [](part = "merges" => \A t \in Merging!Thread : Merging!Shown(t) = Plain[t])
<1>1. MergePart => (part = "merges" => \A t \in Merging!Thread : Merging!Shown(t) = Plain[t])
  BY ShownIsPlain DEF MergePart, Merging!Shown
<1> QED
  BY <1>1, MergePartHolds, PTL

-----------------------------------------------------------------------------
(* The order of forks *)

\* Threads are younger than what they are forked from and merged into.
Descends ==
  \E born \in [Merging!Thread -> 0 .. height] :
    /\ \A f \in Fork : forks[f] # Merging!NoFork => born[forks[f].parent] < born[f]
    /\ \A r \in Request : proposed[r] # Merging!NoRequest =>
         born[proposed[r].target] < born[proposed[r].source]

DescentInv ==
  /\ height \in Nat
  /\ \A f \in Fork : forks[f] # Merging!NoFork => Merging!Is(forks[f].parent)
  /\ Descends

\* What a thread descends from is older.
LEMMA AncestorsOlder ==
  ASSUME MergeInv, DescentInv, NEW born \in [Merging!Thread -> Int],
         \A f \in Fork : forks[f] # Merging!NoFork => born[forks[f].parent] < born[f],
         NEW s \in Fork, Merging!Is(s), NEW a \in Merging!Ancestors(s)
  PROVE  born[a] < born[s]
<1> DEFINE older == {x \in Merging!Thread : born[x] < born[s]}
<1>1. ASSUME NEW f \in ({s} \cup older) \cap Fork
      PROVE  forks[f].parent \in older \cup {"none"}
  <2>1. CASE forks[f] = Merging!NoFork
    BY <2>1 DEF Merging!NoFork
  <2>2. CASE forks[f] # Merging!NoFork
    <3>1. forks[f].parent \in Merging!Thread
      BY <2>2 DEF MergeInv, MergeTypeOK, ForkRecord
    <3>2. born[forks[f].parent] < born[f]
      BY <2>2
    <3>3. f \in Merging!Thread /\ s \in Merging!Thread
      BY DEF Merging!Thread
    <3>4. born[f] <= born[s]
      BY <3>3
    <3> QED
      BY <3>1, <3>2, <3>3, <3>4
  <2> QED
    BY <2>1, <2>2
<1>2. a \in older
  <2>1. older \in SUBSET Merging!Thread
    OBVIOUS
  <2> HIDE DEF older
  <2> QED
    BY <1>1, <2>1 DEF Merging!Ancestors
<1> QED
  BY <1>2

LEMMA DescentForks ==
  ASSUME MergeInv, DescentInv, NEW e \in Merging!ForkEvent, Merging!ForkAccepted(e),
         Merging!Forked(e), height' = height + 1
  PROVE  DescentInv'
<1>0. MergeTypeOK
  BY DEF MergeInv
<1>1. /\ e.thread \in Fork /\ e.parent \in Merging!Thread
      /\ forks[e.thread] = Merging!NoFork /\ Merging!Is(e.parent)
  <2>1. e.thread \in Fork /\ e.parent \in Merging!Thread
    BY DEF Merging!ForkEvent
  <2> QED
    BY <2>1 DEF Merging!ForkAccepted, Merging!Is
<1>2. PICK new : new = [parent |-> e.parent, judged |-> seen[e.parent].judged,
                        shown |-> seen[e.parent].shown, locked |-> seen[e.parent].locked]
  OBVIOUS
<1>3. forks' = [forks EXCEPT ![e.thread] = new] /\ proposed' = proposed /\ new.parent = e.parent
  BY <1>2 DEF Merging!Forked, Merging!mergeVars
<1>4. /\ forks'[e.thread] = new
      /\ \A f \in Fork \ {e.thread} : forks'[f] = forks[f]
  BY <1>0, <1>1, <1>3 DEF MergeTypeOK
<1>5. new # Merging!NoFork
  BY <1>1, <1>3, NothingHeld DEF Merging!NoFork
<1>6. ~ Merging!Is(e.thread) /\ e.thread # e.parent
  BY <1>1 DEF Merging!Is
<1>7. PICK born \in [Merging!Thread -> 0 .. height] :
        /\ \A f \in Fork : forks[f] # Merging!NoFork => born[forks[f].parent] < born[f]
        /\ \A r \in Request : proposed[r] # Merging!NoRequest =>
             born[proposed[r].target] < born[proposed[r].source]
  BY DEF DescentInv, Descends
<1> DEFINE then == [born EXCEPT ![e.thread] = born[e.parent] + 1]
<1>8. /\ e.thread \in Merging!Thread
      /\ then \in [Merging!Thread -> 0 .. height']
      /\ then[e.thread] = born[e.parent] + 1
      /\ \A t \in Merging!Thread \ {e.thread} : then[t] = born[t]
  BY <1>1 DEF DescentInv, Merging!Thread
<1> HIDE DEF then
<1>9. ASSUME NEW f \in Fork, forks'[f] # Merging!NoFork
      PROVE  then[forks'[f].parent] < then[f]
  <2>1. CASE f = e.thread
    BY <1>1, <1>3, <1>4, <1>6, <1>8, <2>1 DEF DescentInv
  <2>2. CASE f # e.thread
    <3>1. forks'[f] = forks[f] /\ forks[f] # Merging!NoFork
      BY <1>4, <1>9, <2>2
    <3>2. forks[f].parent \in Merging!Thread /\ Merging!Is(forks[f].parent)
      BY <1>0, <3>1 DEF DescentInv, MergeTypeOK, ForkRecord
    <3>3. forks[f].parent # e.thread
      BY <1>6, <3>2
    <3> QED
      BY <1>7, <1>8, <2>2, <3>1, <3>2, <3>3 DEF Merging!Thread
  <2> QED
    BY <2>1, <2>2
<1>10. ASSUME NEW r \in Request, proposed[r] # Merging!NoRequest
       PROVE  then[proposed[r].target] < then[proposed[r].source]
  <2>1. /\ proposed[r].target \in Merging!Thread \ {e.thread}
        /\ proposed[r].source \in Merging!Thread \ {e.thread}
    BY <1>0, <1>6, <1>10 DEF MergeInv, MergeTypeOK, RequestRecord, Merging!Thread
  <2> QED
    BY <1>7, <1>8, <1>10, <2>1
<1>11. ASSUME NEW f \in Fork, forks'[f] # Merging!NoFork
       PROVE  Merging!Is(forks[f].parent)'
  <2>1. \A t \in Merging!Thread : Merging!Is(t) => Merging!Is(t)'
    BY <1>1, <1>4, <1>5 DEF Merging!Is
  <2>2. PICK t \in Merging!Thread : t = forks'[f].parent /\ Merging!Is(t)
    <3>1. CASE f = e.thread
      BY <1>1, <1>3, <1>4, <3>1
    <3>2. CASE f # e.thread
      BY <1>0, <1>4, <1>11, <3>2 DEF DescentInv, MergeTypeOK, ForkRecord
    <3> QED
      BY <3>1, <3>2
  <2> QED
    BY <2>1, <2>2
<1>12. Descends'
  BY <1>3, <1>8, <1>9, <1>10 DEF Descends
<1> QED
  BY <1>11, <1>12 DEF DescentInv

LEMMA DescentOpens ==
  ASSUME MergeInv, DescentInv, NEW e \in Merging!OpenEvent, Merging!OpenAccepted(e),
         Merging!Opened(e), height' = height + 1
  PROVE  DescentInv'
<1>0. MergeTypeOK
  BY DEF MergeInv
<1>1. /\ e.id \in Request /\ e.source \in Fork /\ e.thread \in Merging!Thread
      /\ Merging!Is(e.source) /\ e.thread \in Merging!Ancestors(e.source)
  BY DEF Merging!OpenEvent, Merging!OpenAccepted
<1>2. PICK new : new = [source |-> e.source, target |-> e.thread, proposed |-> e.proposed,
                        objections |-> e.objections]
  OBVIOUS
<1>3. /\ forks' = forks /\ proposed' = [proposed EXCEPT ![e.id] = new]
      /\ new.source = e.source /\ new.target = e.thread
  BY <1>2 DEF Merging!Opened
<1>4. /\ proposed'[e.id] = new
      /\ \A r \in Request \ {e.id} : proposed'[r] = proposed[r]
  BY <1>0, <1>1, <1>3 DEF MergeTypeOK
<1>5. PICK born \in [Merging!Thread -> 0 .. height] :
        /\ \A f \in Fork : forks[f] # Merging!NoFork => born[forks[f].parent] < born[f]
        /\ \A r \in Request : proposed[r] # Merging!NoRequest =>
             born[proposed[r].target] < born[proposed[r].source]
  BY DEF DescentInv, Descends
<1>6. born \in [Merging!Thread -> Int] /\ born \in [Merging!Thread -> 0 .. height']
  BY DEF DescentInv
<1>7. born[e.thread] < born[e.source]
  BY <1>1, <1>5, <1>6, AncestorsOlder
<1>8. \A r \in Request : proposed'[r] # Merging!NoRequest =>
        born[proposed'[r].target] < born[proposed'[r].source]
  BY <1>3, <1>4, <1>5, <1>7
<1>9. Descends'
  BY <1>3, <1>5, <1>6, <1>8 DEF Descends
<1>10. \A f \in Fork : (forks[f] # Merging!NoFork => Merging!Is(forks[f].parent))'
  BY <1>3 DEF DescentInv, Merging!Is
<1> QED
  BY <1>9, <1>10 DEF DescentInv

\* Nothing else forks a thread or opens a request.
LEMMA DescentStill ==
  ASSUME DescentInv, forks' = forks, proposed' = proposed, height' \in {height, height + 1}
  PROVE  DescentInv'
<1>1. PICK born \in [Merging!Thread -> 0 .. height] :
        /\ \A f \in Fork : forks[f] # Merging!NoFork => born[forks[f].parent] < born[f]
        /\ \A r \in Request : proposed[r] # Merging!NoRequest =>
             born[proposed[r].target] < born[proposed[r].source]
  BY DEF DescentInv, Descends
<1>2. born \in [Merging!Thread -> 0 .. height']
  BY DEF DescentInv
<1>3. Descends'
  BY <1>1, <1>2 DEF Descends
<1> QED
  BY <1>3 DEF DescentInv, Merging!Is

LEMMA DescentInit == Merging!Init => DescentInv
<1> SUFFICES ASSUME Merging!Init PROVE DescentInv
  OBVIOUS
<1>1. /\ forks = [f \in Fork |-> Merging!NoFork] /\ height = 1
      /\ proposed = [r \in Request |-> Merging!NoRequest]
  BY DEF Merging!Init
<1>2. [t \in Merging!Thread |-> 0] \in [Merging!Thread -> 0 .. height]
  BY <1>1
<1>3. Descends
  BY <1>1, <1>2 DEF Descends
<1> QED
  BY <1>1, <1>3 DEF DescentInv

LEMMA DescentNext == MergeInv /\ DescentInv /\ Merging!Next => DescentInv'
<1> SUFFICES ASSUME MergeInv, DescentInv, Merging!Next PROVE DescentInv'
  OBVIOUS
<1>1. ASSUME NEW e \in UNION {Merging!ForkEvent, Merging!RaiseEvent, Merging!ResolveEvent,
                              Merging!DecideEvent, Merging!OpenEvent,
                              Merging!CompleteEvent, Merging!ReviewEvent,
                              Merging!ConflictEvent, Merging!SettleEvent},
             Merging!Submit(e)
      PROVE  DescentInv'
  <2>1. Merging!Accepted(e) /\ Merging!Recorded(e) /\ height' = height + 1
    BY <1>1 DEF Merging!Submit
  <2>2. CASE e \in Merging!ForkEvent
    BY <2>1, <2>2, DescentForks DEF Merging!ForkEvent, Merging!Accepted, Merging!Recorded
  <2>3. CASE e \in Merging!OpenEvent
    BY <2>1, <2>3, DescentOpens DEF Merging!OpenEvent, Merging!Accepted, Merging!Recorded
  <2>4. CASE Merging!Raised(e) \/ Merging!Resolved(e) \/ Merging!Decided(e)
               \/ Merging!Reviewed(e)
               \/ Merging!Declared(e) \/ Merging!Settled(e) \/ Merging!Merged(e)
    <3>1. forks' = forks /\ proposed' = proposed
      BY <2>4
      DEF Merging!Raised, Merging!Resolved, Merging!Decided, Merging!Reviewed,
          Merging!Declared, Merging!Settled, Merging!Merged, Merging!mergeVars
    <3> QED
      BY <2>1, <3>1, DescentStill
  <2>5. CASE e \in UNION {Merging!RaiseEvent, Merging!ResolveEvent, Merging!DecideEvent,
                          Merging!CompleteEvent, Merging!ReviewEvent,
                          Merging!ConflictEvent, Merging!SettleEvent}
    <3>1. e.type # "ThreadForked" /\ e.type # "MergeRequestOpened"
      BY <2>5
      DEF Merging!RaiseEvent, Merging!ResolveEvent, Merging!DecideEvent,
          Merging!CompleteEvent, Merging!ReviewEvent, Merging!ConflictEvent,
          Merging!SettleEvent
    <3> QED
      BY <2>1, <2>4, <3>1 DEF Merging!Recorded
  <2> QED
    BY <2>2, <2>3, <2>5
<1>2. ASSUME NEW e, Merging!Spoil(e) PROVE DescentInv'
  BY <1>2, DescentStill DEF Merging!Spoil, Merging!mergeVars
<1>3. ASSUME NEW p, NEW r, NEW owning, Merging!Introduce(p, r, owning) PROVE DescentInv'
  BY <1>3, DescentStill DEF Merging!Introduce
<1>4. ASSUME NEW t, Merging!Read(t) PROVE DescentInv'
  BY <1>4, DescentStill DEF Merging!Read, Merging!mergeVars
<1> QED
  BY <1>1, <1>2, <1>3, <1>4 DEF Merging!Next

DescentPart == part = "merges" => DescentInv

\* threadDescendsFrom lets a thread be merged into older ones only, by an order that
\* is no longer than the log.  So no thread is merged into itself by a detour, and
\* valuesForThreadScope, which goes from a target to its sources and keeps no
\* account of those it has been at, comes to an end.
THEOREM SourcesDescend == Spec => [](part = "merges" => Descends)
<1>1. Init => DescentPart
  BY DescentInit DEF Init, DescentPart
<1>2. MergePart /\ DescentPart /\ [Next]_partsVars => DescentPart'
  <2> SUFFICES ASSUME MergePart, DescentPart, [Next]_partsVars, part' = "merges"
               PROVE  DescentInv'
    BY DEF DescentPart
  <2>1. CASE NextMerges
    BY <2>1, DescentNext DEF NextMerges, MergePart, DescentPart
  <2>2. CASE NextRecovery \/ NextAmendments \/ NextStore \/ NextExchange
    BY <2>2 DEF NextRecovery, NextAmendments, NextStore, NextExchange
  <2>3. CASE UNCHANGED partsVars
    BY <2>3, DescentStill DEF partsVars, mergeVars, DescentPart
  <2> QED
    BY <2>1, <2>2, <2>3 DEF Next
<1>3. DescentPart => (part = "merges" => Descends)
  BY DEF DescentPart, DescentInv
<1> QED
  BY <1>1, <1>2, <1>3, MergePartHolds, PTL DEF Spec
=============================================================================

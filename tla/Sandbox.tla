------------------------------ MODULE Sandbox -------------------------------
(***************************************************************************)
(* The ephemeral sandbox: SandboxDO (packages/threadhub-sandbox/src/       *)
(* sandbox-do.js) over SandboxStore, whose records may be deleted.  A try  *)
(* mints a writer, a thread with its genesis record and its publication; a *)
(* sweep driven by the object's alarm deletes what is older than its time  *)
(* to live, the pinned demo excepted.                                      *)
(*                                                                         *)
(* The object runs one request at a time; its SQL is synchronous, and the  *)
(* platform delivers nothing while it waits for its own storage.  So a     *)
(* mint, its rollback included, is one step, and what can come between the *)
(* mint and the alarm of createTry is only the loss of the object.  The    *)
(* rate limit is in RateLimiter; a refusal changes nothing here.           *)
(***************************************************************************)
EXTENDS Integers, Sequences, FiniteSets

CONSTANTS
  Thread,      \* thread ids
  Writer,      \* ids of custodial writers
  TrySlug,     \* random slugs
  DemoSlug,    \* DEMO_SLUGS, exempt from the sweep
  MaxThreads,  \* capacity (SANDBOX_MAX_THREADS)
  Ttl,         \* age past which a try is swept (SANDBOX_TTL_HOURS)
  Sweep        \* ticks from one sweep to the next (SWEEP_INTERVAL_MS)

VARIABLES
  store,   \* the tables: writers, threads, records
  alarm,   \* ticks to the alarm, or NoAlarm
  pc,      \* "idle", or "arming": createTry is at await #ensureAlarm()
  lost     \* the object has been lost before it could set the alarm nobody had set

vars == <<store, alarm, pc, lost>>

NoAlarm  == -1
NoThread == [inserted |-> FALSE]

Live(t) == store.threads[t] # NoThread

CountThreads == Cardinality({t \in Thread : Live(t)})

\* Ages past the latest sweep a try may see are not told apart.
OldestAge == Ttl + Sweep + 1

-----------------------------------------------------------------------------
(* SandboxStore and the hub's writes, as functions of the tables. *)

InsertIdentity(st, w) == [st EXCEPT !.writers = @ \cup {w}]

DeleteIdentity(st, w) == [st EXCEPT !.writers = @ \ {w}]

InsertThread(st, t, slug, w) ==
  [st EXCEPT !.threads[t] = [slug |-> slug, created_by |-> w, age |-> 0]]

AppendRecord(st, t, kind, w) ==
  [st EXCEPT !.records[t] = Append(@, [kind |-> kind, author |-> w])]

WriterInUse(st, w) ==
  \E t \in Thread :
    \/ st.threads[t] # NoThread /\ st.threads[t].created_by = w
    \/ \E n \in DOMAIN st.records[t] : st.records[t][n].author = w

DeleteThreadCascade(st, t) ==
  IF st.threads[t] = NoThread THEN st
  ELSE LET writer == st.threads[t].created_by
           rest == [st EXCEPT !.records[t] = <<>>, !.threads[t] = NoThread]
       IN IF WriterInUse(rest, writer) THEN rest ELSE DeleteIdentity(rest, writer)

\* The tables after the first n statements of #mintPublishedThread.
Minted(st, t, slug, w, n) ==
  LET s1 == InsertIdentity(st, w)
      s2 == InsertThread(s1, t, slug, w)
      s3 == AppendRecord(s2, t, "genesis", w)
      s4 == AppendRecord(s3, t, "ThreadPublished", w)
  IN <<s1, s2, s3, s4>>[n]

\* Mutant: a failed mint removes its thread only.
RolledBack_ThreadOnly(st, t, w) == DeleteThreadCascade(st, t)

\* The catch branch of #mintPublishedThread.
RolledBack(st, t, w) == DeleteIdentity(DeleteThreadCascade(st, t), w)

-----------------------------------------------------------------------------

Init ==
  /\ store = [writers |-> {},
              threads |-> [t \in Thread |-> NoThread],
              records |-> [t \in Thread |-> <<>>]]
  /\ alarm = NoAlarm
  /\ pc = "idle"
  /\ lost = FALSE

SlugTaken(slug) == \E t \in Thread : Live(t) /\ store.threads[t].slug = slug

\* A mint under fresh ids goes through, or some statement of it throws: the
\* thread's if its slug is taken, an append if a record is too large or the
\* storage fails; then it is undone.
MintSucceeds(t, w, slug) ==
  /\ ~ Live(t)
  /\ w \notin store.writers
  /\ ~ SlugTaken(slug)
  /\ store' = Minted(store, t, slug, w, 4)

MintFails(t, w, slug) ==
  /\ ~ Live(t)
  /\ w \notin store.writers
  /\ \E n \in 1 .. 3 :
       /\ SlugTaken(slug) => n = 1
       /\ store' = RolledBack(Minted(store, t, slug, w, n), t, w)

CreateTry(t, w, slug) ==
  /\ pc = "idle"
  /\ CountThreads < MaxThreads
  /\ MintSucceeds(t, w, slug)
  /\ pc' = "arming"
  /\ UNCHANGED <<alarm, lost>>

CreateTryFails(t, w, slug) ==
  /\ pc = "idle"
  /\ CountThreads < MaxThreads
  /\ MintFails(t, w, slug)
  /\ UNCHANGED <<alarm, pc, lost>>

\* Mutant: every try sets the alarm anew.
EnsureAlarm_Resets ==
  /\ pc = "arming"
  /\ alarm' = Sweep
  /\ pc' = "idle"
  /\ UNCHANGED <<store, lost>>

\* #ensureAlarm, then createTry answers.
EnsureAlarm ==
  /\ pc = "arming"
  /\ alarm' = IF alarm = NoAlarm THEN Sweep ELSE alarm
  /\ pc' = "idle"
  /\ UNCHANGED <<store, lost>>

\* The object is lost, or its storage fails, before the alarm is set: the
\* mint has committed and nobody undoes it.  An alarm that was set already stays.
Evicted ==
  /\ pc = "arming"
  /\ pc' = "idle"
  /\ lost' = (lost \/ alarm = NoAlarm)
  /\ UNCHANGED <<store, alarm>>

\* A read of a demo slug that is not there seeds it; no alarm is armed.
EnsureDemo(t, w, slug) ==
  /\ pc = "idle"
  /\ ~ SlugTaken(slug)
  /\ MintSucceeds(t, w, slug) \/ MintFails(t, w, slug)
  /\ UNCHANGED <<alarm, pc, lost>>

\* Mutant: the demo is swept like any other thread.
Expired_NoExemption(t) == Live(t) /\ store.threads[t].age > Ttl

Expired(t) ==
  /\ Live(t)
  /\ store.threads[t].age > Ttl
  /\ store.threads[t].slug \notin DemoSlug

\* The tables once the cascade has gone over the threads D, in whatever order: a
\* writer goes with the last of its threads.
DeletedCascades(st, D) ==
  LET rest == [st EXCEPT !.records = [t \in Thread |-> IF t \in D THEN <<>> ELSE st.records[t]],
                         !.threads = [t \in Thread |-> IF t \in D THEN NoThread
                                                       ELSE st.threads[t]]]
  IN [rest EXCEPT !.writers = {w \in st.writers :
        (\E t \in D : st.threads[t].created_by = w) => WriterInUse(rest, w)}]

\* The cascade for every expired thread.
Swept == DeletedCascades(store, {t \in Thread : Expired(t)})

\* Mutant: the alarm is armed again only while something expired.
Alarm_OnlyIfSwept ==
  /\ pc = "idle"
  /\ alarm = 0
  /\ store' = Swept
  /\ alarm' = IF \E t \in Thread : Expired(t) THEN Sweep ELSE NoAlarm
  /\ UNCHANGED <<pc, lost>>

\* alarm: the platform runs it again until it has gone through.
Alarm ==
  /\ pc = "idle"
  /\ alarm = 0
  /\ store' = Swept
  /\ alarm' = IF \E t \in Thread : store'.threads[t] # NoThread
              THEN Sweep ELSE NoAlarm
  /\ UNCHANGED <<pc, lost>>

\* The row of thread t a moment later.
Aged(t) ==
  LET row == store.threads[t]
  IN IF Live(t) /\ row.age < OldestAge THEN [row EXCEPT !.age = @ + 1] ELSE row

\* Time goes by while no request is at work and no alarm is due.
Tick ==
  /\ pc = "idle"
  /\ alarm # 0
  /\ alarm' = IF alarm = NoAlarm THEN NoAlarm ELSE alarm - 1
  /\ store' = [store EXCEPT !.threads = [t \in Thread |-> Aged(t)]]
  /\ UNCHANGED <<pc, lost>>

Next ==
  \/ \E t \in Thread, w \in Writer, slug \in TrySlug :
       CreateTry(t, w, slug) \/ CreateTryFails(t, w, slug)
  \/ \E t \in Thread, w \in Writer, slug \in DemoSlug : EnsureDemo(t, w, slug)
  \/ EnsureAlarm
  \/ Evicted
  \/ Alarm
  \/ Tick

\* Time passes, an alarm that is due runs, a call at its await goes on.
Fairness == WF_vars(Tick) /\ WF_vars(Alarm) /\ WF_vars(EnsureAlarm)

Spec == Init /\ [][Next]_vars /\ Fairness

-----------------------------------------------------------------------------

\* Thread t is a try.
Try(t) == Live(t) /\ store.threads[t].slug \in TrySlug

(***************************************************************************)
(* No orphans, whatever fails: a live thread is whole and published, its   *)
(* records are its writer's, every writer has exactly one thread, and no   *)
(* record is left without its thread (#mintPublishedThread, the sweep).    *)
(***************************************************************************)
NoOrphans ==
  /\ \A t \in Thread :
       IF Live(t)
       THEN LET w == store.threads[t].created_by IN
            /\ store.records[t] = <<[kind |-> "genesis", author |-> w],
                                    [kind |-> "ThreadPublished", author |-> w]>>
            /\ w \in store.writers
       ELSE store.records[t] = <<>>
  /\ \A w \in store.writers :
       Cardinality({t \in Thread : Live(t) /\ store.threads[t].created_by = w}) = 1

(***************************************************************************)
(* While no alarm was lost: a try has an alarm, but for one just minted    *)
(* whose call is about to set it; the first alarm after its time to live   *)
(* takes it, and comes within an interval of the sweep.  What the pages    *)
(* promise is less time: "it expires and is deleted within N hours"        *)
(* (sandbox-view.js:44), N the time to live, when a try is only overdue.   *)
(***************************************************************************)
GoneAtNextSweep ==
  ~ lost => \A t \in Thread : Try(t) =>
    IF alarm = NoAlarm THEN pc = "arming" /\ store.threads[t].age = 0
    ELSE store.threads[t].age + alarm <= Ttl + Sweep

(***************************************************************************)
(* Once an alarm is set, the sweeps go on until every try that was there   *)
(* is gone, those an earlier lost object left without an alarm included.   *)
(***************************************************************************)
ArmedMeansSwept ==
  \A t \in Thread : (Try(t) /\ alarm # NoAlarm) ~> ~ Try(t)

(***************************************************************************)
(* A demo, once seeded, is there for good.                                 *)
(***************************************************************************)
DemoStays ==
  [][\A t \in Thread :
       (Live(t) /\ store.threads[t].slug \in DemoSlug) =>
         store'.threads[t] # NoThread /\ store'.records[t] = store.records[t]]_vars
=============================================================================

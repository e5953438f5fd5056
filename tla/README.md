# TLA+ models of ClisTa

ClisTa records decisions. People and agents write events (a question, evidence, claims, positions,
objections, a decision, its outcome) to a thread; the thread's state is a fold over its events; the rules
of the protocol say which event is legal next; and a notary keeps signed, hash-chained copies that
anybody can verify. This directory holds TLA+ specifications of the parts of the repository whose
correctness is more than a matter of layout: who may write when, what survives a crash or a race, and
what a reader may rely on.

`PROJECT.json` is the index: components, TLC runs, the source lines behind every definition, the hazards
the properties are for, the mutations every property catches, and the theorems.

To run: `tlc -config ThreadHub_shared.cfg MCThreadHub` checks one instance,
`tlapm ThreadHubProofs.tla` checks the proofs.

## 1. The system: components, state, operations

### Thread Hub (packages/threadhub)

* **Notary** (`hub.js`, `store.js`, `canonical.js`, `identity.js`). State: the tables `identities`,
  `threads`, `records` of one SQLite file. Operations: `createIdentity`, `createThread`, `append`,
  `appendSigned`, `ingestClistaEvents`, `attest`, `verifyThread`, `exportThread`. Callers: the HTTP routes,
  the CLI (each command opens the same file, beside a running server), and clients that sign on their side
  (`adapters/octopus.js`). *Hard*: every SQL statement commits on its own, so calls of two processes
  interleave between a head read and the insert, and a killed call leaves what it had written; a signed
  envelope may arrive stale, twice, or beside another one's signature. *Correct when*: every thread passes
  its own verification, an acknowledged position is never anyone else's, a record under a client's key was
  signed by the client, and readers only ever see the log grow.
* **Routes and rate limiter** (`routes.js`, `server.js`). State: one counter and window per client address.
  `handle` maps a request to one hub call; in public mode it filters every read by publication.
  *Hard*: the window boundary, the wholesale clearing of the table at its bound.
* **Publication** (`publication.js`). A pure function: the last publication event of a thread governs, and a
  malformed one publishes nothing. *Hard*: it must fail closed over any sequence of acts.
* **Hub on Cloudflare** (packages/threadhub-cf: `worker.js`, `hub-do.js`, `store-do.js`). The same hub over
  Durable Object storage (one process), and `importRows`: a transactional copy of another hub's tables, which
  skips rows already there. *Hard*: a second import of a source that has moved on.
* **Sandbox** (packages/threadhub-sandbox: `sandbox-do.js`, `sandbox-store.js`, `worker.js`, `turnstile.js`).
  State: a hub whose records may be deleted, an alarm. Operations: `createTry` (mint writer, thread,
  publication), reads (which seed the pinned demo), `alarm` (the expiry sweep). *Hard*: a mint that fails in
  the middle, the capacity, whether every try is in the end swept.

### App (app/worker)

* **ThreadDO** (`thread-do.js`): the event log of one thread; `append` validates against the projected state,
  then opens re-reviews in companion threads; `ingest`, `purge`.
* **IndexDO** (`index-do.js`): cards of all threads, the intake queue, the intake rate limit.
* **Worker** (`index.js`, `identity.js`, `notify.js`, `portfolio-signals.js`): routes; an operation touches an
  IndexDO and several ThreadDOs with an `await` between any two. *Hard*: two triagers approve one item; a purge
  passes its check and then a registration arrives; a card is rebuilt from a projection that is already old;
  the worker dies between two calls.
* **SPA, scripts, demos** (`app/src`, `app/scripts`, `vendor-dd.js`, `pharma-phase-gate.js`,
  `scenario-demo.js`): rendering and fixtures.

### Protocol (packages/protocol/src)

Everything here is a log of events and what is read from it. Two readers matter: the **validator** (`validator.js`,
`validator/*.js`), one pass that accepts or rejects each event given those before it, and the **projector**
(`projector.js` and the `project...` function of each family), a fold that gives the state people and commands see. They
are two programs over one log, and most of what is hard below is whether they agree. Events come in by
two ways: *submitted* (the app's `ThreadDO.append`, the gate) they are validated first; a *command* of the CLI or
the MCP server asks that the log be valid, builds an event from the projection and appends it as it is.

* **Local store** (`events.js`, `integrity.js`): an NDJSON file. `appendEvent` reads everything, links to the last event and
  appends one line in a second call, without a lock; `writeEvents` rewrites the file; `verifyEventIntegrity` checks hashes
  and links. *Hard*: two processes on one file, a process killed between two calls or in a write.
* **Gate and sealed runs** (`gate.js`, `harness/sealed-run.js`): validate a candidate, append it or witness the
  refusal. *Hard*: what was validated is not what is appended when another process writes in between.
* **From a request to a decision** (`governance.js`, `identity.js`, `validator/decision.js`, `validator/thread.js`):
  participants, scoped authorities, objections, reviews, decisions, minority reports.
* **Delegation and execution** (`delegation.js`, `execution.js`): grants with a term, what is done under them, and their
  end by revocation, expiry or violation. *Hard*: a grant that ends while work under it is on its way.
* **Outcomes and their learning** (`outcome.js`, `outcome-learning.js`): effects expected, observed, evaluated, disputed;
  signals and lessons that rest on them. *Hard*: disputes and rollbacks in between.
* **Reviews and recovery** (`review.js`, `recovery.js`): reviews required, opened, completed, opened again; a recovery that
  is planned, quarantined, applied, and verified against the hash of its own log. *Hard*: an id reviewed twice, a
  verification overtaken by another event.
* **Forks and merges** (`merges.js`, `validator/merge.js`, `cli/thread.js`): a thread inherits its parent's objects through a
  boundary; a merge is proposed, reviewed, its conflicts resolved, completed. *Hard*: parents that go on
  changing, conflicts and resolutions after the reviews.
* **Learning, adaptation, amendments** (`learning.js`, `adaptation.js`, `amendments.js`): audited outcomes, signals and
  recommendations recorded and derived, amendments proposed, approved, rejected, superseded. *Hard*: what is derived is
  listed beside what was recorded, and only the latter may be cited.
* **Continuity, compatibility, interoperability, federation, negotiation**: a log exported as a packet, carried, and held to
  five gates, each over the results of those before it; references and negotiations recorded of it. *Hard*: packets
  of another projector or edited on their way, three appends of one command.
* **Attribution, provenance, release, runtime verification, reports**: readings and comparisons of a finished log, of
  files or of a manifest.
* **CLI, MCP server, Python ingest**: front ends over the above.

## 2. Plan

In order of what the rest relies on. Each module states its properties first as runs; the proofs follow in a
module of their own.

| | Modules | Proofs in | Of | State |
|---|---|---|---|---|
| 1 | `Ledger`, `ThreadHub` | `ThreadHubProofs` | the notary and its promise to readers | checked and proved |
| 2 | `RateLimiter`, `PublicReads`, `HubImport`, `Sandbox` | `HubPartsProofs` | the rest of the hub | checked and proved, but for the liveness of the sweep |
| 3 | `AppThread`, `Intake` | `CockpitProofs` | ThreadDO, IndexDO and the Worker between them | checked and proved |
| 4 | `Lifecycle` | `LifecycleProofs` | validator and governance, from a request to a decision | checked and proved |
| 5 | `Delegation`, `Outcomes` | `WorkProofs` | grants, executions, outcomes and what is learned, by validator and by projection | checked and proved |
| 6 | `Recovery`, `Amendments` | `ProtocolProofs` | families with several final states, by validator and by projection | checked and proved |
| 7 | `Exchange` | `ProtocolProofs` | packets between two logs, the five gates, negotiation | checked and proved |
| 8 | `LocalStore` | `StoreProofs` | the file without a lock, the gate, crashes | checked and proved |
| 9 | `ForkMerge` | `MergeProofs` | forks and merges, by validator and by projection | checked and proved |

`Outcomes` extends `Delegation`, since outcomes rest on executions. Parts that share no state are composed, so that one run
checks them and one theorem module can be about them: `HubParts` (2), `Cockpit` (3) and `ProtocolParts` (6 to 9) have a
variable `part` that says which of them moves. The `MC...` modules add what only TLC needs, symmetry and bounds.

## 3. Modules

### Ledger, ThreadHub

`Ledger` says what a reader of the hub is promised: per thread a log without gaps that only grows at its end.
`ThreadHub` is `hub.js` over its store, one action per SQL write (`InsertThread`, `InsertRecord`, `SetGenesis`,
`CreateIdentity`) or per stretch of reads before one (`AppendRecord`, `AppendNext`, `AppendSigned`). `pc[p]` is
the statement process `p` is at, `pending[p]` the row it has built, `todo[p]` the appends its call still owes
(`createThread` owes the genesis record, `ingestClistaEvents` one more per event). `Crash(p)` ends a call between
two statements. A request refused before its first write changes nothing and is a stuttering step. `signed` is what
clients have signed; `ReceiveSigned` delivers any of it at any time, any number of times, next to any signature.
`acked` is a history variable: the positions a caller was told (201, or the output of the CLI).

Hashes are collision free and signatures unforgeable: `ContentAddress` wraps the envelope, `Sign` names the key and
the address. Payloads are opaque. `recorded_at` is left out.

`ImplementsLedger` is `Ledger` with `log` mapped to `LogOf`, the record at each position of a thread.

### RateLimiter, PublicReads, HubImport, HubParts

`RateLimiter` is `rateLimiter` of `routes.js`: `windows[ip]` is the map's entry, `OpenWindow` the branch that resets it
(and clears the table when it is past its bound), `CountAllowed` the one that counts a request it lets through, `Restart`
the loss of the map with its process or object. `history` is what happened when: requests let through, clearings, restarts.

`PublicReads` is `handle` in public mode. `handle` is synchronous and SQLite is read in place, so an answer is a
function of the tables; the operators `ListAnswer` (with the number of public records of each thread), `ThreadAnswer` and
`RecordAnswer` are the routes and `PublicView` all a reader can learn. A record is one of four acts, since `effectivePublication` tells no more apart.

`HubImport` has two live hubs, `source` and `target`, each a set of thread rows and a set of record rows. A record's
content address covers its predecessor's, so a record carries the whole chain before it. `Export` takes a
dump, cut anywhere; `Import` applies `importRows` in its transaction, `ImportRollsBack` is the transaction
that meets a constraint.

These three and the sandbox share no state. `HubParts` composes them: `part` says which of them moves.

### Sandbox

`SandboxDO` over `SandboxStore`. The object serves one request at a time and its SQL is synchronous, so a mint with its
rollback is one step (`CreateTry`, `CreateTryFails`, `EnsureDemo`); `Minted(..., n)` is the tables after `n`
statements and `RolledBack` what the catch branch leaves. `DeletedCascades` is `deleteThreadCascade` over a set of threads; that
the order of the loop does not matter is a theorem (`SweepIsTheLoop`). `createTry` awaits `#ensureAlarm` after the mint; `Evicted` is
the object lost there. `Tick` ages every thread and runs the alarm's clock down, `Alarm` is the sweep and its
re-arming.

### AppThread, MCAppThread

One thread's object (`log`), its row in IndexDO (`card`) and its flag there (`flag`). `req[r]` is the call request `r` of
the Worker makes next, with what it has read: an append registers the thread (`ReadCard`, `Upsert`) and then notifies
(`Notify`); a purge checks (`PurgeCheck`), erases (`Purge`) and removes the row (`RemoveRow`). `Die` is a
request that ends between two calls. `AppendEvent` is the whole of `ThreadDO.append`, the companion trigger of
`_reReviewCompanions` included, which runs without an await that lets another request in. `Status` is what the projector's fold
leaves, read off the last event that sets it, and `Accepts` what the validator says, cut down to the events that set the status. `SpecUnpurged` is `Spec`
without the purge, whose race with a creation is a run of its own.

### Intake

IndexDO's intake rows and the logs of the threads that approvals write. An approval of a proposal or a report creates a
thread (`Create`) and, for a report, adds evidence (`Attest`); that of a contribution declares its approver
(`Join`) and stores the event (`Commit`). `Resolve` is `resolveIntake`, the last call of each. Begun is begun:
`Approve` and `Dismiss` read the row, and nothing reads its status again. `Cockpit` composes it with `AppThread`.

### Lifecycle, MCLifecycle

The validator's state as far as it decides what may be decided: `active` (the keys of `activeAuthorities`), `objections`,
`requests`, `reviews` in the order of the log, `decisions`, `reported`. Each disjunct of `Event` is the handler of one
event type. `FinalIntegrity` is `validateFinalDecisionIntegrity`, held against the whole log: once for a log that is
ingested (`Ingested`), after every event that is appended (`AppendEvent`). `Eligible` is what the eligibility
command computes, `Mergeable` what the validator asks of a `DecisionMerged`.

### Delegation, Outcomes, MCWork

One log, read twice: `status` and `progress` (in `Outcomes`, `standing`) are the validator's tables, `facts` the
records the projection collects, from which `GrantShown`, `ExecutionShown` and `OutcomeShown` derive a status by which
kinds of records there are. Each `...Accepted` is the handler of an event type. `Submit` appends what it accepts;
`Command` appends whatever the command builds, and `valid` says whether the log is still one that commands read. Time is a
few instants: a grant runs out by the clock in the projection, and by an event for the validator. `worded` is whether the
text an event needs is left after normalisation; the other modules take it to be there.

`owners` is `activeAuthorities` for the one authority that work asks for, by participant and scope. It changes in every way the
code has: `Declare` (anybody, with the role of an owner), `Authorize` (granted, and revoked by its very key), and the people a command
introduces. Signals and lessons are two tables with ids of their own. `hashes` is the `outcomeHash` an evaluation came
with: none, the one its normalised content gives, or another. The projection always shows the second.

### Recovery

As in `Delegation`. `reviews` is the validator's status per review, `facts` what the projection ranks. Hashes of the log are
what they cover: `Reading(c)` is the head and the entries of the recovery, `Restored` the state a verification
claims. `Read` is a client that reads what its verification will quote, some events before it is appended.
`PlanCommand` and `EmergencyCommand` append two events, the review they require first, under an id they choose by the
request alone (`PlanReview`, `EmergencyReview`).

### ForkMerge

`objects` holds each object with the one thread it was raised in and its two statuses: `status` is the one of `merges.js`,
`shows` the one of `projector.js`, which contests a claim that is objected to (`Raised`) and takes what a decision preserves for
preserved (`Decided`). `Judged` and `Shown` are the two readings of what a thread holds, with what it inherits; `Own` is what a
thread shows before anything is merged into it. Both programs replay the log through the boundary; here the reading is taken
while the boundary is the head (`seen`, by `Read`) and a fork keeps it. `reviews` keeps the review with the latest date per
reviewer. Completions are kept twice, as in the code: `completions` by the request they complete, for the validator, and
`merges` by the id they were given, for the projection, where a completion takes the place of one with its id (`Merged`).
`CompleteAccepted` is the handler of a completion: `Eligible`, `KeepsDissent`, and the ids of the proposal. `known` and
`owners` are participants and decision owners; that an owner may lose the authority is in `Delegation`, and no
property here asks for it. `reopened`, `dissent` and `rationales` are history, for the properties.

### Amendments

`signals`, `advice` and `proposals` are recorded; `SignalsShown` and `AdviceShown` are what is listed, the derived ones among
them under ids of their own. `status` is the fold of the validator (`amendmentStatusIndex`), `shown` that of the reader
(`projectAmendments`). The validator takes more for known than is listed: outcomes that were only expected (`declared`), and
recommendations in the payload of an event of another type (`strays`).

### LocalStore

`file` is the lines, `Torn` a line that was cut. A process is at a call (`pc`) of a task of a command: `InitStore` and `Create`
(the two calls of `initStore`), `Link` (the reading of `appendEvent`), `Write`, `Rewrite` (`writeEvents`); `GateTask` is
the validation before it, `Witness` the one of a refusal. `Kill` is between any two calls or within a write. An event is what it is
held to: an actor joins once, a request is decided once, what is referred to comes before (`InOrder`), the link is to the line before (`Linked`).
`acked` is what commands have reported. What has befallen the log is kept as history, one kind each: `overtaken`, the commands
under which another process changed the file, and `late`, the events they wrote all the same; `linked`, the processes whose link is to the
file as it is, and `forked`, the events that were linked to a file that had changed; `cut`, a process was killed; `thrown`, a log was replaced unasked.

### Exchange

Here and a `source`, each with the projector's version it runs. A `Packet` holds `events`, the `state` made of them, the `label` of the
projector that made it, and whether its hashes are those of its content (`whole`). `Reading` is what a projector makes of a log: versions differ
in what they make of amendments. Nothing signs a packet, so `Edits` holds what whoever carries it can do: other claims, another label or none,
another log in it with hashes made anew, with its state or without, a state made up, and hashes left as they were. `Reasons` is
`verifyContinuityPacket`; `importer` and the `reader` of a record say which projector was here when it was taken. `Compatibility`, `Interoperability`, `Federation` and `Negotiation` are the gates; `Options` what
a command may set. `Propose` passes the gates once, then `ProposeRequest`, `ProposeDifference` and `ProposeTerms` append,
one call each, and `Kill` may come in between. Clients write of negotiations too (`Submit`).

## 4. Runs

All models stop at their bounds, so deadlock is not checked (`CHECK_DEADLOCK FALSE`): no server here
waits for anything but a request.

| Run | Instance | Shows |
|---|---|---|
| `hub_shared` | 2 processes, 1 thread, positions 0 to 2, 2 signed envelopes | `ChainsVerify`, `AckedIsRecorded`, `Attribution`, `ImplementsLedger` under every interleaving of statements and every crash |
| `hub_single` | 1 process, 2 threads, logs of up to two events ingested | `IInv`, the invariant of the proofs; `GenesisHashIsSeqZero`, which needs the single process |
| `hub_parts` | import: 2 threads, 2 slugs, chains of 3, 2 dumps; limiter: 3 addresses, 2 requests per window of 2, a table cleared past 1, time 0 to 3, 8 happenings; reads: 2 names, 4 records each; sandbox: capacity of 3, time to live 1, a sweep every 2 ticks, one demo | `TargetVerifies`, `ImportedIsThere`, `QuotaHolds`, `Indistinguishable`, `CitableUntilWithdrawn`, `NoOrphans`, `GoneAtNextSweep`, `DemoStays`, `ArmedMeansSwept` |
| `app_serial` | threads: 1 request at a time, logs of up to 8 events, purges; inbox: 2 items, 2 requests, 2 humans, 2 approvals | `IndexInSync`, `TriggerIsFlagged`, `NoContradictedDecision`, `OneTriggerPerEpoch`, `RegisteredAppendOnly`; `ApprovedIsRecorded`, `TracedFromItem`, `AtMostOnce` |
| `app_overlap` | 2 requests, up to 6 events, no purges | `ListedAsItWas` |
| `app_silent_flip` | 1 request, no purges | that `NoSilentFlip` fails (section 7) |
| `app_purge_race` | 2 requests, purges | that `RegisteredAppendOnly` fails when requests overlap (section 7) |
| `lifecycle` | 2 participants, 1 objection, 1 request, 3 reviews, clocks 1 and 2 | `EligibilityDecides`, `StandsOnLastWords`, appended or ingested |
| `lifecycle_revocation` | 1 participant, global and thread authorities | that `RevocationsBite` fails (section 7) |
| `work` | 2 participants, a grant, an execution of one of 2 actions, an outcome of one of 2 effects, a signal and a lesson of one id, 2 instants, at most 4 facts; no second owner of decisions beside a grant or an outcome | `ShownIsUsable`, `OutcomeShownIsUsable`: what the projection shows decides which commands keep the log valid; `LearningRests`; `FrozenWithItsAuthority`; `DisputeIsFinal` |
| `protocol` | recovery: 2 recoveries, 2 reviews, a plan, a repair, 7 events; merges: 2 forks, a claim, an objection, 2 requests, 2 ids of completions, a conflict, a reviewer, fresh ids, 7 events (`MergeBound`); amendments: an outcome, 2 signals, a recommendation, 2 amendments, 7 events; store: 2 processes, 3 commands, 6 events; exchange: 1 packet of a source of 2 events, an amendment, 2 projectors, 3 events here, ids by default, one use of the packet at a time and a run killed at most once (`ExchangeBound`) | `RepairsStandOnReview`, `ShownPendingIsPending`; `JudgedIsShown`, `DissentKept`; `CitedIsShown`, `ShownAsSettled`; `FlawsHaveCauses`; `StateFromEvents`, `NoSilentDowngrade` |
| `store_witness` | 2 processes, 3 commands | that `WitnessNeverCorrupts` fails (section 7) |

Why these bounds are enough to be worth running:

* A race of `hub.js` needs two processes at one thread and a position both want: two processes, three positions and a
  signed envelope that is late for both. Threads meet only in the slug and the record hash, which two of them show.
* A fork of an imported chain needs an export, a write on each side after it, and an older dump imported after a newer.
* A limiter forgets when a third address comes. Two requests per window are the fewest that show the burst around its
  end (three in one window's length, none of them lost), and eight happenings hold two clearings in one such stretch.
* Whatever hides a publication is a publish followed by another act, with records between them.
* The sandbox reaches its capacity, and a try can outlive a sweep (time to live 1, sweep 2) before the next takes it.
* Eight events are a decision, its contradiction, a second decision and a second contradiction, each with its companion;
  six are enough for two overlapping requests to pass each other anywhere in a decision cycle.
* Two requests on two items is every overlap of an approval or a dismissal with another, on the same item and not.
* Three reviews are one reviewer who changes her mind, and changes it back, or another in between; equal
  clocks are among them.
* A grant, an execution and an outcome meet once each: what can part the two readings is the order of a start, an end, a
  violation and a dispute of the same objects, and four facts of any kind are all of those.
* Seven events are a recovery requested, its review required and completed, planned, quarantined, applied and
  verified; the second review is the one another event of the same recovery names.
* A fork, an objection, a request, its conflict, the rationale and the completion that rejects with it are seven events, and
  so are two completions of one id. `MergeBound` lets the hard things happen one at a time (a fork of a fork, a second request,
  a review, a conflict, a decision on what was resolved) and is after them by the sixth event. `Bound` in `MCProtocol` and
  `MCWork` cuts what a part does on at its last event.
* Seven events are an audit, a signal, a recommendation, a proposal and its supersession by another.
* Two processes show every race of two calls on the file, and three commands of up to four appends a second race after it: an actor who
  joins twice, and a request both processes merge, with and without the chain broken.
* A packet exported before an amendment or a checkout, and used after it, needs one packet and one of each, and so does each way of
  editing it. `ExchangeBound` stores the packet, refers to it or negotiates on it, not two of these: none reads what another leaves.

`hub_shared`, `hub_parts`, `app_overlap`, `lifecycle`, `hub_single`, `work` and `protocol` use symmetry over sets whose members
nothing tells apart. Only `hub_parts` has a liveness property, and there the set is the limiter's addresses, which no
behaviour of the sandbox has.

## 5. Fairness

Only `Sandbox` assumes any: `WF(Tick)`, time passes; `WF(Alarm)`, the Durable Object platform runs an alarm that is due and
runs it again if it throws; `WF(EnsureAlarm)`, a call whose storage await has been served continues. `HubParts` states the
same fairness where the behaviour is one of the sandbox. `Evicted`,
the loss of the object, and every request are left unfair. Nothing else in the repository is obliged to
happen: every other step is a client's request, or a caller that may die before the next one.

## 6. Proofs

tlapm checks every leaf; nothing is assumed beyond the named assumptions on the constants in the modules. Those say only what
the code's own constants satisfy: bounds are naturals, the hub's keys are not clients' keys, the demo's slugs are not
minted for tries, and the values the modules use for "none" (`Null`, `ByDecision`, `"none"` of a thread) and for the thread that is
no fork (`"trunk"`) are not among the ids.

Every theorem is about all values of the constants: any number of processes, requests, threads, ids, and logs of any length up to
the bound, whatever it is. Each module proves an inductive invariant first, checked by TLC before, and what the runs check
from it.

* `ThreadHubProofs`. `Invariance`: `IInv` is inductive, for any number of processes, threads, identities and
  envelopes. The chain property alone is not: a call's head may be stale when it inserts. What survives is `CallOK`: the row
  it is about to insert was built against a record that is in the table still (records are never deleted), so
  UNIQUE (thread_id, seq) leaves only two outcomes, the row is the next one or the insert throws (`LinkedIsNext`).
  `Genuine` and `SignedOK` carry authorship from the signature to the row: a signature that verifies under a client's key
  belongs to an envelope that client signed. `TypeCorrect`, `ChainIntegrity`, `AckSafety` and `Attributed` follow.
  `Refinement`: the hub implements `Ledger`. An insert is `Extend` (`InsertExtends`: one more
  position, the old ones as they were), every other step leaves `LogOf` alone, both by `IInv`. `GenesisIsFirst`: where one process
  serves the database (`OneProcess`) the genesis column is right. `GenesisInv` says that a thread whose creation is on its
  way has no record, which a second process breaks.
* `HubPartsProofs`. `ImportInv`: both hubs are sets of chains, and an imported dump stays in its target (`Kept`), rows being
  only added. `LimiterInv`, for every stretch as long as a window: what an address got in it is at most one quota less
  one, a quota for each loss in it, and its share of the window that runs now (`Paced`); and since the table was last cleared in
  it, its requests opened at least the windows the table holds (`Filled`). `QuotasHold` follows.
  `NothingHiddenShows` needs no more than the type of the log: every answer is computed from what erasing leaves. `CitationsHold` is
  an action property of it. `BoxInv`: a thread, its writer and its two records come and go together (`StoreWhole`),
  and the alarm is never further off than a sweep after the oldest try's end (`Armed`). `SweepIsTheLoop` ties the one
  expression `DeletedCascades` to the loop of the code.
* `CockpitProofs`. `LogInv` (`Answered`): an objection appended to a decided thread has its trigger in the next position, so
  a thread that shows as decided is not contradicted, and two triggers have a decision between them, whatever
  overlaps. `SerialInv` says for each call a request may be at what the row and the flag are (`Serving`); it needs requests to come one
  at a time, so the theorems have `OneAtATime` as a condition within, and `app_purge_race` shows that `RegisteredAppendOnly` fails without it.
  `ListInv`, for overlapping requests and no purge: the row is a snapshot of the log (`Snapshot`). `InboxInv`: a request
  past its writing call has its item on the ledger (`Triaging`), what is on the ledger is in its row or about to be (`Traced`),
  and with neither deaths nor overlaps there is one such request, on a pending item (`Singly`).
* `LifecycleProofs`. `Invariance`: `Inductive`, which adds to the types that reports follow decisions
  (`ReportsFollow`), that a decided request stays reviewed since reviews need an open request (`StaysReviewed`), and that a
  log once taken meets `FinalIntegrity` (`Whole`). From it `Eligibility` (the eligibility command and the
  validator agree, for every state) and `LastWords` (where each reviewer's clock advances, the latest
  review by its claimed time is the last in the log, so a decision stands on last words).
* `WorkProofs`. `WorkInv` relates the validator's tables to the records the projection ranks. Of executions they say the same
  (`ProgressAgrees`), of grants the same where active (`StatusAgrees`: of one that ended the two may give different
  reasons), of outcomes the same until one is disputed or violated (`StandingAgrees`). What commands go by (`ShownIsUsable`,
  `OutcomeShownIsUsable`), `LearningRests`, and the action properties `FrozenWithItsAuthority` and `DisputeIsFinal` follow.
  The invariant asks of an execution that it keeps to its grant or decision, and not that its actor is an owner still: that a revocation
  may take back at any time (`Orphaned`).
* `ProtocolProofs`. `AmendInv`: what amendments cite was recorded, and what is shown of one is a function of its status
  (`ShownByStatus`). `RecoveryInv`: what is said of a review and its status (`ReviewsAgree`), which plan and
  review a quarantine or a repair has, and that a verification restores what came before it. `ExchangeInv`: a packet past
  the first gate holds the state that the projector of that moment made of its events (`Taken`), and a request is finished, killed, or its
  run still holds the packet and what the gates found of it (`Followed`), which carries `NoSilentDowngrade` through the three appends.
* `StoreProofs`. `StoreInv`, line by line (`LineOK`): a line is torn by a kill, linked to the line before or forked, in order or late. It lasts
  because each process at work holds events that fit the file as it read it (`ProcessOK`), and those of a process that nobody has overtaken
  fit the file as it is (`ProcessReady`); a decision in the log has its report, or the process that merged it is about to write it
  (`Answered`), unless one was killed.
* `MergeProofs`. `MergeInv`: a reading taken once and kept by a fork still says of what it judges that it shows, and which
  thread it is in (`ReadingKept`), the two statuses of an object part in known ways only (`ObjectsKept`), and a source is judged
  to hold, for good, what a completion accepted of it (`MergeKept`). Nothing is taken back but a completion's place in the
  projection (`Grows`): an object stays in its thread because ids of objects come from `newId`, which is where fresh ids are needed. What a thread shows is a recursive function, `ShownOf`, of which nothing can be said before it is known to
  satisfy its own equation (`ShownSolves`); it does, since by `MergeKept` a merge takes of its source only what the source shows
  of itself (`Own`), so the recursion is one step deep and has one solution (`MergesDoNotCascade`), for whatever
  `valuesForThreadScope` computes on its way. `JudgesSeeWhatIsShown` and `NoDissentErased` follow. `SourcesDescend` shows
  that the projector's walk from targets to sources, which keeps no set of visited threads, ends: by an order of the threads that is
  no longer than the log, what is merged is younger than what it is merged into. The last two are said of valid logs, the only ones
  the model continues, and no run states them.

Proving found two mistakes of the models that no run had shown. `RequireFirst` in `Recovery` was never enabled, so the commands that
require a review first had never run; and a plan was held against a log that already held it. Both are corrected, and the
runs pass with the commands taken.

Where the code takes the last event of a kind, the models say so by position (`SelectLastInSeq`), and the
proofs use that every bounded set of positions has a greatest (`MaxIs`), which well-foundedness of the order gives.

Only model-checked:

* `ArmedMeansSwept`: liveness under fairness is out of the prover's reach.
* The findings of section 7, which are counterexamples.

## 7. Where the code and its documents part

Shown by a run, with the line in `PROJECT.json` under "findings":

* `app_silent_flip`: a `ReviewTriggered` that a client appends itself, or that comes in an ingested log, flips a thread
  to re-review and flags nobody.
* `app_purge_race`: a thread created between the check of a purge and the purge loses its log.
* `lifecycle_revocation`: a revocation spelled with another scope or thread than the grant is accepted and
  withdraws nothing.
* `store_witness`: the witness of a refusal is validated on one reading of the log and appended on another; beside another
  process the log it leaves is invalid.

Noticed while modelling, and visible in the modules without a run of their own:

* With two processes on the hub's file, another call's record can take seq 0 before `createThread` appends its genesis; the
  `genesis_hash` column ("hash of record seq 0", `store.js:24`) then names a later record. `GenesisHashIsSeqZero` is checked, and proved,
  for one process.
* `createThread` commits the thread's row before it learns that its creator has no custodial key; the first record of
  that thread is then whatever comes next.
* The limiter's window is fixed and not sliding: one less than twice the quota passes around its boundary, and another quota for
  each clearing of the table (`routes.js:71`) or restart (`QuotaHolds`).
* A try is told that "it expires and is deleted within ${ttlHours} hours" (`sandbox-view.js:44`, and lines 9 there and 10 of
  `sandbox-store.js`), and "TTL is enforced by age, not cadence" (`sandbox-do.js:32`). It is deleted by the first alarm after its
  time, up to `SWEEP_INTERVAL_MS` later, and is read and listed until then: no read asks for its age. If the object
  is lost before the first alarm is set, it stays until another write sets one. `GoneAtNextSweep` is what holds.
* The sandbox's capacity counts the demo and is not asked when the demo is seeded, which may go one past it.
* With overlapping requests a card may be older than its log until the next write (`ListedAsItWas` is what remains of
  `IndexInSync`), and two triagers can both approve one item (`AtMostOnce` is for requests that do not overlap).
* The latest review is the one that claims the latest time. "No review has unresolved request_changes"
  (milestone-2.md) holds of the log's order only where each reviewer's clock advances.
* A decision that preserves a blocking objection can be ingested with its minority report and cannot be appended
  event by event: each of the two needs the other (`EligibilityDecides`).
* An execution under somebody else's decision shows as "active" when its actor's authority has been revoked, and can be neither
  completed nor failed nor rolled back (`validator/execution.js:243-246`): one has to look at the actor as well (`ShownIsUsable`).
* The projection puts the hash of the normalised evaluation in the place of the stored one (`outcome.js:478`), `outcome-learning
  derive` quotes it, and the validator compares it with the stored one (`validator/outcome.js:367`): where an evaluation
  came with a hash of its own, deriving ends the log (`OutcomeShownIsUsable`).
* A required review that was completed may be opened again under its own id; the validator then holds it for open
  (`validator/review.js:77`), while the projection, and `recovery quarantine`, go on by its completion. milestone-23.md has it
  pending only until a `ReviewCompleted`.
* milestone-24.md lets an emergency quarantine rest on a "required or open" review; the validator asks for one that
  is not completed (`validator/recovery.js:78`), the command for a plan whose review is completed.
* A completed merge is kept by its request and shown by its id, and no validator asks whether the id is free
  (`validator/merge.js:168-204`, `projector.js:911`). A second completion under it, in a log that comes from elsewhere, is
  valid and takes what the first one accepted out of its target, objections among it, against "Merges prove governed
  integration without dissent erasure" (milestone-5.md). `DissentKept` says of a completion what holds as long as its id is its own.
* A decision may preserve an objection that was resolved before. The projection shows it as preserved (`projector.js:1455-1462`)
  while `merges.js` takes it for resolved, so a merge may drop it without preserving or rejecting it (`reopened`). That a claim is
  contested is the projection's alone too.
* A claim or an assumption among the proposed objections of a merge request passes `merge open` and makes every completion throw.
* What was merged into a thread is shown as its own and is outside the scope the validator gives the next merge.
* A merge review whose date is not later than the reviewer's last one is ignored; `request_changes` after the completion
  changes the status the projection shows of the request.
* Objects a merge accepted are read live from the fork, which may resolve them later.
* Derived signals and recommendations are listed and cannot be cited: an amendment that cites one ends the log.
* A recommendation in the payload of an event of any other type may be cited by an amendment (`amendments.js:636-645`) and is listed nowhere; a
  signal may be of an outcome that was expected and never audited (`learning.js:527-535`). `CitedIsShown` has both as exceptions.
* Two commands that overlap on one file can leave an actor who joined twice, or a request decided twice, in a log whose chain is
  whole: the second was checked before the first had written, and linked after. The validator refuses such a log from then on
  (`validator/participant.js:16-18`, `validator/decision.js:70-72`). Merging a decided request again does the same with one process.
* Two events that were both linked to the empty file make no break of the chain: an event without a link is let pass wherever it stands.
* A log that `initStore` replaces by an empty one (`events.js:77`), under a process that looked before the file was there, is gone and nothing tells.
* A continuity packet is not signed, and its hashes can be made anew by whoever carries it (`continuity.js:95-240`): verification says
  that the state follows from the events in it, and not that the source exported them (`StateFromEvents`). Without its label, a packet
  is held against the projector that is here (`continuity.js:202-203`).
* The profiles of `interoperability.js` do not declare every type the validator supports (`ReviewTriggered` and `GateRejectionRecorded` among
  those left out): a log with one is incompatible for every peer (`interoperability.js:637-643`), and cannot be federated or negotiated on.
* An id of a signal, a recommendation or an audit may be recorded again. What replaces a superseded amendment may be in any
  state.
* Terms of one negotiation that were accepted, rejected and degraded are shown by kind and not by their order.
* What a packet claims of optional capabilities, and when it was exported, is covered by no hash.
* `negotiation propose` of the same packet twice makes one id twice and ends the log; a run that is killed leaves a request
  without terms that cannot be proposed again.

## 8. Not modelled

`PROJECT.json` lists every component with its reason. In short: rendering, pages, demos and fixtures; Turnstile and mail,
which are services; authentication; walks over a finished log that nothing decides by (attribution, provenance, reports);
comparisons of files with manifests (release, runtime verification); one-shot generators of logs (Python ingest). Inside the
modelled parts, the form of envelopes and of payloads, the existence checks of cited evidence, claims and assumptions, records
that nothing reads (remarks, pattern observations, declarations of capabilities, profiles and peers), the status shown of a recovery, parsing of
options, layout, wording and logging are left out.

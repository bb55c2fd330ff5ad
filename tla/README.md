# Verification of the Bitaxe work gate

The repository implements a proof-of-work gate. A Relying Service asks the **Gate
Authority** for a Work Challenge; the claimant's Bitaxe Worker mines for it under
short Work Leases; a **Pool Adapter** reports accepted shares; when the Verified
Progress meets the Work Requirement the Authority signs one Gate Pass, and the
**Reference Relying Service** redeems the pass and executes one Protected Action. The claimant's
side runs in the browser: the Work Gate element, a headless client, the Claimant key, a trusted confirmation, and a
controller that drives the Worker over a serial port. This directory
holds TLA+ models of the parts that carry this promise, the TLC runs that check them
on small instances, and TLAPS proofs of the properties that matter most.

## Inventory

| Part | State it keeps | Operations | What is hard |
| --- | --- | --- | --- |
| Lifecycle decisions (`src/lifecycle*`) | none | transition matrices, lease observation | every handler must ask them before it writes |
| Gate Authority persistence (`src/authority_persistence/*`) | challenges, sessions and leases, share ledger, accepted events, issuance intents, outbox | insert, select, lease, renew, stop, replace, pause, cancel, expire, accept work, claim, complete | concurrent transactions, handler clocks that lag, workers that die, duplicate and late events |
| Issuance worker (`src/authority_application.rs`, `src/bin/gate-authority.rs`) | claimed intent | claim, sign, complete every 250 ms | takeover after an expired signing lease, the deadline between two statements |
| Reference Relying Service (`src/reference_*`, `src/redemption.rs`) | actions, redemption records, consumed passes, outcomes, intents, attempts, accounts | insert, redeem, sweep, claim, execute, complete, fail, retry, look up | competing workers, row-lock order, exhaustion racing completion |
| Accepted-work outbox (`src/stratum_v1/{postgres,delivery,retention,in_process}.rs`) | one row per accepted share, each with a delivery lease and a backoff | store, claim, deliver, acknowledge, refuse, defer, retire | at-least-once delivery between two databases, lapsed leases, answers that are lost after a commit |
| Stratum V1 sessions and proxy (`src/stratum_v1.rs`, `src/stratum_v1/{tcp,sessions,credentials,pool_selection}.rs`) | transcript, credentials, extranonces | register, extend, authenticate, reserve, proxy | disconnects, persistence before acknowledgement |
| Claimant Worker Leases (`src/authority_application/worker_lease.rs`) | authorisation sequences | start, resume, renew, release | several services in one request, release after a failed step |
| Trusted consent (`src/trusted_consent*`, `web/trusted-consent*`) | ceremonies, receipts, popups | open, confirm, claim, verify, complete, retire | popups reused by name, stray messages, leases of a verification, a challenge that ends meanwhile |
| Pool Offers (`src/pool_offer*`, `offer_replacement.rs`) | replacements, confirmations | classify, replace, confirm, release | material change between proposal and lease |
| Data governance (`src/governance*`) | retention and export jobs, tombstones | plan, apply, export | deletion against live aggregates |
| Expiry timers and notifications (`lifecycle_events.rs`) | in-memory deadlines, channels | schedule, fire, cancel | restarts, replaced timers |
| Serial channel, reader and restart (`web/webserial-worker-port.ts`, `web/worker-serial*.ts`) | queue, credits, framer, Hello, peer, restart observer | send, chunk, credit, frame, accept, observe | lagging credits, records given up half written, boot noise, output of a retired session |
| Browser Worker Controller (`web/worker-serial-controller-runtime.ts`) | admission generation, port owner and lock, pending request, lease flag | admit, command, lose, close | every await is a point where a loss, a close or a newer admission runs |
| Headless client and Claimant key (`web/headless-*.ts`) | lifecycle, consent generation, stored key record | consent, start, pause, resume, renew, cancel, close | async functions cut by events; handles that write whole records |
| Work Gate element (`web/bwg-work-gate.ts`) | views, sessions, listeners | mount, load, replace, confirm, cancel, remove | late loads and receipts for views that are gone |
| Lease admission and continuity (`web/worker-lease-*`, `web/worker-continuity-store.ts`, `web/worker-possession.ts`) | highest sequence of a key, possession context, continuity record | plan, persist, act; sweep, read, establish | replays, reboots, tabs that share a store |
| Local Worker authority (`scripts/worker-development-authority*.ts`) | two registries, sequences, trust, journal, lock file | init, sign, rotate, retire | processes killed between two file operations |
| Onboarding (`web/bitaxe-onboarding.ts`, `web/bitaxe-firmware-package.ts`) | device slots, settings, page state | connect, admit, back up, flash, reboot, verify, roll back | calls that fail after they acted, pages left halfway |
| Restoration page (`web/worker-restoration-*.ts`) | flags beside the controller's, journal | connect, start, renew, stop, stimulate, review, close | endings the device and the page cause at once |

How they interact: HTTP handlers, the Pool Adapter and the background workers share nothing
but the database. Each handler reads the wall clock, then runs one transaction at
READ COMMITTED. A transaction that locks the challenge row first is atomic with respect
to all others that do so; the models split the ones that do not. In the browser one thread runs
everything, so code between two awaits is atomic, and each await, event, timer and transaction of IndexedDB is a point
where the other functions of the page, and other tabs over the store, move.

`PROJECT.json` lists the hazards with their lines, and the properties aimed at each.

## Modules

| Module | Models | Kind |
| --- | --- | --- |
| `Lifecycle` | pure decisions of `src/lifecycle.rs`, `src/lifecycle/session.rs`, `src/progress.rs` | operators |
| `GateAuthority` | the Authority's tables and the transactions that change them | specification |
| `PassGate` | what the Authority promises | abstract specification |
| `MCGateAuthority` | instances for TLC | |
| `GateAuthority_proofs`, `GateRows_proofs` | theorems about issuance and refinement; about accounting, retention and sessions | proofs |
| `RelyingService` | redemption and execution | specification |
| `ProtectedAction` | what the Relying Service promises | abstract specification |
| `RelyingService_proofs` | theorems | proofs |
| `MCRelyingService` | instances for TLC | |
| `AcceptedWorkOutbox` | storing and delivering accepted shares | specification |
| `MCAcceptedWorkOutbox` | instances for TLC | |
| `AcceptedWorkOutbox_proofs` | theorems | proofs |
| `SerialChannel` | the prioritised writer over the Worker's receive window | specification |
| `SerialReader` | framer, Hello exchange and peer | specification |
| `SerialRestart` | one observed qualification restart | specification |
| `SerialController` | admissions, commands, losses and closes over one port | specification |
| `HeadlessClient` | the client between its Authority and its Worker | specification |
| `ClaimantKey` | handles of one Claimant key over its stored record | specification |
| `WorkGate` | views and sessions of the element | specification |
| `TrustedConsent` | popup, surface and the Authority's ceremony | specification |
| `WorkerAdmission`, `WorkerAdmission_proofs` | signed lease authorizations at the Worker | specification, proofs |
| `WorkerContinuity` | which Worker a challenge belongs to | specification |
| `DevelopmentAuthority`, `MCDevelopmentAuthority` | the local authority's files | specification, instance |
| `BitaxeOnboarding` | installing Reference Firmware | specification |
| `RestorationPage` | the restoration qualification page | specification |
| `MCSerialStack`, `MCClientSide`, `MCWorkerSide` | instances of the browser parts, side by side | |
| `SerialStack_proofs`, `WorkerSide_proofs` | theorems about channel, reader, restart observer and controller; about onboarding | proofs |
| `FiniteSums` | sums over finite sets, and the lemmas that let them grow and shrink | proofs |

Operators named after a function translate it under its own name. A definition
whose comment begins with `Fault:` is a deliberately wrong version of the definition
after it. No specification uses it; it is the mutation that shows that a property can
fail (see *Mutants*).

### GateAuthority

Each variable is a column or a table, as functions of the primary key: `chState`, `deadline`,
`terminalAt`, `progress`, `selection` (work_challenges and its selection), `sesState` to
`generation` (work_sessions), `shareOwner` (share_fingerprints), `ack`
(accepted_work_events), `intent`, `signer`, `signLease`, `pass`
(gate_pass_issuance_intents), `outbox` (authority_outbox). `wkPc`, `wkCh` and `wkAt` are
the local state of an issuance worker.

Every handler takes a parameter `now`, the clock reading it made before its transaction:
`Readings` lets it lag the database clock by up to `MaxLag`. The statements that compare
with `clock_timestamp()` use `clock`. A transaction that holds the challenge row lock from
its first read to its commit is one action. `complete_issuance` is two, `WriteIssuance` and
`CommitIssuance`: its first statement locks the intent row only, and its second writes the
challenge row without a condition. While it is open, `claim_issuance` skips the row
(SKIP LOCKED) and `fail_expired_issuance` waits for it.

`terminalize_expired` is the first step of five handlers. If it changes the row, the
handler commits that and refuses; so `TerminalizeExpired` is an action, and the five
handlers require `~Lapses`. Work that arrives late expires the challenge by its own
statement (`AcceptWorkLate`), and a lease reading that ends the lease stops the session
(`AcceptWorkStops`).

Abstractions: a Worker's clock reading is any number up to `MaxReading`, with a boot
identifier, so reboots, resets and expired leases all happen; work is a small natural number,
`WorkCeiling` stands for 2^256 - 1; a share is a model value. Pauses and interruptions
are given by the sets `Pauses` and `Interruptions` of an instance. A stored event that is delivered
again is answered from its row without a change (it is a stuttering step). The two
stop reasons that only a data migration writes are left out.

### RelyingService

`redeem` locks the action row first and is one action. The claim transaction is two:
`SweepAttempts` marks lapsed attempts abandoned and holds their rows; `ClaimNothing` or
`ClaimAction` then fails exhausted intents and claims one (`FailAndClaim`). Ending an attempt
is two as well: `EndAttempt` writes and holds the intent row, `CommitAttempt` the
outcome, the account and the attempt row. The two take the rows in opposite order, so they
can deadlock; `DeadlockVictim` is PostgreSQL's way out. The executor's answer is
nondeterministic: success, a final error, or a retryable one.

A DPoP proof is bound to one pass and recorded in the transaction that consumes it, so the
proof table never refuses what `pass_consumptions` would not, and it is left out.

### AcceptedWorkOutbox

The variables from `state` to `settledAt` are columns of accepted_work_outbox, as functions of the event id;
`absent` is a row that does not exist. `stored` is the receipt time in accepted_work_events, `live` the
lease the session holds at the Authority. A worker carries its `ClaimedAcceptedWork` (`claim`) and the
sink's `answer`.

Each SQL statement of the outbox commits by itself, so `deliver_one` is three actions: `ClaimNext`; `Answered` or
`Outage`; `Settle`, `Defer`, `LoseLease` or `SettlementFails`. It reads the clock once, and `claim.now` is the
reading the last statement compares with. `Verdicts` keeps of `accept_work` what decides a delivery: a stored
event is answered from its row, and refused if its receipt time differs; otherwise work of another lease is refused,
and work of the live lease is counted or ends the lease. A transaction may also commit and the answer be lost,
because the notifications and the lifecycle read come after it (`Outage`). A resubmitted frame that meets its row changes nothing and is a
stuttering step. A worker that was restarted has a fresh identifier (`in_process.rs:50`), so it is another worker.

### The serial stack

`SerialChannel`: a record is its kind and size; `WriteChunk` reserves bytes against the credits, `FinishRecord` and `RecordFails` end it, and
`Abort` fails everything behind a record that was given up. The Worker drains chunks in order and answers with cumulative credits,
which may be repeated; `RestartSession` begins a second session over the same channel with credits of the first still on their way.

`SerialReader`: a line is its class (noise, garbled, oversized, bad JSON, bad envelope, the answer to the Hello, a record) and its
length, and any class may come next. `SerialRestart`: `at` is the await the run is suspended in; the
observer's epoch (`boot`, `identity`, `samples`) is forgotten at a reopen. Time is in ticks of the 30-second deadline.

`SerialController`: `tasks` are the admissions and the await each is suspended in, `owners` their port owners with the native
open and the Web Lock, `calls` the exchanges with their queued continuations. `Check` (the answer is matched), the microtask
`Apply` (the continuation of the caller) and a loss or close between the two are separate steps. The Worker of the
repository's serial fixture is the other side of the wire.

### The client side

`HeadlessClient`: one record for each function under way, with the await (`pc`), the Controller's and the Authority's side of it (`ctl`, `auth`)
and the consent generation it captured. The Authority decides, grants and sends events; the Worker's lease
ends by its own clock. The page may call any function at any time, also while a Cancel is pending: the element enables its buttons again, and a page renews by a timer.
The handlers of Authority events overlap each other and the functions, as the transport does not await its listener; the deletion of the stored consent is a
wait of its own (`Cleared`), with the check of the generation after it.

`ClaimantKey`: `mem` is the record of each handle, `disk` the stored one; every store call queues (`queue`) and
takes effect as a transaction (`Transact`), reading the handle's memory when it begins; `bindConsent` alone compares and writes in one. The
continuation of `recordConsent` is `Committed`. The instance `Key` has two handles and two clients, `Store` one of each and no artifact events; `KeySound` says which promise holds in which.

`WorkGate`: a view for each mount, an operation for each async function a button started. The client is abstracted to what the
element sees of it: state, stored consent, generation, listeners, and how often the host was asked to redeem its pass (`asked`). Three instances differ in whether
mounts share a client (`Element`), have one each (`Consent`), or also have no onboarding (`Removal`).

`TrustedConsent`: `requests`, the popup of each tab (`windows`), `messages` in flight and the ceremony rows. Signed Pool Offer sets
are given by what each check of the surface looks at; reward shares are basis points of `Whole`. A verification may fail to begin, and its reservation be lost
before the options are stored (`LeaseLost`).

### Around the Worker

`WorkerAdmission`: `Plan` reads, `Persist` compares and stores, `Effect` acts; between any two of them the Worker reboots, contexts are replaced or
invalidated, and the other slot does the same. A plan carries the marks of *all* keys as they were when it was made, and `Persist` writes them all, while it compares only the
context and the mark of its own key: the mark of another key can be put back (`putBack` collects these keys). `InstallTrust` may retire a key and then removes its mark. `WorkerContinuity`: sweep, read, comparison and deletion are
transactions of their own; the possession response is judged by `Verified` against the transcript of this session.
`DevelopmentAuthority`: every file operation is a step, and a process may fail or be killed before each; `Alone` restricts how many find a dead
process's lock. `BitaxeOnboarding`: every device call fails before or after it acted; a flash moves what ran before into the rollback copy (`saved`), which
a page opened again does not look at. `RestorationPage`: `op` is the operation in flight with
the exchange it awaits; the controller is reduced to the four flags the page can see. `Check` (the controller matches the status) and
`Continue` (the caller goes on) are separate, so a loss falls between them.

## Runs

| Run | Question | Result |
| --- | --- | --- |
| `GateIssuance` | Do two workers, a crash, a takeover, cancellation and expiry ever issue a pass twice, late, or leave the rows at odds, and is an owed pass issued or failed in the end? | no, and yes; also refines `PassGate` |
| `GateAccounting` | Is progress exactly the credited work under duplicates, late and skewed receipts and overflow, and does one crossing create one intent? | yes |
| `GateSessions` | Do leases, stops and replacements follow the matrix, and does every way a challenge ends stop its sessions? | yes |
| `GateExpiryRace` | Does every challenge step follow the matrix? | **no**: expired to pass_issued |
| `RelyingExecution` | Do two workers, a crash, retries, takeovers and deadlocks ever end an action twice, or change a final outcome, and does every accepted redemption reach one? | no, and yes; also refines `ProtectedAction` |
| `RelyingExhaustionRace` | Are all attempts terminal when the outcome is final? | **no**: an attempt stays processing |
| `OutboxDelivery` | Do takeovers, crashes, lost answers, resubmissions and retention ever make the outbox and the Authority disagree about a share, or retries run away? | no |
| `OutboxLiveness` | Is every stored share settled in the end? | yes |
| `SerialStack` | Do channel, reader, restart observer and controller keep their promises under every interleaving, and does everything that waits, of the client too, come to an end? | yes |
| `ClientSide` | Do client, key, element and trusted confirmation keep theirs? | yes, each in the instances its property names; what the others lose is under *Further observations* |
| `WorkerSide` | Do lease admission, continuity, the local authority, onboarding and restoration keep theirs? | yes, with the exceptions the properties state; the authority while at most one command finds a dead process's lock |
| `AuthorityLockRace` | Does the local authority never sign two artifacts with one sequence? | **no**, when two commands find a dead process's lock |

### Parts side by side

The last three passing runs check several components at once. A variable `part` is chosen in the first state and never changes; a step is a step of that
component and leaves the variables of the others as they were in a first state. The reachable states are therefore the disjoint union of those of the components, and a
conjunct about one component says in the union exactly what it says in its own module. Fairness is stated of the steps of the moving component only, so
a component that stands still is not required to move. `ChannelSound` and the like are the conjunctions of the invariants and
action properties that the component's module states and comments one by one. `EveryWaitEnds` says of the state predicate `Waits`, the disjunction of what waits in each component, that it always ceases: because only one component moves and the
records, admissions, runs and calls of an instance are bounded, this is equivalent to each single wait coming to an end.

### What the exceptions are

Several properties name the one way in which the code departs from the stronger statement, and say that there is no other.

- `EffectsSound` and `MarksFallOnlyByOverlap`: two renewals under two trusted keys, planned from one state, pass the comparison one after the other, and the second puts the
  first key's old mark back; the first renewal can then be admitted again. No start is ever acted on twice, only a renewal of the context in use can be lost, and a key nobody put back is safe.
- `ClientSound`: a consent asked for while a Cancel was pending shows the cancelled challenge as ready (`OnlyLateGrantRevives`). Nothing else goes back.
- `KeySound`: with several handles the store need not follow a handle, consents may contradict each other and a deleted key may come back; with one handle and one client none of this happens.
- `GateSound`: onboarding may load a client again and ask for a second redemption, and may finish after the view was removed.
- `ReaderSound` says that envelopes are accepted in rising order; gaps are accepted, as the protocol permits.
- `RestartSound`: boot marker and rising samples are of the new boot. The identity matches, and may have been seen before the marker, because the observer keeps it there.
- `OnboardingSound`: the last whole copy of the settings is overwritten only when a device that lost its running settings, and was never verified, is flashed once more (`LastCopyKept`). Ready means installed for
  `install`; `connect` reports what it inspects.
- `RestorationSound`: page and controller agree between operations while the page is connected; a page comes to show a connection or a lease over a closed controller only by the continuation of a connect or
  a start that was answered before the loss.
- `AuthoritySound`: that a key leaves by retirement only is said of the lease registry, not of the other one.

### Three disagreements

*GateExpiryRace.* `docs/design/v1-lifecycle.md:12` gives `expired` no next state. A worker writes the
intent row just before the deadline; at the deadline another request expires the challenge and commits;
the worker's second statement, `mark_challenge_issued.sql`, has no condition on the state
and makes it `pass_issued`. `GateIssuance` shows that this is the only departure from the matrix
(`OnlyLateCommitRevives`) and that the pass was signed in time.

*RelyingExhaustionRace.* `docs/protocol/bwg-0.1-recovery-matrix.md:17` says that attempts are terminal at
exhaustion. Worker A, whose clock shows the deadline, sweeps attempts (there is none yet);
worker B, whose transaction began one second earlier, claims the intent; A then fails the intent. B's
attempt row stays `processing`: later sweeps look only at attempts of processing intents. The outcome itself is final and correct.

*AuthorityLockRace.* `clearStaleAuthorityLock` (`scripts/worker-development-authority.ts:498`) reads the owner of the lock, finds it dead and later unlinks whatever
lock is there by then. The test at `scripts/worker-development-authority.test.ts:360` is named "concurrent signers never reuse a durable Work Lease sequence".

### Further observations

The modules of the browser parts also state, after the properties that hold, formulas that TLC refutes under weaker assumptions than those of the runs.
They are kept as the reason for those assumptions and exceptions; none of them is a listed run.

| Formula | Where | What happens |
| --- | --- | --- |
| `SerialController!CloseKeepsReason` | `web/worker-serial-controller-runtime.ts:270` | `startLease` sets its flag after a loss has cleaned up; the close of the next admission overwrites the reason of a lease the Worker ended, which the comment at line 465 excludes |
| `HeadlessClient!TerminalMeansRestored` | `web/headless-client.ts:228` | a cancel completes while `start` awaits the grant; the continuation starts the Worker under a terminal challenge |
| `SerialController!PossessionIsCurrent` | `web/worker-serial-controller-runtime.ts:198` | a proof that is verified after its admission was given up is still installed, and the next admission holds the possession of another session |
| `SerialRestart!IdentityIsOfNextBoot` | `web/worker-serial-restart-observer.ts:93` | the boot marker resets the samples and keeps the identity that was seen before it |
| `HeadlessClient!NoRegression` | `web/headless-client.ts:270` | a consent granted while a cancel awaits its answers captures the new generation and reopens the shown challenge |
| `ClaimantKey!OneConsent` | `web/headless-key.ts:112` | `retainThrough` writes the handle's record between the commit of a consent and the handle's update, and erases the consent |
| `ClaimantKey!DeletedStaysDeleted` | `web/headless-key.ts:128` | `clearConsent` stores a key again that another call deleted as expired |
| `WorkGate!RemovedLeavesNothing` with `Onboarding` | `web/bwg-work-gate.ts:227` | a replacement session is installed in a view that was removed meanwhile |
| `WorkGate!RedeemedOnce` with `Onboarding`, or with a client two mounts share | `web/bwg-work-gate.ts:229` | loading the client again resets `redemptionStarted`, and its pass is redeemed again |
| `WorkGate!GrantedIsDurable` without `Patient` | `web/headless-client.ts:208` | the clean-up of an aborted consent erases the record the second press has written |
| `WorkerContinuity!ExpiredIsNotRestored` | `web/worker-continuity-store.ts:61` | a record written with an older clock sample between sweep and read is restored although it has expired |
| `WorkerAdmission!HighWaterGrows` | `web/worker-lease-admission.ts:124` | the plan of a renewal under one key writes back the mark of the other ("Overlap rotation retains independent high-water marks", `docs/adr/0093`) |
| `BitaxeOnboarding!SettingsSurvive` | `web/bitaxe-onboarding.ts:186` | a flash loses the settings, the page is opened again and installs once more: the rollback copy becomes that of the damaged slot ("rollback preserving a bootable partition, settings, and Device Identity", ADR 0036) |
| `BitaxeOnboarding!ReadyIsVerified` | `web/bitaxe-onboarding.ts:130` | a page opened again after an interrupted installation reports the unverified device ready |
| `RestorationPage!EndedReasonKept` | `web/worker-restoration-operations.ts:262` | the lease ends between the status `close` reads and the restore it sends |
| `RestorationPage!LossIsShown` | `web/worker-restoration-operations.ts:123` | a loss between the checked answer and the continuation leaves the page connected over a closed controller |

### Bounds

`MaxClock`, `MaxInsert`, `MaxReading` and `MaxLeases` bound the instances, `WorkCeiling` the
arithmetic. In `GateIssuance` the signing lease (2) is shorter than the challenge (3),
so a lease can expire with time left for a takeover, and `MaxLag` 1 lets a worker claim after the
database deadline. `GateAccounting` has two challenges that share two fingerprints and a
share of 3 units that overflows `WorkCeiling` 3 after one unit. `GateSessions` has three sessions, so a
replacement can be replaced, and two leases per session, so a stale lease identifier
can be presented. In the runs of `RelyingService` there are two attempts, a lease of 2 and
a deadline of 4 or 5, so takeover, retry and both kinds of exhaustion happen; `ShortLived` passes
expire at 1, so late redemptions are refused. `MaxOpen` bounds the time a claim transaction stays open below
the execution lease (30 s in the code): a transaction that outlives the lease it grants is not considered.
In `OutboxDelivery` there are three workers and time for two takeovers of one row, so two stale workers can race an owner;
`MaxLag` 1 lets a claim be older than the row; `Retention` 3 lets a settled row be deleted. `LastPersist` is when the
session's credentials have lapsed. It is below `Retention`, as an assumption of the module: credentials end with the
challenge at the latest, and retention is thirty days at least. One event suffices there because a delivery writes no row
but its own; the order among events and the starvation of one by another are questions of `OutboxLiveness`, which has two.
`LastFault` ends outages in `OutboxLiveness`, and a worker that will stop claims nothing after it; without it a sink that is never
available would refute the property. In `OutboxDelivery` it is `MaxClock`, so faults never end.
Symmetry is used only in runs without liveness, over identifiers that are compared and never ordered.

`SerialStack`: a window of 2 bytes and records of 1 and 3, so that a record needs several credits; five records with a queue of 3; sequence and byte counters that run
out (`SequenceLimit`, `CounterLimit`); two sessions; two admissions, so that a given-up one meets its successor; one call of the client with
one refusal or lost answer (`FailureLimit`). `ClientSide`: two functions of the client at a time, one
refusal or lost answer, two cancels; two handles, a key window of 1 and time 2, so that keys expire; two mounts and two operations of the element; two
confirmation requests of two tabs (`"ceremony"`), or one with a message of another window (`"strays"`). `WorkerSide`: two authority keys, two
sequences each, three signatures and two slots, so that two renewals overlap after a start; one possession context (more keys and contexts are covered by the proofs); two tabs with two admissions over a clock of 3 against retentions of 2 and 3; three commands of
the local authority, so that one is dead, one recovers and one waits; every device and package that admission tells apart, and two reloads.

### Fairness

The workers poll every 250 ms for ever and log every error (`src/bin/gate-authority.rs`,
`src/bin/reference-service.rs`), hence weak fairness of `WorkerStep` for a worker that does not
crash; time passes (`Tick`); and an open transaction ends, by its next statement, by a
deadlock victim or by the loss of its connection (`EndCompletion`, `CloseTransaction`). The delivery loop ticks and logs errors in the same
way (`src/stratum_v1/in_process.rs:88`), so a delivery worker outside `Crashable` is weakly fair. Nothing else
is fair: no claimant, Worker or Pool Adapter is assumed to act.

In the browser: a record of the channel has a two-second deadline, so it ends one way or the other; native opens and
closes settle, as `WorkerSerialPortOwner` waits for them; a Worker without heartbeats ends its lease; the restart run has its 30-second
deadline; store calls, commands and requests of the client settle (the controller bounds its own), and the Worker's lease runs out. The user is never fair.

### Mutants

Each property of a passing run has at least one mutant in `PROJECT.json`, and a conjunction one for its parts: a definition that models code, replaced by
the `Fault:` operator before it, makes the property fail.

## Proofs

`GateAuthority_proofs` proves for every set of challenges, sessions, events, shares and workers, and
every requirement, time-to-live, lag and skew that the assumptions of `GateAuthority` admit:

| Theorem | Statement |
| --- | --- |
| `Invariance` | `Spec => []IInv` |
| `TypeCorrectness` | `Spec => []TypeOK` |
| `LeaseSafety` | `Spec => []LeasedOnlyWhileActive` |
| `IssuanceConsistency` | `Spec => []IssuanceAgrees` |
| `CompletionSoundness` | `Spec => []CompletionSound` (`OneCompletion` and `PassSignedInTime`) |
| `PassPermanence` | `Spec => StoredPassNeverChanges` |
| `ShareUniqueness` | `Spec => []ShareCreditedOnce` |
| `Refinement` | `Spec => ImplementsGate` |

The inductive invariant `IInv` joins the listed invariants with what they need of each other:
a worker between claim and commit has a challenge (`WorkerShape`); a challenge with an intent has met its
requirement and can only be satisfied, issued or expired (`EarnedShape`); a session names its challenge
and stores a lease exactly while it is leased (`SessionsTyped`, `SessionRowShape`).
`EarnedShape` is what makes `IssuanceAgrees` inductive: without it, cancellation or late work might hit a
challenge whose pass is owed. `OneCompletion` is what makes `CommitIssuance` safe although it
tests nothing: the open completion still owns the signing intent, because claims skip its row and
sweeps wait for it. `ShareUniqueness` rests on `CreditedIsOwned`: every credited share is on the ledger.
The proof that a step preserves `IInv` has one lemma per action. `Refinement` shows that each
action maps to a step of `PassGate` or to a stutter, with the stage of a challenge read off
the intent first and the lifecycle state second, so that the late commit of
`GateExpiryRace` is an ordinary grant.

`GateRows_proofs` extends it, from the same assumptions:

| Theorem | Statement |
| --- | --- |
| `Accounting` | `Spec => []ProgressExact` |
| `CreditUnderLease` | `Spec => CreditNeedsLease` |
| `Retention` | `Spec => []RetentionClock` |
| `LateCommit` | `Spec => OnlyLateCommitRevives` |
| `SessionMatrix` | `Spec => SessionStepsAllowed` |
| `SessionSoundness` | `Spec => []SessionsSound` |

`Accounting` adds `AccountShape` to `IInv`: the credited events of a challenge are finitely many, progress is the sum of their credits,
and exactly one event is marked as the creator of an intent. The sum is a fold of the community modules; `CreditSumIs` shows it equal to
`SumOver` of `FiniteSums`. There the sum is the value of a function over all subsets; that one exists, that it is unique and that it may be unfolded at any
element are proved by looking at a smallest counterexample (`WFMin`), which needs no induction schema. `SessionSoundness` adds
`ChainShape`: a session that is not registered replaces nothing. `LateCommit` is the positive side of `GateExpiryRace`: the commit of a pass signed in time is
the only step outside the challenge matrix.

`RelyingService_proofs` proves for every set of actions, passes and workers, every attempt limit, lease and lag that `RelyingAssumption` admits:

| Theorem | Statement |
| --- | --- |
| `Invariance` | `Spec => []IInv` |
| `OutcomeAgreement` | `Spec => []OutcomeAgrees` |
| `AttemptsSoundness` | `Spec => []AttemptsSound` (`OneEnding`, `AttemptsInTurn` and the bound) |
| `Refinement` | `Spec => ImplementsOnce` |

`OneEnding` needs that a worker which still owns its action holds the latest attempt (`WorkerShape`) and that a row held by one sweep is held by no other
(`SweptRows`). The subtle part is `SweptAll`: a sweep that is still open has every attempt that had lapsed at its reading, although other workers claim meanwhile. It holds because a claim
transaction is shorter than the lease it grants, which is why `RelyingAssumption` bounds `MaxOpen`.

`AcceptedWorkOutbox_proofs` proves for every set of events and workers, and every lease, backoff, retention and lag
that `OutboxAssumption` admits:

| Theorem | Statement |
| --- | --- |
| `Invariance` | `Spec => []IInv` |
| `TypeCorrectness` | `Spec => []TypeOK` |
| `SettlementSoundness` | `Spec => []SettlementSound` (`SettlementCheck`, `SettlementAgrees`, `AnswersAgree`) |
| `TakeoverAfterLapse` | `Spec => []TakenOverOnlyAfterLapse` |
| `BoundedRetries` | `Spec => []RetriesBounded` (`AttemptsPaced`, `BackoffBounded`) |
| `NoSecondStorage` | `Spec => CountedNeverStoredAgain` |

`SettlementAgrees` alone is not inductive, because of the workers that still carry an answer. The invariant adds that a
claim holds the first observation of its row (`ClaimsMatch`), that a stored event has the receipt time of its row
(`StoredMatch`), and that an answer on its way back agrees with what the Authority has stored (`WorkersAgree`). A refusal stays true because leases
are never granted twice: an unstored event whose lease has ended, or whose refusal ended it, can never be stored afterwards
(`LeasesIssued`). That is why a late refusal of a worker that lost its row contradicts nobody. `Holding` relates the lease columns to the claims and gives the takeover
theorem. `NoSecondStorage` is where `LastPersist < Retention` is needed.

`WorkerAdmission_proofs` proves for every set of keys, leases and slots, and every bound that `AdmissionAssumption` admits:

| Theorem | Statement |
| --- | --- |
| `TypeCorrectness` | `Spec => []TypeOK` |
| `EffectsSoundness` | `Spec => []EffectsSound` (`EffectOnce`, `DurableBeforeEffect` and `StartOnce`) |
| `StartsActOnce` | `Spec => []StartInv`, which holds `StartOnce` |
| `MarksFallByOverlapAlone` | `Spec => MarksFallOnlyByOverlap` |
| `ContextsServeOneLease` | `Spec => []OneLeasePerContext` |

`EffectOnce` is not inductive: two slots may hold plans made from one state. `IInv` adds that a plan still to be stored is above the mark of its own key that it was made from (`PlansAreNew`), that the marks
it carries were stored once (`MarksWereStored`), and, for a key nobody put back, that a stored
plan is at or below the mark and has not been acted on (`CommittedIsStored`) and that two stored plans differ in key or sequence
(`CommittedAreDistinct`), which is what the comparison in `Persist` is for. `StartInv` shows that starts need no mark: a committed start has not acted and is committed in one place
(`StartsAreNew`), because the context it was planned in had no lease and has one afterwards. `MarksInv` shows what can be lost: a plan that still fits the context would put back only the mark of a renewal of that context
(`LostAreRenewals`), since a start stored meanwhile changes the context and the plan no longer fits. Another invariant, `ContextInv`, follows the possession context: bindings in use were
established (`BindingsAreUsed`), a context's lease is that of its admissions (`ContextIsOfLease`), it was started (`LeaseWasStarted`), and a plan fits the
context it expects (`PlansFit`).

`SerialStack_proofs` proves for every bound that the assumptions of `MCSerialStack` admit (the bounds are natural numbers, records and chunks have at least one byte):

| Theorem | Statement |
| --- | --- |
| `ChannelSoundness` | `Spec => ChannelSound` |
| `ReaderSoundness` | `Spec => []ReaderSound` |
| `RestartSoundness` | `Spec => []RestartSound` |
| `ControllerSoundness` | `Spec => []ControllerSound` |

`ChannelInv` is what the window needs: bytes sent are drained or on the way, acknowledged bytes were drained, and unacknowledged ones fit the window (`CountShape`, a sum
over the wire, by `FiniteSums`). That an accepted credit counts drained bytes of *this* session follows from `InboxShape`: frames arrive in the order of their sessions, so behind the answer to the Hello there is nothing
of an earlier one. `PhaseShape` says how far the session is: before the Worker hears, the wire holds the Hello at most. `WriteShape` says that a record with nothing left to write is on
the wire or consumed, so that no bytes on the way means consumed; `TailShape` says which chunk may follow the end of the wire.
`ReaderInv` keeps, beside the counters, that the last heartbeat was accepted (`HeartbeatShape`) and that accepted sequences stay below the last one.
`RestartInv` joins the phases of run, observer and controller (`RestartPhases`) with the lines behind each conclusion (`RestartEvidence`: the boot, the rising samples after it, the identity, the
statistics; the identity line may stand before the boot marker); it is needed because the observer keeps flags and counters, and the property speaks of the lines.
`ControlInv`: the lock and the owners (`LockShape`), generation and stage of every admission (`TaskShape`), the session in which the controller speaks (`SessionShape`), the exchanges
and their continuations (`CallShape`), at most one record on the wire of a session (`WireShape`), proofs made in the session they were asked for (`ProofShape`), and answers that stay true until
they are applied (`LeaseShape`). `KnowsItsLease` needs the last: a continuation that says "idle" is applied a microtask after the answer, and no start can come between, since requests
are sent one at a time.

`WorkerSide_proofs` proves `OnboardingSoundness`, `WorkerSpec => OnboardingSound`, for every set of devices and packages that `DeviceAssumption` and `PackageAssumption` admit and every
`ReloadLimit`. `OnboardingInv` follows the device through its lineage: what runs, what would be rolled back to and what was found descend from one device, and the copy holds whole settings if the running
slot does (`DeviceShape`); a page in an early step still sees the device it inspected, and from the flash on it cannot repeat (`PageShape`); each step has what the steps before it established
(`StepShape`). The step property `LastCopyKept` follows from these and from `CopyAgrees`: while no write is unverified, the running slot holds whole settings if the copy does. A flash
is the only step that changes the copy, so it loses the last whole one only on an unverified device whose running settings are gone already (`CopyLostByReflash`); a rollback runs the copy.

Only model-checked: the liveness properties (`EarnedIsSettled`, `AcceptedIsSettled`, `EveryShareSettled`, `EveryWaitEnds`), which this prover does not reach;
`ContinuitySound`, `AuthoritySound` and `RestorationSound` of `WorkerSide`; and `ClientSound`, `KeySound`, `GateSound` and `ConsentSound` of `ClientSide`. The properties of the three runs that expect a violation
are false. The proofs made three definitions disjoint whose `CASE` arms overlapped (`Handle` of `SerialController`, `Rejected` of `HeadlessClient`, `Begin` of
`TrustedConsent`): TLC takes the first arm that holds, TLA+ takes any.

## Not modelled

Signatures, encodings, HTTP routing and authentication: the models take verified requests as inputs.
Claimant proofs of the issuance and outcome lookups. Lookups, which change nothing but those proofs.
Material offer replacement, Stratum sessions, claimant leases at the Authority, governance and timers are planned. Of the browser, the acceptance and soak pages,
the commands of the second controller protocol and the rendering of the element are left out, as are build scripts, fixtures and the conformance pages.

## Plan

1. `StratumSession`: the session transcript, the credential registry and the extranonce reservation, with persistence before
   acknowledgement; then `AcceptedWorkOutbox` composed with `GateAuthority` in place of its `Verdicts`: a share
   that was stored is credited or refused once.
2. `ClaimantLease`: start, resume, renew and `grant_or_release`, with the authorisation sequence, composed with `WorkerAdmission`.
3. `OfferReplacement`: equivalent and material replacement.
4. `Governance`: retention plan and apply against the Authority's and the Relying Service's aggregates.
5. Composition of `HeadlessClient` with `SerialController`, each of which abstracts the other now.
6. Proofs: `ContinuitySound`, `AuthoritySound` (while one command finds a dead process's lock) and `RestorationSound` in
   `WorkerSide_proofs`; then the conjuncts of `KeySound` and `ClientSound` of the client side.

# A TLA+ verification of Rime

Rime is a treasury for Zcash held by a group of signers under a FROST threshold
(2 of 3 in the shipped configuration). A signer proposes a payment, signers
approve or reject it in a browser or with a CLI, and once a quorum has approved
the server runs the signing tools and sends the transaction. A signer whose
device is lost can be rebuilt by the others.

This directory holds TLA+ modules for the parts of Rime where order, failure and
concurrency decide correctness, TLC configurations that check them on small
instances, and TLAPS proofs of the safety properties for every instance.

Source paths below are relative to the repository. `PROJECT.json` maps every
definition to the lines it models, and lists runs, mutants, hazards and theorems.

## 1. The system

| component | source | state it keeps | operations |
|---|---|---|---|
| Signer registry | `rime-server/src/main.rs`, `schema.sql` | `signers.status` per signer | `signer_by_token`, `mark_lost`, the last write of a repair |
| Signer seeding | `main.rs` `seed_signers`, `config.rs` | the `signers` rows | at boot: upsert from the config, delete the rest |
| Payment workflow | `main.rs` | `requests`, `approvals`, `audit_log`; one spawned task per quorum | `create_request`, `decide`, `spawn_ceremony` and its task |
| Signing pipeline | `pipeline.rs` | files per request, subprocesses | PCZT create, SIGHASH, FROST ceremony, prove, combine, send |
| Signer recovery | `main.rs`, `recovery.rs` | one spawned task per repair | `mark_lost`, `repair_signer` and its task |
| rime-repair | `rime-repair/src/main.rs` | frost-client configs (`key_package`, `public_key_package`), a temporary file beside each | `repair`, `refresh` |
| Live events and tickets | `main.rs`, `frontend/src/lib/api.ts`, `web/app.js` | `sse_tickets`, a broadcast channel of 256; one `EventSource` per subscription | `sse_ticket`, `sse_events`, `subscribeEvents` / `connectSSE` |
| Balance cache | `balance.rs` | one cached balance with its time | `get` |
| Read handlers | `main.rs` | none | `treasury`, `list_requests`, `audit`, `signers`, `health` |
| rime-signer | `rime-signer/src/main.rs` | ids already announced | `watch`, `pending`, `approve`, `reject` |
| Dashboard engine | `frontend/src/hooks/use-rime-state.ts`, `lib/` | requests, signers, own decisions, ceremony and recovery overlays, revival timers, one memoised value | poll, SSE events, optimistic decide / lost / repair, create |
| Fallback dashboard | `web/app.js` | the same engine, and the HTML rendered last | the same, each handler with the render calls it makes |
| Dashboard components | `frontend/src/components` | none beyond animation | what a screen shows, which buttons it offers |
| Scripts, notifications | `scripts/`, `notify.rs` | files of the bring-up | one-time setup, fire and forget |

**How they interact.** All handlers and spawned tasks of the server share one
SQLite connection behind one mutex. A handler holds it for one or more *lock
sections*; between two sections, and while a task awaits a subprocess, anything
else may run. `decide` spawns the ceremony task, `repair_signer` the recovery
task; both drive subprocesses. The recovery's tools rewrite the very config
files that the ceremony's participants read. Every step emits an event to the
broadcast channel; dashboards combine those with polls of the tables. A
dashboard reads with one signer's token (its own on a device, the first
configured signer's on the desktop): polls, the ticket for the stream, and so
everything it learns, depend on that signer not being lost. The React front end
and `app.js` are ports of one engine.

**What is hard.** Approvals race with each other, flip, and arrive after the
quorum. Decisions change between the count that starts a ceremony and the
gather that selects its approvers. The process may die between any two
statements; SQLite keeps the rows, nothing resumes the tasks, and a subprocess
outlives the server. A send can succeed and report an error. Two recoveries can
overlap, on files that are each rewritten in several steps. A dashboard shows
decisions before the server has them, gets answers to polls out of order, loses
events when its stream is down or it lags, takes an answer for lost that the
server acted on, and guesses which signer a recovery event is about. The ticket
it awaits may arrive after the subscription it was for is closed.

**What makes each component correct.**

* Registry: enough signers stay able to authenticate (`ThresholdKept`).
* Payment workflow: one ceremony per request (`SingleFire`), one payment and only
  after a gathered quorum (`FundsMoveOnce`), an honest status (`BroadcastIsPaid`),
  final statuses that stay (`FinalStays`), no stranded or silently decided request
  (`NotStranded`, `PendingIsUndecided`), and an end (`CeremonyEnds`).
* Recovery: any quorum of the signers who can authenticate signs, unless a refresh
  is under way or broke off (`AnyQuorumSigns`), and the group's secret stays on file
  even then (`SecretOnFile`); shares rotate together (`RotatedTogether`), a lost share
  is dead when its signer is back (`OldSharesAreDead`), files are whole
  (`NoHalfWrittenConfig`), and a recovery ends (`RecoveryEnds`). That a refresh which
  broke off can be made good (`NotFrozen`) is false of the code: section 5.
* Live events: one stream however subscriptions follow each other (`OneStream`),
  events in order and once (`HandledInOrder`), the newest never lost to lag
  (`NewestIsHandled`), and a stream that comes back (`StreamComesBack`).
* Dashboards: an answer shown is the server's (`AnswersAreRecorded`), one call per
  card (`OneCallPerCard`), a strip that goes forward (`StripNeverRewinds`) and says
  only what happened (`StripIsTrue`), only
  buttons an up to date screen would offer (`OfferedIsAllowed`), a React port that
  shows what `app.js` would, but for a memoised ceremony that is never ahead of it
  (`PortFollows`), and screens that come to show what is true
  (`FeedSettles`, `StripCatchesUp`, `LossIsShown`, `ScreenCatchesUp`).

## 2. The modules

```
Group ──┬── SignerRegistry ──┬── Payments ── MCPayments
        │                    │      └ implements PaymentLifecycle
        ├── ShareStore ──────┴── Recovery ── MCRecovery
        │                           └ implements SignerRegistry
        └────────┬── Backend ── Session ── Screens ──┬── Dashboard ───┬── Port ── MCDashboard
Feed ────────────┘                                   └── WebScreens ──┤
  └ implemented by EventStream                                        └── WebApp ── MCWebApp
```

| module | models |
|---|---|
| `Group` | the signers and the threshold, with the assumption on them |
| `SignerRegistry` | the `signers` table; on its own, what recovery promises about it |
| `PaymentLifecycle` | abstract: a request is authorised under a standing quorum, once, and paid at most once |
| `Payments` | the workflow server with tasks, crashes and failing statements |
| `ShareStore` | `rime-repair` on the config files, one system call that matters per step |
| `Recovery` | the server side of a recovery, composed with the registry and the store |
| `Feed` | abstract: the event stream of one dashboard, up or down, with a bounded inbox |
| `EventStream` | tickets, EventSources, retries and subscriptions; implements `Feed` |
| `Backend` | the server as a dashboard meets it: rows, votes, statuses, events |
| `Session` | the engine the two front ends share, its calls and polls in flight, and `Backend` |
| `Screens` | the React components as functions of the engine |
| `Dashboard` | the React front end: clicks, renders, the memoised `activeCeremony` |
| `WebScreens` | the render functions of `app.js`, as functions of the engine |
| `WebApp` | `app.js`: the same engine, and what was rendered last (it does not use `Dashboard`) |
| `Port` | what React shows against what `app.js` would draw from the same state |
| `MC...` | symmetry sets and starting situations for TLC |
| `..._proofs` | the theorems; `Session_proofs` has those of both front ends and instantiates `SignerRegistry_proofs` and `PaymentLifecycle`, `Recovery_proofs` extends `SignerRegistry_proofs`, `Port_proofs` extends `Port` and `Dashboard_proofs` |

Definitions whose comment begins with "Mutant of" are plausible bugs: each is a
variant of the definition that follows it and is used in no specification. They
show that a property can fail: with the definition replaced by its mutant, TLC
finds the property violated.

### Payments

One lock section is one action. `decide` (one section, `main.rs:305-356`) is
`DecideApprove` and `DecideReject`: the replacing INSERT, the count, the guarded
UPDATE and, if this call made the transition, the spawn. `DecideErrs` is the same
handler leaving through `?` at a statement after the INSERT. `CrashInDecide` is
the process dying between its statements, each of which commits by itself.

The task is `Gather` / `GatherFails`, then `PipelineFails` or `StartSend`, then
`SendAccepted` or `SendRefused`, then `Settle` (or `SettleUnwritten`, when the
error of the UPDATE is dropped by `.ok()`). `ceremony[r][s]` is the phase of the
task that signer `s`'s decision on request `r` fired; a correct server has one per
request, and the variable has room for more so that this can be checked.
`Gather` selects `ORDER BY created_at LIMIT 2` with ties left open, as SQL leaves
them; `created_at` has the resolution of a second (`clock`). The literal 2 of
that LIMIT and of `pipeline::run`'s guard is `Quorum`, as is `QUORUM`.

`SendAccepted` is the network's acceptance: afterwards the tool may still report
an error, and it happens even when the server is down, if the server died while
the tool ran (`orphan`). `moved` counts acceptances; it is the model's only view
of the chain.

`LoseSigner` and `RestoreSigner` change who may act while requests are open;
`RestoreSigner` is a whole recovery in one step, of which `Recovery` is the detail.

A request refers to a signer in the registry only through tokens, and the
signers' configured ids are those of the table (seeding makes them so), so
`cfg.signer_by_id` drops nobody.

### ShareStore and Recovery

A share is a point on a polynomial that hides the group secret. `refresh` adds
a random polynomial with a zero secret to every share. Shares that had the same
refreshes interpolate to the secret; shares that had different ones do not, but
for a chance the field makes negligible. So a key package is *named by the set of
refreshes applied to it* (`Generation`), and a public key package alike; the
verification at `rime-repair/src/main.rs:151-158` succeeds exactly if all helpers'
shares have the generation of the first helper's public package.

`rime-repair` runs are processes with a program counter: read each key package,
read the public package, then per field load the document, open (truncate) the
temporary file, write, rename. The temporary file has one name per config, and
an open descriptor follows its file through another process's rename (`fd`).
`ToolDies` kills the process at any of these points.

A crash of the server ends its tasks (`gone`) but not their tools. The UPDATE that
makes a repaired signer active may fail when `Faults`: its error is dropped
(`main.rs:699`) and `recovery.done` is reported all the same.

`Overlap = FALSE` stands for operators who ask for a repair only when no other
recovery's task or tool runs; the server does not enforce it. `Overlap = TRUE`
is what the server allows.

### EventStream

A subscription is one call of `subscribeEvents` (`app.js` makes one and never
closes it); `Remount` is the effect's cleanup followed by its next run, which
React may do at any time. `pc[s]` walks through `connect`: the ticket asked for,
answered or refused, the `EventSource` opening, open or broken, the retry timer.
The guard on `closed` after each await is in `OpenSource`, `RetryTicket`,
`Reconnect` and `OnError`. A ticket is redeemed once, expires, and is not checked
against its signer again: a stream outlives the loss of its reader. `Push` is
tokio's broadcast channel: a lagging reader loses the oldest event, and the
`filter_map` of `sse_events` drops the report of it.

`TheFeed` maps it to `Feed`: `live` is an open source of the latest subscription,
`inbox` its queue. `Session` is built on `Feed`.

### Session, Dashboard and WebApp

`Session` has the state of `use-rime-state.ts` field by field (`requests`,
`signers`, `decisions`, `ceremonies`, `activeCeremonyId`, `recovery`, with
`reviveUntil` as the Boolean `reviving` that a timer in `timers` ends), plus what
is on the network: `calls` (a POST is sent, answered `ok` or `refused`, then
taken by its caller) and `answers` (lists the server has read and the dashboard
has not). A handler is split at its `await`: `EnterDecision` is `decide` up to it,
`DecisionTaken` and `DecisionFailed` what follows. `LoseCall` loses the request or
the answer, which its caller cannot tell apart; `TakeRequests` takes answers in
any order. `HandleEvent` is `onmessage` with `onCeremonyEvent` and
`onRecoveryEvent`, including the guess of the signer an event is about
(`Candidate`).

`Dashboard` adds the clicks, with a button's presence on the screen as guard, and
the render: everything a component reads is the committed engine, but for
`activeCeremony`, which `useMemo` keeps until its dependencies change; the
overlay map among them is changed in place and never looks changed. `WebApp`
adds `phones`, the HTML of the screens: each handler ends in `Render` or
`Keep` according to the render calls it makes, and clicks act on `phones`.
`Port` puts the two side by side on one state: what React has on its screen, the
memoised `activeCeremony` passed to `Screens`, and what `WebScreens` draws, whose
strip and ceremony panels come from the overlay as it is. Between two request lists
React may be behind there; `PortFollows` says in which way and in nothing else.
(`lib/rime.ts:1-2` calls its own helpers byte-faithful to `app.js`; of the
components nothing is claimed.)

What the two leave out, and why it does not matter to the properties:

* `Backend` has the handlers of `Payments`, `SignerRegistry` and `Recovery` again,
  coarser (a ceremony is its events and its outcome), without crashes, and with a
  database that takes every write. That it is the same server where the two
  overlap is proved through the abstract specifications both implement (section 4).
* One recovery at a time: two at once are `Recovery`'s subject.
* A signer answers on one screen only; the same signer on two screens would make
  `AnswersAreRecorded` false by its second answer, which no dashboard denies.
* A POST reaches the server before its caller gives up on it, or not at all. One
  that were served later still could overwrite the signer's next answer; that a
  closed connection delivers nothing more is an assumption.
* `scheduleRefresh` and the polls' intervals: polls may come at any time, which
  includes the times they do.
* The texts of events, steps and failures: whether there is one is kept.

## 3. The runs

| run | shows | instance |
|---|---|---|
| `payments_request` | types, safety and the end of one request with losses, repairs, tool failures and a crash; the workflow implements `PaymentLifecycle` | 3 signers, threshold 2, 3 seconds, 1 crash |
| `payments_pair` | two requests interleaved while statements fail: single fire, one payment, final statuses, threshold kept, the same implementation | 2 requests, 3 signers, no crash, one second, symmetry of signers and requests |
| `payments_lost_daemon` | **violation**: a lost signer's daemon takes part in a ceremony | 1 request |
| `recovery_sequential` | two recoveries in sequence with tools killed and the server crashed anywhere | 3 signers, threshold 2, 2 jobs |
| `recovery_frozen` | **violation**: a refresh killed after its first write leaves nobody who can sign and nothing that can be repaired | 2 jobs, symmetry of jobs |
| `recovery_overlap` | **violation**: two successful repairs at once leave no two shares that sign together | 2 jobs, no fault |
| `recovery_half_written` | **violation**: two tools on one temporary file put a half-written config in place | 2 jobs, no fault |
| `event_stream` | one stream, events in order, the newest handled, the stream comes back, `Feed` implemented | 3 subscriptions, channel of 2, 4 events, 3 faults |
| `dashboard` | the React front end against polls, events, clicks, lost calls and other devices: answers, calls, and a strip that never goes back nor says what did not happen; against what `app.js` would draw | 3 signers, 1 request, desktop and device |
| `dashboard_stuck_recovery` | **violation**: a missed `recovery.done` leaves an active signer's device in "Recovery in progress" | a device, 2 operations, 1 fault |
| `webapp` | `app.js` in the same situations: its buttons, its staleness | as `dashboard` |
| `webapp_reader_lost` | **violation**: the desktop never shows the loss of the signer whose token it polls with | the desktop, 1 loss |

**Bounds and why they suffice.** Three signers with threshold two is the shipped
group, and the smallest where a third approval can come late and a threshold can
survive one loss. `MaxClock = 2` gives each of three approvals its own second,
which is all that `ORDER BY` can tell apart. One crash is enough to lose the task
and to leave an orphan; further crashes find no task to lose, because a task of a
request is started once. (The theorems hold for any number.) Requests interact
through the signers table, so two suffice to find interference; they also share
the fate of the process, which `payments_request` crashes for one request; a crash
together with failing statements, and any number of either, is left to the theorems.
Two jobs are the least that can overlap, and in sequence they let
the second recovery meet the mixed files an interrupted first one left. No
state constraint is used; every bound is a constant that a guard names.

The dashboards run from a set of starting situations (`Mixed`, `Device`, `Loss`):
which screen, which request is already there, and a budget of operations (here
or on other devices), network failures, and answers to polls of one list on
their way at once. Two operations are what it takes for them to race, two polls
to overtake each other, one failure to lose a call's answer, the stream or a
poll; the situations pair them so that each pair meets. `Cap = 2` stands for the
channel's 256: what counts is that the oldest of several is dropped and the
newest stays. The ceremony reports its last two steps, those around which the
strip is finished; the order table has all eleven. In `event_stream` four events
through a channel of two overflow it twice over, three subscriptions let one
ticket be awaited across two cleanups, and three faults lose a ticket, a
connection and the reader's token in one run.

`SecretOnFile` speaks of files: a threshold of configs, those of lost signers among
them, holds shares of one polynomial, so that the treasury's key is not gone. Who
may use them is another question, which `AnyQuorumSigns` answers while no refresh
broke off and `recovery_frozen` when one did. Under an interrupted refresh
`SecretOnFile` uses that a split of the shares in two leaves a threshold of them
alike. With the threshold of two that the server has (`QUORUM`) any group of three
or more has that. A group in which half the signers is less than the threshold
(3 of 4, say) would not: `SecretOnFileAlone` names the condition.

**Fairness.** `Payments!FairSpec`: weak fairness of every ceremony task's step
(the runtime schedules its tasks; the tools it waits for end) and of `Boot`. The
code has a timeout for `zcash-sign`'s output only (`pipeline.rs:91`), so that the
other tools end is an assumption, not something the code provides. Nobody is
assumed to decide, to create a request or to report a loss.
`Recovery!FairSpec`: weak fairness of each job's task and tool. Symmetry is used
only in runs without liveness, and never over signers where the tools go through
configs in order. `EventStream!FairSpec`: the browser runs promises, timers and
events, the server answers. `Dashboard!FairSpec` and `WebApp!FairSpec`: the same,
polls are made and answered (the intervals of the engine), calls are answered
unless a failure of the budget hits them, and the server's tasks run. Nobody is
made to click. Their liveness properties assume that the reader's token works
from some time on (`<>[]TokenWorks(ReadToken)`), for without it a dashboard gets
no answer; `webapp_reader_lost` is what happens then.

**Deadlock** is checked in the payment and recovery runs, where decisions can be
repeated and losses reported for ever. The dashboards and the stream may really
stop, once every budget is used, nothing is on its way and nobody clicks:
their configurations say so.

## 4. What is proved

All theorems hold for every finite set of signers and every threshold that
`GroupAssumption` allows, and for any value of the bounds. `PROJECT.json` lists
them with the property each states.

**Registry** (`SignerRegistry_proofs`): `RegistryThreshold`, the registry by itself
keeps a threshold able to authenticate.

**Payments** (`Payments_proofs`, from `PaymentsAssumption`): types, `FiresOnceAlways`,
`MovesOnceAlways`, `BroadcastIsPaidAlways`, `NeverStranded`,
`PendingIsUndecidedAlways`, `ThresholdAlways`, the action property
`FinalStaysAlways`, and the refinement `LifecycleImplemented`.
None of the invariants is inductive by itself: `FundsMoveOnce`
needs to know that no second task can send, which needs to know that a task
exists only while the status is `quorum` or `signing`, which is what forbids the
unguarded UPDATEs to reopen a request. `IInv` says this per request (`RowInv`):
`Idle` (before the quorum nothing has been fired or paid), `PhaseFits` (the phase
of a task fixes the status, the gathered approvers and the count of payments),
`FiresOnce`, `PaidOnce`, `Served`, `Undecided`. An action touches one request: a
lemma per handler (`ApproveRow`, `GatherRow`, `TaskRow`, ...) shows `RowInv` for
it, and `OtherRows` says that the rest is as it was. The refinement maps a status
to a stage and a request's approvals to its backers; `LifecycleStep` has one step
per action, and needs `IInv` exactly where the code is unguarded: `Settle` closes
an authorised request only because `PhaseFits` says it is one.

**Recovery** (`Recovery_proofs`, from `StoreAssumption`). Whatever overlaps:
`RecoveryTypes`, `RegistryKept`, that recovery drives the table as
`SignerRegistry` allows, and so `RecoveryKeepsThreshold`, which the refinement
carries over from `RegistryThreshold`. When one recovery runs at a time
(`~Overlap`), with any number of recoveries in sequence, killed tools and crashes:
`NoHalfWrittenConfigAlone`, `RefreshStartsFromOnePolynomial`, `SecretOnFileAlone` (for
at least twice the threshold less one signers), `OldSharesAreDeadAlone`,
`RotatedTogetherAlone`, `AnyQuorumSignsAlone`, and `DoneKeepsTreasuryAlone`: recoveries
that all report done leave a threshold of signers who can authenticate and sign for
the address, for a group of any size. What a refresh that broke off leaves is not in
`AnyQuorumSignsAlone`, nor could it be (`recovery_frozen`). The two violations with
overlap show that the condition is needed; of `DoneKeepsTreasury` and
`NoHalfWrittenConfig` each is violated with it and proved without. The invariants
build on each other:

* `AloneInv`: at most one flow is busy, its signer is lost, and the temporary file
  holds the edited document from the write to the rename.
* `Progress`: per flow, how far the files and the key packages read have come
  (`Rotated` says which configs a refresh has written).
* `SharesInv`: at most two generations in all configs, one before a refresh; of two
  values one is held by a threshold (`EnoughOf` and the sum of cardinalities).
* `DeadInv`: what a refresh adds is on no lost device of a signer who is, or is
  about to be, active.
* `AgreeInv`: while no refresh broke off, all configs hold one polynomial except
  between the first and the last write of a refresh.
* `CleanInv`: while no recovery broke off, public packages keep up with the shares.

**Event stream** (`EventStream_proofs`): types, `OneStreamAlways`, the order of
events, and `StreamImplementsFeed`. `StreamInv` adds to `OneStream` that a
subscription to come has not begun and that only an open stream has events;
`OrderInv` says that the latest one's queue holds increasing event numbers, greater
than what was handled and at most what was published.

**Dashboards** (`Session_proofs`, `Dashboard_proofs`, `WebApp_proofs`, `Port_proofs`,
from `BackendAssumption`, `BudgetsAssumption`, `OthersAssumption` and
`StepsAssumption`). `SessionSpec` is the engine with its calls, polls, stream and
server, and any screen that clicks only what it may: the part of the front ends that
they share. `DashboardIsSession` and `WebAppIsSession` say that each front end
implements it, so what is proved of a session holds of both. For React it is
direct, a button being shown exactly when the engine allows it. For `app.js`, where
a click acts on old HTML, it needs `OfferedAlways`: every handler that takes a
button away renders.

*The composition.* A session is built on two simplifications, `Feed` for the
stream and `Backend` for the server; each is tied to its detail through an abstract
specification that both implement:

| interface | the detail | the dashboards' side |
|---|---|---|
| `Feed` | `StreamImplementsFeed` | `SessionUsesFeed`: a step moves the feed once at most, with an event of a known kind |
| `SignerRegistry` | `RegistryKept` | `SessionKeepsRegistry`, and from it `SessionKeepsThreshold` |
| `PaymentLifecycle` | `LifecycleImplemented` | `SessionKeepsLifecycle`; `SessionImplementsLifecycle` when the session starts without payments |

`SessionKeepsLifecycle` reads a payment as sent once "confirmed" is reported; a
session may start from a request under way, which is why the
initial condition is a theorem of its own.

*Answers.* `AnswersRecordedAlways`, `WebAnswersRecorded` and `OneCallAlways` follow from
`SessionAnswers`. Its `AnswerInv` says that an open card is one without an answer
(`OnlyShown`), so a call is the only one for its card (`OneCall`) and its vote is the
one shown while it stands (`CallStands`), and an answer without a call was recorded
(`Recorded`).

*Types.* `SessionTyped` is inductive on top of `AnswerInv`: that a rollback or a
late answer leaves the engine in its type depends on what calls there may be.
It also types the events on their way. From it come `DashboardTypes` (with
`StripInv` for the memoised value), `WebAppTypes` (with a phone
on the screen for exactly the signers of `OnScreen`).

*The port.* `PortFollowsAlways` has two parts. The two ways of drawing a queue, a
meter, a cascade and a panel agree on one state; that needs what the polled signers
can hold (`Listed`). And the memoised value is behind the overlay on the same
request (`StripInv`), or nothing was memoised and there is no ceremony (`NoStrip`),
so that the strip drawn from it is behind the one drawn from the overlay
(`StripBehind`).

*The strip.* `StripNeverGoesBack`: `StripInv` orders the memoised value below the
overlay it was computed from. `StripTellsTruth` and `WebStripTellsTruth`: what the
strip says has happened on the server. An event may be read long after it was
published, after others were lost, and after a poll has shown more; the strip is
still right because of `SessionTellsTruth`. Its `TruthInv` says that every event on
its way and every overlay is true of the server as it is now (`Happened`,
`OverlayIsTrue`), and the server takes nothing back that an event has told
(`NothingUndone`). `OverlayMoves` is the recurring step: overlays change with the
event read only. "Complete" is shown from the step "broadcast" on, which
`pipeline.rs:158` reports before it sends: what is proved is that the send was
reached, and a failure reported after it replaces "Complete" by "Failed". A database
that drops the task's write of the status (`main.rs:442` and `461` end in `.ok()`)
is left to `Payments`; a strip would then be ahead of the row.

**Only model-checked.** Liveness (`CeremonyEnds`, `RecoveryEnds`, `NewestIsHandled`,
`StreamComesBack`, `FeedSettles`, `StripCatchesUp`, `LossIsShown`,
`ScreenCatchesUp`): it rests on fairness and ENABLED, which are beyond the prover.
Every invariant, action property and refinement that a passing run checks is a
theorem. What happens when recoveries overlap is shown by the violating runs alone.

## 5. What the runs found

1. `payments_lost_daemon`: `recovery.rs:3-4` says that a lost signer's "daemon is
   out of the group". Approvals are counted and gathered without regard to the
   signer's status, so a quorum completed after the loss starts the lost
   signer's participant.
2. `recovery_frozen`: "Lose a device and the remaining signers regenerate its share"
   (`README.md:38-39`). `refresh` rewrites the configs one after the other
   (`rime-repair/src/main.rs:207`). Killed after the first key package, it leaves two
   active signers with shares of different generations: they cannot sign together,
   every later repair of the third fails its verification
   (`rime-repair/src/main.rs:156`), and no other signer can be marked lost. The
   secret is still on file (`SecretOnFile`), but nobody can use it through the server.
3. `recovery_overlap`: nothing records that a repair is under way. Two requests
   for the same signer start two `rime-repair`s; both can report success while
   the three configs end with three generations of shares.
4. `recovery_half_written`: the temporary file's name is fixed per config, so the
   atomic replacement of `rime-repair/src/main.rs:268` holds for one process only.
5. `dashboard_stuck_recovery`: "When recovery finishes you'll be able to approve
   again" (`device-view.tsx:114`). Only a `recovery.done` event finishes the
   overlay; a device that missed it stays on "Recovery in progress" until a reload,
   though its polls say that the signer is active.
6. `webapp_reader_lost`: "poll shows it" (`app.js:337`). The desktop polls with the
   first signer's token; when that signer is lost the poll is refused, the last
   known list stays, and the phone keeps its buttons.

## 6. Not modelled, and why

* **Inside the pipeline** (`pipeline.rs`): its outcomes and progress events are
  modelled. The steps are external tools (`frost-client`, `frostd`, `zcash-sign`,
  `zcash-devtool`), of which the code sees exit codes; what two ceremonies on one
  `frostd`, or a participant that never answers, lead to depends on programs that
  are not in the repository.
* **Signer seeding**: runs once, before the server listens, on a file an operator
  edits. `BackendInit` and `RegistryInit` are what it leaves of a config that was
  not edited.
* **Balance cache, treasury, audit list**: displayed as they arrive; no other
  state reads them. Simultaneous readers of an expired balance may each start a
  wallet read, which costs time only.
* **rime-signer**: decides through the handlers of `Payments`; the ids it has
  announced are its own.
* **Read-only handlers, notifications, toasts, styles, animation, the connection
  indicator, scroll positions**: no state the system reads.
* **Amounts and addresses**: parsed and formatted in `lib/rime.ts` and `app.js`;
  a form is either valid and submitted or not, and nothing else depends on them.
* **Scripts**: one-time setup by an operator.
* **The cryptography**: a share is the set of refreshes it has had (section 2);
  the algebra behind that is taken from FROST.

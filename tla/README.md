# A TLA+ model of the quota window activator

The plugin watches the quota windows of the credentials of a CLIProxyAPI host.
When a window's reset time has passed and the provider still reports the old or
an idle ("lazy") window, it sends one tiny paid request to start the next window,
and afterwards verifies that the window rolled. The promise that matters most to
the account owner is that **no cycle of a window is ever paid for twice**, across
crashes, lost answers, reloads and a quota API that may report anything. This
directory models the code that keeps that promise, checks it with TLC on small
instances, and proves the core of it with TLAPS for all instances.

Paths below are relative to `src/`.

## 1. The system

| part | state | operations | talks to |
|---|---|---|---|
| Controller (`core/controller.go`) | none of its own but a mutex | `Tick`, `Recover`, `BlockCredential` | store, adapter, sender |
| Data and decisions (`core/model.go`, pure parts of the controller) | `WindowRecord`, `ProbeAttempt`, cycle ledger | what one observation does to one record | - |
| Store (`core/store.go`, `store_replace_*.go`) | memory, snapshot file, WAL | `NewStore`, `Update`, `Snapshot` | file system |
| Adapters (`adapters/codex`, `adapters/antigravity`) | none | `ReadQuota`, `CanActivate`, `PlanActivation`, `VerifyActivation` | provider, through the host |
| Registry and sender (`adapters/registry.go`) | set of adapters | `Match`, `Send` | host client |
| Host client (`host/cpa/client.go`) | none | list, get, `host.http.do`, log | host |
| Runtime (`cmd/plugin/runtime.go`) | one loop, its context, `done` | `Start`, `Stop`, `runOnce`, `nextDelay` | controller, host client |
| ABI (`cmd/plugin/abi.go`) | `globalRuntime` | register/reconfigure, quiesce, shutdown | runtime |
| Configuration, management page, JSON helpers | none | pure decoding and rendering | - |
| Claude, Gemini CLI, Kimi, xAI adapters | none | observation only, not registered | - |

The loop of the runtime lists credentials and, one goroutine per credential, calls
`Recover` and then `Tick`. `Controller.mu` makes those calls exclude each other.
`Tick` retires the windows of a replaced identity, reads the quota, reconciles
every observed window in one `Store.Update`, and runs each activation group that
came out lazy: a second read if needed (precheck), the plan, an Update that stores
the attempt as *Prepared*, an Update that makes it *Sending* and fences its cycles
in the ledger, the request, an Update with its outcome, a short wait, and the
verification. `Recover` forgets Prepared attempts and verifies the others without
ever sending.

What is hard here, and what makes each part correct:

* *Controller*: the process may die, a context may end, a read or a send may fail
  between any two of those Updates, and the next call starts from whatever is
  stored. Correct: the fence precedes the request and is never lifted; an attempt
  is forgotten only if nothing was sent; a verdict never comes early and always
  comes; only windows that were read as lazy, twice when first seen, are sent for.
* *Decisions*: reset times jitter and slide ahead of the clock, one tolerance
  decides "rolled", "same" and "ambiguous", and a record's baseline moves
  independently of the attempt that was made on it. Correct: the baseline follows
  provider windows, one cycle per provider window.
* *Store*: an append may be cut, a sync or a rename may fail, sequence numbers are
  reused after a failure. Correct: a restart finds what was acknowledged.
* *Lifecycle*: a new runtime is built while the old loop still works; stopping may
  time out. Correct: one loop at a time, which knows every fence.
* *Scheduler*: one goroutine per credential, few slots, one mutex, a request
  timeout that runs while a check queues, host calls without a context. Correct:
  every run ends, the loop sleeps past no deadline and does not spin, a timeout of
  the stated size is never spent in the queue, and how many host calls `Stop` waits
  for does not grow with the credentials.
* *Host client*: `host.http.do` runs on a goroutine that outlives its context: a
  request may leave after `Send` returned an error, after `Stop`, and under the
  next runtime. Correct: whoever runs by then knows its fence.
* *Adapters*: fields of an answer may be missing, a length decides whether a window
  is activated at all. Correct: only windows of the right kind reach a request.

`PROJECT.json` lists these hazards one by one, each at its line.

## 2. Modules

| module | models | uses |
|---|---|---|
| `QuotaModel` | data of `model.go`; one observation applied to one record | - |
| `QuotaController` | `Tick`, `Recover`, `BlockCredential`; crash, cancellation, reload | `QuotaModel`, `SendFence` |
| `SendFence` | the abstract promise: fence fresh cycles, then at most one request | - |
| `ProviderAdapters` | `ReadQuota`, `CanActivate`, `VerifyActivation` of Codex and Antigravity | - |
| `MCQuotaController` | raw answers of the providers for TLC | `QuotaController`, `ProviderAdapters` |
| `QuotaController_proofs` | theorems about the fence and the sends | TLAPS |
| `QuotaAttempts_proofs` | theorems about attempts | the former |
| `QuotaRecords_proofs` | theorems about window records | the former |
| `QuotaWindows_proofs` | theorems about groups, the ledger and identities | the former |
| `ProviderAdapters_proofs` | theorems about the adapters' verdicts under the controller | the former, `ProviderAdapters` |
| `StateStore` | `Update`, `persist`, `load` over a WAL and a snapshot | `DurableState` |
| `DurableState` | the abstract promise: a restart finds the acknowledged state or one in doubt | - |
| `MCStateStore` | file systems for TLC | `StateStore` |
| `StateStore_proofs` | theorems about the files and what a restart finds | TLAPS |
| `PluginLifecycle` | lifecycle calls against the background loops and late requests | - |
| `MCPluginLifecycle` | symmetry for TLC | `PluginLifecycle` |
| `PluginLifecycle_proofs` | theorems about `PluginLifecycle` | TLAPS |
| `Scheduler` | the background loop: checks, slots, mutex, timers, `Stop` | - |
| `MCScheduler` | a history of what woke the loop | `Scheduler` |
| `Scheduler_proofs` | theorems about the loop and the size of its timeout | TLAPS |

The modules meet in what they promise each other. `QuotaController` takes an Update
for one atomic and durable step, which `StateStore` shows with `DurableState`, and
itself for the only controller of its store, which `PluginLifecycle` is about. Its
calls come in any order, so `Scheduler` may take a turn of the controller for an
interval of bounded length at whose end some deadlines have changed.

### QuotaModel and QuotaController

`windows`, `attempts`, `ledger` are the three maps of `PersistentState`; a key
that is not in a map has the value `NoWindow` or `NoAttempt`. A cycle id, a hash in
the code, is the pair of key and reset time it is the hash of. `pc` and `call` are
the program counter and the locals of the one call that holds `Controller.mu`.
Every `Store.Update` is one action; between two actions `Elapse`, a crash (`Abort`)
and the failure of the pending read or send can happen.

| code | actions |
|---|---|
| `Tick` until the read | `Tick`, `MarkCredentialState`, `ReadFailed` |
| `reconcileObservation` | `Reconcile` (`Reconciled`, `Resight`, `FirstSight` per record) |
| `runGroup` | `NextGroup`, `Precheck`, `GroupFailed`, `DryRunReport`, `Prepare`, `Fence`, `Send` |
| outcome, wait, verification | `MarkFailed`, `MarkAccepted`, `WaitDone`, `WaitCancelled`, `Verify`, `VerifyReadFailed` |
| `Recover` | `Recover`, `RecoverPrepared`, `RecoverInFlight` |
| return, errors, crash | `Done`, `Abort` |
| reload with another `dry_run` | `Reconfigure` |

Abstractions: texts, `Latest`, `LastProbe` and `ActivationDisabled` are never read
to decide and are left out; `LastActivation` is only compared with zero. Groups and
attempts are taken in any order, the code sorts them; a window without a group is
a group of its own (`SameGroup`). The calls of the runtime may
come in any order, which includes the code's. `AuthID` and `AuthIndex` of a
credential are taken to correspond one to one. `RetryCount` stops where it no
longer changes the delay. A usage is a natural number; the code only asks whether
it is zero.

`sent` and `resent` are history variables: the cycles requests were issued for.
`call.born` and `call.prechecked` are history too.

### ProviderAdapters

A raw window is a record of the fields a parser looks at, each of which may be
missing. `CodexWindow` and `AntigravityWindow` are the parsers' loops: defaults for
a length that is left out, a reset that is absolute or relative to the read, the
lazy hint, and the verdict of `CanActivate`. Codex names a window by its length too,
so the verdict is one of the bucket; Antigravity does not, so a window may be
capable in one read and not in the next. `Observations` is `normalizeWindows`: an
answer with a window that has no usage, or with two windows of one bucket, is no
observation at all and the Tick fails (`Abort`, `GroupFailed`).

### StateStore

A state is its sequence number and which Update wrote it. The WAL is the list of
lines that decode, and what stands after the last newline: a line that was cut and
the line appended next become one that does not decode. `fs` says what may happen
to an append (cut by a crash, cut by an error after which the process goes on) and
whether replacing the snapshot may take two renames (Windows).

### PluginLifecycle

Of the state only the ledger is kept: on `disk`, and in the `memory` of each
runtime's store. `request` is the lifecycle call in progress and where it is in
`Stop`; `loop`, `ended`, `armed` are the background loops, their contexts and the
request each is about to send. A loop may fence whatever its memory takes for
unfenced: a coarse view of `QuotaController`, and enough for the question asked.
A cancelled loop may go on, since neither the Updates nor `host.http.do` look at
the context before they act. `client.do` starts a goroutine for the host call and
stops waiting for it when the context ends: `Send` hands the cycle to `flying`, and
`Depart` lets its request leave at any later moment of the process. `UpdateFails` is
an Update that reported an error: memory keeps its value, the file has the old state
or the new one.

External assumptions: the host makes one lifecycle call at a time; after the
shutdown function it registers the plugin only in a new process. `orderly` is the
assumption that the host quiesces the plugin before it reconfigures it; both
values are explored.

### Scheduler

| code (`cmd/plugin/runtime.go`) | actions |
|---|---|
| loop, `nextDelay` | `List`, `ListFails`, `Started`, `EndRun`, `Wake`, `End` |
| `runOnce`, a goroutine per credential | `Launch`, `TakeSlot`, `LeaveSlots`, `GetReturns`, `LogReturns` |
| `Controller.mu` around `Recover`, `Tick`, `BlockCredential` | `Lock`, `LockFirst`, `EndTurn` |
| `Stop` | `Cancel` |
| time | `Elapse` |

A *turn* is one of those three calls of the controller. Its end leaves the deadline
of its credential as it was (an error before any Update) or sets a new one. Time
goes by in seconds, the least delay of `nextDelay`, and only when nothing can be
done at once; each wait has a timer that counts down, so no clock needs a bound.
`sync.Mutex` is modelled with its hand-off: a newcomer may take a free mutex before
the first who waits, but the waiter that lost it so is handed it next.

`host.auth.list`, `host.auth.get` and `host.log` take no context. `ListTime` and
`GetTime` bound the first two, `LogTime` the log entries of one place: of the loop
while it starts the goroutines (a credential without an adapter is logged between
two of them), of a check between `Recover` and `Tick`, and of a check at its end.
The loop and the checks wait in these calls, also after `Stop`. `turnTime`, chosen
from `TurnTimes`, is the longest turn while its context lives; a turn whose
context has ended returns at once, because its reads and waits look at it (a Store
Update in progress takes no time here). The request context starts with the slot
and covers `host.auth.get`, the queue, `Recover`, the logging after it and `Tick`.

After `Stop` a check that waits for a slot may still take a free one, since the
`select` may choose either case, and then calls `host.auth.get`. So `Stop` during a
slow list is followed by what is left of the list, the log entries of the loop, a
get, and the log entries of that check. `StopWaitsForHostCalls` says that this is the
worst case; with the default 5 s of `Stop` it is the host's latencies that decide
whether `Stop` returns an error.

## 3. Runs

Each passing run explores its whole state space. Each property has a faulty
variant of a definition of the model, kept next to it and marked as such, under
which TLC finds the property violated.

| run | instance | question |
|---|---|---|
| `ctl_codex` | 1 window, 2 attempts, 5 ticks, Codex | fence, attempts, recovery, alarms, dry-run, baselines over more than one cycle; implements `SendFence` |
| `ctl_group` | 2 windows sharing a request, 2 ticks, Antigravity | partial groups: precheck, plan, fence |
| `ctl_identities` | 1 window seen under 2 identities, 3 ticks, Antigravity | replaced credentials, spacing of requests, baselines |
| `ctl_live` | Codex's main and code review windows, 2 attempts, 3 ticks, fairness | every attempt in flight is verified; only the main window is fenced |
| `store` | 3 updates, 4 WAL lines | restart finds the acknowledged state; implements `DurableState` |
| `lifecycle` | 3 runtimes, 2 cycles | one loop at a time; orderly reloads lose no fence, also with failed Updates and requests that leave late |
| `scheduler` | 3 credentials, 2 slots, 1 mutex | every run ends; no deadline slept through; timeouts, queue and `Stop` |
| `bug_*` | | the divergences of section 5 |

Bounds, and why they are enough. `MaxTime` ends the clock: with a window of length
3 and reset times 2 and 5 the five ticks of `ctl_codex` see a first window, its
expiry, a lazy period, the request and the roll, and an attempt on the next cycle;
`Prepare` is not taken when the clock could not reach the verification.
`AttemptIds` bounds attempts: two let an attempt meet the leftovers of another.
`ctl_group` needs only two ticks because both buckets may be first seen lazy,
expired or waiting, in all combinations. Its `LazyTolerance` is 0 and its reset
times lie on both sides of one skew, so "same", "rolled", "ambiguous" and "lazy"
all occur in both windows independently; the weekly one may also be given a length
that is not activated, or none. In `ctl_live` the code review window, which ends at 2,
may come and go beside the main one, so that it is seen waiting, expired and absent
at each point of the main window's request. The lengths `FiveHours`, `SevenDays` and
`LongestPlan` are small and different. The delays of `ctl_codex` are all positive
and differ, so that every deadline is seen before and after it passes; the wider
instances set those that do not matter to their question to zero. The store's
three updates are one acknowledged, one failed and one that reuses its sequence.
Runtimes: three are an old, a new and a dropped one. `scheduler` has one
credential more than slots, so that one waits for a slot while the others hold or
want the mutex; its `RequestTimeout` of 9 is the least above `LongestRequest`
(1 + 1 + 2 * 3 * 1). Both bounds are reached: there are states with one second left
of a request timeout, and with the loop ending as late after `Stop` as is allowed.
With four credentials (5.2 million states) or with turns of one or two seconds (1.2
million) the safety properties hold as well, and so do the theorems for all values.
The attempt ids, update
contents, runtimes and cycles are interchangeable, hence the symmetry; the
liveness run uses none.

Fairness (`ctl_live`). Weak fairness of `Step`: Go runs the goroutine that holds
the mutex. Weak fairness of `Elapse`: the clock runs. Strong fairness of
`Recover(inst)`: the loop calls it on every run as long as the credential is
listed. Strong fairness of taking up an attempt and of its verification read: if
the process gets there again and again it is not killed, cancelled or refused by
the provider every time. The last is an assumption about the world; without it an
attempt rightly stays in flight. Nothing is assumed of the wait before the
verification: cut off again and again, it is over one day when `Recover` comes.

Fairness (`scheduler`). Weak fairness of `Run`: as long as the plugin can do
something, or time can pass, one of them happens. It is fairness of the system as a
whole, not of a credential: goroutines run, timers fire, the host's callbacks return
within their bounds, and a turn ends when its context does. `Stop` is not part of it.

`CHECK_DEADLOCK FALSE` in `scheduler`, `bug_spin`: a loop that was stopped is over.

## 4. Proofs

All proofs are checked by TLAPS to the last leaf, for any sets of credentials,
identities, buckets, attempts and cycles, any configuration that satisfies
`ConfigAssumption`, any observations and any adapter verdict, except where a theorem
names an adapter or assumes `VerdictsRoll`.

*`QuotaController_proofs`.* The invariant `IInv` is `TypeOK /\ CallOK /\ FenceOK`.
`TypeOK` alone is not inductive, and `AtMostOneSendPerCycle` is not either: a
second send could come from any state. `CallOK` says the call is well formed where
it stands (it has a group of at least one window where it plans, and an attempt
with cycles from `prepared` on). `FenceOK` is the argument: what was sent is in
the ledger; the attempt about to be fenced has cycles outside the ledger, because
`Prepare` looked and the mutex keeps everybody else out; the attempt about to be
sent has cycles inside the ledger that were not sent. So `Send` adds fresh cycles,
and `Fence` is the step `Arm` of `SendFence`.

* `InvariantHolds`: `Spec => []IInv`
* `TypeCorrect`: `Spec => []TypeOK`
* `NoCycleSentTwice`: `Spec => []AtMostOneSendPerCycle`
* `ImplementsSendFence`: `Spec => FenceBeforeSend`

The proofs use that an Update is atomic and durable, which is what
`StateStore_proofs` is about, and that one controller works on the store, which is
the question of `PluginLifecycle_proofs`.

*`QuotaAttempts_proofs`.* What a step may never do to an attempt follows from where
the call in progress stands. `AttemptOK` says so, on top of `IInv`: the attempt of
the call is in the phase that belongs to its place (`PhaseOK`), no attempt was
created in the future and no wait ends before `VerifyNotBefore` (`TimeOK`), and
between `Prepare` and the send the controller is not in dry-run (`DryRunOK`), since
it is replaced only between calls. `ModeOK` says that only `Recover` visits
attempts; without it a cancelled `Tick` could meet an attempt of unknown outcome.
`PhaseSteps` then lists every way a step changes an attempt.

* `AttemptsInvariant`: `Spec => [](IInv /\ AttemptOK /\ ModeOK)`
* `NoSendInDryRun`: `Spec => DryRunSendsNothing`
* `NoEarlyVerdict`: `Spec => VerifiesNotBefore`
* `AttemptsMoveForward`: `Spec => AttemptMovesForward`

*`QuotaRecords_proofs`.* `RecordSteps` lists all a step does to one record: nothing,
one of the rewritings of `QuotaModel`, the mark of `Prepare` or that of the fence;
and how its baseline moves: not at all, with a window later by more than the skew
(`Rolls`), to a first or slid one that carried no send (`Begins`), or on the
adapter's verdict (`Confirms`). `RecordsOK` follows, with the two facts it needs: a
forgotten attempt leaves nothing behind, and only stored records have carried a
send.

* `AlarmsHold`: `Spec => []WakesAtReset`
* `NamesLiveAttempts`: `Spec => []NoDanglingAttempt`
* `BaselinesMoveOnVerdict`: `Spec => BaselineMovesOnVerdict`, for any adapter
* `BaselinesRoll`: `ASSUME VerdictsRoll PROVE Spec => BaselineOnlyRolls`

`VerdictsRoll` says that, of the windows the provider may show, the adapter only
confirms those later by more than the clock skew. Antigravity's rule does so of any
window (`ProviderAdapters_proofs`); the usage rule of Codex does not, and finding 3
is what follows.

*`QuotaWindows_proofs`.* The mutex makes what a call saw earlier in its course still
true later: from its observation on a Tick writes no record but those of the group
it runs (`OnlyGroupTouched`). So `GroupInv` can say, of the groups that wait, that
they are disjoint and as eligible as when they were collected (`TodoOK`); of the
group being run, what its precheck and plan rely on (`RunningOK`); that every
window with a fenced cycle is marked as activated, so that it is never migrated to
a slid baseline (`LedgerOK`); and that the windows of identities the Tick replaced
stay off (`ReplacedOK`). `OwnersOK` adds which attempts own which fenced cycles
(only the fence takes an attempt beyond Prepared, and its cycles are new to the
ledger), `SpacingOK` how fenced cycles and baselines of a window are ordered.

* `PlansLazyWindows`: `Spec => []PlansOnlyLazyWindows`
* `PlansClearOfFence`: `Spec => []PlanNeverMeetsFence`
* `SendsAfterSecondRead`: `Spec => []NoSendOnOneObservation`
* `SendsForCurrentIdentity`: `Spec => []OnlyCurrentIdentitySends`
* `FencedOnce`: `Spec => []OneAttemptPerFencedCycle`
* `SendsAreSpaced`: `ASSUME VerdictsRoll PROVE Spec => []SpacedSends`

*`ProviderAdapters_proofs`.* The two adapters under the controller. What
`CanActivate` said of an observed window is used much later: `CapableOK` follows it
from the state of the record through the groups of the call and the cycles of
stored attempts to the fence, and `TogetherOK` follows the group in the same way.
Each place is needed, because a later call may continue from any of them. For the
parsers, `CodexParsed` and `AntigravityParsed` show that every answer, whatever its
fields, is an observation the controller's proofs allow (`ObserveAssumption`).

* `CapabilityBoundsFences`: `Spec => []FencesOnlyActivatable`
* `AttemptsHoldOneGroup`: `Spec => []OneGroupPerAttempt`
* `CodexFencesMain`: only main windows of five hours or of weekly to monthly plans
  are planned for and fenced
* `CodexBaselinesMove`: with Codex, the baseline of a window that carried a send
  moves to a later window or, confirmed, from some usage to none
* `AntigravityPlansOneGroup`: what is planned has one group, one with a model
* `AntigravitySendsSpaced`: `Spec => []SpacedSends /\ BaselineOnlyRolls`

The hypotheses `CodexReads`, `CodexJudges`, `AntigravityReads` and
`AntigravityJudges` say which adapter the constants stand for. The theorems
about spacing and baselines assume `Skew <= RollTolerance`, which always holds in the
plugin: both are two minutes and neither can be configured (`core/controller.go:30`,
55-56; `adapters/codex/adapter.go:106`, `adapters/antigravity/adapter.go:150`).
The runs do not repeat `AttemptsHoldOneGroup`, which needs windows of two groups that
can both be activated. There is no theorem about the spacing of requests with Codex:
finding 3 is a counterexample, and `CodexBaselinesMove` says what is left.

*`PluginLifecycle_proofs`.* `IInv` ties the loop that may run to the call in
progress (`OldLoop`): `Stop` is told about the one loop there may be, and `Start`
comes only when none runs. From the load to the start of an orderly reload no loop
runs, so what was loaded knows every request made, the ones still with the host
included, and so does the file (`Knows`, `Fresh`). A failed Update may add a fence
to the file or restore the runtime's own state; neither loses a fence of the only
loop there is.

* `LifecycleTypes`: `Spec => []TypeOK`
* `NoTwoLoops`: `Spec => []OneLoopAtATime`
* `OrderlyReloads`: `Spec => []OrderlyReloadsNeverResend`

*`Scheduler_proofs`.* `TypeOK` contains who may hold and who may queue for the
mutex and the bound on slots. `LoopOK`: checks live only in a run, a sleep was
computed after the last of them ended, and only time changes deadlines during it.
`SpentOK`: host calls and turns keep their bounds. `StopOK` orders what may be waited
for after the cancellation: time passes only in host calls (`OnlyHostCallsLeft`),
the loop does not list again, and the time since is covered by the calls a check has
behind it when it comes to its place (`Before`) and what its present one has taken.

* `SchedulerTypes`: `Spec => []TypeOK`
* `WakesInTime`: `Spec => []NoDeadlineSleptThrough`
* `StopIsBounded`: `Spec => []StopWaitsForHostCalls`: the loop ends within
  `ListTime + GetTime + 3 * LogTime` of `Stop`

The second half of the module is about the request timeout. Each check that waits
has time left for the turn in progress, for a turn and an overtaking of everybody
before it in the queue, for its own turn, and, if a second turn follows, for the
logging between and for the same again (`Budget`). The queue is never longer than
the slots allow, which is where the cardinalities come in.

* `TimeoutsSpareTheQueue`: `Spec => []QueueingNeverTimesOut`

So a `request_timeout` above `GetTime + LogTime + 2 * (2 * max_concurrency - 1) * turn`
is enough, whatever the number of credentials, where a turn includes `verify_delay`.

*`StateStore_proofs`.* `load` is a fold over the lines of the WAL, so what it finds
is proved by induction over the lines: a principle for the numbers up to the length
(`InductionUpTo`, from the well-foundedness of `<` on the naturals), applied to the
recursive function in the fold. `ScanProperties` says what `load` returns,
`ScanFindsLast` when it returns the last line. The promise itself is not inductive;
`IInv` adds three parts. `SequencesOK`: the files are at most one sequence ahead of
the process, and what is ahead of the acknowledged state is in doubt. `TailOK`: a
broken end of the WAL was left by a crash, and the next append, which loses its own
line and an unterminated one before it, loses nothing the new process relied on.
`NextOK`: from the append on no line gets ahead of the state being persisted, and
its line is there as long as the snapshot may be missing.

* `ScanProperties`: what `load` finds, for a WAL of any length
* `StoreTypes`: `Spec => []TypeOK`, on every file system
* `RestartsFindAcknowledged`: `ASSUME SoundCuts PROVE Spec => []RestartFindsAcknowledged`
* `SequencesGrow`: `ASSUME SoundCuts PROVE Spec => AcknowledgedSequenceGrows`
* `ImplementsDurableState`: `ASSUME SoundCuts PROVE Spec => KeepsDurableState`

`SoundCuts`: no append is cut by an error after which the process goes on, and where
replacing the snapshot takes two renames no append is cut at all. It holds of the
instance of the run `store`. Finding 2, and the case of Windows at the end of section
5, are what happens on the other file systems, so neither half of it can be dropped.

Only model-checked: liveness (`InFlightSettles`, `RunsEnd`), since fairness involves
`ENABLED`, which is out of the prover's reach. Every other property of a passing run
is stated by a theorem.

## 5. What the model found

Each is a run named `bug_*` with one property, which quotes the promise it breaks.

1. `bug_reload`: `handleMethod` loads the state (`cmd/plugin/abi.go:142`) before it
   stops the old loop (`abi.go:149-153`). A fence written in between is unknown to
   the new controller, whose next Update overwrites the file without it; the cycle
   can be sent for again. Loading after `Stop`, or a host that quiesces first,
   removes it (`OrderlyReloads`).
2. `bug_full_disk`: a WAL line of a failed Update can have the sequence of a later
   acknowledged snapshot, and `load` prefers the line (`core/store.go:94`, `>=`).
   It takes a failed sync, a cut append and a WAL that cannot be removed.
   Comparing with `>` removes it.
3. `bug_usage_reset`: Codex's verdict "usage went to zero"
   (`adapters/codex/adapter.go:109`) confirms without a later reset time. If the
   reported reset time has moved within the tolerance, the new baseline is a fresh
   cycle of the same provider window, and a second request follows. It takes an idle
   window whose end stands still, which nothing in the code excludes.
4. `bug_normal_reset`: a window whose request was verified too early is closed by
   the next Tick as `normal_reset`, "window rolled without activation"
   (`core/controller.go:195-197`).
5. `bug_spin`: `nextDelay` (`cmd/plugin/runtime.go:83`) takes a deadline that has
   passed for one in a second. Nothing moves the deadline of a credential whose
   Tick does not get to an Update: one the host no longer lists, one that
   `host.auth.get` fails for, or one with an incomplete window in its answer. All
   credentials are then read every second instead of once per interval.
Also met, not run:

* The comment at `controller.go:96-98` says a baseline must come from an earlier
  observation before a call can authorize a request; since 0.2.2 one call may take
  the baseline, precheck and send (`README.md:54` describes that, and
  `NoSendOnOneObservation` checks it).
* On Windows `replaceFile` may move the snapshot aside before it moves the new one in
  (`core/store_replace_windows.go:20`), and `load` never reads what was moved aside.
  The WAL line of the Update covers the gap, unless an earlier crash left the WAL
  without its last newline: then that line and the new one make one that does not
  decode, and a crash between the two renames leaves neither. The restart finds the
  empty state, and with it no fence. TLC shows it with the instance of `store` and
  `Filesystems = {[cuts |-> {"crash"}, moveAside |-> TRUE]}`; the second half of
  `SoundCuts` excludes it.

## 6. Not modelled

* JSON, credentials and fingerprints: an answer is the fields the parsers look at,
  an identity one of `Prints`. The construction of requests: what matters here is
  that planning may fail. Which base URL of Antigravity answers.
* The C buffers of the ABI, the decoding of the configuration, the management page
  and the observation-only adapters: pure or without state.
* Two lifecycle calls at once: nothing in the repository tells whether the host
  makes them; `PluginLifecycle` assumes it does not.
* Sizes: 16 MB WAL lines, attempts and ledger entries that are never pruned.
* The temporary file of the store: nothing reads it.
* The length of a Store Update, which `Scheduler` takes for an instant; the panic of
  a goroutine.

## 7. What is left

* `QuotaController` composed with `StateStore`, so that an Update that failed and is
  durable all the same meets a whole Tick. `PluginLifecycle` has it for the ledger;
  in the full model the product of the two state spaces is too large to be checked.
* More than two windows in one Tick: the proofs cover them, the runs do not.
* Safety halves of the two liveness properties, such as a measure that the steps of
  a run of the scheduler decrease: they would leave only fairness to TLC.

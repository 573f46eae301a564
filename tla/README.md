# Formal models of siyuan-homepage

TLA+ models, model-checking configurations and machine-checked proofs for the
parts of siyuan-homepage (a home page, notification and agent plugin for the
SiYuan note application, written in TypeScript and Svelte) whose correctness
depends on the order in which things happen: asynchronous queues, several
windows on one data directory, failing writes, restarts, clocks.

Paths below are relative to `src/`, the repository; its code is in `src/src/`.

- [1 The system](#1-the-system)
- [2 Modules and plan](#2-modules-and-plan)
- [3 MobilePlans](#3-mobileplans)
- [4 AutomationRuns](#4-automationruns)
- [5 BackgroundScheduler](#5-backgroundscheduler)
- [6 HomepageMcp and WriteApprovals](#6-homepagemcp-and-writeapprovals)
- [7 NotificationDelivery and RuleScan](#7-notificationdelivery-and-rulescan)
- [8 RobotTurns](#8-robotturns)
- [9 Entitlement](#9-entitlement)
- [10 Findings](#10-findings)
- [11 Proofs](#11-proofs)
- [12 Not modelled](#12-not-modelled)
- [13 Running the checks](#13-running-the-checks)

## 1 The system

One plugin instance runs per SiYuan window (desktop, browser tab, mobile app);
a kernel-side part (`src/kernel`) runs inside the SiYuan server. They share
JSON files in the plugin's storage, `navigator.locks` within one browser
profile, DOM events within one window, and RPC between window and kernel.
There is no test suite in the repository; `docs/agent/*.md` state what the
parts promise.

| Component | State | Operations | Hard behaviour | Correct when |
|---|---|---|---|---|
| mobile plans (`features/notification-center/notification-center-mobile-plan-*`) | plan file per device, OS notifications, request flags, refresh timer, delivery history | reconcile, rebuild, revoke on loss of membership, clear, add / replace / drop a plan | every step can fail after its effect; clearing runs past the queue; the membership changes under way | each reminder is armed exactly once, never lost by a replacement, removed when unwanted, and always findable for cancelling |
| delivery (`notification-center-service.ts`, `-history-store.ts`) | per-target history by year, index, session dedupe, last external send | notify, notify external, record, list | check and record under a per-occurrence lock, index shared by years, rate limit read before an await | one delivery per occurrence and target; history and index agree |
| rules (`notification-rule-*`, `notification-scan-scheduler.ts`) | last scan, enabled rules | scan a window of time, occurrences, mobile plans of rules | a failing rule holds the window back; sleep | every occurrence is announced once, none is skipped |
| settings (`notification-center-settings-store.ts`) | one file | load, save, events | read-modify-write | saved values are those in use |
| background runtime (`features/background-runtime`) | task table, timer, pump | register, signal, stop, wake, run | signals during a run, cancelling a running task, concurrency two | a signal is followed by a run; no task runs twice at once; the timer is set when it must be |
| automation (`features/agent-platform/automation`) | jobs, job states, run ledger, checkpoints | scan, claim, execute, deliver, close, recover, run now, edit | two windows, crash between any two of five writes, retries, stale scans | one run at a time, each slot once, answers once, nothing stuck |
| MCP server (`src/kernel/mcp-server`) | fields of the controller, operation queue, permission to write, pending confirmations, capabilities at the host | enable, disable, switch writing, register, confirm, write | permission withdrawn while operations wait, rollback of a half registration, data read between check and use | no write after revocation, without its confirmation or on other data; the host has what the controller says |
| entitlement (`features/entitlement`, `src/index.ts`, `components/tools/advanced.ts`) | license file, snapshot, queue of writes, mark of withdrawal, timers, runtimes started | check, recover, synchronise, activate, deactivate, start and stop the runtimes | writes that go on after their time-out, checks that are joined, an account switched between two awaits, a start that waits across a loss | features follow the license of the current account; no late write overwrites a newer license |
| async queues (`utils/async`) | pending value, waiters | enqueue, drain | values arriving during a drain | the last value is processed, every waiter is released |
| kernel runtime (`src/kernel`) | key-value stores, dedupe file | set up, restore, persist | restart | marks survive it |
| robot assistant (`features/robot-assistant`) | lanes of messages, processed marks, turns and their counters, pending confirmations, sessions | receive, confirm, cancel, take a turn, time out | messages repeated in two lanes, confirmation racing a timeout, slots handed from turn to turn | a message acts once, turns of a chat exclude each other, what is written was approved, no turn waits for ever |
| agent loop (`features/kb/services`) | turn journal, checkpoints, tool dispatch, sessions | ask, dispatch, resume, persist | crash between a tool's effect and its record | no repeated side effect on resume |
| task data and notifiers (`features/task-data`, `*-notify`) | indexes and settings | list, evaluate, announce | caches, catch-up windows | the business data decide what is announced |
| home page and widgets (`src/homepage`, `src/components`) | layout and widget settings | edit, render, device views | debounced saves per device | the last edit is saved |
| other features (favourites, calendar, habits, quick note, charts, countdown) | one data file each | edit, list | none beyond the file | data survive |
| build (`scripts`) | none | build, check | none | not a run-time part |

How they interact: business modules register *providers* with the mobile plans
and *tasks* with the background scheduler; entitlement events start and stop
the runtimes (`src/index.ts`); automation uses the agent loop to execute,
conversations or the robot to deliver, and the notification center's lock to
exclude other windows; notification runtimes signal the plan queue.

`PROJECT.json` lists the components, and under "hazards" each place where the
code is hard to test, with the properties that cover it.

## 2 Modules and plan

| Order | Module | State |
|---|---|---|
| 1 | `MobilePlans`, `MCMobilePlans`, `MobilePlansProofs` | modelled, checked, proved |
| 2 | `AutomationRuns`, which implements `JobLedger`; `MCAutomationRuns`, `AutomationRunsProofs` | modelled, checked, proved (`AnswerOnce` for one window, for which it holds), the refinement included |
| 3 | `BackgroundScheduler`, `MCBackgroundScheduler`, `BackgroundSchedulerProofs` | modelled, checked, proved |
| 4 | `HomepageMcp`, which implements `WriteApprovals`; `MCHomepageMcp`, `HomepageMcpProofs` | modelled, checked, proved, the refinement included |
| 5 | `NotificationDelivery` and `RuleScan`, which composes several windows' scans with it; `MCRuleScan`, `NotificationDeliveryProofs`, `RuleScanProofs` | modelled, checked, proved |
| 6 | `RobotTurns`, with the deduplication of the kernel; `MCRobotTurns`, `RobotTurnsProofs` | modelled, checked, proved |
| 7 | `LatestWinsQueue`: pending value, drain, waiters | planned |
| 8 | `Entitlement`, with the runtimes it starts and stops; `MCEntitlement`, `EntitlementProofs` | modelled, checked, proved |
| 9 | `TurnJournal`: tool dispatch, in-flight journal, resume | planned |
| 10 | session store, shared local storage, device views | planned |

`WriteApprovals` is the abstract specification of the write protection of the
MCP server, `JobLedger` that of the run ledger of an automation job. One more is
worth stating: a ledger of reminders that only ever changes towards the wanted
set, implemented by `MobilePlans` without failures.

All invariants and action properties of the runs are proved; what is left to
TLC is named at the end of section 11. Worth proving next is `SlotRunsOnce` for
two windows with manual requests: it fails with five (section 11), and no
counterexample with two is known.

## 3 MobilePlans

### 3.1 Correspondence

One device, whose plan file no other device writes. Variables:

| Variable | Code |
|---|---|
| `want` | what the business modules would announce (their data files) |
| `advanced`, `membership` | entitlement snapshot; `membershipState` of `notification-center-runtime.ts` |
| `enabled` | `settings.mobile.enabled` |
| `disk`, `os`, `recorded` | plan file; notifications held by the operating system; history entries `scheduled` |
| `requested` | `reconcileQueued`, `forceReconcileQueued`, `revokeQueued` |
| `pc`, `force` and the locals | `drainReconcileQueue` and the local variables of `reconcileInternal` |
| `cpc`, `cfile` | `clearCurrentDeviceMobilePlans` |
| `timer` | `refreshTimer` |
| `lock` | the `mobile-plan` lock of `notification-center-locks.ts` |

An action is the code between two awaits at which something else can happen.
`StartReconcile` takes the lock and loads the file; `BuildPlans(s)` /
`ProviderFails(s)` are one provider each; `KeepPlan`, `DropPlan`, `ReplacePlan`
and `AddPlan` decide about one key and make the call to the operating system;
`SaveRemoval`, `SaveReplacement`, `SaveAddition` write the file and do what
follows it; `FailToSave` is a write that fails before or after it landed,
with the compensation the code attempts. `EndRound` is the end of a round
together with the turn of the drain loop that follows without an await.
`Restart` ends the process and starts it again: locals and flags are lost, the
file and the operating system's notifications remain.

Data are abstracted: a payload stands for text, time and hash of a reminder; an
id for the number the operating system returns. Formatting, the twelve-month
index of the history and the result counters are left out, and so is the
planning horizon (`notification-center-mobile-plan-manager.ts:139`): every
wanted reminder of the model lies within it.

### 3.2 Runs

| Run | Bounds | Question |
|---|---|---|
| `plans_faults` | 2 keys of 2 sources, 2 payloads, 4 ids, 2 steps of the user, 1 minute, 1 failure of any of nine kinds; 5.3 million states | lock, replacement order, failed providers, history |
| `plans_live` | 2 minutes, 1 user step, 1 failure of any kind but a killed process; fairness; 1.0 million states | `Accounted`, `Converges` |
| `plan_cancel_lost` (violation) | 1 key, 1 failure | section 10 |

Two keys of two sources are the least at which one provider fails and another
does not; two payloads, one due within the clock's range and one later, make
replacing, expiring and falling due happen; four ids leave one free in every
state reached. The initial `want` is arbitrary, so zero user steps already
include every starting demand. Symmetry exchanges the two keys together with
their sources and is used in runs without liveness only. No cfg stops at a
deadlock: the periodic trigger is always enabled.

### 3.3 Fairness

Weak fairness of the queue and of the clearing (promises settle: the calls
have timeouts or come from the local kernel), of the refresh timer
(`setTimeout`) and of the periodic trigger (`setInterval`, five minutes). None
for the user, the membership, the clock and failures. `Converges` is a
`<>[]` property: edits and failures are bounded, so it speaks of what happens
after the last of them.

### 3.4 Properties

`NoLostUpdate`: whoever is about to write the plan file holds the lock and
writes from what the file holds now. `Accounted`: as long as no cancel, no
read-back and no process has failed (`faults.leak`), every held notification is
named by the file or about to be; each of the three leaves a notification that
nobody knows. `ReplaceBeforeCancel`, `FailedSourceUntouched` and
`RecordedAfterSaved` are action properties.

`Converges` is the liveness of the queue. Whatever failed, once the membership
is lost for good the file is empty. No reminder the business data want is
missing at the end, unless a failure opened a gap (`faults.gap`: a save, a
read-back, a killed process), and none they do not want is held, unless one
opened a leak. A failing save opens a gap because clearing the plans of the device
cancels first and saves afterwards: the records then look up to date and nothing
is armed again.

## 4 AutomationRuns

### 4.1 Correspondence

One job, and the windows of one device that scan it. Windows share the lock
manager, so the `automation-job` lock is one FIFO sequence `locks`: its head
holds it. `state`, `runs`, `saved` are the files `states/`, `runs/`,
`checkpoints/`; `win[w]` holds the local variables of window `w`'s scan;
`fresh` are the windows whose copy of the state equals the file, which is what
the revision comparison of `saveState` tests. `sent` is the effect outside:
delivered answers, `soft` which runs not yet closed answered without a final
checkpoint.

Code and actions:

| Code | Actions |
|---|---|
| `scanJobs` up to the decision | `Scan`, `Decide`, `SaveNext` |
| `recoverInterruptedRun` | `Recover`, `RecoverDelivery`, `SaveRecovery` |
| `runOccurrence`: lock, early returns | `TurnBack` |
| its writes one to three | `Enqueue`, `Activate`, `Start` |
| `executeAgent` and the agent loop's checkpoints | `AskModel`, `CallTool`, `ToolReturns`, `Answer`, `SaveCheckpoint`, `AgentSucceeds`, `SoftFinalize`, `AgentFails`, `NothingChanged` |
| `deliver`, closing of run and state | `Deliver`, `Close`, `Finish` |
| `requestAutomationRunNow`, the settings switch | `RequestRun`, `Toggle` |
| a closed or killed window | `Crash`, `Restart` |

The trigger is a set of slots, with `NextSlot` for `nextScheduledAt`. The clock
shows odd numbers and slots are even, so nothing happens in the millisecond of
a slot; one tick stands for more than the minute within which a late slot
counts as on time. An interval trigger counted from `completedAt` stays on its
grid, so a fixed set of slots covers it; a sensor trigger, whose next time is
relative, is not covered.

Checkpoints keep what recovery asks of them: `resumable` (before the model,
after a tool), `unsure` (before a tool, waiting for a confirmation, unknown
effect), `final`. They are written in the order emitted but behind the agent
(`SaveCheckpoint`), and awaited before the outcome is used (`Flushed`). An
answer is `final` with one exception: when the loop stops the tools because
their calls are repeated or futile, it asks the model once more for an answer
from what the tools returned, and that answer comes without a checkpoint
(`SoftFinalize`; `native-tool-agent-loop.ts:891`, `:1101`). The file then still
holds the one that followed the tool, from which the run can be resumed.

`saveState`'s comparison and write are one step. Orphan "queued" runs that
remain when a job is edited between `Enqueue` and `Activate` are part of the
model. With `overlap = "queue-latest"` the code can note a slot only while it
holds the lock the active run's window would hold, so a noted slot is never
taken up by that run. The branch of `Finish` that would do so is kept as in the
code and no run reaches it; without manual requests that is proved
(`FinishSteps` in `AutomationRunsProofs`).

### 4.2 What is promised

`JobLedger` knows how far each run has come (entered, running, ended or lost),
which run holds the job, and whose answer went out. Runs go forward only, by the
run that holds the job; nothing is entered or claimed while one holds it; it is
left when its run has ended or was given up; and an answer goes out only while
its run is under way. `PhaseOf` maps a record of the ledger to its phase: one
that was taken for interrupted is lost, though its status says "failed". The
promise leaves out occurrences, which are the subject of `SlotRunsOnce` and
`AnswerOnce`. In particular `recoverInterruptedRun`, which delivers what was not
delivered (`automation-runtime.ts:288`), never sends the answer of a run that
succeeded: such a run is closed together with its delivery.

### 4.3 Runs

| Run | Bounds | Question |
|---|---|---|
| `automation_safety` | 2 windows (symmetric), 4 runs, slots 2, 4 and one beyond the clock, a monitoring task, 1 retry, 1 tool call, 1 user step, 1 killed window; 1.9 million states | `OneRunAtATime`, `SlotRunsOnce`, the refinement |
| `automation_faults` | 1 window killed up to twice, 6 runs, slots that expire after a tick, 1 user step; fairness; 0.5 million states | `AnswerOnce`, `RunsEnd`, `WorkIsServed` |
| `automation_blocked` (violation) | 1 window | section 10 |

Two windows are enough for a scan gone stale while another window runs and
recovers; slots 2 and 4 come within the clock's range, the third keeps a
recurring job's next time defined (leaving it out makes a one-time job). What
more windows and slots could do is settled for `OneRunAtATime` by its proof, and
for `SlotRunsOnce` as far as its theorem goes (section 11).
`AnswerOnce` is checked, and proved, with one window: with two, it fails
(section 10). It speaks of the answers in `Standing`: an answer given without a
final checkpoint, whose run was then taken for interrupted, is not counted,
because the code gives it again, with one window as well (section 10). Without
that exclusion TLC finds two answers for one slot.
`WorkIsServed`, which speaks of slots and of manual requests, promises nothing
once a window was killed (`crashes > 0`), for the reason given there, and is
checked with slots that expire: a slot that fell into a manual run is turned
back by the overlap rule at every scan, and only its expiry (or, with
`catchUp = "latest"`, a newer slot) moves the job on. The number of runs is
large enough that every occurrence and every replay finds a free one.
Killing ends at `LastCrash`, so that the clock can pass the budget of the last
run. The runs set `CHECK_DEADLOCK FALSE` because a model whose clock and user
have reached their bounds may rest.

### 4.4 Fairness

Weak fairness of each window's steps (the scheduler scans every fifteen
seconds; agent runs are bounded by `maxDurationMs`), of reopening the
application, and of the clock. None for the user and for crashes.

## 5 BackgroundScheduler

### 5.1 Correspondence

Every periodic scan of a window (notification rules, automation, business
notifiers) is a task of `features/background-runtime/background-scheduler.ts`.

| Variable | Code |
|---|---|
| `tasks` | `tasks`, the map from ids to registrations; a registration is in it exactly while it is not `cancelled` |
| `task[o]` | the fields of a registration; `phase` splits `running` at the await of `resolve()` |
| `timer` | `timer !== undefined` |
| `pump` | `pumpInFlight`: `starting` is the promise before `pump()` has begun |
| `queue` | what `mapWithConcurrency` has still to hand out; a set, since no property depends on the order |
| `asked`, `born` | history: due or signalled since last resolved; number of registrations |

`nextAt` is reached, yet to come or infinite. A registration is an object of
its own, so a run that outlives its registration is followed to its end while
another task under the same id is in the table. `Register` is for an id that is
not in the table; for one that is, the code does what `Signal` does. `Schedule`
is the call at the end of each entry point; it does nothing while a pump is in
flight, and `PumpEnds` makes up for it.

### 5.2 Run

`scheduler`: three ids, two registrations each, concurrency two: a task can
wait in the queue while two others run, and an id can be registered again
during a run of its predecessor. The task's code is a step between which every
caller may act. 82 thousand states. Nothing is bounded but registrations.

`OneRunPerId` relates runs of different registrations; it rests on the pump
being awaited as a whole, not on the `running` flag, which a new registration
does not share. `TimerIsSet` is what allows `schedule` to return early.
`StopHolds` says that the end of a run does not undo a stop. `SignalsAreServed`
is that a signal or a due time is followed by a `resolve()`.

### 5.3 Fairness

Weak fairness of the timer, of the pump and of each task's promises; none for
callers. That promises settle is an assumption about the tasks: the scheduler
has no timeout. A scan that runs an agent may take as long as its budget, and
all other scans of the window wait for it, because the next pump begins only
when the present one has ended.

## 6 HomepageMcp and WriteApprovals

### 6.1 Correspondence

The MCP server of the plugin (`src/kernel/mcp-server`): a controller that
registers capabilities with the host, and writes that need a permission kept in
memory and the user's approval of each of them.

| Variable | Code |
|---|---|
| `ctl` | the fields of `HomepageMcpRuntimeController`; `names` and `records` are the capabilities it holds for registered and their records |
| `queue`, `step` | `operationQueue`: the head runs, `step` says at which await it stands |
| `local` | the locals of the head: the permission its policies were built from, the data it read |
| `access` | `HomepageMcpWriteAccess` and `writeRevision` |
| `host` | what the host has of each capability: nothing, reading, writing |
| `file`, `member` | the stored setting; what `isEntitlementAvailable` answers |
| `reading` | a read call that awaits that answer |
| `wanted`, `ledger` | history: the user's last word on writing, and what became of each confirmation |

All operations go through one promise queue, so they do not overlap; between
two steps of one of them the user may withdraw the permission, a read call may
find the membership gone, the timer may fire and the kernel may restart. An
action is the code between two awaits. The loops that register or unregister
one name after the other are one step each: nothing else touches the host
meanwhile, and the step chooses where the loop fails, whether the host had
accepted the failing name and which removals of the rollback fail. A failing
removal leaves the capability with the host. `NextRevision` is a number nobody
holds, which is all that counts about `++writeRevision`. Calls arrive only once
`initialize` is bound (`kernel-entry.ts`). The timer of a confirmation needs no
action, since every reader prunes what has expired. What a tool does with the
data is a read of their state and a change of it.

### 6.2 What is promised

`WriteApprovals` says it without the service: a write takes one approval of one
call with it, while writing is permitted; an approval that is gone stays gone;
losing the permission takes every request with it. `HomepageMcp` implements it
(`KeepsPromise`): the grants of the abstract specification are the requests the
write access holds, with `gone` for what the ledger knows and the access no
longer has, and a write is under way while an operation executes. Checked and
proved.

`WriteIsAuthorised` and `WriteSeesApprovedState` compare the write with the
ledger, which records what the user said and not what the code kept of it.
`HostAccounted` and `StatusTruthful`, which includes the permission the host has
been told of, relate the host to the controller; `HostFollowsMembership` says
that the timer repairs what a failure or a lost call left behind, in both
directions.

### 6.3 Runs

| Run | Bounds | Question |
|---|---|---|
| `mcp_host` | 2 capabilities, no write calls, 2 waiting operations, 1 failure, 1 restart; fairness; 0.5 million states | the host, the status, the timer |
| `mcp_writes` | 1 capability, 2 symmetric calls, 1 confirmation id, 2 waiting operations, one tick of the clock, 1 edit of the data; 3.9 million states | permission, approvals, the refinement |

Two capabilities are needed for a registration that fails half way. Two waiting
operations let a withdrawn permission overtake one that turns it on. Two calls
let a confirmation of one be presented with the other; a time to live of one
tick lets it expire. The bound on the queue is a bound on how many callers are
waiting, not on the code. Fairness is that of the event loop: the operations of
the queue, the answer of the entitlement check, the timer.

## 7 NotificationDelivery and RuleScan

### 7.1 Correspondence

`NotificationDelivery` is `notify` of `notification-center-service.ts` with the
history it keeps: `call[c]` holds the locals of a call, `session` the memory of
each window, `history` the records of the year files, `index` the counts of the
index file. The locks `deliver:<occurrence>:<target>` and `history:<year>` are
not variables: whoever is between taking and leaving one holds it
(`Delivering`, `Recording`), which also says that a window that dies leaves it.
Taking a lock and the lookup behind it are one step, since nothing happens to a
lock's holder in between; so are writing the year and reading the index.
Targets are taken in any order.

`RuleScan` is `notification-rule-runtime.ts` over it, once per window: a scan
goes through the rules, announces the last occurrence since `last`
(`lastScanAt`), and moves `last` to the time the scan began when every rule is
through. A rule whose history cannot be read, or settings that cannot be
loaded, throw and leave `last` where it was. The callers are the scanners; the
proofs of section 11 about deliveries hold for any callers.

`member[w]` is the membership as window `w` sees it. `Lose` has two forms. When
the loss is announced ("gone"), the notification center destroys the rule
runtime (`notification-center-runtime.ts:45`); a scan under way goes on and is
refused by `notify`. A grant that runs out by itself ("expired") is announced to
nobody (section 10), and the task stays. `Regain` starts destroyed scans anew,
with `lastScanAt` a minute ago (`Started`; `notification-rule-runtime.ts:27`),
and leaves others as they are. `since[w]`, a history variable, is `lastScanAt` at
the last start of the scans of the window.

A tick of the clock is a minute; failures, failed sends and reloads share one
bound.

### 7.2 Run

`rule_scan`: two windows, a rule due at 0 and one due at 1, the turn of the year
between them, one target, one failure or reload; 1.0 million states. Two windows
meet at the delivery lock; two rules of one scan meet a failure of the second
after the first was announced; two years meet at the index. One window loses its
membership and has it back at any time, as often as it likes; the other keeps
its own (`MCInit`, `MCNext`): what the two share are files and locks, which do
not know of the membership.

`NothingSkipped` is the safety of the window of time: of all occurrences since
the scans of the window were last started and up to `lastScanAt`, each or a
later one of its rule was announced, or refused because the membership was gone
at that moment. It holds also when the scans are started anew under a scan that
is still going on, whose end sets `lastScanAt` back. `OccurrencesAreAnnounced` is
its liveness: a failing scan only puts an occurrence off, and so does a grant
that ran out and was renewed, unless the feature becomes unavailable again and
again. Both are about what falls due while the scans exist: an occurrence that
falls due after they were destroyed and before they are started again is owed to
nobody, and the code does not announce it (section 10).
`SendIsFresh` says that the lookup in the history still holds when the
notification is shown, `ShownIsKnown` that a window never forgets what it has
shown, in spite of failing records. `IndexCounts` is about the index; it speaks
of histories without failures and without two years recorded at the same time,
because the index of all years is written under the lock of one.

Fairness: each window's scans and deliveries proceed, since the scheduler asks
for a scan every minute and its task is awaited. None for the clock, the
membership, failures.

## 8 RobotTurns

### 8.1 Correspondence

The chat robot (`features/robot-assistant/core/robot-core.ts`) with the
confirmations of the agent and the deduplication of the kernel.

| Variable | Code |
|---|---|
| `learns` | `profile.autoLearn` as it was when the kernel built its tools (`build-robot-kernel-tool-registry.ts:134`) |
| `lane` | `ingressQueues`, `confirmationIngressQueues`: a message at the head of its lane is being processed |
| `processed`, `saved` | `RobotDedupCache`, and what `KernelRobotDedup` has written of it |
| `turn`, `tail` | the agent turn of each message; the chain of promises `queue.tail` |
| `depth`, `total`, `active`, `waiters` | `queue.depth`, `totalTurnDepth`, `activeTurns`, `globalWaiters` |
| `pending`, `request` | `pendingByChat`; the promise of each confirmation request |
| `acts`, `forgotten`, `leaked`, `by` | history: effects of a message, marks lost in a restart, turns counted that never were, who approved a request |

A message arrives in the lane of its chat, or in the lane of answers while the
chat has a request pending, is looked up and marked, and then acts: as an
answer, or as a turn that is counted, noted in the history and chained behind
the turn before it. A turn takes one of `maxConcurrentTurns` slots or waits,
may ask for confirmations, and gives the slot to the next waiter. Replies and
their wording are left out; a message leaves its lane with its effect. A waiter
that was woken may go on later than others move, as a promise continuation
may. What the agent writes passes the permission gate in one of two ways. It
asks for a confirmation (`WantToWrite`, `Register`), or it does not (`PassGate`,
`tool-permission-gate.ts:98`): the memory tool, when the kernel started while the
agent was to learn by itself, and the document editor, where the policy of the
robot allows it (constant `EditsDocs`). `Write` and `Forgo` are the end of both.
Requests take fresh ids in a fixed order, and what became of a settled
request (rejected, expired, used) is one value, since only the reply differs.
A turn that times out while it runs ends at once; one that waits for an answer
ends when the request is settled.

Not modelled: refusals before a message is looked at (admission, pairing,
length), the age and number limits of the marks, sessions, the providers'
polling loops.

### 8.2 Run

`robot`: two chats, three messages of which one is repeated or one write fails,
every combination of texts that a question and an answer can be, one slot, two
requests, one restart at any point; 1.7 million states. `ActsOnce` needs a
message repeated in the other lane; `OneTurnPerChat` two messages of a chat;
the counters two chats for one slot. Longer chains of turns are covered by the
proof (section 11). `MCInit` and `MCNext` bound what `learns` adds: the first
kernel asks about the memory too, the one after the restart need not, in the
histories where the answer is a yes. `EditsDocs` is FALSE, as it is unless the
user allows the tool; where nobody is asked, it does to a turn what `learns` does.

`WritesAreMeant` is about what the gate asks: such a write was approved by the
settings page, or by a yes that came from the chat of the turn after its request
was registered. It says of the rest that nothing is written without a request
unless the gate asks nobody about it (`AsksNobody`). It does not say that the
user is asked about every write, which is not so (section 10), nor that the yes
was meant for this request.

`TurnsEnd` is liveness: time and again no turn is under way. Fairness is that of
the event loop (the lane of messages, each turn's promises), of the timer that
ends a turn whose budget is spent (`TimesOut`; an agent that goes on writing
unasked ends by nothing else), and of the expiry of requests. Answers, the
settings page, the file of marks, the platform and the restart owe nothing.

## 9 Entitlement

### 9.1 Correspondence

| Variable | Code |
|---|---|
| `account`, `offer`, `revoked`, `expired` | outside: SiYuan's account, the membership service, the calendar |
| `file` | `license.syhomepage`, which SiYuan may replace by another device's |
| `face` | the snapshot of `homepage-entitlement.ts`; `told` is the last of the two events its listeners heard; `starts`, `running`, `centre`, `stops` the runtimes of `index.ts`: starts that wait, those that stop at once, the notification centre, and stops that wait for the robot client |
| `timer`, `refresh`, `due`, `cooling`, `grace` | the next check, the check after a change of the file, the half hour between synchronisations, accounts whose recovery has just been tried, the time after start-up or during SiYuan's own synchronisation |
| `withdrawn` | `homepageServerRevokedLicense` |
| `check`, `sync`, `user` | `runLicenseVerification` with the recovery of mobile, `runHomepageServerLicenseSync`, the settings page (`VipSection.svelte`, `homepageSetting.svelte`): the await each stands at, and its locals |
| `jobs`, `answer` | the tasks behind `licenseMutationTail` and what each caller has been answered |
| `touched` | history: the file was replaced from outside while the task now writing was writing |

An action is an answer and the code that runs on it up to the next await.
Between two awaits the account may change, the file may arrive, a day may end,
the service may decide, a timer may fire. Two readings of the license that
follow each other without anything between are one step. The writes go through
`jobs` one at a time; a caller whose time limit has passed is answered
`failed`, and its task stays in the queue and may still write (`TaskTimesOut`),
which is why tasks compare the file with what their caller had read
(`expects`). A caller that asks for a check while one is under way joins it.
`StartsRuntimes` is a start that has waited for the check and looks again
whether the features are granted. `Unavailable` stops everything but the
notification centre at once, and `StopEnds` is the rest of the stop, behind its
wait for the robot client (`index.ts:865`, `:870`).

| Settings page | Actions |
|---|---|
| a click; the tab of the membership is opened | `Clicks(op)`: redeem, recover, refresh, open |
| `handleRedeem`, `handleRecoverExistingMembership` | `Redeems`, `Recovers`, then `PageStores`, `PageHasStored`, `PageGrants` |
| `handleRefreshMembershipStatus` | `PageReads`, `PageSyncs`, then `PageStores` ..., or `PageGoesOn`, `PageRereads`, and `PageGrants` or a deletion and `HasDeleted` |
| `handleMainTabChange` | `PageReads`, `HasVerified`, `HasPurged`, `HasRechecked`; its first task is `verifyLicense`, which writes the license back (`TaskVerifies`) |
| `handleVipDeactivate` | `Deactivates`, `HasDeleted` |
| the account is another one, asked again after an await | `PageFindsSwitch` |
| a request fails, or the page is left | `PageStops`: the task it waited for goes on |

### 9.2 Run

`entitlement`: an account with two licenses, one with none; every file, offer,
account and front end to begin with; one change of account, file, service or by
the user; one failure, time-out or reload at any point. 1.2 million states.
The two licenses are alike until something is done with one of them, so
`MCInit` keeps one initial state of each pair that differ by their names (a
SYMMETRY would not be sound for the liveness property). One change is what a
check, a synchronisation or a waiting write can be overtaken by; two licenses
are the old and the new one of a renewal. A click on the settings page is a
change, too. For the page itself to be overtaken it takes a second one, which
`MCNext` admits where the page looks for it: the account before it is asked again,
the file while another account's license is being removed (on the desktop, nothing
else under way, no failure). On mobile the page only redeems and removes.

`KeepsNewer`: a task of a check or a synchronisation, and one by which the page
clears a license that the service has withdrawn or that is another account's,
never replaces or deletes a license other than the one its caller had in mind,
however late it comes. It sets aside what the user asked the page for
(`AskedFor`): redeeming, recovering, refreshing and removing say nothing about the
license they expect, and do overwrite a newer one that arrived since (section 10).
`StopHolds`: after the listeners were told that the features are gone, no waiting
start brings the runtimes back, and the notification centre is on only while a
stop is still under way. `Settles`: once account, file and service are left
alone, the features are granted exactly for a valid license of the account, and
then the runtimes run: in any case those that stop at once, and on the desktop
the notification centre too, unless a stop that was overtaken by its start has
destroyed it (`centre = "lost"`; section 10). It speaks of histories that end
with somebody signed in: without an account the code keeps the last state.

### 9.3 Fairness

Weak fairness of the check, the synchronisation, the queue and the settings
page, each of whose requests has a time limit, of the timers, of the passing
of the half hour and the cool-down, of a waiting start, and of the end of a
stop (the robot client's disposal settles). None for the
account, the user, the service, other devices, failures and reloads. The cfg
sets `CHECK_DEADLOCK FALSE`: without an account everything may come to rest.

## 10 Findings

Runs with `expect: violation` show that the code does not do what a document,
comment or message of the repository says; PROJECT.json quotes the lines.

| Run | What happens |
|---|---|
| `plan_cancel_lost` | A replaced notification that could not be cancelled is named nowhere, so it cannot be retried. |
| `automation_blocked` | The message of a blocked job asks the user to check and enable it again; nothing resets the block. |

Other behaviour met while modelling; the models contain it, no run is about it,
and the passing runs are bounded so as not to meet it where they would fail:

- The plan file is written but reading it back fails: the new notification is
  cancelled although the file now names it, the next rounds find the record up
  to date, and the reminder is not armed until its data change.
- A revocation cancels everything and fails to save; after a renewal the
  records look up to date and nothing is armed.
- A manual run closed but not yet reflected in the state when its window dies
  leaves the request mark: the job's own slots are not looked at any more.
- A window that decided before another window blocked the job runs the
  interrupted occurrence again, since only the occurrence is compared again.
- Expiry is measured at the first missed slot, so the newest one is not made up
  for although it is fresh.
- With `catchUp = "run-once"` or `"skip"`, a slot that fell into a manual run is
  turned back by the overlap rule at every scan until it expires.
- A one-time job that ran and is then run by hand runs its slot a second time
  before it expires (`automation-schedule.ts:30`).
- Replaying from a checkpoint that lies behind a finished write repeats the
  write (`automation-runtime.ts:329`); so does a retry of an attempt that timed
  out while its tool was running (`:470`).
- With two windows an answer may be delivered twice. With one it may, too: an
  answer that the agent loop gives after it has stopped the tools leaves no final
  checkpoint (`native-tool-agent-loop.ts:1101`), so if the window dies between
  delivering it (`automation-runtime.ts:530`) and saving the run (`:562`), the run
  is resumed from the checkpoint that followed the tool (`:881` of the loop) and
  answers again. `AnswerOnce` excludes exactly this.
- With several windows and manual requests, a slot may run twice (section 11).
- Two quick `setWriteEnabled(false)` leave the host advertising the write
  actions, which are refused; a membership lost and back within one operation
  does the same.
- `enable()` whose save landed but could not be read back leaves the file
  enabled and the memory disabled. `disable()` that fails to unregister keeps
  `enabled` and the timer, which registers again a minute later. A failing
  clean-up of a failed `enable()` leaves capabilities with the host and no timer.
- The history's index is changed under the lock of one year: recordings of two
  years at the same time lose an entry.
- A history that cannot be read, or settings that cannot be loaded, end the scan
  for the rules that follow; a later scan makes up for it.
- Of two rules due in the same second the second is refused by the rate limit of
  an external channel, recorded as failed and not sent again.
- An occurrence that falls due while the membership is gone is never announced:
  the loss destroys the scans, and its return starts them with `lastScanAt` a
  minute ago (`notification-rule-runtime.ts:27`). If a scan was under way at the
  loss and ends after the return, it sets `lastScanAt` back to its own beginning
  (`:22`), and the gap is announced after all. An occurrence for which `notify` is
  refused counts as announced. A grant that only runs out, and is renewed, keeps
  `lastScanAt`, and skips nothing. `NothingSkipped` and `OccurrencesAreAnnounced`
  begin at the last start of the scans.
- Texts that confirm and cancel (`1`, `Y`) repeated after the request is settled
  become a question to the agent (`robot-core.ts:75` speaks of two of the texts).
- A late or repeated yes approves a newer request whose question the user has
  not seen (`robot-confirmation.ts:3`).
- Not every write of the robot is confirmed, although
  `robot-settings-types.ts:150` says that it must be. The memory tool's remember,
  update and forget run without asking when `autoLearn`, which is on at first, was
  on as the kernel built its tools (`build-robot-kernel-tool-registry.ts:134`,
  `workbench-tool-adapter.ts:140`), whatever the policy of the tool says of its
  write action; switching `autoLearn` off changes that only when the kernel
  restarts. The document editor, if the policy allows it, is registered as
  confirming for itself, and the kernel's handler for that confirmation always
  agrees (`:80` of the registry). The comment at `workbench-tool-adapter.ts:66` wants
  such writes to be asked about here, but `:140` returns before the condition that
  does it (`:142`). The model contains both (`PassGate`).
- A history note that fails while a turn is queued leaves the chat's counter up
  until the restart; enough of them fill the queue (`leaked` in `RobotTurns`).
- A woken turn does not look at the limit again, so turns beyond
  `maxConcurrentTurns` may run, and the excess lasts while turns wait
  (`robot-core.ts:676`). `Admission` states what does hold.
- A question that cannot be sent or noted leaves its request pending: a yes is
  acknowledged and nothing executes.
- The marks of processed messages are written behind the message: a restart in
  between makes a repeated message act again (`forgotten`).
- A license that runs out by itself tells nobody: the snapshot is no longer
  granted, but no event follows, since the grant before and after the next
  refusal is none (`homepage-entitlement.ts:41`), and the runtimes run on until
  they are stopped for another reason. `Settles` therefore says that a grant has
  the runtimes running, not that they run for a grant only.
- Between the two readings of the license the synchronisation may delete it: the
  check grants a license that is gone, until the next check (`index.ts:1718`).
- The runtimes' stop waits for the robot before it destroys the notification
  centre; a grant in between has started a new one, which is destroyed
  (`index.ts:870`), and nothing starts it again while the grant lasts.
  `Settles` excludes it by name.
- Redeeming, recovering and refreshing on the settings page store what the service
  gave without comparing the file with what they had read
  (`VipSection.svelte:767`, `:944`): a newer license that arrived since is
  overwritten, against the comment at `advanced.ts:21`, for which one queue is
  enough to keep old snapshots from overwriting new licenses. `KeepsNewer` sets
  these writes aside.

## 11 Proofs

`MobilePlansProofs` proves, for every set of keys, sources, payloads and ids,
every set of failure kinds and every bound:

| Theorem | Property |
|---|---|
| `TypeCorrect` | `TypeOK` |
| `LockProtectsFile` | `NoLostUpdate` |
| `OldPlanKeptUntilReplaced` | `ReplaceBeforeCancel` |
| `HistoryFollowsPlan` | `RecordedAfterSaved` |
| `FailedProviderIsHarmless` | `FailedSourceUntouched` |
| `NothingLeaks` | `Accounted`, in the form without its condition, assuming `Faults \cap {"cancel", "verify", "crash"} = {}` |

Assumptions: `ConstantsAssumption` (`SourceOf`, `At` are functions of the right
kind, `Faults` names known kinds, bounds are natural numbers) and
`NullsAssumption` (the null values are none of the values they stand beside).
Both are in `MobilePlans` and evaluated by every run.

The argument. `TypeInv` is `TypeOK` with the facts that a round with something
to save knows its key, id and payload; without them `NextFile` has no type.
`NoLostUpdate` is inductive over it. `PlanInv` adds four parts:

- `FileTellsTruth`: an id on file that the system holds belongs to the key and
  payload it is filed under. Without it, cancelling the id of one plan could
  take another plan's notification away.
- `NewIsFresh`: the notification of a pending save is the only one with its id,
  is held or due, and a replacement has a record to replace.
- `TodoIsRecorded`: keys still to be scanned, as the loop over the file's
  records sees them, are recorded; a key being removed is no longer among them.
- `SavedIsHeld`: when the history is about to be written, the saved plan's
  notification is held or due.

`OldPlanKeptUntilReplaced` and `HistoryFollowsPlan` are consequences of
`PlanInv` for single steps. `FailedProviderIsHarmless` needs that nothing is
desired for a source that is unread or failed (`FailedIsLeftOut`).
`NothingLeaks` needs `LeakInv`: beside `Accounted`, that a key being removed
has lost its notification, that a revocation or clearing about to save has
cancelled everything, and that a key to be added has no record (otherwise
adding would orphan the recorded notification).

`AutomationRunsProofs` proves, for every number of
windows, runs, slots, retries, edits and killed windows (`ConstantsAssumption`,
`NullsAssumption`):

| Theorem | Property |
|---|---|
| `AutomationTypeCorrect` | `TypeOK` (which no run checks) |
| `RunsExclude` | `OneRunAtATime` |
| `LedgerIsKept` | `KeepsLedger`, the refinement of `JobLedger` |
| `SlotsRunOnce` | `SlotRunsOnce`, assuming `CatchUp # "run-once"` and `[]NoRequest` |
| `AnswersGoOutOnce` | `AnswerOnce`, assuming these two and `SingleWindow` |
| `NothingIsDoneTwice` | `AnswerOnce`, `SlotRunsOnce` and `DoneOnce`, assuming `SingleWindow` and `Recurring` |

`Base` is `TypeOK` with what a window knows past each step (`Entered`) and with
`LockInv`: the queue of the lock has each window once, the windows in it are those
that wait or work under the lock, and who works is at its head. A window in a run
is then the only one, and `RunInv` adds that its run is the active one and has
not been closed. The refinement needs `LedgerInv` besides: what the records of
the ledger say is consistent (a run taken for interrupted has failed, one that
succeeded was delivered), a window that has entered a run finds no other active,
and one that takes a run over finds it ended and active.

That a slot runs once rests on more than the comparison with the last occurrence
(`AlreadyDone`), which catches only the *last* one: a window may have waited for
the lock for long. `SlotInv` says why nothing older comes through. With "latest"
and "skip" a window decides for the newest slot that has come
(`PickedIsNewest`; the clock is odd, the slots even), and joins the queue of the
lock at its end, so the windows in the queue have decided in the order in which
they wait, and none of them for anything before the last occurrence or the
active run (`InOrder`). A slot that passes the comparison is therefore later than
the last one (`StrictlyAfter` in `Work`), and every run that was started and not
interrupted is the active one or not later than the last one (`Settled`). Each
step is first reduced to how it changes queue, window, ledger and state
(`Steps`), and the invariant follows from that.

`SlotsRunOnce` needs its two assumptions. With manual requests the property can
fail, with five windows and three requests: the end of any manual run clears the
request mark (`automation-runtime.ts:582`), so windows that queued for a request
stay behind it and others decide for the slot in between. If the queue has become
"the slot, a request, the same slot", the manual run moves the last occurrence,
and the comparison of the third window does not catch the slot
(`automation-runtime.ts:381`). `automation_safety` has neither the windows nor
the requests for it. With "run-once" a window decides for
the oldest missed slot, and a run recovered late moves the next time back.

`AnswersGoOutOnce` is about the window that dies between sending an answer and
closing the run. `AnswerInv` says of each run whose answer is out (`Answered`)
that it lies behind the last occurrence, or is the active one and cannot be put
back (`CannotBeReplayed`: it is closed, or its final checkpoint is on disk), or
that the job is blocked; and it says so of the answers in `Standing` only, among
the others those of `soft` runs that were interrupted. It holds because a run
that may still execute was not delivered, and one about to be delivered has its
final checkpoint on disk or is `soft` (`Carries`): the checkpoint writes are
awaited before the outcome is used. A new
answer is for a later slot than all before it (`ActiveIsNew`), by `SlotInv`. That
a blocked job stays so needs the single window: nobody else has decided to run it
before it was blocked (`BlockedIsOver`, `Carries`).

`NothingIsDoneTwice` needs neither of the two assumptions on requests and
policies; it asks instead for one window and for a trigger with a slot beyond the
clock (`Recurring`, which the constants of `automation_faults` satisfy). It says
more than the two properties: a manual request is done once as well (`DoneOnce`).
`OnceInv` follows what has been done, the occurrences of the runs that were
started and not interrupted or whose answer is out (`Served`):

- `DoneOnce`: no two such runs have the same occurrence. (Of the answers, those in
  `Standing` count, here and in `AnswerOnce`.)
- `PastAll`: the state has left behind whatever was done, but for the active run:
  the next time is later than every slot done, and the request mark names no
  request that was done.
- `ActiveIsNewest`: the occurrence of the active run is later than every slot
  done before it, or a request not done yet.
- `Booked`: what the ledger says of a run is consistent, and the checkpoint of
  one whose answer is out does not let it be put back.
- `BlockedIsOver`: a blocked job has no active run.
- `Careful`: what a window has decided to do, is about to do or to take back,
  does not disturb these.

With one window nothing goes stale but by the user's own steps, so a decision is
for something new when it is carried out. `Recurring` is needed because closing
the slot of a one-time job leaves no next time, which means the first slot again;
only the comparison with the last occurrence turns it back, and a manual run moves
that one on (section 10).
`SingleWindow` is needed for the reason given above.

`BackgroundSchedulerProofs` proves, for every set of ids, number of
registrations and concurrency (`SchedulerAssumption`):

| Theorem | Property |
|---|---|
| `SchedulerTypeCorrect` | `TypeOK` |
| `RunsOfOneIdExclude` | `OneRunPerId` |
| `TimerNeverForgotten` | `TimerIsSet` |
| `StoppedStaysStopped` | `StopHolds` |

`OneRunPerId` is not inductive: a task that begins to run could meet the run of
its predecessor. `PumpInv` says why it does not: the tasks in the table have
different names, the tasks queued or running have different names, and outside
`pumping` nothing is queued or running, so a pump starts from the table alone
and nobody else starts a run. `TimerIsSet` needs `PumpInv` as well: no task
comes to rest while no pump is in flight. `StopHolds` is inductive over the
types.

`HomepageMcpProofs` proves, for every set of capabilities and calls, every
number of confirmations, restarts, failures and waiting operations
(`McpAssumption`):

| Theorem | Property |
|---|---|
| `McpTypeCorrect` | `TypeOK` |
| `HostIsAccountedFor` | `HostAccounted` |
| `PermissionFollowsTheUser` | `PermissionIsWanted` |
| `WritesAreAuthorised` | `WriteIsAuthorised` |
| `WritesSeeApprovedState` | `WriteSeesApprovedState` |
| `StatusTellsTheTruth` | `StatusTruthful` |
| `PromiseIsKept` | `KeepsPromise`, the refinement of `WriteApprovals` |

`TypeInv` adds to the types that an operation under way has a call when it
writes (`WritesHaveCalls`). `HostInv` is `HostAccounted` with `NothingBefore`:
while capabilities are about to be registered the controller holds none.
`PermissionInv` is `PermissionIsWanted` with `LastWord`: what the queue holds of
the newest revision is the user's last word. `RequestsAgree` says that each
request the access holds is what the ledger has of it: same call, same data,
same stage, same expiry. From it follow the properties of writes, and the
refinement: the initial states map to initial states, and each action to a step
of the abstract specification or to none.

`StatusTruthful` speaks of states without an operation, and the operations take
many steps, so `StatusInv` says what holds within them. `StatusShown` follows the
status: an operation that rebuilds the service has taken "enabled" down before
and puts it back only when every name has a record. `HostTold` follows the host:
what is recorded is there (`Hosted`), and knows of the permission unless the
switch that grants it is about to register anew (`Told`); policies about to be
registered were built with it (`Policies`). For that the permission must belong to an enabled service that
nobody has asked to end since (`GrantsFit`), which is a statement about the whole
queue: no switch that still counts has a request to disable behind it. And
until the service is initialised nobody can ask anything of it
(`InitialisesAlone`).

`NotificationDeliveryProofs` and `RuleScanProofs` (`DeliveryAssumption`: finitely
many events and targets; `RuleAssumption`) prove, for every number of windows,
rules, targets and years:

| Theorem | Property |
|---|---|
| `RuleTypeCorrect` | `TypeOK` |
| `NoOccurrenceSkipped` | `NothingSkipped` |
| `ShownStaysKnown` | `ShownIsKnown` |
| `SendsAreFresh` | `SendIsFresh` |
| `IndexIsExact` | `IndexCounts` |

The first module has no theorem of a specification: its lemmas say what a step
of any caller, `Delivery`, preserves, and the second uses them for the scanners.
`Informed` is the invariant of deliveries: what a call knows at each of its
steps (`Kinds`), who excludes whom (`Locks`: one call per occurrence and target,
one recording per year), that the copy of the year a recording holds is the file
but for its own record and that what was found undelivered still is (`Right`),
and `ShownIsKnown`. `IndexIsTrue` adds, for histories without failures, that one
recording is under way at most and that the counts it is about to write are
those of the year it has written. `ScansAreRight` says that of the rules a scan is
through with, everything since the scans were started and up to the scan's own
time was announced, or that the call that announces it is under way, or was
rejected, and that the window of time is in order, unless the scans have been
started anew under the scan: `lastScanAt` then is where they started, and the
scan, which may end before that, owes nothing. That a due rule has a
*latest* occurrence in the window, which the scan announces, comes from the
well-foundedness of the natural numbers.

`RobotTurnsProofs` proves, for every number of chats, messages, requests and
slots (`RobotAssumption`):

| Theorem | Property |
|---|---|
| `RobotTypeCorrect` | `TypeOK` |
| `AdmissionHolds` | `Admission` |
| `WritesWereMeant` | `WritesAreMeant` |

The invariant is `IInv`. Beside bookkeeping (`Base`), `ActedOnce` says that
acting comes after the mark that keeps copies away; `Counted` that the counters
are those of the turns under way; `Owned` that a request belongs to one turn, is
pending in that turn's chat only, and was approved by somebody who may; `Passed`
that no turn is past the gate without a request where the gate asks about
everything. `InLine`
says that the turns of a chat are a sequence: the first runs or is ready to, each
of the others is queued behind the one before it, the last is the tail. It needs
`Counted`, because the code forgets a chat's queue when its counter falls to
one. The proof covers chains of turns of any length.

`EntitlementProofs` proves, for every set of accounts and licenses, and any
number of changes, failures and reloads (`EntitlementAssumption`):

| Theorem | Property |
|---|---|
| `EntitlementTypeCorrect` | `TypeOK` |
| `StoppedRuntimesStayStopped` | `StopHolds` |
| `NewerLicensesAreKept` | `KeepsNewer` |

The run has one change and one failure; the proof covers any number of tasks
waiting in the queue, given up one after the other. `IInv` has three parts.
`Parts` says, beside the types, what a check, a synchronisation and the settings
page know past their first steps: whose license it is, and which one they are
about to grant. `Queue` is about the tasks. `WriterIsRight` says that only the
first task of the queue may be writing, and that the file is then the one it has
looked at, unless another device has replaced it or the task was to write
whatever it found; `Minded` that only the page's tasks are of that kind;
`OneAtATime` that the page waits for one task at most, which is why a license that
its second verification finds valid is the one it grants. `Good` is `StopHolds`
with the type of the snapshot; every event keeps it, because a publication either keeps
the grant, tells of it, or stops the runtimes.

Model-checked only: the liveness properties `Converges`, `RunsEnd`,
`WorkIsServed`, `Settles`, `HostFollowsMembership`, `TurnsEnd`,
`OccurrencesAreAnnounced` and `SignalsAreServed` (the prover does not handle
ENABLED, hence no fairness), and `SlotRunsOnce` for several windows with manual
requests or "run-once". The two violated properties are temporal too; what they
refute is shown by the counterexamples of their runs.

## 12 Not modelled

- Two devices, or two windows inside one `saveState`: storage has no
  compare-and-swap, and the models treat the comparison and the write as one.
- Browsers without `navigator.locks`, where the lock is per window.
- Automation: what makes the agent loop stop the tools (any answer after a tool
  may be one without a final checkpoint); deletion of jobs, retention of old
  runs, sensor fingerprints; a tool that goes on after its attempt timed out.
- Mobile plans: a process that dies between registering a notification and
  saving its id has left one nobody knows; the model contains the restart, and
  `Accounted` speaks of histories without it. The planning horizon.
- Delivery: the rate limit and the dedupe window of external channels, expiry,
  forced sends, how targets are resolved, retention. The time of the last
  external send is read before the send is awaited
  (`notification-center-service.ts:67`), so two sends may both pass the limit.
- Robot: which tool a write belongs to, and the memory tool's own refusals (a
  write that passes the gate may be given up by `remember` for want of a reason);
  admission, pairing and the other refusals, sessions, the age and number
  limits of the marks, the polling loops of the platforms.
- Entitlement: the signature, the data shown beside the membership, the automatic
  registration and the mark that the service manages the license (queued writes
  of their own), the older activation handler (`homepageSetting.svelte:1459`, which
  the page is given and does not call), unloading the plugin.
- MCP: the tools behind a write, how many confirmations are kept, the transport.
- Scheduler: a scan of many minutes delays all scans of its window
  (`background-scheduler.ts:82`); no property bounds the delay.
- Content: text, hashes, schemas, time zones. `nextScheduledAt`'s calendar
  arithmetic is represented by the set of slots it yields.
- The components marked `not_modelled` in PROJECT.json: those of section 2's
  plan, the user interface (rendering and per-widget settings), single-file
  editors, and build scripts. Most of the repository's lines are of these kinds:
  Svelte components and settings forms with no state shared between actors.

## 13 Running the checks

    tlc -workers 2 -config MobilePlansFaults.cfg  MCMobilePlans
    tlc -workers 2 -config MobilePlansLive.cfg    MCMobilePlans
    tlc -workers 2 -config AutomationSafety.cfg   MCAutomationRuns
    tlc -workers 2 -config AutomationFaults.cfg   MCAutomationRuns
    tlc -workers 2 -config Scheduler.cfg          MCBackgroundScheduler
    tlc -workers 2 -config McpHost.cfg            MCHomepageMcp
    tlc -workers 2 -config McpWrites.cfg          MCHomepageMcp
    tlc -workers 2 -config RuleScan.cfg           MCRuleScan
    tlc -workers 2 -config RobotTurns.cfg         MCRobotTurns
    tlc -workers 2 -config Entitlement.cfg        MCEntitlement
    for m in MobilePlans AutomationRuns BackgroundScheduler HomepageMcp \
             NotificationDelivery RuleScan RobotTurns Entitlement
    do tlapm ${m}Proofs.tla; done

PROJECT.json names for each run its module, cfg and properties, for each
property of a passing run a mutant (a faulty variant of a definition, defined
next to it in the module) under which TLC finds the property violated, and for
each definition the source lines it models.

--------------------------- MODULE AutomationRuns ---------------------------
(***************************************************************************)
(* Agent automation: a scheduled job, the windows of one device that scan  *)
(* for due slots, and the run ledger they share on disk.                   *)
(*                                                                         *)
(* A window claims a slot under the job's lock (queued run, active state,  *)
(* running run), executes the agent, delivers its answer, closes the run   *)
(* and then the state.  Windows may be killed between any two of these     *)
(* writes; a later scan finds the active run and decides from the          *)
(* checkpoint on disk whether the slot may be run again.                   *)
(***************************************************************************)
EXTENDS Integers, Sequences

CONSTANTS
  Windows,      \* windows of the device, sharing its lock manager
  RunIds,       \* bound: identities of runs
  Slots,        \* the times the trigger names (one of them: a "once" job)
  CatchUp,      \* policy.catchUp: "skip", "run-once" or "latest"
  Overlap,      \* policy.overlap: "skip" or "queue-latest"
  MaxRetries,   \* policy.maxRetries
  MaxFailures,  \* policy.maxConsecutiveFailures
  Expires,      \* policy.expiresAfterMs
  Budget,       \* execution.budget.maxDurationMs plus a minute
  MaxCalls,     \* execution.budget.maxToolCalls
  Monitor,      \* the task only runs the agent when its sensor saw a change
  MaxTime,      \* bound: last tick of the clock
  MaxEdits,     \* bound: edits and manual requests of the user
  MaxCrashes, LastCrash,  \* bound: killed windows, and until when
  None, NoRun

ASSUME ConstantsAssumption ==
  /\ CatchUp \in {"skip", "run-once", "latest"}
  /\ Overlap \in {"skip", "queue-latest"}
  /\ Slots \subseteq Nat /\ \A s \in Slots : s % 2 = 0
  /\ MaxRetries \in Nat /\ MaxFailures \in Nat \ {0}
  /\ Expires \in Nat /\ Budget \in Nat /\ MaxCalls \in Nat
  /\ Monitor \in BOOLEAN
  /\ MaxTime \in Nat /\ MaxEdits \in Nat
  /\ MaxCrashes \in Nat /\ LastCrash \in Nat
  /\ None \notin Nat /\ None \notin RunIds

\* The clock shows odd numbers, slots are even: nothing happens in the very
\* millisecond of a slot.  One tick exceeds the minute within which a late
\* slot still counts as on time.
Minute == 1
Times == Nat \cup {None}
Occurrences == [at : Nat, manual : BOOLEAN]
Jobs == [rev : Nat, enabled : BOOLEAN]
Terminal == {"succeeded", "failed", "skipped"}

States ==
  [saved : BOOLEAN, jobRev : Nat, status : {"idle", "running", "failed", "blocked"},
   nextRunAt : Times, pending : Times, manual : Times,
   active : RunIds \cup {None}, lastKey : Occurrences \cup {None},
   lastStarted : Times, lastCompleted : Times, failures : Nat]
Runs ==
  [occ : Occurrences, status : Terminal \cup {"queued", "running"},
   started : BOOLEAN, interrupted : BOOLEAN, delivery : {"none", "ok", "failed"},
   completed : Times]
ASSUME NullsAssumption == NoRun \notin Runs /\ None \notin Occurrences
Checkpoints == {"none", "resumable", "unsure", "final"}
Pcs == {"off", "idle", "saving", "lockRecover", "recovering", "recovered",
        "lockRun", "queued", "claimed", "executing", "delivering", "closing",
        "finishing"}
Outcomes == Terminal \cup {"none", "over", "replay", "block"}
Scans ==
  [pc : Pcs, job : Jobs, occ : Occurrences \cup {None}, run : RunIds \cup {None},
   memory : Checkpoints, outcome : Outcomes, delivery : {"none", "ok", "failed"},
   attempt : Nat, calls : Nat, next : Times]

VARIABLES
  now,
  job,     \* the job definition on disk
  state,   \* the job state on disk
  runs,    \* the run ledger on disk
  saved,   \* per run, the checkpoint on disk
  sent,    \* runs whose answer reached the reply target
  soft,    \* history: runs not closed yet that answered without a final checkpoint
  locks,   \* the "automation-job" lock: its holder, then those who wait
  win,     \* per window, the local variables of its scan
  fresh,   \* windows whose copy of the state is the one on disk
  edits, crashes

disk == <<job, state, runs, saved>>
bounds == <<edits, crashes>>
vars == <<now, disk, sent, soft, locks, win, fresh, bounds>>

NoState ==
  [saved |-> FALSE, jobRev |-> 0, status |-> "idle", nextRunAt |-> None,
   pending |-> None, manual |-> None, active |-> None, lastKey |-> None,
   lastStarted |-> None, lastCompleted |-> None, failures |-> 0]
Rest ==
  [pc |-> "idle", job |-> [rev |-> 0, enabled |-> FALSE], occ |-> None,
   run |-> None, memory |-> "none", outcome |-> "none", delivery |-> "none",
   attempt |-> 0, calls |-> 0, next |-> None]

\* Every variable holds a value of its kind.
TypeOK ==
  /\ now \in Nat /\ job \in Jobs /\ state \in States
  /\ runs \in [RunIds -> Runs \cup {NoRun}]
  /\ saved \in [RunIds -> Checkpoints]
  /\ sent \subseteq RunIds /\ soft \subseteq RunIds
  /\ locks \in Seq(Windows)
  /\ win \in [Windows -> Scans]
  /\ fresh \subseteq Windows
  /\ edits \in Nat /\ crashes \in Nat

----------------------------------------------------------------------------
\* The trigger (background-schedule.ts, automation-schedule.ts).

\* nextScheduledAt
NextSlot(after) ==
  LET later == {s \in Slots : s > after}
  IN IF later = {} THEN None ELSE CHOOSE s \in later : \A t \in later : s <= t

\* latestDueAt
LatestDue(first) ==
  LET due == {first} \cup {s \in Slots : first < s /\ s <= now}
  IN CHOOSE s \in due : \A t \in due : t <= s

\* The slot the state waits for; a job that was never scanned waits for its first.
Awaited(s) == IF s.nextRunAt # None THEN s.nextRunAt ELSE NextSlot(-1)
Due(s) == Awaited(s) # None /\ Awaited(s) <= now
\* Faulty variant: slots never expire.
PassedOverNeverExpires(s) == CatchUp = "skip" /\ now - Awaited(s) > Minute
PassedOver(s) ==
  \/ CatchUp = "skip" /\ now - Awaited(s) > Minute
  \/ now - Awaited(s) > Expires
DueSlot(s) == IF CatchUp = "latest" THEN LatestDue(Awaited(s)) ELSE Awaited(s)

----------------------------------------------------------------------------
\* The lock, the state file and its revision check.

\* Faulty variant: the lock is taken in shared mode.
HoldsShared(w) == \E i \in DOMAIN locks : locks[i] = w
Holds(w) == locks # <<>> /\ Head(locks) = w
Release(w) == locks' = Tail(locks)

\* automationJobStore.saveState: refused when the state or the job has changed
\* since this window read it.
CanSave(w) == w \in fresh /\ win[w].job.rev = job.rev
Save(w, new) ==
  /\ state' = [new EXCEPT !.saved = TRUE, !.jobRev = win[w].job.rev]
  /\ fresh' = {w}

\* The rest of scanJobs once the state s of the job is known; q is the lock
\* without this window.
Decide(w, j, s, q) ==
  LET run(occ) == /\ win' = [win EXCEPT ![w] = [Rest EXCEPT !.pc = "lockRun",
                                                 !.job = j, !.occ = occ]]
                  /\ locks' = Append(q, w)
      save(at) == /\ win' = [win EXCEPT ![w] = [Rest EXCEPT !.pc = "saving",
                                                 !.job = j, !.next = at]]
                  /\ locks' = q
      stop == win' = [win EXCEPT ![w] = Rest] /\ locks' = q
      next == IF Due(s) THEN NextSlot(now) ELSE Awaited(s)
  IN CASE s.status = "blocked" -> stop
       [] s.status # "blocked" /\ s.manual # None ->
            run([at |-> s.manual, manual |-> TRUE])
       [] s.status # "blocked" /\ s.manual = None /\ ~j.enabled -> stop
       [] OTHER ->
            IF Due(s) /\ ~PassedOver(s)
            THEN run([at |-> DueSlot(s), manual |-> FALSE])
            ELSE IF ~s.saved \/ s.jobRev # j.rev \/ s.nextRunAt # next
                 THEN save(next) ELSE stop

----------------------------------------------------------------------------
\* scanJobs

\* The job list and the state are read.  An active run is looked at under the
\* lock first.
Scan(w) ==
  /\ win[w].pc = "idle"
  /\ IF state.active # None
     THEN /\ win' = [win EXCEPT ![w] = [Rest EXCEPT !.pc = "lockRecover", !.job = job]]
          /\ locks' = Append(locks, w)
     ELSE Decide(w, job, state, locks)
  /\ fresh' = fresh \cup {w}
  /\ UNCHANGED <<now, disk, sent, soft, bounds>>

\* The next slot is noted, unless the state has changed meanwhile.
SaveNext(w) ==
  /\ win[w].pc = "saving"
  /\ IF CanSave(w)
     THEN Save(w, [state EXCEPT !.status = "idle", !.nextRunAt = win[w].next])
     ELSE UNCHANGED <<state, fresh>>
  /\ win' = [win EXCEPT ![w] = Rest]
  /\ UNCHANGED <<now, job, runs, saved, sent, soft, locks, bounds>>

----------------------------------------------------------------------------
\* recoverInterruptedRun

Overdue == now - state.lastStarted > Budget
Active == runs[state.active]
Resumable(r) == saved[r] = "resumable"

\* Under the lock, with the state read again: a run that may still be alive is
\* left alone, one that has ended is taken over, another one is closed as
\* interrupted and its checkpoint removed.
Recover(w) ==
  /\ win[w].pc = "lockRecover" /\ Holds(w)
  /\ IF state.active = None \/ ~Overdue
     THEN Decide(w, win[w].job, state, Tail(locks)) /\ UNCHANGED <<runs, saved>>
     ELSE LET r == state.active
              over == Active.status \in Terminal
              replay == Active.status = "queued" \/ Resumable(r)
          IN /\ win' = [win EXCEPT
                  ![w].pc = IF over THEN "recovering" ELSE "recovered",
                  ![w].run = r,
                  ![w].outcome = CASE over -> "over"
                                   [] ~over /\ replay -> "replay"
                                   [] OTHER -> "block"]
             /\ runs' = IF over THEN runs
                        ELSE [runs EXCEPT ![r].status = "failed",
                                          ![r].interrupted = TRUE,
                                          ![r].completed = now]
             /\ saved' = IF over THEN saved ELSE [saved EXCEPT ![r] = "none"]
             /\ UNCHANGED locks
  /\ fresh' = fresh \cup {w}
  /\ UNCHANGED <<now, job, state, sent, soft, bounds>>

\* An ended run that was never delivered is delivered now, as far as possible.
RecoverDelivery(w) ==
  /\ win[w].pc = "recovering"
  /\ LET r == win[w].run
     IN /\ IF runs[r].delivery = "none" /\ runs[r].status = "succeeded"
           THEN sent' \in {sent, sent \cup {r}} ELSE UNCHANGED sent
        /\ saved' = [saved EXCEPT ![r] = "none"]
  /\ win' = [win EXCEPT ![w].pc = "recovered"]
  /\ UNCHANGED <<now, job, state, runs, soft, locks, fresh, bounds>>

Failures(failed) == IF failed THEN state.failures + 1 ELSE 0
StatusAfter(failed) ==
  CASE Failures(failed) >= MaxFailures -> "blocked"
    [] failed /\ Failures(failed) < MaxFailures -> "failed"
    [] OTHER -> "idle"

\* When the slot after a run is looked for.
LookFrom(at, end) == IF CatchUp = "skip" THEN at ELSE end

\* The state of the job once the run of an occurrence is over; what became of
\* a manual request is left to the caller.
Closed(occ, failed, end) ==
  [state EXCEPT
    !.status = StatusAfter(failed), !.failures = Failures(failed),
    !.active = None, !.pending = None, !.lastKey = occ, !.lastCompleted = end,
    !.nextRunAt = IF occ.manual THEN @ ELSE NextSlot(LookFrom(occ.at, end))]

\* Faulty variant: the run that is put back remains the active one.
RecoveredStillActive(w) ==
  [state EXCEPT !.status = "idle", !.pending = None, !.lastCompleted = now]
Recovered(w) ==
  LET r == runs[win[w].run]
  IN CASE win[w].outcome = "over" ->
            Closed(r.occ, r.status = "failed" \/ r.delivery = "failed", r.completed)
       [] win[w].outcome = "replay" ->
            [state EXCEPT !.status = "idle", !.active = None, !.pending = None,
               !.nextRunAt = IF @ = None THEN r.occ.at ELSE @, !.lastCompleted = now]
       [] OTHER ->
            [state EXCEPT !.status = "blocked", !.active = None, !.pending = None,
               !.lastCompleted = now, !.failures = @ + 1]

\* The state is saved, the lock released, and the scan goes on with it.
SaveRecovery(w) ==
  /\ win[w].pc = "recovered"
  /\ IF CanSave(w)
     THEN /\ Save(w, Recovered(w))
          /\ Decide(w, win[w].job, state', Tail(locks))
     ELSE /\ win' = [win EXCEPT ![w] = Rest] /\ Release(w)
          /\ UNCHANGED <<state, fresh>>
  /\ UNCHANGED <<now, job, runs, saved, sent, soft, bounds>>

----------------------------------------------------------------------------
\* runOccurrence

Free == {r \in RunIds : runs[r] = NoRun}
NewRun == CHOOSE r \in RunIds : runs[r] = NoRun

\* Faulty variant: the occurrence is not compared again under the lock.
AlreadyDoneUnchecked(occ) == FALSE
AlreadyDone(occ) == state.lastKey = occ
\* policy.overlap = "skip": the slot fell into the last run.
Overlaps(at) ==
  /\ Overlap = "skip"
  /\ state.lastStarted # None /\ state.lastCompleted # None
  /\ state.lastStarted <= at /\ at <= state.lastCompleted

\* The lock is granted and the state read again: nothing to do.
TurnBack(w) ==
  /\ win[w].pc = "lockRun" /\ Holds(w)
  /\ \/ AlreadyDone(win[w].occ) \/ Overlaps(win[w].occ.at) \/ state.active # None
     \/ win[w].job.rev # job.rev
  /\ IF /\ ~AlreadyDone(win[w].occ) /\ ~Overlaps(win[w].occ.at)
        /\ state.active # None /\ Overlap = "queue-latest" /\ win[w].job.rev = job.rev
     THEN Save(w, [state EXCEPT !.pending = win[w].occ.at])
     ELSE UNCHANGED <<state, fresh>>
  /\ win' = [win EXCEPT ![w] = Rest] /\ Release(w)
  /\ UNCHANGED <<now, job, runs, saved, sent, soft, bounds>>

\* A run is entered in the ledger ...
Enqueue(w) ==
  /\ win[w].pc = "lockRun" /\ Holds(w)
  /\ ~AlreadyDone(win[w].occ) /\ ~Overlaps(win[w].occ.at) /\ state.active = None
  /\ win[w].job.rev = job.rev
  /\ Free # {}
  /\ runs' = [runs EXCEPT ![NewRun] =
       [occ |-> win[w].occ, status |-> "queued", started |-> FALSE,
        interrupted |-> FALSE, delivery |-> "none", completed |-> None]]
  /\ win' = [win EXCEPT ![w].pc = "queued", ![w].run = NewRun]
  /\ fresh' = fresh \cup {w}
  /\ UNCHANGED <<now, job, state, saved, sent, soft, locks, bounds>>

\* ... then the state names it, unless it was edited in between ...
Activate(w) ==
  /\ win[w].pc = "queued"
  /\ IF CanSave(w)
     THEN /\ Save(w, [state EXCEPT !.status = "running", !.active = win[w].run,
                        !.pending = win[w].occ.at, !.lastStarted = now])
          /\ win' = [win EXCEPT ![w].pc = "claimed"]
          /\ UNCHANGED locks
     ELSE /\ win' = [win EXCEPT ![w] = Rest] /\ Release(w)
          /\ UNCHANGED <<state, fresh>>
  /\ UNCHANGED <<now, job, runs, saved, sent, soft, bounds>>

\* ... and the run is marked as running.
Start(w) ==
  /\ win[w].pc = "claimed"
  /\ runs' = [runs EXCEPT ![win[w].run].status = "running",
                          ![win[w].run].started = TRUE]
  /\ win' = [win EXCEPT ![w].pc = "executing"]
  /\ UNCHANGED <<now, job, state, saved, sent, soft, locks, fresh, bounds>>

----------------------------------------------------------------------------
\* executeAgent: checkpoints are emitted before the model is asked, before a
\* tool is called, after it has returned and when the answer is there.  They
\* are written behind the agent's back, one after the other.

EmitCheckpoint(w, phase) == win' = [win EXCEPT ![w].memory = phase]
Executing(w) == win[w].pc = "executing"

\* Faulty variant: the outcome is used while checkpoints are being written.
FlushedLater(w) == TRUE
\* checkpointWrite is awaited before the outcome is used.
Flushed(w) == saved[win[w].run] = win[w].memory

AskModel(w) ==
  /\ Executing(w) /\ win[w].memory = "none"
  /\ EmitCheckpoint(w, "resumable")
  /\ UNCHANGED <<now, disk, sent, soft, locks, fresh, bounds>>

CallTool(w) ==
  /\ Executing(w) /\ win[w].memory = "resumable" /\ win[w].calls < MaxCalls
  /\ win' = [win EXCEPT ![w].memory = "unsure", ![w].calls = @ + 1]
  /\ UNCHANGED <<now, disk, sent, soft, locks, fresh, bounds>>

ToolReturns(w) ==
  /\ Executing(w) /\ win[w].memory = "unsure"
  /\ EmitCheckpoint(w, "resumable")
  /\ UNCHANGED <<now, disk, sent, soft, locks, fresh, bounds>>

Answer(w) ==
  /\ Executing(w) /\ win[w].memory = "resumable"
  /\ EmitCheckpoint(w, "final")
  /\ UNCHANGED <<now, disk, sent, soft, locks, fresh, bounds>>

SaveCheckpoint(w) ==
  /\ Executing(w)
  /\ saved[win[w].run] # win[w].memory
  /\ saved' = [saved EXCEPT ![win[w].run] = win[w].memory]
  /\ UNCHANGED <<now, job, state, runs, sent, soft, locks, win, fresh, bounds>>

AgentSucceeds(w) ==
  /\ Executing(w) /\ win[w].memory = "final" /\ Flushed(w)
  /\ win' = [win EXCEPT ![w].pc = "delivering", ![w].outcome = "succeeded"]
  /\ UNCHANGED <<now, disk, sent, soft, locks, fresh, bounds>>

\* Its tools are stopped (a repeated or futile call), and the agent is asked once
\* more for an answer from what they returned: no final checkpoint is emitted, and
\* the one on disk still is the one that followed the tool.
SoftFinalize(w) ==
  /\ Executing(w) /\ win[w].memory = "resumable" /\ win[w].calls > 0 /\ Flushed(w)
  /\ win' = [win EXCEPT ![w].pc = "delivering", ![w].outcome = "succeeded"]
  /\ soft' = soft \cup {win[w].run}
  /\ UNCHANGED <<now, disk, sent, locks, fresh, bounds>>

\* A timeout, a provider error or a budget overrun; the first kinds are retried
\* from the beginning, as often as the policy says.
AgentFails(w) ==
  /\ Executing(w) /\ Flushed(w)
  /\ \/ win' = [win EXCEPT ![w].pc = "delivering", ![w].outcome = "failed"]
     \/ /\ win[w].attempt < MaxRetries /\ win[w].memory # "none"
        /\ win' = [win EXCEPT ![w].attempt = @ + 1, ![w].calls = 0,
                              ![w].memory = "resumable"]
  /\ UNCHANGED <<now, disk, sent, soft, locks, fresh, bounds>>

\* The sensor saw no change: the agent is not run.
NothingChanged(w) ==
  /\ Monitor
  /\ Executing(w) /\ win[w].memory = "none" /\ win[w].attempt = 0
  /\ win' = [win EXCEPT ![w].pc = "delivering", ![w].outcome = "skipped"]
  /\ UNCHANGED <<now, disk, sent, soft, locks, fresh, bounds>>

----------------------------------------------------------------------------
\* The end of a run.

\* Faulty variant: a failed delivery is not recorded with the run.
DeliveriesUnrecorded(outcome) == IF outcome = "skipped" THEN {"none"} ELSE {"ok", "none"}
\* deliver may fail before or after the message went out: the conversation is
\* recorded after the robot has sent it, and its result may time out.
Deliveries(outcome) == IF outcome = "skipped" THEN {"none"} ELSE {"ok", "failed"}
Deliver(w) ==
  /\ win[w].pc = "delivering"
  /\ \E d \in Deliveries(win[w].outcome) :
       /\ win' = [win EXCEPT ![w].pc = "closing", ![w].delivery = d]
       /\ \/ d # "ok" /\ UNCHANGED sent
          \/ d # "none" /\ sent' = IF win[w].outcome = "succeeded"
                                   THEN sent \cup {win[w].run} ELSE sent
  /\ UNCHANGED <<now, disk, soft, locks, fresh, bounds>>

\* saveRun refuses a run that somebody else has closed.
CanSaveRun(r) == runs[r].status \notin Terminal

\* The run is closed and its checkpoint removed.
Close(w) ==
  /\ win[w].pc = "closing"
  /\ IF CanSaveRun(win[w].run)
     THEN /\ runs' = [runs EXCEPT ![win[w].run].status = win[w].outcome,
                                  ![win[w].run].delivery = win[w].delivery,
                                  ![win[w].run].completed = now]
          /\ saved' = [saved EXCEPT ![win[w].run] = "none"] /\ soft' = soft \ {win[w].run}
          /\ win' = [win EXCEPT ![w].pc = "finishing"]
          /\ UNCHANGED locks
     ELSE /\ win' = [win EXCEPT ![w] = Rest] /\ Release(w)
          /\ UNCHANGED <<runs, saved, soft>>
  /\ UNCHANGED <<now, job, state, sent, fresh, bounds>>

Finished(r, failed) == [Closed(r.occ, failed, r.completed) EXCEPT !.manual = None]

\* The state is read again, closed and saved; a slot that was queued behind
\* the run is taken next.
Finish(w) ==
  /\ win[w].pc = "finishing"
  /\ LET r == runs[win[w].run]
         failed == r.status = "failed" \/ r.delivery = "failed"
         queued == IF state.pending # r.occ.at THEN state.pending ELSE None
     IN IF state.active = win[w].run /\ win[w].job.rev = job.rev
        THEN /\ Save(w, Finished(r, failed))
             /\ IF queued = None
                THEN win' = [win EXCEPT ![w] = Rest] /\ Release(w)
                ELSE /\ win' = [win EXCEPT ![w] = [Rest EXCEPT !.pc = "lockRun",
                          !.job = win[w].job, !.occ = [at |-> queued, manual |-> FALSE]]]
                     /\ locks' = Append(Tail(locks), w)
        ELSE /\ win' = [win EXCEPT ![w] = Rest] /\ Release(w)
             /\ UNCHANGED <<state, fresh>>
  /\ UNCHANGED <<now, job, runs, saved, sent, soft, bounds>>

----------------------------------------------------------------------------
\* The user, the clock, and windows that come and go.

Requested(at) == \E r \in RunIds : runs[r] # NoRun /\ runs[r].occ = [at |-> at, manual |-> TRUE]

\* requestAutomationRunNow.  The request is later than whatever it follows.
RequestRun ==
  /\ edits < MaxEdits /\ edits' = edits + 1
  /\ state.active = None /\ state.status # "blocked"
  /\ state.lastCompleted # None => now > state.lastCompleted
  /\ ~Requested(now)
  /\ state' = [state EXCEPT !.saved = TRUE, !.jobRev = job.rev, !.status = "idle",
       !.failures = 0, !.manual = now,
       !.nextRunAt = IF state.saved THEN @ ELSE NextSlot(now)]
  /\ fresh' = {}
  /\ UNCHANGED <<now, job, runs, saved, sent, soft, locks, win, crashes>>

\* The switch of the settings page, which saves the job.
Toggle ==
  /\ edits < MaxEdits /\ edits' = edits + 1
  /\ state.active = None
  /\ job' = [rev |-> job.rev + 1, enabled |-> ~job.enabled]
  /\ UNCHANGED <<now, state, runs, saved, sent, soft, locks, win, fresh, crashes>>

Tick ==
  /\ now + 2 <= MaxTime
  /\ now' = now + 2
  /\ UNCHANGED <<disk, sent, soft, locks, win, fresh, bounds>>

\* The queue q of a lock without the window w, which is in it once at most.
Without(q, w) ==
  IF \E i \in DOMAIN q : q[i] = w
  THEN LET i == CHOOSE i \in DOMAIN q : q[i] = w
       IN [j \in 1 .. Len(q) - 1 |-> q[IF j < i THEN j ELSE j + 1]]
  ELSE q

\* A window is closed or killed; the browser frees the locks it held or awaited.
Crash(w) ==
  /\ crashes < MaxCrashes /\ now <= LastCrash
  /\ crashes' = crashes + 1
  /\ win[w].pc # "off"
  /\ win' = [win EXCEPT ![w] = [Rest EXCEPT !.pc = "off"]]
  /\ locks' = Without(locks, w)
  /\ fresh' = fresh \ {w}
  /\ UNCHANGED <<now, disk, sent, soft, edits>>

Restart(w) ==
  /\ win[w].pc = "off"
  /\ win' = [win EXCEPT ![w] = Rest]
  /\ UNCHANGED <<now, disk, sent, soft, locks, fresh, bounds>>

----------------------------------------------------------------------------
Init ==
  /\ now = 1
  /\ job = [rev |-> 1, enabled |-> TRUE]
  /\ state = NoState
  /\ runs = [r \in RunIds |-> NoRun] /\ saved = [r \in RunIds |-> "none"]
  /\ sent = {} /\ soft = {}
  /\ locks = <<>>
  /\ win = [w \in Windows |-> Rest]
  /\ fresh = {}
  /\ edits = 0 /\ crashes = 0

ScanStep(w) ==
  \/ Scan(w) \/ SaveNext(w)
  \/ Recover(w) \/ RecoverDelivery(w) \/ SaveRecovery(w)
RunStep(w) ==
  \/ TurnBack(w) \/ Enqueue(w) \/ Activate(w) \/ Start(w)
  \/ AskModel(w) \/ CallTool(w) \/ ToolReturns(w) \/ Answer(w)
  \/ SaveCheckpoint(w) \/ AgentSucceeds(w) \/ SoftFinalize(w) \/ AgentFails(w)
  \/ NothingChanged(w)
  \/ Deliver(w) \/ Close(w) \/ Finish(w)
WindowStep(w) == ScanStep(w) \/ RunStep(w)

Next ==
  \/ \E w \in Windows : WindowStep(w) \/ Crash(w) \/ Restart(w)
  \/ RequestRun \/ Toggle \/ Tick

\* Windows scan every fifteen seconds and work off what they have begun, the
\* application is opened again some day, and time goes by.
Fairness ==
  /\ \A w \in Windows : WF_vars(WindowStep(w)) /\ WF_vars(Restart(w))
  /\ WF_vars(Tick)

Spec == Init /\ [][Next]_vars
FairSpec == Spec /\ Fairness
----------------------------------------------------------------------------
\* Properties.

Ran(r) == runs[r] # NoRun /\ runs[r].started
Scheduled(r) == ~runs[r].occ.manual
InRun(w) == win[w].pc \in {"claimed", "executing", "delivering", "closing"}

\* No two windows run the job at once, and whoever runs it is the one the state
\* names; it is never taken for interrupted while it is alive
\* (withNotificationLock around runOccurrence and recoverInterruptedRun).
OneRunAtATime ==
  \A w \in Windows : InRun(w) =>
    /\ state.active = win[w].run
    /\ runs[win[w].run].status \in {"queued", "running"}
    /\ \A v \in Windows \ {w} : ~InRun(v)

\* A slot is run again only when its earlier run was interrupted at a point
\* where nothing was known to be under way (lastOccurrenceKey, scanJobs).
SlotRunsOnce ==
  \A r, q \in RunIds :
    /\ r # q /\ Ran(r) /\ Ran(q)
    /\ Scheduled(r) /\ runs[r].occ = runs[q].occ
    => runs[r].interrupted \/ runs[q].interrupted

\* Answers that are out for good: all but those of a run that had no final
\* checkpoint and was taken for interrupted afterwards.
Standing == {r \in sent : ~(r \in soft /\ runs[r].interrupted)}

\* An answer reaches its reader at most once per occurrence, also when the window
\* dies between delivering it and closing the run: the final checkpoint is on disk
\* before the answer is used.  An answer given after the tools were stopped has
\* none; if its window dies there, the occurrence is answered again.
AnswerOnce ==
  \A r, q \in Standing : runs[r].occ = runs[q].occ => r = q

\* How far a run of the ledger has come: one that was taken for interrupted is
\* lost, whatever its status shows.
PhaseOf(run) ==
  IF run = NoRun THEN "none"
  ELSE IF run.interrupted THEN "lost"
  ELSE IF run.status \in Terminal THEN "ended" ELSE run.status
Ledger == INSTANCE JobLedger WITH
  phase <- [r \in RunIds |-> PhaseOf(runs[r])], active <- state.active, told <- sent

\* Every step of every window, killed ones included, is one the ledger allows: a
\* run that has ended or was given up stays so, none is claimed while another
\* holds the job, and no answer goes out after its run is over (saveRun's
\* revisions, the claim in runOccurrence, recoverInterruptedRun).
KeepsLedger == Ledger!Spec

\* A slot that has come is run or passed over, and a manual request is carried
\* out, unless the job is switched off or blocked, or a window was killed
\* (scanJobs, manualRunRequestedAt).
WorkIsServed ==
  /\ \A s \in Slots :
       now >= s ~> \/ state.nextRunAt = None \/ state.nextRunAt > s
                   \/ state.status = "blocked" \/ ~job.enabled \/ crashes > 0
  /\ state.manual # None ~>
       state.manual = None \/ state.status = "blocked" \/ crashes > 0

\* A run that is under way is over some day, whatever happens to its window
\* (recoverInterruptedRun).
RunsEnd ==
  \A r \in RunIds : state.active = r ~> state.active # r

\* What the message of a blocked job says and the code does not do (see README):
\* a blocked job that the user switches off and on again runs again.
Reenabled == state.status = "blocked" /\ job.enabled /\ state.jobRev # job.rev
BlockIsLifted == Reenabled ~> state.status # "blocked" \/ ~job.enabled
=============================================================================

------------------------ MODULE BackgroundScheduler ------------------------
(***************************************************************************)
(* The scheduler every background scan of a window goes through            *)
(* (background-scheduler.ts): a table of tasks, one timer for the next due *)
(* time, and a pump that runs the due tasks with bounded concurrency and   *)
(* is awaited as a whole before the timer is set again.                    *)
(*                                                                         *)
(* A task's code runs between the steps of the pump; meanwhile anybody may *)
(* signal, stop, unregister or register tasks, under the same name too.    *)
(***************************************************************************)
EXTENDS Naturals, FiniteSets

CONSTANTS
  Names,        \* ids of tasks
  Generations,  \* bound: registrations of one id, 1 .. n
  Concurrency   \* BACKGROUND_SCAN_CONCURRENCY

ASSUME SchedulerAssumption ==
  /\ Generations \in Nat /\ Concurrency \in Nat \ {0}

\* A registration is an object of its own: an unregistered task may still be
\* running when its id is registered again.
Objects == Names \X (1 .. Generations)
NameOf(o) == o[1]

\* nextAt: reached, yet to come, or infinite.
Times == {"now", "later", "never"}
Phases == {"resting", "resolving", "running"}
Records == [next : Times, phase : Phases, rerun : BOOLEAN, stopped : BOOLEAN]

VARIABLES
  born,   \* per id, how often it was registered
  tasks,  \* the task table: the registered objects
  task,   \* the fields of each object
  timer,  \* a timeout is pending
  pump,   \* pumpInFlight
  queue,  \* tasks of this pump that no worker has taken yet
  asked   \* signalled or due since they were last resolved

vars == <<born, tasks, task, timer, pump, queue, asked>>

Pristine == [next |-> "never", phase |-> "resting", rerun |-> FALSE, stopped |-> TRUE]
\* Faulty variant: the first due time is left open.
NewTaskUnplanned == [next |-> "undefined", phase |-> "resting", rerun |-> FALSE,
                     stopped |-> FALSE]
NewTask == [next |-> "now", phase |-> "resting", rerun |-> FALSE, stopped |-> FALSE]

\* Every variable holds a value of its kind.
TypeOK ==
  /\ born \in [Names -> Nat]
  /\ tasks \subseteq Objects
  /\ task \in [Objects -> Records]
  /\ timer \in BOOLEAN
  /\ pump \in {"idle", "starting", "pumping"}
  /\ queue \subseteq Objects /\ asked \subseteq Objects

Busy(o) == task[o].phase # "resting"
Running == {o \in Objects : Busy(o)}

----------------------------------------------------------------------------
\* schedule: leaves a pump in flight alone, else sets the timer if any task
\* has a time to wait for.  It comes last in an action.

\* Faulty variants: a pump in flight is not noticed; only due tasks count.
PumpUnnoticed == FALSE
WaitsIfDue(o) == ~task[o].stopped /\ ~Busy(o) /\ task[o].next = "now"

PumpInFlight == pump # "idle"
Waits(o) == ~task[o].stopped /\ ~Busy(o) /\ task[o].next # "never"
Schedule ==
  timer' = IF PumpInFlight' THEN timer ELSE \E o \in tasks' : Waits(o)'

\* requestTaskWake
\* Faulty variant: a signal during a run is dropped.
WokenIfResting(r) ==
  IF r.phase # "resting" THEN [r EXCEPT !.stopped = FALSE]
  ELSE [r EXCEPT !.stopped = FALSE, !.rerun = FALSE, !.next = "now"]
Woken(r) ==
  IF r.phase # "resting" THEN [r EXCEPT !.stopped = FALSE, !.rerun = TRUE]
  ELSE [r EXCEPT !.stopped = FALSE, !.rerun = FALSE, !.next = "now"]
Halted(r) == [r EXCEPT !.stopped = TRUE, !.rerun = FALSE, !.next = "never"]

Change(S, f(_)) == task' = [o \in Objects |-> IF o \in S THEN f(task[o]) ELSE task[o]]
Under(name) == {o \in tasks : NameOf(o) = name}

----------------------------------------------------------------------------
\* The callers.

\* registerBackgroundScanTask of an id that is not in the table
Register(name) ==
  /\ Under(name) = {} /\ born[name] < Generations
  /\ born' = [born EXCEPT ![name] = @ + 1]
  /\ LET o == <<name, born[name] + 1>>
     IN /\ tasks' = tasks \cup {o}
        /\ task' = [task EXCEPT ![o] = NewTask]
        /\ asked' = asked \cup {o}
  /\ UNCHANGED <<pump, queue>>
  /\ Schedule

\* The function a registration returns.
Unregister(name) ==
  /\ Under(name) # {}
  /\ tasks' = tasks \ Under(name)
  /\ Change(Under(name), Halted)
  /\ asked' = asked \ Under(name)
  /\ UNCHANGED <<born, pump, queue>>
  /\ Schedule

Wake(S) ==
  /\ Change(S, Woken)
  /\ asked' = asked \cup S
  /\ UNCHANGED <<born, tasks, pump, queue>>
  /\ Schedule

\* signalBackgroundScanTask; an id registered again comes to the same
Signal(name) == Wake(Under(name))
\* back online, or visible again
WakeAll == Wake(tasks)

\* stopBackgroundScanTask
StopTask(name) ==
  /\ Change(Under(name), Halted)
  /\ asked' = asked \ Under(name)
  /\ UNCHANGED <<born, tasks, pump, queue>>
  /\ Schedule

----------------------------------------------------------------------------
\* Time: a due time is reached; the timer fires, at the latest a minute later.

Elapse(o) ==
  /\ o \in tasks /\ task[o].next = "later"
  /\ task' = [task EXCEPT ![o].next = "now"]
  /\ asked' = asked \cup {o}
  /\ UNCHANGED <<born, tasks, timer, pump, queue>>

TimerFires ==
  /\ timer
  /\ timer' = FALSE
  /\ pump' = IF PumpInFlight THEN pump ELSE "starting"
  /\ UNCHANGED <<born, tasks, task, queue, asked>>

----------------------------------------------------------------------------
\* The pump.

PumpBegins ==
  /\ pump = "starting"
  /\ pump' = "pumping"
  /\ queue' = {o \in tasks : Waits(o) /\ task[o].next = "now"}
  /\ UNCHANGED <<born, tasks, task, timer, asked>>

\* A worker takes the next task; it is looked at again before it starts.
Take(o) ==
  /\ pump = "pumping" /\ o \in queue
  /\ Cardinality(Running) < Concurrency
  /\ queue' = queue \ {o}
  /\ IF o \in tasks /\ ~task[o].stopped /\ ~Busy(o)
     THEN /\ task' = [task EXCEPT ![o].phase = "resolving"]
          /\ asked' = asked \ {o}
     ELSE UNCHANGED <<task, asked>>
  /\ UNCHANGED <<born, tasks, timer, pump>>

\* The end of runTask: what happened meanwhile goes before the task's own plan.
\* Faulty variant: a stop during the run is not looked at.
RestedThoughStopped(r, plan) ==
  [r EXCEPT !.phase = "resting", !.rerun = FALSE,
            !.next = IF r.rerun THEN "now" ELSE plan]
Rested(r, plan) ==
  [r EXCEPT !.phase = "resting", !.rerun = FALSE,
            !.next = CASE r.stopped -> "never"
                       [] ~r.stopped /\ r.rerun -> "now"
                       [] OTHER -> plan]
Ends(o, plan) ==
  task' = [task EXCEPT ![o] =
    IF o \in tasks THEN Rested(@, plan) ELSE [@ EXCEPT !.phase = "resting"]]

\* resolve() answers: not if the task was dropped meanwhile, else it is enabled
\* and its run begins, or it is not and waits for a signal.
Resolve(o) ==
  /\ task[o].phase = "resolving"
  /\ \/ (o \notin tasks \/ task[o].stopped) /\ Ends(o, "later")
     \/ /\ o \in tasks /\ ~task[o].stopped
        /\ \/ task' = [task EXCEPT ![o].phase = "running"]
           \/ Ends(o, "never")
  /\ UNCHANGED <<born, tasks, timer, pump, queue, asked>>

\* resolve() throws.
FailToResolve(o) ==
  /\ task[o].phase = "resolving"
  /\ Ends(o, "later")
  /\ UNCHANGED <<born, tasks, timer, pump, queue, asked>>

\* run() is over, one way or the other.
EndRun(o) ==
  /\ task[o].phase = "running"
  /\ Ends(o, "later")
  /\ UNCHANGED <<born, tasks, timer, pump, queue, asked>>

\* finishPump
PumpEnds ==
  /\ pump = "pumping" /\ queue = {} /\ Running = {}
  /\ pump' = "idle"
  /\ UNCHANGED <<born, tasks, task, queue, asked>>
  /\ Schedule

----------------------------------------------------------------------------
Init ==
  /\ born = [n \in Names |-> 0]
  /\ tasks = {} /\ task = [o \in Objects |-> Pristine]
  /\ timer = FALSE /\ pump = "idle" /\ queue = {} /\ asked = {}

Callers ==
  \/ \E n \in Names : Register(n) \/ Unregister(n) \/ Signal(n) \/ StopTask(n)
  \/ WakeAll
TaskStep(o) == Take(o) \/ Resolve(o) \/ FailToResolve(o) \/ EndRun(o)
PumpStep == TimerFires \/ PumpBegins \/ PumpEnds

Next ==
  \/ Callers \/ PumpStep
  \/ \E o \in Objects : Elapse(o) \/ TaskStep(o)

\* Timers fire and every task's promises settle (the scans of this program
\* bound their own waiting); nothing obliges the callers.
Fairness ==
  /\ WF_vars(TimerFires) /\ WF_vars(PumpBegins) /\ WF_vars(PumpEnds)
  /\ \A o \in Objects : WF_vars(TaskStep(o)) /\ WF_vars(Elapse(o))

Spec == Init /\ [][Next]_vars
FairSpec == Spec /\ Fairness
----------------------------------------------------------------------------
\* Properties.

\* Two runs of one id never overlap, not even those of a task that was
\* unregistered while running and of its successor: the scans keep state at
\* module level (lastScanAt, dedupe maps) and rely on it (startPump, schedule).
OneRunPerId ==
  \A o, p \in Running : NameOf(o) = NameOf(p) => o = p

\* Whenever no pump is in flight and some task has a time to wait for, the
\* timer is set: no signal and no due time is slept through (schedule).
TimerIsSet ==
  pump = "idle" /\ (\E o \in tasks : Waits(o)) => timer

\* A task that was stopped stays stopped until somebody wakes it; the end of
\* the run that was under way does not bring it back (runTask).
StopHolds ==
  \A o \in tasks :
    task[o].stopped /\ ~Busy(o) => task[o].next = "never" /\ ~task[o].rerun

\* A task that is signalled, also while it runs, or whose time has come is
\* resolved afterwards, unless it is stopped or unregistered first
\* (requestTaskWake, runTask, finishPump).
SignalsAreServed == \A o \in Objects : o \in asked ~> o \notin asked
=============================================================================

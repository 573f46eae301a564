--------------------- MODULE BackgroundSchedulerProofs ---------------------
(***************************************************************************)
(* Proofs about BackgroundScheduler for every set of names, number of      *)
(* registrations and concurrency: runs of one id never overlap, no waiting *)
(* task is without a timer, and a stopped task stays stopped.              *)
(***************************************************************************)
EXTENDS BackgroundScheduler, TLAPS

----------------------------------------------------------------------------
\* What the operators on one task's fields return.

LEMMA RecordsKept ==
  ASSUME NEW r \in Records, NEW plan \in Times
  PROVE  /\ Woken(r) \in Records /\ Woken(r).phase = r.phase
         /\ Halted(r) \in Records /\ Halted(r).phase = r.phase
         /\ Rested(r, plan) \in Records /\ Rested(r, plan).phase = "resting"
         /\ [r EXCEPT !.phase = "resting"] \in Records
         /\ [r EXCEPT !.phase = "resolving"] \in Records
         /\ [r EXCEPT !.phase = "running"] \in Records
         /\ [r EXCEPT !.next = "now"] \in Records
BY DEF Records, Woken, Halted, Rested, Times, Phases

LEMMA NewTaskType == NewTask \in Records /\ NewTask.phase = "resting"
BY DEF NewTask, Records, Times, Phases

\* A step that wakes or halts some tasks.
Redone(S) ==
  \/ task' = [o \in Objects |-> IF o \in S THEN Woken(task[o]) ELSE task[o]]
  \/ task' = [o \in Objects |-> IF o \in S THEN Halted(task[o]) ELSE task[o]]

\* What everyone but the pump may do to the tasks: nobody begins or ends a run.
LEMMA RedoneType ==
  ASSUME TypeOK, NEW S, Redone(S)
  PROVE  /\ task' \in [Objects -> Records]
         /\ \A o \in Objects : task'[o].phase = task[o].phase
         /\ Running' = Running
<1>1. \A o \in Objects : task[o] \in Records
  BY DEF TypeOK
<1>2. \A o \in Objects :
        /\ Woken(task[o]) \in Records /\ Woken(task[o]).phase = task[o].phase
        /\ Halted(task[o]) \in Records /\ Halted(task[o]).phase = task[o].phase
  BY <1>1, RecordsKept DEF Times
<1>3. task' \in [Objects -> Records]
  BY <1>1, <1>2 DEF Redone
<1>4. \A o \in Objects : task'[o].phase = task[o].phase
  BY <1>2 DEF Redone
<1>5. QED BY <1>3, <1>4 DEF Running, Busy

LEMMA CallersRedo ==
  ASSUME NEW name \in Names, Unregister(name) \/ Signal(name) \/ StopTask(name)
  PROVE  Redone(Under(name))
BY DEF Unregister, Signal, StopTask, Wake, Change, Redone

LEMMA WakeAllRedoes == ASSUME WakeAll PROVE Redone(tasks)
BY DEF WakeAll, Wake, Change, Redone

LEMMA UnderIsIn == \A name : Under(name) \subseteq tasks
BY DEF Under

LEMMA ScheduleType == ASSUME Schedule, timer \in BOOLEAN PROVE timer' \in BOOLEAN
BY DEF Schedule

----------------------------------------------------------------------------
\* Types.

LEMMA NextKeepsType ==
  ASSUME TypeOK, [Next]_vars
  PROVE  TypeOK'
<1>t. \A o \in Objects : task[o] \in Records
  BY DEF TypeOK
<1>1. CASE UNCHANGED vars
  BY <1>1 DEF TypeOK, vars
<1>2. ASSUME NEW name \in Names, Register(name) PROVE TypeOK'
  <2>0. born[name] \in Nat /\ born[name] + 1 \in 1 .. Generations
    BY <1>2, SchedulerAssumption DEF Register, TypeOK
  <2>1. <<name, born[name] + 1>> \in Objects
    BY <2>0 DEF Objects
  <2>2. task' \in [Objects -> Records]
    BY <1>2, <2>1, NewTaskType DEF Register, TypeOK
  <2>3. born' \in [Names -> Nat]
    BY <1>2, <2>0 DEF Register, TypeOK
  <2>4. timer' \in BOOLEAN
    BY <1>2, ScheduleType DEF Register, TypeOK
  <2>5. QED BY <1>2, <2>1, <2>2, <2>3, <2>4 DEF Register, TypeOK
<1>3. ASSUME NEW name \in Names, Unregister(name) \/ Signal(name) \/ StopTask(name)
      PROVE  TypeOK'
  <2>1. task' \in [Objects -> Records]
    BY <1>3, CallersRedo, RedoneType
  <2>2. timer' \in BOOLEAN
    BY <1>3, ScheduleType DEF Unregister, Signal, StopTask, Wake, TypeOK
  <2>3. QED
    BY <1>3, <2>1, <2>2, UnderIsIn DEF Unregister, Signal, StopTask, Wake, TypeOK
<1>4. CASE WakeAll
  <2>1. task' \in [Objects -> Records]
    BY <1>4, WakeAllRedoes, RedoneType
  <2>2. timer' \in BOOLEAN
    BY <1>4, ScheduleType DEF WakeAll, Wake, TypeOK
  <2>3. QED BY <1>4, <2>1, <2>2 DEF WakeAll, Wake, TypeOK
<1>5. CASE PumpStep
  <2>1. timer' \in BOOLEAN
    BY <1>5, ScheduleType DEF PumpStep, TimerFires, PumpBegins, PumpEnds, TypeOK
  <2>2. QED BY <1>5, <2>1 DEF PumpStep, TimerFires, PumpBegins, PumpEnds, TypeOK
<1>6. ASSUME NEW o \in Objects, Elapse(o) \/ TaskStep(o) PROVE TypeOK'
  <2>1. task' \in [Objects -> Records]
    <3>1. /\ \A plan \in Times : Rested(task[o], plan) \in Records
          /\ [task[o] EXCEPT !.phase = "resting"] \in Records
          /\ [task[o] EXCEPT !.phase = "resolving"] \in Records
          /\ [task[o] EXCEPT !.phase = "running"] \in Records
          /\ [task[o] EXCEPT !.next = "now"] \in Records
      BY <1>t, RecordsKept DEF Times
    <3>2. "later" \in Times /\ "never" \in Times
      BY DEF Times
    <3>3. ASSUME NEW plan \in Times, Ends(o, plan) PROVE task' \in [Objects -> Records]
      BY <3>1, <3>3 DEF Ends, TypeOK
    <3>4. CASE Elapse(o) \/ Take(o)
      BY <3>1, <3>4 DEF Elapse, Take, TypeOK
    <3>5. CASE Resolve(o)
      BY <3>1, <3>2, <3>3, <3>5 DEF Resolve, TypeOK
    <3>6. CASE FailToResolve(o) \/ EndRun(o)
      BY <3>2, <3>3, <3>6 DEF FailToResolve, EndRun
    <3>7. QED BY <1>6, <3>4, <3>5, <3>6 DEF TaskStep
  <2>2. /\ UNCHANGED <<born, tasks, timer, pump>>
        /\ queue' \subseteq queue /\ asked' \subseteq asked \cup {o}
    BY <1>6 DEF TaskStep, Elapse, Take, Resolve, FailToResolve, EndRun
  <2>3. QED BY <2>1, <2>2 DEF TypeOK
<1>7. QED BY <1>1, <1>2, <1>3, <1>4, <1>5, <1>6 DEF Next, Callers

LEMMA InitType == Init => TypeOK
<1>1. Pristine \in Records
  BY DEF Pristine, Records, Times, Phases
<1>2. Init => task \in [Objects -> Records] /\ born \in [Names -> Nat]
  BY <1>1 DEF Init
<1>3. QED BY <1>2 DEF Init, TypeOK

\* Every variable keeps its type.
THEOREM SchedulerTypeCorrect == Spec => []TypeOK
<1>1. QED BY InitType, NextKeepsType, PTL DEF Spec

----------------------------------------------------------------------------
\* The pump: the tasks it has still to run and those it is running have names
\* of their own, and outside a pump nothing runs.

Distinct(S) == \A o, p \in S : NameOf(o) = NameOf(p) => o = p

PumpInv ==
  /\ Distinct(tasks)
  /\ Distinct(queue \cup Running)
  /\ pump # "pumping" => queue = {} /\ Running = {}

LEMMA DistinctSubset ==
  ASSUME NEW S, NEW R, R \subseteq S, Distinct(S) PROVE Distinct(R)
BY DEF Distinct

\* The steps of one task end its run, or begin it out of the queue.
LEMMA TaskStepRuns ==
  ASSUME TypeOK, NEW o \in Objects, Elapse(o) \/ TaskStep(o)
  PROVE  /\ UNCHANGED <<tasks, pump>>
         /\ queue' \cup Running' \subseteq queue \cup Running
         /\ Running' \subseteq Running \/ pump = "pumping"
         /\ queue' \subseteq queue
<1>t. task \in [Objects -> Records]
  BY DEF TypeOK
<1>1. \A p \in Objects \ {o} : task'[p] = task[p]
  BY <1>t DEF Elapse, TaskStep, Take, Resolve, FailToResolve, EndRun, Ends
<1>2. UNCHANGED <<tasks, pump>> /\ queue' \subseteq queue
  BY DEF Elapse, TaskStep, Take, Resolve, FailToResolve, EndRun
<1>3. \A p \in Running' : p # o => p \in Running
  BY <1>1 DEF Running, Busy
<1>4. CASE Elapse(o)
  <2>1. task'[o].phase = task[o].phase
    BY <1>4, <1>t DEF Elapse, Records
  <2>2. QED BY <1>2, <1>3, <2>1 DEF Running, Busy
<1>5. CASE Take(o)
  BY <1>2, <1>3, <1>5 DEF Take
<1>6. CASE Resolve(o) \/ FailToResolve(o) \/ EndRun(o)
  <2>1. o \in Running
    BY <1>6 DEF Resolve, FailToResolve, EndRun, Running, Busy
  <2>2. QED BY <1>2, <1>3, <2>1
<1>7. QED BY <1>4, <1>5, <1>6 DEF TaskStep

LEMMA NextKeepsPump ==
  ASSUME TypeOK, PumpInv, [Next]_vars
  PROVE  PumpInv'
<1>1. CASE UNCHANGED vars
  BY <1>1 DEF PumpInv, Distinct, vars, Running, Busy
<1>2. ASSUME NEW name \in Names, Register(name) PROVE PumpInv'
  <2> DEFINE new == <<name, born[name] + 1>>
  <2>0. new \in Objects /\ NameOf(new) = name
    BY <1>2, SchedulerAssumption DEF Register, TypeOK, Objects, NameOf
  <2>1. /\ tasks' = tasks \cup {new} /\ task' = [task EXCEPT ![new] = NewTask]
        /\ UNCHANGED <<pump, queue>>
    BY <1>2 DEF Register
  <2>2. \A o \in tasks : NameOf(o) # name
    BY <1>2 DEF Register, Under
  <2>3. Distinct(tasks')
    BY <2>0, <2>1, <2>2 DEF PumpInv, Distinct
  <2>4. Running' \subseteq Running
    BY <2>0, <2>1, NewTaskType DEF Running, Busy, TypeOK
  <2>5. QED BY <2>1, <2>3, <2>4 DEF PumpInv, Distinct
<1>3. ASSUME NEW name \in Names, Unregister(name) \/ Signal(name) \/ StopTask(name)
      PROVE  PumpInv'
  <2>1. Running' = Running
    BY <1>3, CallersRedo, RedoneType
  <2>2. tasks' \subseteq tasks /\ UNCHANGED <<pump, queue>>
    BY <1>3 DEF Unregister, Signal, StopTask, Wake
  <2>3. QED BY <2>1, <2>2 DEF PumpInv, Distinct
<1>4. CASE WakeAll
  <2>1. Running' = Running
    BY <1>4, WakeAllRedoes, RedoneType
  <2>2. QED BY <1>4, <2>1 DEF WakeAll, Wake, PumpInv, Distinct
<1>5. CASE PumpStep
  <2>1. Running' = Running /\ tasks' = tasks
    BY <1>5 DEF PumpStep, TimerFires, PumpBegins, PumpEnds, Running, Busy
  <2>2. CASE PumpBegins
    BY <2>1, <2>2 DEF PumpBegins, PumpInv, Distinct
  <2>3. CASE TimerFires
    BY <2>1, <2>3 DEF TimerFires, PumpInv, Distinct, PumpInFlight
  <2>4. CASE PumpEnds
    BY <2>1, <2>4 DEF PumpEnds, PumpInv, Distinct
  <2>5. QED BY <1>5, <2>2, <2>3, <2>4 DEF PumpStep
<1>6. ASSUME NEW o \in Objects, Elapse(o) \/ TaskStep(o) PROVE PumpInv'
  <2>1. Distinct(tasks') /\ Distinct((queue \cup Running)')
    BY <1>6, TaskStepRuns DEF PumpInv, Distinct
  <2>2. QED BY <1>6, <2>1, TaskStepRuns DEF PumpInv
<1>7. QED BY <1>1, <1>2, <1>3, <1>4, <1>5, <1>6 DEF Next, Callers

LEMMA InitPump == Init => PumpInv
<1>1. SUFFICES ASSUME Init PROVE PumpInv
  OBVIOUS
<1>2. Running = {}
  BY <1>1 DEF Init, Running, Busy, Pristine
<1>3. QED BY <1>1, <1>2 DEF Init, PumpInv, Distinct

\* Two runs of one id never overlap, whatever is registered, unregistered and
\* signalled while they are under way.
THEOREM RunsOfOneIdExclude == Spec => []OneRunPerId
<1>1. PumpInv => OneRunPerId
  BY DEF PumpInv, Distinct, OneRunPerId
<1>2. QED
  BY <1>1, InitType, InitPump, NextKeepsType, NextKeepsPump, PTL DEF Spec

----------------------------------------------------------------------------
\* The timer.

LEMMA NextKeepsTimer ==
  ASSUME TypeOK, PumpInv, TimerIsSet, [Next]_vars
  PROVE  TimerIsSet'
<1>1. CASE UNCHANGED vars
  BY <1>1 DEF TimerIsSet, vars, Waits, Busy
<1>2. CASE Schedule
  BY <1>2 DEF Schedule, TimerIsSet, PumpInFlight
<1>3. CASE TimerFires \/ PumpBegins
  BY <1>3 DEF TimerFires, PumpBegins, PumpInFlight, TimerIsSet
<1>4. ASSUME NEW o \in Objects, Elapse(o) PROVE TimerIsSet'
  <2>1. \A p \in tasks : Waits(p)' => Waits(p)
    BY <1>4 DEF Elapse, Waits, Busy, TypeOK, Records
  <2>2. QED BY <1>4, <2>1 DEF Elapse, TimerIsSet
<1>5. ASSUME NEW o \in Objects, TaskStep(o) PROVE TimerIsSet'
  <2>1. pump = "pumping"
    BY <1>5 DEF TaskStep, Take, Resolve, FailToResolve, EndRun, PumpInv, Running, Busy
  <2>2. pump' = pump
    BY <1>5, TaskStepRuns
  <2>3. QED BY <2>1, <2>2 DEF TimerIsSet
<1>6. QED
  BY <1>1, <1>2, <1>3, <1>4, <1>5
     DEF Next, Callers, PumpStep, Register, Unregister, Signal, StopTask, WakeAll,
         Wake, PumpEnds

LEMMA InitTimer == Init => TimerIsSet
BY DEF Init, TimerIsSet

\* No waiting task is without a timer once the pump is over.
THEOREM TimerNeverForgotten == Spec => []TimerIsSet
<1>1. TypeOK /\ PumpInv /\ TimerIsSet /\ [Next]_vars => TimerIsSet'
  BY NextKeepsTimer
<1>2. QED
  BY <1>1, InitType, InitPump, InitTimer, NextKeepsType, NextKeepsPump, PTL DEF Spec

----------------------------------------------------------------------------
\* Stopped tasks.

LEMMA RestedAsStopped ==
  ASSUME NEW r \in Records, NEW plan \in Times
  PROVE  /\ Rested(r, plan).stopped => Rested(r, plan).next = "never"
         /\ ~Rested(r, plan).rerun
BY DEF Rested, Records, Times

LEMMA NextKeepsStop ==
  ASSUME TypeOK, StopHolds, [Next]_vars
  PROVE  StopHolds'
<1> DEFINE Holds(r) == r.stopped /\ r.phase = "resting" => r.next = "never" /\ ~r.rerun
<1>t. \A o \in Objects : task[o] \in Records
  BY DEF TypeOK
<1>h. \A o \in tasks : o \in Objects /\ Holds(task[o])
  BY DEF TypeOK, StopHolds, Busy
<1>0. ASSUME \A o \in tasks' : Holds(task'[o]) PROVE StopHolds'
  BY <1>0 DEF StopHolds, Busy
<1>1. CASE UNCHANGED vars
  BY <1>0, <1>1, <1>h DEF vars
<1>2. ASSUME NEW name \in Names, Register(name) PROVE StopHolds'
  <2> DEFINE new == <<name, born[name] + 1>>
  <2>0. new \in Objects
    BY <1>2, SchedulerAssumption DEF Register, TypeOK, Objects
  <2>1. tasks' = tasks \cup {new} /\ task' = [task EXCEPT ![new] = NewTask]
    BY <1>2 DEF Register
  <2>2. Holds(NewTask)
    BY DEF NewTask
  <2>3. \A o \in tasks' : Holds(task'[o])
    BY <1>h, <2>0, <2>1, <2>2 DEF TypeOK
  <2>4. QED BY <1>0, <2>3
<1>3. ASSUME NEW S, Redone(S), tasks' \subseteq tasks PROVE StopHolds'
  <2>1. \A o \in Objects : Holds(Halted(task[o])) /\ Holds(Woken(task[o]))
    BY <1>t DEF Halted, Woken, Records
  <2>2. \A o \in tasks : Holds(task'[o])
    BY <1>3, <1>h, <2>1 DEF Redone
  <2>3. QED BY <1>0, <1>3, <2>2
<1>4. ASSUME NEW name \in Names, Unregister(name) \/ Signal(name) \/ StopTask(name)
      PROVE  StopHolds'
  BY <1>3, <1>4, CallersRedo DEF Unregister, Signal, StopTask, Wake
<1>5. CASE WakeAll
  BY <1>3, <1>5, WakeAllRedoes DEF WakeAll, Wake
<1>6. CASE PumpStep
  BY <1>0, <1>6, <1>h DEF PumpStep, TimerFires, PumpBegins, PumpEnds
<1>7. ASSUME NEW o \in Objects, Elapse(o) \/ TaskStep(o) PROVE StopHolds'
  <2>1. tasks' = tasks /\ \A p \in Objects \ {o} : task'[p] = task[p]
    BY <1>7 DEF TypeOK, Elapse, TaskStep, Take, Resolve, FailToResolve, EndRun, Ends
  <2>2. ASSUME o \in tasks PROVE Holds(task'[o])
    <3>1. \A plan \in Times : Holds(Rested(task[o], plan))
      BY <1>t, RestedAsStopped
    <3>2. ASSUME NEW plan \in Times, Ends(o, plan) PROVE Holds(task'[o])
      BY <2>2, <3>1, <3>2 DEF Ends, TypeOK
    <3>3. CASE Elapse(o)
      BY <1>h, <1>t, <2>2, <3>3 DEF Elapse, TypeOK, Records
    <3>4. CASE Take(o)
      BY <1>h, <1>t, <2>2, <3>4 DEF Take, TypeOK, Records
    <3>5. CASE Resolve(o)
      <4>1. "later" \in Times /\ "never" \in Times
        BY DEF Times
      <4>2. CASE task' = [task EXCEPT ![o].phase = "running"]
        BY <1>t, <4>2 DEF TypeOK, Records
      <4>3. QED BY <3>2, <3>5, <4>1, <4>2 DEF Resolve
    <3>6. CASE FailToResolve(o) \/ EndRun(o)
      BY <3>2, <3>6 DEF FailToResolve, EndRun, Times
    <3>7. QED BY <1>7, <3>3, <3>4, <3>5, <3>6 DEF TaskStep
  <2>3. QED BY <1>0, <1>h, <2>1, <2>2
<1>8. QED BY <1>1, <1>2, <1>4, <1>5, <1>6, <1>7 DEF Next, Callers

\* A stopped task stays stopped until it is woken, also when it was stopped
\* during its run.
THEOREM StoppedStaysStopped == Spec => []StopHolds
<1>1. TypeOK /\ StopHolds /\ [Next]_vars => StopHolds'
  BY NextKeepsStop
<1>2. Init => StopHolds
  BY DEF Init, StopHolds
<1>3. QED BY <1>1, <1>2, InitType, NextKeepsType, PTL DEF Spec
=============================================================================

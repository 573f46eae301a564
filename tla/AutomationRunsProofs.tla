------------------------ MODULE AutomationRunsProofs ------------------------
(***************************************************************************)
(* Proofs about AutomationRuns, for every number of windows, runs, slots,  *)
(* retries and killed windows: the lock makes runs exclude each other, and *)
(* a slot is run again only after an interruption; and, for one window, an *)
(* answer goes out once, also when the user asks for runs in between.  And *)
(* the windows implement JobLedger, however many they are.                 *)
(***************************************************************************)
EXTENDS AutomationRuns, TLAPS, WellFoundedInduction

----------------------------------------------------------------------------
\* The trigger.

\* A set of numbers that is not empty has a least one.
LEMMA LeastExists ==
  ASSUME NEW S \in SUBSET Nat, S # {}
  PROVE  \E s \in S : \A t \in S : s <= t
<1>1. PICK s \in S : \A t \in S : ~(<<t, s>> \in OpToRel(<, Nat))
  BY NatLessThanWellFounded, WFMin
<1>2. \A t \in S : ~(t < s)
  BY <1>1 DEF OpToRel
<1>3. \A t \in S : s <= t
  BY <1>2
<1>4. QED BY <1>3

\* NextSlot finds a slot later than the given time, or none.
LEMMA NextSlotIsLater ==
  ASSUME NEW after
  PROVE  NextSlot(after) \in Slots \cup {None}
<1> DEFINE later == {s \in Slots : s > after}
<1>1. CASE later = {}
  BY <1>1 DEF NextSlot
<1>2. CASE later # {}
  <2>1. \E s \in later : \A t \in later : s <= t
    <3>1. later \in SUBSET Nat
      BY ConstantsAssumption
    <3> HIDE DEF later
    <3>2. QED BY <1>2, <3>1, LeastExists
  <2>2. NextSlot(after) \in later
    BY <1>2, <2>1 DEF NextSlot
  <2>3. QED BY <2>2
<1>3. QED BY <1>1, <1>2

\* LatestDue finds the newest of the first slot and those that came after it.
LEMMA LatestIsNewest ==
  ASSUME NEW first \in Nat, now \in Nat, first <= now
  PROVE  /\ LatestDue(first) \in {first} \cup {s \in Slots : first < s /\ s <= now}
         /\ \A t \in {first} \cup {s \in Slots : first < s /\ s <= now} : t <= LatestDue(first)
<1> DEFINE due == {first} \cup {s \in Slots : first < s /\ s <= now}
           ages == {now - s : s \in due}
<1>1. due \subseteq Nat /\ \A s \in due : s <= now
  BY ConstantsAssumption
<1>2. ages \in SUBSET Nat /\ ages # {}
  BY <1>1
<1>3. PICK age \in ages : \A other \in ages : age <= other
  <2> HIDE DEF ages
  <2>1. QED BY <1>2, LeastExists
<1>4. PICK s \in due : age = now - s
  BY <1>3
<1>5. \A t \in due : t <= s
  <2> SUFFICES ASSUME NEW t \in due PROVE t <= s
    OBVIOUS
  <2>1. now - s <= now - t
    BY <1>3, <1>4
  <2>2. s \in Nat /\ t \in Nat
    BY <1>1
  <2>3. QED BY <2>1, <2>2
<1>6. QED BY <1>5 DEF LatestDue

\* What a state waits for is a slot when the time noted in it is one.
LEMMA AwaitedIsSlot ==
  ASSUME NEW s, s.nextRunAt \in Slots \cup {None}
  PROVE  Awaited(s) \in Slots \cup {None}
BY NextSlotIsLater DEF Awaited
LEMMA AwaitedIsTime ==
  ASSUME NEW s, s.nextRunAt \in Times
  PROVE  Awaited(s) \in Times
BY NextSlotIsLater, ConstantsAssumption DEF Awaited, Times

\* A slot that is due is a number.
LEMMA DueSlotIsTime ==
  ASSUME NEW s, s.nextRunAt \in Times, Due(s), now \in Nat
  PROVE  DueSlot(s) \in Nat
<1>1. Awaited(s) \in Nat /\ Awaited(s) <= now
  BY AwaitedIsTime DEF Due, Times
<1>2. LatestDue(Awaited(s)) \in Nat
  BY <1>1, LatestIsNewest, ConstantsAssumption
<1>3. QED BY <1>1, <1>2 DEF DueSlot

----------------------------------------------------------------------------
\* What a window is after it has decided.

Becomes(w, locals) == win' = [win EXCEPT ![w] = locals]
Saving(j, at) == [Rest EXCEPT !.pc = "saving", !.job = j, !.next = at]
Running(j, occ) == [Rest EXCEPT !.pc = "lockRun", !.job = j, !.occ = occ]
Recovering(j) == [Rest EXCEPT !.pc = "lockRecover", !.job = j]

LEMMA RestTyped ==
  /\ Rest \in Scans /\ [Rest EXCEPT !.pc = "off"] \in Scans
  /\ Rest.pc = "idle" /\ [Rest EXCEPT !.pc = "off"].pc = "off"
BY DEF Rest, Scans, Pcs, Jobs, Times, Outcomes, Checkpoints
LEMMA RecoveringTyped ==
  ASSUME NEW j \in Jobs
  PROVE  Recovering(j) \in Scans /\ Recovering(j).pc = "lockRecover"
BY DEF Rest, Recovering, Scans, Pcs, Times, Outcomes, Checkpoints
LEMMA SavingTyped ==
  ASSUME NEW j \in Jobs, NEW at \in Times
  PROVE  /\ Saving(j, at) \in Scans
         /\ Saving(j, at).pc = "saving" /\ Saving(j, at).next = at
BY DEF Rest, Saving, Scans, Pcs, Times, Outcomes, Checkpoints
LEMMA RunningTyped ==
  ASSUME NEW j \in Jobs, NEW occ \in Occurrences
  PROVE  /\ Running(j, occ) \in Scans
         /\ Running(j, occ).pc = "lockRun" /\ Running(j, occ).occ = occ
BY DEF Rest, Running, Scans, Pcs, Times, Outcomes, Checkpoints

LEMMA OthersStay ==
  ASSUME NEW w \in Windows, win \in [Windows -> Scans], NEW locals \in Scans, Becomes(w, locals)
  PROVE  /\ win' \in [Windows -> Scans] /\ win'[w] = locals
         /\ \A v \in Windows \ {w} : win'[v] = win[v]
BY DEF Becomes

\* The slot that is decided for: no manual request, so it is due and not passed over.
Picked(s, occ) ==
  /\ Due(s) /\ ~PassedOver(s)
  /\ occ = [at |-> DueSlot(s), manual |-> FALSE]

\* The three ways a decision ends.
DecidesNothing(w, q) == Becomes(w, Rest) /\ locks' = q
DecidesToSave(w, j, s, q) ==
  \E at \in Times :
    /\ Becomes(w, Saving(j, at)) /\ locks' = q
    /\ s.nextRunAt \in Slots \cup {None} => at \in Slots \cup {None}
DecidesToRun(w, j, s, q) ==
  \E occ \in Occurrences :
    /\ Becomes(w, Running(j, occ)) /\ locks' = Append(q, w)
    /\ s.manual = None => Picked(s, occ)

LEMMA DecisionEnds ==
  ASSUME NEW w \in Windows, NEW j, NEW s \in States, NEW q, now \in Nat, Decide(w, j, s, q)
  PROVE  DecidesNothing(w, q) \/ DecidesToSave(w, j, s, q) \/ DecidesToRun(w, j, s, q)
<1> DEFINE next == IF Due(s) THEN NextSlot(now) ELSE Awaited(s)
           slot == [at |-> DueSlot(s), manual |-> FALSE]
<1>0. s.nextRunAt \in Times /\ s.manual \in Times
  BY DEF States
<1>1. next \in Times /\ (s.nextRunAt \in Slots \cup {None} => next \in Slots \cup {None})
  BY <1>0, NextSlotIsLater, AwaitedIsTime, AwaitedIsSlot, ConstantsAssumption DEF Times
<1>2. CASE s.status # "blocked" /\ s.manual # None
  <2>1. [at |-> s.manual, manual |-> TRUE] \in Occurrences
    BY <1>0, <1>2 DEF Occurrences, Times
  <2>2. Becomes(w, Running(j, [at |-> s.manual, manual |-> TRUE])) /\ locks' = Append(q, w)
    BY <1>2 DEF Decide, Becomes, Running
  <2>3. QED BY <1>2, <2>1, <2>2 DEF DecidesToRun
<1>3. CASE s.status = "blocked" \/ (s.manual = None /\ ~j.enabled)
  BY <1>3 DEF Decide, DecidesNothing, Becomes
<1>4. CASE s.status # "blocked" /\ s.manual = None /\ j.enabled
  <2>1. CASE Due(s) /\ ~PassedOver(s)
    <3>1. slot \in Occurrences
      BY <1>0, <2>1, DueSlotIsTime DEF Occurrences
    <3>2. Becomes(w, Running(j, slot)) /\ locks' = Append(q, w)
      BY <1>4, <2>1 DEF Decide, Becomes, Running
    <3>3. Picked(s, slot)
      BY <2>1 DEF Picked
    <3>4. QED BY <3>1, <3>2, <3>3 DEF DecidesToRun
  <2>2. CASE ~(Due(s) /\ ~PassedOver(s))
    <3>1. \/ Becomes(w, Saving(j, next)) /\ locks' = q
          \/ DecidesNothing(w, q)
      BY <1>4, <2>2 DEF Decide, Becomes, Saving, DecidesNothing
    <3>2. QED BY <1>1, <3>1 DEF DecidesToSave
  <2>3. QED BY <2>1, <2>2
<1>5. QED BY <1>2, <1>3, <1>4

----------------------------------------------------------------------------
\* Types.

\* Past which step a window has the lock, an occurrence, a run.
Waiting == {"lockRecover", "lockRun"}
Inside == {"recovering", "recovered", "queued", "claimed", "executing", "delivering",
           "closing", "finishing"}
Decided == {"lockRun", "queued", "claimed", "executing", "delivering", "closing", "finishing"}

\* A window that has decided knows its occurrence, one past that its run, and
\* the run is in the ledger, as is the active one.
Knows(w) ==
  /\ win[w].pc \in Decided => win[w].occ \in Occurrences
  /\ win[w].pc \in Inside => win[w].run \in RunIds /\ runs[win[w].run] \in Runs
  /\ win[w].pc \in {"delivering", "closing"} => win[w].outcome \in Terminal
ActiveIsEntered == state.active # None => runs[state.active] \in Runs
Entered == ActiveIsEntered /\ \A w \in Windows : Knows(w)
TypeInv == TypeOK /\ Entered

\* A decision keeps the types.
LEMMA DecideTyped ==
  ASSUME TypeInv, NEW w \in Windows, NEW j \in Jobs, NEW s \in States, NEW q \in Seq(Windows),
         Decide(w, j, s, q)
  PROVE  /\ locks' \in Seq(Windows) /\ win' \in [Windows -> Scans]
         /\ win'[w].pc \in {"idle", "saving", "lockRun"}
         /\ win'[w].pc = "lockRun" => win'[w].occ \in Occurrences
         /\ \A v \in Windows \ {w} : win'[v] = win[v]
<1>0. now \in Nat /\ win \in [Windows -> Scans]
  BY DEF TypeInv, TypeOK
<1>1. CASE DecidesNothing(w, q)
  <2>1. Rest \in Scans /\ Becomes(w, Rest) /\ locks' = q
    BY <1>1, RestTyped DEF DecidesNothing
  <2>2. QED BY <1>0, <2>1, RestTyped, OthersStay
<1>2. CASE DecidesToSave(w, j, s, q)
  <2>1. PICK at \in Times : Becomes(w, Saving(j, at)) /\ locks' = q
    BY <1>2 DEF DecidesToSave
  <2>2. Saving(j, at) \in Scans /\ Saving(j, at).pc = "saving"
    BY SavingTyped
  <2>3. QED BY <1>0, <2>1, <2>2, OthersStay
<1>3. CASE DecidesToRun(w, j, s, q)
  <2>1. PICK occ \in Occurrences : Becomes(w, Running(j, occ)) /\ locks' = Append(q, w)
    BY <1>3 DEF DecidesToRun
  <2>2. Running(j, occ) \in Scans /\ Running(j, occ).pc = "lockRun" /\ Running(j, occ).occ = occ
    BY RunningTyped
  <2>3. QED BY <1>0, <2>1, <2>2, OthersStay
<1>4. QED BY <1>0, <1>1, <1>2, <1>3, DecisionEnds

----------------------------------------------------------------------------
\* The states that are saved.

LEMMA SaveTyped ==
  ASSUME TypeInv, NEW w \in Windows, NEW new \in States, Save(w, new)
  PROVE  /\ state' \in States /\ fresh' \subseteq Windows
         /\ state'.active = new.active /\ state'.lastKey = new.lastKey
         /\ state'.nextRunAt = new.nextRunAt /\ state'.pending = new.pending
         /\ state'.manual = new.manual
<1>1. win[w].job.rev \in Nat
  BY DEF TypeInv, TypeOK, Scans, Jobs
<1>2. QED BY <1>1 DEF Save, States

LEMMA ClosedTyped ==
  ASSUME state \in States, NEW occ \in Occurrences, NEW failed \in BOOLEAN, NEW end \in Times
  PROVE  /\ Closed(occ, failed, end) \in States
         /\ Closed(occ, failed, end).active = None
         /\ Closed(occ, failed, end).lastKey = occ
         /\ Closed(occ, failed, end).pending = None
         /\ Closed(occ, failed, end).manual = state.manual
         /\ Closed(occ, failed, end).nextRunAt \in {state.nextRunAt, NextSlot(LookFrom(occ.at, end))}
<1>1. Failures(failed) \in Nat /\ StatusAfter(failed) \in {"idle", "running", "failed", "blocked"}
  BY ConstantsAssumption DEF Failures, StatusAfter, States
<1>2. NextSlot(LookFrom(occ.at, end)) \in Times
  BY NextSlotIsLater, ConstantsAssumption DEF Times
<1> DEFINE next == IF occ.manual THEN state.nextRunAt ELSE NextSlot(LookFrom(occ.at, end))
<1>3. Closed(occ, failed, end) =
        [state EXCEPT !.status = StatusAfter(failed), !.failures = Failures(failed),
           !.active = None, !.pending = None, !.lastKey = occ, !.lastCompleted = end,
           !.nextRunAt = next]
  BY DEF Closed, States
<1>4. next \in Times /\ next \in {state.nextRunAt, NextSlot(LookFrom(occ.at, end))}
  BY <1>2 DEF States
<1> HIDE DEF next
<1>5. Closed(occ, failed, end) \in States
  <2> DEFINE status == StatusAfter(failed)
             failures == Failures(failed)
  <2>1. status \in {"idle", "running", "failed", "blocked"} /\ failures \in Nat
    BY <1>1
  <2>2. Closed(occ, failed, end) =
          [state EXCEPT !.status = status, !.failures = failures,
             !.active = None, !.pending = None, !.lastKey = occ, !.lastCompleted = end,
             !.nextRunAt = next]
    BY <1>3
  <2> HIDE DEF status, failures
  <2>3. QED BY <2>1, <2>2, <1>4 DEF States, Times
<1>6. QED BY <1>3, <1>4, <1>5 DEF States

LEMMA FinishedTyped ==
  ASSUME state \in States, NEW r \in Runs, NEW failed \in BOOLEAN
  PROVE  /\ Finished(r, failed) \in States
         /\ Finished(r, failed).active = None
         /\ Finished(r, failed).lastKey = r.occ
         /\ Finished(r, failed).pending = None
         /\ Finished(r, failed).manual = None
         /\ Finished(r, failed).nextRunAt
              \in {state.nextRunAt, NextSlot(LookFrom(r.occ.at, r.completed))}
<1>1. r.occ \in Occurrences /\ r.completed \in Times
  BY DEF Runs
<1> DEFINE closed == Closed(r.occ, failed, r.completed)
<1>2. /\ closed \in States /\ closed.active = None /\ closed.lastKey = r.occ /\ closed.pending = None
      /\ closed.nextRunAt \in {state.nextRunAt, NextSlot(LookFrom(r.occ.at, r.completed))}
  BY <1>1, ClosedTyped
<1>3. Finished(r, failed) = [closed EXCEPT !.manual = None]
  BY DEF Finished
<1>4. QED
  <2> HIDE DEF closed
  <2>1. QED BY <1>2, <1>3 DEF States, Times

\* What is saved at the end of a recovery: the active run is no longer active, and
\* only one that had ended counts as the last one.
LEMMA RecoveredTyped ==
  ASSUME state \in States, now \in Nat, NEW w \in Windows, runs[win[w].run] \in Runs
  PROVE  /\ Recovered(w) \in States
         /\ Recovered(w).active = None /\ Recovered(w).pending = None
         /\ Recovered(w).manual = state.manual
         /\ win[w].outcome = "over" => Recovered(w).lastKey = runs[win[w].run].occ
         /\ win[w].outcome # "over" => Recovered(w).lastKey = state.lastKey
         /\ Recovered(w).nextRunAt \in
              {state.nextRunAt, runs[win[w].run].occ.at,
               NextSlot(LookFrom(runs[win[w].run].occ.at, runs[win[w].run].completed))}
<1> DEFINE r == runs[win[w].run]
           failed == r.status = "failed" \/ r.delivery = "failed"
<1>1. r.occ \in Occurrences /\ r.completed \in Times /\ r.occ.at \in Nat
  BY DEF Runs, Occurrences
<1>2. CASE win[w].outcome = "over"
  <2>1. Recovered(w) = Closed(r.occ, failed, r.completed)
    BY <1>2 DEF Recovered
  <2>2. failed \in BOOLEAN
    OBVIOUS
  <2> HIDE DEF r, failed
  <2>3. /\ Closed(r.occ, failed, r.completed) \in States
        /\ Closed(r.occ, failed, r.completed).active = None
        /\ Closed(r.occ, failed, r.completed).lastKey = r.occ
        /\ Closed(r.occ, failed, r.completed).pending = None
        /\ Closed(r.occ, failed, r.completed).manual = state.manual
        /\ Closed(r.occ, failed, r.completed).nextRunAt
             \in {state.nextRunAt, NextSlot(LookFrom(r.occ.at, r.completed))}
    BY <1>1, <2>2, ClosedTyped
  <2>4. QED BY <1>2, <2>1, <2>3 DEF r
<1>3. CASE win[w].outcome = "replay"
  BY <1>1, <1>3 DEF Recovered, States, Times
<1>4. CASE win[w].outcome \notin {"over", "replay"}
  <2>1. Recovered(w) =
          [state EXCEPT !.status = "blocked", !.active = None, !.pending = None,
             !.lastCompleted = now, !.failures = @ + 1]
    BY <1>4 DEF Recovered
  <2>2. state.failures + 1 \in Nat
    BY DEF States
  <2>3. QED BY <1>4, <2>1, <2>2 DEF States, Times
<1>5. QED BY <1>2, <1>3, <1>4

----------------------------------------------------------------------------
\* Queues of the lock.

Once(q) == \A i, j \in DOMAIN q : q[i] = q[j] => i = j
InLine(q, w) == \E i \in DOMAIN q : q[i] = w
Ahead(q, v, w) == \E i, j \in DOMAIN q : i < j /\ q[i] = v /\ q[j] = w

LEMMA TailOfQueue ==
  ASSUME NEW q \in Seq(Windows), q # <<>>, Once(q)
  PROVE  /\ Tail(q) \in Seq(Windows) /\ Once(Tail(q))
         /\ \A v : InLine(Tail(q), v) <=> InLine(q, v) /\ v # Head(q)
         /\ \A v, w : Ahead(Tail(q), v, w) => Ahead(q, v, w)
<1>1. /\ Tail(q) \in Seq(Windows) /\ Len(Tail(q)) = Len(q) - 1 /\ Len(q) \in Nat \ {0}
      /\ DOMAIN q = 1 .. Len(q) /\ DOMAIN Tail(q) = 1 .. Len(q) - 1 /\ Head(q) = q[1]
      /\ \A i \in 1 .. Len(q) - 1 : Tail(q)[i] = q[i + 1]
  OBVIOUS
<1>2. \A i \in DOMAIN Tail(q) : i + 1 \in DOMAIN q /\ Tail(q)[i] = q[i + 1] /\ i \in Int /\ i > 0
  BY <1>1
<1>3. \A i \in DOMAIN q : i # 1 => i - 1 \in DOMAIN Tail(q) /\ Tail(q)[i - 1] = q[i]
  BY <1>1
<1>4. Once(Tail(q))
  BY <1>1, <1>2 DEF Once
<1>5. ASSUME NEW v PROVE InLine(Tail(q), v) <=> InLine(q, v) /\ v # Head(q)
  <2>1. ASSUME InLine(Tail(q), v) PROVE InLine(q, v) /\ v # Head(q)
    <3>1. PICK i \in DOMAIN Tail(q) : Tail(q)[i] = v
      BY <2>1 DEF InLine
    <3>2. i + 1 \in DOMAIN q /\ q[i + 1] = v /\ i + 1 # 1
      BY <1>2, <3>1
    <3>3. 1 \in DOMAIN q
      BY <1>1
    <3>4. q[1] # v
      BY <3>2, <3>3 DEF Once
    <3>5. QED BY <1>1, <3>2, <3>4 DEF InLine
  <2>2. ASSUME InLine(q, v), v # Head(q) PROVE InLine(Tail(q), v)
    BY <1>1, <1>3, <2>2 DEF InLine
  <2>3. QED BY <2>1, <2>2
<1>6. ASSUME NEW v, NEW w, Ahead(Tail(q), v, w) PROVE Ahead(q, v, w)
  <2>1. PICK i, j \in DOMAIN Tail(q) : i < j /\ Tail(q)[i] = v /\ Tail(q)[j] = w
    BY <1>6 DEF Ahead
  <2>2. i + 1 < j + 1 /\ i + 1 \in DOMAIN q /\ j + 1 \in DOMAIN q /\ q[i + 1] = v /\ q[j + 1] = w
    BY <1>2, <2>1
  <2>3. QED BY <2>2 DEF Ahead
<1>7. QED BY <1>1, <1>4, <1>5, <1>6

LEMMA AppendToQueue ==
  ASSUME NEW q \in Seq(Windows), NEW w \in Windows, Once(q), ~InLine(q, w)
  PROVE  /\ Append(q, w) \in Seq(Windows) /\ Once(Append(q, w))
         /\ \A v : InLine(Append(q, w), v) <=> InLine(q, v) \/ v = w
         /\ q # <<>> => Append(q, w) # <<>> /\ Head(Append(q, w)) = Head(q)
         /\ \A v, u : Ahead(Append(q, w), v, u) => Ahead(q, v, u) \/ (u = w /\ InLine(q, v))
<1> DEFINE p == Append(q, w)
           n == Len(q)
<1>1. /\ p \in Seq(Windows) /\ n \in Nat /\ DOMAIN q = 1 .. n /\ DOMAIN p = 1 .. n + 1
      /\ p[n + 1] = w /\ \A i \in 1 .. n : p[i] = q[i]
  OBVIOUS
<1>2. \A i \in DOMAIN p : i = n + 1 \/ (i \in DOMAIN q /\ p[i] = q[i] /\ q[i] # w)
  BY <1>1 DEF InLine
<1>3. \A i \in DOMAIN q : i \in DOMAIN p /\ p[i] = q[i] /\ i < n + 1
  BY <1>1
<1>4. q # <<>> => p # <<>> /\ Head(p) = Head(q)
  OBVIOUS
<1> HIDE DEF p, n
<1>5. Once(p)
  BY <1>1, <1>2 DEF Once
<1>6. \A v : InLine(p, v) <=> InLine(q, v) \/ v = w
  BY <1>1, <1>2, <1>3 DEF InLine
<1>7. ASSUME NEW v, NEW u, Ahead(p, v, u) PROVE Ahead(q, v, u) \/ (u = w /\ InLine(q, v))
  <2>1. PICK i, j \in DOMAIN p : i < j /\ p[i] = v /\ p[j] = u
    BY <1>7 DEF Ahead
  <2>2. i # n + 1 /\ i \in DOMAIN q
    BY <1>1, <1>2, <2>1
  <2>3. QED BY <1>1, <1>2, <2>1, <2>2 DEF Ahead, InLine
<1>8. QED BY <1>1, <1>4, <1>5, <1>6, <1>7 DEF p

LEMMA WithoutWindow ==
  ASSUME NEW q \in Seq(Windows), NEW w \in Windows, Once(q)
  PROVE  /\ Without(q, w) \in Seq(Windows) /\ Once(Without(q, w))
         /\ \A v : InLine(Without(q, w), v) <=> InLine(q, v) /\ v # w
         /\ \A v \in Windows : q # <<>> /\ Head(q) = v /\ v # w
              => Without(q, w) # <<>> /\ Head(Without(q, w)) = v
         /\ \A v, u : Ahead(Without(q, w), v, u) => Ahead(q, v, u)
<1>1. CASE ~InLine(q, w)
  <2>1. Without(q, w) = q
    BY <1>1 DEF InLine, Without
  <2>2. QED BY <1>1, <2>1 DEF InLine
<1>2. CASE InLine(q, w)
  <2> DEFINE k == CHOOSE i \in DOMAIN q : q[i] = w
             n == Len(q)
             p == [j \in 1 .. n - 1 |-> q[IF j < k THEN j ELSE j + 1]]
             from(j) == IF j < k THEN j ELSE j + 1
  <2>1. Without(q, w) = p
    BY <1>2 DEF InLine, Without
  <2>2. k \in DOMAIN q /\ q[k] = w
    BY <1>2 DEF InLine
  <2>3. DOMAIN q = 1 .. n /\ n \in Nat \ {0} /\ k \in 1 .. n
    BY <2>2
  <2> HIDE DEF k
  <2>4. \A j \in 1 .. n - 1 : from(j) \in 1 .. n /\ from(j) # k /\ p[j] = q[from(j)]
    BY <2>3
  <2>5. p \in Seq(Windows) /\ DOMAIN p = 1 .. n - 1 /\ Len(p) = n - 1
    BY <2>3, <2>4
  <2>6. \A i, j \in 1 .. n - 1 : i < j => from(i) < from(j)
    BY <2>3
  <2>7. \A i \in 1 .. n : i # k => \E j \in 1 .. n - 1 : from(j) = i
    <3>1. ASSUME NEW i \in 1 .. n, i < k PROVE i \in 1 .. n - 1 /\ from(i) = i
      BY <2>3, <3>1
    <3>2. ASSUME NEW i \in 1 .. n, i > k PROVE i - 1 \in 1 .. n - 1 /\ from(i - 1) = i
      BY <2>3, <3>2
    <3>3. QED BY <2>3, <3>1, <3>2
  <2> HIDE DEF from, p, n
  <2>8. \A i \in 1 .. n : q[i] = w => i = k
    BY <2>2, <2>3 DEF Once
  <2>9. Once(p)
    <3>1. ASSUME NEW i \in DOMAIN p, NEW j \in DOMAIN p, p[i] = p[j] PROVE i = j
      <4>1. from(i) = from(j)
        BY <2>3, <2>4, <2>5, <3>1 DEF Once
      <4>2. i \in Int /\ j \in Int /\ from(i) \in Int /\ from(j) \in Int
        BY <2>3, <2>4, <2>5
      <4>3. ~(i < j) /\ ~(j < i)
        BY <2>5, <2>6, <4>1, <4>2
      <4>4. QED BY <4>2, <4>3
    <3>2. QED BY <3>1 DEF Once
  <2>10. \A v : InLine(p, v) <=> InLine(q, v) /\ v # w
    BY <2>2, <2>3, <2>4, <2>5, <2>7, <2>8 DEF InLine
  <2>11. \A v, u : Ahead(p, v, u) => Ahead(q, v, u)
    BY <2>3, <2>4, <2>5, <2>6 DEF Ahead
  <2>12. ASSUME NEW v \in Windows, q # <<>>, Head(q) = v, v # w
         PROVE  p # <<>> /\ Head(p) = v
    <3>1. q[1] = v /\ k # 1 /\ k > 1 /\ n > 1
      BY <2>2, <2>3, <2>12 DEF n
    <3>2. 1 \in 1 .. n - 1 /\ from(1) = 1
      BY <2>3, <3>1 DEF from
    <3>3. p[1] = v /\ Len(p) > 0
      BY <2>3, <2>4, <2>5, <3>1, <3>2
    <3>4. QED BY <2>5, <3>3
  <2>13. QED BY <2>1, <2>5, <2>9, <2>10, <2>11, <2>12
<1>3. QED BY <1>1, <1>2

----------------------------------------------------------------------------
\* Who has the lock.

\* The windows in the lock's queue are those that wait for it or work under it,
\* and who works under it is at the head.
HasPlace(w) ==
  /\ InLine(locks, w) <=> win[w].pc \in Waiting \cup Inside
  /\ win[w].pc \in Inside => locks # <<>> /\ Head(locks) = w
LockInv == Once(locks) /\ \A w \in Windows : HasPlace(w)
Base == TypeInv /\ LockInv

\* How a step of w may change the queue, given where it leaves w.
Keeps(w) == /\ locks' = locks
            /\ win'[w].pc \in Waiting \cup Inside <=> win[w].pc \in Waiting \cup Inside
            /\ win'[w].pc \in Inside => Holds(w)
Enters(w) == /\ win[w].pc \notin Waiting \cup Inside /\ locks' = Append(locks, w)
             /\ win'[w].pc \in Waiting
Leaves(w) == Holds(w) /\ locks' = Tail(locks) /\ win'[w].pc \notin Waiting \cup Inside
GoesBack(w) == Holds(w) /\ locks' = Append(Tail(locks), w) /\ win'[w].pc \in Waiting
Vanishes(w) == locks' = Without(locks, w) /\ win'[w].pc \notin Waiting \cup Inside
Queues(w) == Keeps(w) \/ Enters(w) \/ Leaves(w) \/ GoesBack(w) \/ Vanishes(w)

LEMMA QueuesTyped ==
  ASSUME Base, NEW w \in Windows, Queues(w)
  PROVE  locks' \in Seq(Windows)
<1>1. locks \in Seq(Windows) /\ Once(locks)
  BY DEF Base, TypeInv, TypeOK, LockInv
<1>2. CASE Keeps(w) BY <1>1, <1>2 DEF Keeps
<1>3. CASE Enters(w) BY <1>1, <1>3 DEF Enters
<1>4. CASE Leaves(w) BY <1>1, <1>4 DEF Leaves, Holds
<1>5. CASE GoesBack(w)
  <2>1. Tail(locks) \in Seq(Windows)
    BY <1>1, <1>5 DEF GoesBack, Holds
  <2>2. QED BY <1>5, <2>1 DEF GoesBack
<1>6. CASE Vanishes(w) BY <1>1, <1>6, WithoutWindow DEF Vanishes
<1>7. QED BY <1>2, <1>3, <1>4, <1>5, <1>6 DEF Queues

LEMMA QueuesKeepPlaces ==
  ASSUME Base, NEW w \in Windows, Queues(w), \A v \in Windows \ {w} : win'[v].pc = win[v].pc
  PROVE  LockInv'
<1>1. locks \in Seq(Windows) /\ Once(locks) /\ \A v \in Windows : HasPlace(v)
  BY DEF Base, TypeInv, TypeOK, LockInv
<1>2. CASE Keeps(w)
  <2>1. \A v \in Windows : HasPlace(v)'
    BY <1>1, <1>2 DEF Keeps, HasPlace, Holds, InLine
  <2>2. QED BY <1>1, <1>2, <2>1 DEF Keeps, LockInv
<1>3. CASE Enters(w)
  <2>0. locks' = Append(locks, w) /\ ~InLine(locks, w) /\ win'[w].pc \in Waiting
    BY <1>1, <1>3 DEF Enters, HasPlace
  <2>1. /\ Once(locks') /\ \A v : InLine(locks', v) <=> InLine(locks, v) \/ v = w
        /\ locks # <<>> => locks' # <<>> /\ Head(locks') = Head(locks)
    BY <1>1, <2>0, AppendToQueue
  <2>2. \A v \in Windows : HasPlace(v)'
    BY <1>1, <2>0, <2>1 DEF HasPlace, Waiting, Inside
  <2>3. QED BY <2>1, <2>2 DEF LockInv
<1>4. CASE Leaves(w)
  <2>0. locks' = Tail(locks) /\ locks # <<>> /\ Head(locks) = w /\ win'[w].pc \notin Waiting \cup Inside
    BY <1>4 DEF Leaves, Holds
  <2>1. Once(locks') /\ \A v : InLine(locks', v) <=> InLine(locks, v) /\ v # w
    BY <1>1, <2>0, TailOfQueue
  <2>2. \A v \in Windows : HasPlace(v)'
    BY <1>1, <2>0, <2>1 DEF HasPlace
  <2>3. QED BY <2>1, <2>2 DEF LockInv
<1>5. CASE GoesBack(w)
  <2> DEFINE q == Tail(locks)
  <2>0. locks' = Append(q, w) /\ locks # <<>> /\ Head(locks) = w /\ win'[w].pc \in Waiting
    BY <1>5 DEF GoesBack, Holds
  <2>1. q \in Seq(Windows) /\ Once(q) /\ \A v : InLine(q, v) <=> InLine(locks, v) /\ v # w
    BY <1>1, <2>0, TailOfQueue
  <2> HIDE DEF q
  <2>2. Once(locks') /\ \A v : InLine(locks', v) <=> InLine(q, v) \/ v = w
    BY <2>0, <2>1, AppendToQueue
  <2>3. \A v \in Windows : HasPlace(v)'
    BY <1>1, <2>0, <2>1, <2>2 DEF HasPlace, Waiting, Inside
  <2>4. QED BY <2>2, <2>3 DEF LockInv
<1>6. CASE Vanishes(w)
  <2>0. locks' = Without(locks, w) /\ win'[w].pc \notin Waiting \cup Inside
    BY <1>6 DEF Vanishes
  <2>1. /\ Once(locks') /\ \A v : InLine(locks', v) <=> InLine(locks, v) /\ v # w
        /\ \A v \in Windows : locks # <<>> /\ Head(locks) = v /\ v # w
             => locks' # <<>> /\ Head(locks') = v
    BY <1>1, <2>0, WithoutWindow
  <2>2. \A v \in Windows : HasPlace(v)'
    BY <1>1, <2>0, <2>1 DEF HasPlace
  <2>3. QED BY <2>1, <2>2 DEF LockInv
<1>7. QED BY <1>2, <1>3, <1>4, <1>5, <1>6 DEF Queues

\* The ledger only grows, and the others stay as they were.
LEMMA BaseKept ==
  ASSUME Base, NEW w \in Windows, Queues(w),
         now' \in Nat, job' \in Jobs, state' \in States,
         runs' \in [RunIds -> Runs \cup {NoRun}], saved' \in [RunIds -> Checkpoints],
         sent' \subseteq RunIds, soft' \subseteq RunIds, fresh' \subseteq Windows, edits' \in Nat, crashes' \in Nat,
         win' \in [Windows -> Scans], \A v \in Windows \ {w} : win'[v] = win[v],
         \A r \in RunIds : runs[r] \in Runs => runs'[r] \in Runs,
         Knows(w)', ActiveIsEntered'
  PROVE  Base'
<1>1. LockInv'
  BY QueuesKeepPlaces
<1>2. TypeOK'
  BY QueuesTyped DEF TypeOK
<1>3. ASSUME NEW v \in Windows \ {w} PROVE Knows(v)'
  BY <1>3 DEF Base, TypeInv, Entered, Knows
<1>4. QED BY <1>1, <1>2, <1>3 DEF Base, TypeInv, Entered

LEMMA BaseSays ==
  ASSUME Base
  PROVE  /\ now \in Nat /\ job \in Jobs /\ state \in States
         /\ runs \in [RunIds -> Runs \cup {NoRun}] /\ saved \in [RunIds -> Checkpoints]
         /\ sent \subseteq RunIds /\ soft \subseteq RunIds /\ fresh \subseteq Windows /\ edits \in Nat /\ crashes \in Nat
         /\ locks \in Seq(Windows) /\ win \in [Windows -> Scans]
         /\ ActiveIsEntered /\ state.active \in RunIds \cup {None}
         /\ \A w \in Windows : Knows(w) /\ HasPlace(w) /\ win[w] \in Scans /\ win[w].job \in Jobs
BY DEF Base, TypeInv, TypeOK, Entered, LockInv, States, Scans

LEMMA ScanBase ==
  ASSUME Base, NEW w \in Windows, Scan(w)
  PROVE  Base'
<1>0. fresh' \subseteq Windows
  BY BaseSays DEF Scan
<1>1. CASE state.active # None
  <2>1. Becomes(w, Recovering(job)) /\ locks' = Append(locks, w)
    BY <1>1 DEF Scan, Becomes, Recovering
  <2>2. /\ win' \in [Windows -> Scans] /\ win'[w] = Recovering(job)
        /\ \A v \in Windows \ {w} : win'[v] = win[v]
    BY <2>1, BaseSays, RecoveringTyped, OthersStay
  <2>3. Queues(w) /\ Knows(w)'
    BY <2>1, <2>2, BaseSays, RecoveringTyped
    DEF Scan, Queues, Enters, Knows, Waiting, Inside, Decided
  <2>4. QED BY <1>0, <2>2, <2>3, BaseSays, BaseKept DEF Scan, disk, bounds, ActiveIsEntered
<1>2. CASE state.active = None
  <2>1. Decide(w, job, state, locks)
    BY <1>2 DEF Scan
  <2>2. /\ win' \in [Windows -> Scans] /\ \A v \in Windows \ {w} : win'[v] = win[v]
        /\ Knows(w)'
    BY <2>1, BaseSays, DecideTyped DEF Base, Knows, Decided, Inside
  <2>3. Queues(w)
    <3>1. win[w].pc \notin Waiting \cup Inside
      BY DEF Scan, Waiting, Inside
    <3>2. CASE DecidesNothing(w, locks)
      <4>1. win'[w].pc = "idle" /\ locks' = locks
        BY <3>2, BaseSays, RestTyped, OthersStay DEF DecidesNothing
      <4>2. QED BY <3>1, <4>1 DEF Queues, Keeps, Waiting, Inside
    <3>3. CASE DecidesToSave(w, job, state, locks)
      <4>1. win'[w].pc = "saving" /\ locks' = locks
        BY <3>3, BaseSays, SavingTyped, OthersStay DEF DecidesToSave
      <4>2. QED BY <3>1, <4>1 DEF Queues, Keeps, Waiting, Inside
    <3>4. CASE DecidesToRun(w, job, state, locks)
      <4>1. win'[w].pc = "lockRun" /\ locks' = Append(locks, w)
        BY <3>4, BaseSays, RunningTyped, OthersStay DEF DecidesToRun
      <4>2. QED BY <3>1, <4>1 DEF Queues, Enters, Waiting
    <3>5. QED BY <2>1, <3>2, <3>3, <3>4, BaseSays, DecisionEnds
  <2>4. QED BY <1>0, <1>2, <2>2, <2>3, BaseSays, BaseKept DEF Scan, disk, bounds, ActiveIsEntered
<1>3. QED BY <1>1, <1>2

\* A decision of the window that has the lock, or has given it up with it.
LEMMA DecideQueues ==
  ASSUME Base, NEW w \in Windows, NEW j \in Jobs, NEW s \in States, Holds(w),
         Decide(w, j, s, Tail(locks))
  PROVE  /\ Queues(w) /\ win' \in [Windows -> Scans] /\ Knows(w)'
         /\ \A v \in Windows \ {w} : win'[v] = win[v]
<1>0. Tail(locks) \in Seq(Windows)
  BY BaseSays DEF Holds
<1>1. /\ win' \in [Windows -> Scans] /\ \A v \in Windows \ {w} : win'[v] = win[v]
      /\ Knows(w)'
  BY <1>0, DecideTyped DEF Base, Knows, Decided, Inside
<1>2. CASE DecidesNothing(w, Tail(locks))
  <2>1. win'[w].pc = "idle" /\ locks' = Tail(locks)
    BY <1>2, BaseSays, RestTyped, OthersStay DEF DecidesNothing
  <2>2. QED BY <1>1, <2>1 DEF Queues, Leaves, Waiting, Inside
<1>3. CASE DecidesToSave(w, j, s, Tail(locks))
  <2>1. win'[w].pc = "saving" /\ locks' = Tail(locks)
    BY <1>3, BaseSays, SavingTyped, OthersStay DEF DecidesToSave
  <2>2. QED BY <1>1, <2>1 DEF Queues, Leaves, Waiting, Inside
<1>4. CASE DecidesToRun(w, j, s, Tail(locks))
  <2>1. win'[w].pc = "lockRun" /\ locks' = Append(Tail(locks), w)
    BY <1>4, BaseSays, RunningTyped, OthersStay DEF DecidesToRun
  <2>2. QED BY <1>1, <2>1 DEF Queues, GoesBack, Waiting
<1>5. QED BY <1>1, <1>2, <1>3, <1>4, BaseSays, DecisionEnds

LEMMA SaveNextBase ==
  ASSUME Base, NEW w \in Windows, SaveNext(w)
  PROVE  Base'
<1>1. /\ Becomes(w, Rest) /\ locks' = locks /\ UNCHANGED <<now, job, runs, saved, sent, soft, bounds>>
      /\ win[w].pc = "saving"
  BY DEF SaveNext, Becomes
<1>2. /\ win' \in [Windows -> Scans] /\ win'[w] = Rest /\ \A v \in Windows \ {w} : win'[v] = win[v]
  BY <1>1, BaseSays, RestTyped, OthersStay
<1>3. Queues(w) /\ Knows(w)'
  BY <1>1, <1>2, RestTyped DEF Queues, Keeps, Knows, Waiting, Inside, Decided
<1>4. state' \in States /\ fresh' \subseteq Windows /\ state'.active = state.active
  <2>1. CASE CanSave(w)
    <3> DEFINE new == [state EXCEPT !.status = "idle", !.nextRunAt = win[w].next]
    <3>1. new \in States /\ new.active = state.active
      BY BaseSays DEF States, Scans
    <3>2. Save(w, new)
      BY <2>1 DEF SaveNext
    <3> HIDE DEF new
    <3>3. QED BY <3>1, <3>2, SaveTyped DEF Base
  <2>2. CASE ~CanSave(w)
    BY <2>2, BaseSays DEF SaveNext
  <2>3. QED BY <2>1, <2>2
<1>5. QED BY <1>1, <1>2, <1>3, <1>4, BaseSays, BaseKept DEF bounds, ActiveIsEntered

\* Closing an interrupted run, or any change of a run's fields within their types,
\* leaves the ledger a ledger.
LEMMA LedgerKept ==
  ASSUME runs \in [RunIds -> Runs \cup {NoRun}], NEW r \in RunIds, NEW run \in Runs,
         runs' = [runs EXCEPT ![r] = run]
  PROVE  /\ runs' \in [RunIds -> Runs \cup {NoRun}] /\ runs'[r] = run
         /\ \A q \in RunIds : q # r => runs'[q] = runs[q]
         /\ \A q \in RunIds : runs[q] \in Runs => runs'[q] \in Runs
OBVIOUS

\* The run as an interrupted one.
Interrupted(r) == [runs[r] EXCEPT !.status = "failed", !.interrupted = TRUE, !.completed = now]

\* What Recover does when it takes a run over.
TakesOver(w) ==
  /\ win[w].pc = "lockRecover" /\ Holds(w) /\ state.active # None
  /\ \E pc \in {"recovering", "recovered"}, outcome \in {"over", "replay", "block"} :
       /\ Becomes(w, [win[w] EXCEPT !.pc = pc, !.run = state.active, !.outcome = outcome])
       /\ \/ outcome = "over" /\ Active.status \in Terminal /\ UNCHANGED <<runs, saved>>
          \/ /\ outcome # "over"
             /\ runs' = [runs EXCEPT ![state.active] = Interrupted(state.active)]
             /\ saved' = [saved EXCEPT ![state.active] = "none"]
  /\ fresh' = fresh \cup {w} /\ UNCHANGED <<now, job, state, sent, soft, locks, bounds>>

LEMMA RecoverCases ==
  ASSUME Base, NEW w \in Windows, Recover(w)
  PROVE  \/ /\ Holds(w) /\ Decide(w, win[w].job, state, Tail(locks))
            /\ fresh' = fresh \cup {w}
            /\ UNCHANGED <<now, job, state, runs, saved, sent, soft, bounds>>
         \/ TakesOver(w)
<1>1. CASE state.active = None \/ ~Overdue
  BY <1>1 DEF Recover
<1>2. CASE ~(state.active = None \/ ~Overdue)
  <2> DEFINE r == state.active
             over == Active.status \in Terminal
             replay == Active.status = "queued" \/ Resumable(r)
             pc == IF over THEN "recovering" ELSE "recovered"
             outcome == IF over THEN "over" ELSE IF replay THEN "replay" ELSE "block"
  <2>1. win[w].pc = "lockRecover" /\ Holds(w) /\ state.active # None
    BY <1>2 DEF Recover
  <2>2. Becomes(w, [win[w] EXCEPT !.pc = pc, !.run = r, !.outcome = outcome])
    BY <1>2, BaseSays DEF Recover, Becomes, Scans
  <2>3. \/ outcome = "over" /\ over /\ UNCHANGED <<runs, saved>>
        \/ /\ outcome # "over"
           /\ runs' = [runs EXCEPT ![r] = Interrupted(r)]
           /\ saved' = [saved EXCEPT ![r] = "none"]
    BY <1>2, BaseSays DEF Recover, Interrupted
  <2>4. fresh' = fresh \cup {w} /\ UNCHANGED <<now, job, state, sent, soft, locks, bounds>>
    BY <1>2 DEF Recover
  <2>5. pc \in {"recovering", "recovered"} /\ outcome \in {"over", "replay", "block"}
    OBVIOUS
  <2> HIDE DEF pc, outcome
  <2>6. QED BY <2>1, <2>2, <2>3, <2>4, <2>5 DEF TakesOver
<1>3. QED BY <1>1, <1>2

LEMMA RecoverBase ==
  ASSUME Base, NEW w \in Windows, Recover(w)
  PROVE  Base'
<1>1. CASE /\ Holds(w) /\ Decide(w, win[w].job, state, Tail(locks))
           /\ fresh' = fresh \cup {w}
           /\ UNCHANGED <<now, job, state, runs, saved, sent, soft, bounds>>
  <2>1. /\ Queues(w) /\ win' \in [Windows -> Scans] /\ Knows(w)'
        /\ \A v \in Windows \ {w} : win'[v] = win[v]
    BY <1>1, BaseSays, DecideQueues
  <2>2. QED BY <1>1, <2>1, BaseSays, BaseKept DEF bounds, ActiveIsEntered
<1>2. CASE TakesOver(w)
  <2> DEFINE r == state.active
  <2>1. PICK pc \in {"recovering", "recovered"}, outcome \in {"over", "replay", "block"} :
          /\ Becomes(w, [win[w] EXCEPT !.pc = pc, !.run = r, !.outcome = outcome])
          /\ \/ UNCHANGED <<runs, saved>>
             \/ /\ runs' = [runs EXCEPT ![r] = Interrupted(r)]
                /\ saved' = [saved EXCEPT ![r] = "none"]
    BY <1>2 DEF TakesOver
  <2>2. r \in RunIds /\ runs[r] \in Runs
    BY <1>2, BaseSays DEF TakesOver, ActiveIsEntered
  <2> HIDE DEF r
  <2>3. Interrupted(r) \in Runs
    BY <2>2, BaseSays DEF Interrupted, Runs, Terminal, Times
  <2>4. /\ runs' \in [RunIds -> Runs \cup {NoRun}] /\ saved' \in [RunIds -> Checkpoints]
        /\ \A q \in RunIds : runs[q] \in Runs => runs'[q] \in Runs
    BY <2>1, <2>2, <2>3, BaseSays, LedgerKept DEF Checkpoints
  <2> DEFINE new == [win[w] EXCEPT !.pc = pc, !.run = r, !.outcome = outcome]
  <2>5. new \in Scans /\ new.pc = pc /\ new.run = r /\ Becomes(w, new)
    <3>1. win[w] \in Scans /\ Becomes(w, new)
      BY <2>1, BaseSays
    <3>2. new \in Scans /\ new.pc = pc /\ new.run = r
      BY <2>2, <3>1 DEF Scans, Pcs, Outcomes
    <3>3. QED BY <3>1, <3>2
  <2> HIDE DEF new
  <2>6. /\ win' \in [Windows -> Scans] /\ \A v \in Windows \ {w} : win'[v] = win[v]
        /\ win'[w].pc = pc /\ win'[w].run = r
    BY <2>5, BaseSays, OthersStay
  <2>7. Queues(w) /\ Knows(w)'
    BY <1>2, <2>2, <2>4, <2>6
    DEF TakesOver, Holds, Queues, Keeps, Knows, Waiting, Inside, Decided
  <2>8. QED BY <1>2, <2>2, <2>4, <2>6, <2>7, BaseSays, BaseKept DEF TakesOver, bounds, ActiveIsEntered
<1>3. QED BY <1>1, <1>2, RecoverCases

LEMMA RecoverDeliveryBase ==
  ASSUME Base, NEW w \in Windows, RecoverDelivery(w)
  PROVE  Base'
<1> DEFINE new == [win[w] EXCEPT !.pc = "recovered"]
<1>1. /\ win[w].pc = "recovering" /\ Becomes(w, new)
      /\ UNCHANGED <<now, job, state, runs, soft, locks, fresh, bounds>>
  BY DEF RecoverDelivery, Becomes
<1>2. new \in Scans /\ new.pc = "recovered" /\ new.run = win[w].run
  BY BaseSays DEF Scans, Pcs
<1> HIDE DEF new
<1>3. /\ win' \in [Windows -> Scans] /\ \A v \in Windows \ {w} : win'[v] = win[v]
      /\ win'[w].pc = "recovered" /\ win'[w].run = win[w].run
  BY <1>1, <1>2, BaseSays, OthersStay
<1>4. win[w].run \in RunIds /\ runs[win[w].run] \in Runs /\ Holds(w)
  BY <1>1, BaseSays DEF Knows, HasPlace, Inside, Holds
<1>5. sent' \subseteq RunIds /\ saved' \in [RunIds -> Checkpoints]
  BY <1>4, BaseSays DEF RecoverDelivery, Checkpoints
<1>6. Queues(w) /\ Knows(w)'
  BY <1>1, <1>3, <1>4 DEF Holds, Queues, Keeps, Knows, Waiting, Inside, Decided
<1>7. QED BY <1>1, <1>3, <1>5, <1>6, BaseSays, BaseKept DEF bounds, ActiveIsEntered

LEMMA SaveRecoveryBase ==
  ASSUME Base, NEW w \in Windows, SaveRecovery(w)
  PROVE  Base'
<1>1. win[w].run \in RunIds /\ runs[win[w].run] \in Runs /\ Holds(w)
  BY BaseSays DEF SaveRecovery, Knows, HasPlace, Inside, Holds
<1>2. CASE CanSave(w)
  <2>1. Save(w, Recovered(w)) /\ Decide(w, win[w].job, state', Tail(locks))
    BY <1>2 DEF SaveRecovery
  <2>2. Recovered(w) \in States /\ Recovered(w).active = None
    BY <1>1, BaseSays, RecoveredTyped
  <2>3. state' \in States /\ state'.active = None /\ fresh' \subseteq Windows
    BY <2>1, <2>2, SaveTyped DEF Base
  <2>4. /\ Queues(w) /\ win' \in [Windows -> Scans]
        /\ \A v \in Windows \ {w} : win'[v] = win[v] /\ Knows(w)'
    BY <1>1, <2>1, <2>3, BaseSays, DecideQueues
  <2>5. Knows(w)'
    BY <1>1, <2>1, <2>3, BaseSays, DecideQueues
  <2>6. QED BY <2>3, <2>4, <2>5, BaseSays, BaseKept DEF SaveRecovery, bounds, ActiveIsEntered
<1>3. CASE ~CanSave(w)
  <2>1. /\ Becomes(w, Rest) /\ locks' = Tail(locks)
        /\ UNCHANGED <<now, job, state, runs, saved, sent, soft, fresh, bounds>>
    BY <1>3 DEF SaveRecovery, Becomes, Release
  <2>2. /\ win' \in [Windows -> Scans] /\ win'[w].pc = "idle"
        /\ \A v \in Windows \ {w} : win'[v] = win[v]
    BY <2>1, BaseSays, RestTyped, OthersStay
  <2>3. Queues(w) /\ Knows(w)'
    BY <1>1, <2>1, <2>2 DEF Queues, Leaves, Knows, Waiting, Inside, Decided
  <2>4. QED BY <2>1, <2>2, <2>3, BaseSays, BaseKept DEF bounds, ActiveIsEntered
<1>4. QED BY <1>2, <1>3

LEMMA TurnBackBase ==
  ASSUME Base, NEW w \in Windows, TurnBack(w)
  PROVE  Base'
<1>1. /\ win[w].pc = "lockRun" /\ Holds(w) /\ Becomes(w, Rest) /\ locks' = Tail(locks)
      /\ UNCHANGED <<now, job, runs, saved, sent, soft, bounds>>
  BY DEF TurnBack, Becomes, Release
<1>2. /\ win' \in [Windows -> Scans] /\ win'[w].pc = "idle"
      /\ \A v \in Windows \ {w} : win'[v] = win[v]
  BY <1>1, BaseSays, RestTyped, OthersStay
<1>3. Queues(w) /\ Knows(w)'
  BY <1>1, <1>2 DEF Queues, Leaves, Knows, Waiting, Inside, Decided
<1>4. state' \in States /\ fresh' \subseteq Windows /\ state'.active = state.active
  <2>1. CASE UNCHANGED <<state, fresh>>
    BY <2>1, BaseSays
  <2>2. CASE Save(w, [state EXCEPT !.pending = win[w].occ.at])
    <3> DEFINE new == [state EXCEPT !.pending = win[w].occ.at]
    <3>1. win[w].occ \in Occurrences
      BY <1>1, BaseSays DEF Knows, Decided
    <3>2. new \in States /\ new.active = state.active
      BY <3>1, BaseSays DEF States, Occurrences, Times
    <3> HIDE DEF new
    <3>3. Save(w, new)
      BY <2>2 DEF new
    <3>4. QED BY <3>2, <3>3, SaveTyped DEF Base
  <2>3. QED BY <2>1, <2>2 DEF TurnBack
<1>5. QED BY <1>1, <1>2, <1>3, <1>4, BaseSays, BaseKept DEF bounds, ActiveIsEntered

\* The run as it is entered.
Entry(occ) ==
  [occ |-> occ, status |-> "queued", started |-> FALSE, interrupted |-> FALSE,
   delivery |-> "none", completed |-> None]
LEMMA EnqueueDoes ==
  ASSUME Base, NEW w \in Windows, Enqueue(w)
  PROVE  /\ win[w].pc = "lockRun" /\ Holds(w) /\ win[w].occ \in Occurrences
         /\ ~AlreadyDone(win[w].occ) /\ state.active = None
         /\ UNCHANGED <<now, job, state, saved, sent, soft, locks, bounds>> /\ fresh' = fresh \cup {w}
         /\ NewRun \in RunIds /\ runs[NewRun] = NoRun /\ Entry(win[w].occ) \in Runs
         /\ runs' = [runs EXCEPT ![NewRun] = Entry(win[w].occ)]
         /\ win' \in [Windows -> Scans] /\ \A v \in Windows \ {w} : win'[v] = win[v]
         /\ win'[w] = [win[w] EXCEPT !.pc = "queued", !.run = NewRun]
<1>1. NewRun \in RunIds /\ runs[NewRun] = NoRun
  BY DEF Enqueue, Free, NewRun
<1>2. win[w].pc = "lockRun" /\ Holds(w) /\ win[w].occ \in Occurrences
  BY BaseSays DEF Enqueue, Knows, Decided
<1>3. Entry(win[w].occ) \in Runs
  BY <1>2 DEF Entry, Runs, Terminal, Times
<1>4. runs' = [runs EXCEPT ![NewRun] = Entry(win[w].occ)]
  BY DEF Enqueue, Entry
<1> DEFINE new == [win[w] EXCEPT !.pc = "queued", !.run = NewRun]
<1>5. new \in Scans
  BY <1>1, BaseSays DEF Scans, Pcs
<1>6. Becomes(w, new)
  BY BaseSays DEF Enqueue, Becomes, Scans
<1>7. /\ win' \in [Windows -> Scans] /\ win'[w] = new /\ \A v \in Windows \ {w} : win'[v] = win[v]
  <2> HIDE DEF new
  <2>1. QED BY <1>5, <1>6, BaseSays, OthersStay
<1>8. QED BY <1>1, <1>2, <1>3, <1>4, <1>7 DEF Enqueue

LEMMA EnqueueBase ==
  ASSUME Base, NEW w \in Windows, Enqueue(w)
  PROVE  Base'
<1>1. /\ win'[w].pc = "queued" /\ win'[w].run = NewRun /\ win'[w].occ = win[w].occ
  BY EnqueueDoes, BaseSays DEF Scans
<1>2. /\ runs' \in [RunIds -> Runs \cup {NoRun}] /\ runs'[NewRun] \in Runs
      /\ \A q \in RunIds : runs[q] \in Runs => runs'[q] \in Runs
  BY EnqueueDoes, LedgerKept, BaseSays
<1>3. Queues(w) /\ Knows(w)'
  BY <1>1, <1>2, EnqueueDoes DEF Queues, Keeps, Knows, Waiting, Inside, Decided, Holds
<1>4. QED BY <1>2, <1>3, EnqueueDoes, BaseSays, BaseKept DEF bounds, ActiveIsEntered

\* The state that names a run.
Activated(w) ==
  [state EXCEPT !.status = "running", !.active = win[w].run,
     !.pending = win[w].occ.at, !.lastStarted = now]
LEMMA ActivateDoes ==
  ASSUME Base, NEW w \in Windows, Activate(w)
  PROVE  /\ win[w].pc = "queued" /\ Holds(w) /\ win[w].occ \in Occurrences
         /\ win[w].run \in RunIds /\ runs[win[w].run] \in Runs
         /\ UNCHANGED <<now, job, runs, saved, sent, soft, bounds>>
         /\ win' \in [Windows -> Scans] /\ \A v \in Windows \ {w} : win'[v] = win[v]
         /\ \/ /\ CanSave(w) /\ Save(w, Activated(w)) /\ Activated(w) \in States
               /\ win'[w] = [win[w] EXCEPT !.pc = "claimed"] /\ UNCHANGED locks
            \/ win'[w] = Rest /\ locks' = Tail(locks) /\ UNCHANGED <<state, fresh>>
<1>1. /\ win[w].pc = "queued" /\ Holds(w) /\ win[w].occ \in Occurrences
      /\ win[w].run \in RunIds /\ runs[win[w].run] \in Runs
  BY BaseSays DEF Activate, Knows, HasPlace, Holds, Decided, Inside
<1>2. CASE CanSave(w)
  <2> DEFINE new == [win[w] EXCEPT !.pc = "claimed"]
  <2>1. new \in Scans
    BY BaseSays DEF Scans, Pcs
  <2>2. Becomes(w, new) /\ Save(w, Activated(w)) /\ UNCHANGED locks
    BY <1>2 DEF Activate, Becomes, Activated
  <2>3. /\ win' \in [Windows -> Scans] /\ win'[w] = new
        /\ \A v \in Windows \ {w} : win'[v] = win[v]
    <3> HIDE DEF new
    <3>1. QED BY <2>1, <2>2, BaseSays, OthersStay
  <2>4. Activated(w) \in States
    BY <1>1, BaseSays DEF Activated, States, Occurrences, Times
  <2>5. QED BY <1>1, <1>2, <2>2, <2>3, <2>4 DEF Activate
<1>3. CASE ~CanSave(w)
  <2>1. Becomes(w, Rest) /\ locks' = Tail(locks) /\ UNCHANGED <<state, fresh>>
    BY <1>3 DEF Activate, Becomes, Release
  <2>2. /\ win' \in [Windows -> Scans] /\ win'[w] = Rest
        /\ \A v \in Windows \ {w} : win'[v] = win[v]
    BY <2>1, BaseSays, RestTyped, OthersStay
  <2>3. QED BY <1>1, <2>1, <2>2 DEF Activate
<1>4. QED BY <1>2, <1>3

LEMMA ActivateBase ==
  ASSUME Base, NEW w \in Windows, Activate(w)
  PROVE  Base'
<1>1. CASE /\ Save(w, Activated(w)) /\ Activated(w) \in States
           /\ win'[w] = [win[w] EXCEPT !.pc = "claimed"] /\ UNCHANGED locks
  <2>1. win'[w].pc = "claimed" /\ win'[w].run = win[w].run /\ win'[w].occ = win[w].occ
    BY <1>1, BaseSays DEF Scans
  <2>2. Queues(w) /\ Knows(w)'
    BY <1>1, <2>1, ActivateDoes DEF Queues, Keeps, Knows, Waiting, Inside, Decided, Holds
  <2>3. Activated(w).active = win[w].run
    BY BaseSays DEF Activated, States
  <2>4. state' \in States /\ fresh' \subseteq Windows /\ state'.active = win[w].run
    BY <1>1, <2>3, SaveTyped DEF Base
  <2>5. QED BY <2>2, <2>4, ActivateDoes, BaseSays, BaseKept DEF bounds, ActiveIsEntered
<1>2. CASE win'[w] = Rest /\ locks' = Tail(locks) /\ UNCHANGED <<state, fresh>>
  <2>1. Queues(w) /\ Knows(w)'
    BY <1>2, ActivateDoes, RestTyped DEF Queues, Leaves, Knows, Waiting, Inside, Decided
  <2>2. QED BY <1>2, <2>1, ActivateDoes, BaseSays, BaseKept DEF bounds, ActiveIsEntered
<1>3. QED BY <1>1, <1>2, ActivateDoes

LEMMA StartDoes ==
  ASSUME Base, NEW w \in Windows, Start(w)
  PROVE  /\ win[w].pc = "claimed" /\ Holds(w) /\ win[w].occ \in Occurrences
         /\ win[w].run \in RunIds /\ runs[win[w].run] \in Runs
         /\ UNCHANGED <<now, job, state, saved, sent, soft, locks, fresh, bounds>>
         /\ runs' = [runs EXCEPT ![win[w].run] =
                       [runs[win[w].run] EXCEPT !.status = "running", !.started = TRUE]]
         /\ [runs[win[w].run] EXCEPT !.status = "running", !.started = TRUE] \in Runs
         /\ win' \in [Windows -> Scans] /\ \A v \in Windows \ {w} : win'[v] = win[v]
         /\ win'[w] = [win[w] EXCEPT !.pc = "executing"]
<1>1. /\ win[w].pc = "claimed" /\ Holds(w) /\ win[w].occ \in Occurrences
      /\ win[w].run \in RunIds /\ runs[win[w].run] \in Runs
  BY BaseSays DEF Start, Knows, HasPlace, Holds, Decided, Inside
<1> DEFINE new == [win[w] EXCEPT !.pc = "executing"]
<1>2. new \in Scans
  BY BaseSays DEF Scans, Pcs
<1>3. Becomes(w, new)
  BY DEF Start, Becomes
<1>4. /\ win' \in [Windows -> Scans] /\ win'[w] = new /\ \A v \in Windows \ {w} : win'[v] = win[v]
  <2> HIDE DEF new
  <2>1. QED BY <1>2, <1>3, BaseSays, OthersStay
<1>5. [runs[win[w].run] EXCEPT !.status = "running", !.started = TRUE] \in Runs
  BY <1>1 DEF Runs, Terminal
<1>6. runs' = [runs EXCEPT ![win[w].run] =
                 [runs[win[w].run] EXCEPT !.status = "running", !.started = TRUE]]
  BY BaseSays DEF Start, Runs
<1>7. QED BY <1>1, <1>4, <1>5, <1>6 DEF Start

LEMMA StartBase ==
  ASSUME Base, NEW w \in Windows, Start(w)
  PROVE  Base'
<1>1. win'[w].pc = "executing" /\ win'[w].run = win[w].run /\ win'[w].occ = win[w].occ
  BY StartDoes, BaseSays DEF Scans
<1> DEFINE run == [runs[win[w].run] EXCEPT !.status = "running", !.started = TRUE]
<1>2. run \in Runs /\ runs' = [runs EXCEPT ![win[w].run] = run]
  BY StartDoes
<1> HIDE DEF run
<1>3. /\ runs' \in [RunIds -> Runs \cup {NoRun}]
      /\ \A q \in RunIds : runs[q] \in Runs => runs'[q] \in Runs
  BY <1>2, StartDoes, BaseSays, LedgerKept
<1>4. Queues(w) /\ Knows(w)'
  BY <1>1, <1>3, StartDoes DEF Queues, Keeps, Knows, Waiting, Inside, Decided, Holds
<1>5. QED BY <1>3, <1>4, StartDoes, BaseSays, BaseKept DEF bounds, ActiveIsEntered

\* The steps of the agent, and what they have in common.
AgentStep(w) ==
  \/ AskModel(w) \/ CallTool(w) \/ ToolReturns(w) \/ Answer(w)
  \/ SaveCheckpoint(w) \/ AgentSucceeds(w) \/ SoftFinalize(w) \/ AgentFails(w) \/ NothingChanged(w)
LEMMA AgentStepDoes ==
  ASSUME Base, NEW w \in Windows, AgentStep(w)
  PROVE  /\ win[w].pc = "executing" /\ Holds(w)
         /\ UNCHANGED <<now, job, state, runs, sent, locks, fresh, bounds>>
         /\ soft' \in {soft, soft \cup {win[w].run}}
         /\ saved' \in [RunIds -> Checkpoints]
         /\ win' \in [Windows -> Scans] /\ \A v \in Windows \ {w} : win'[v] = win[v]
         /\ win'[w].occ = win[w].occ /\ win'[w].run = win[w].run /\ win'[w].job = win[w].job
         /\ \/ win'[w].pc = "executing"
            \/ win'[w].pc = "delivering" /\ win'[w].outcome \in Terminal
<1>1. win[w].pc = "executing"
  BY DEF AgentStep, AskModel, CallTool, ToolReturns, Answer, SaveCheckpoint, AgentSucceeds,
         SoftFinalize, AgentFails, NothingChanged, Executing
<1>2. Holds(w) /\ win[w].run \in RunIds /\ win[w] \in Scans
  BY <1>1, BaseSays DEF HasPlace, Knows, Holds, Inside
<1>3. /\ UNCHANGED <<now, job, state, runs, sent, locks, fresh, bounds>>
      /\ soft' \in {soft, soft \cup {win[w].run}}
  BY DEF AgentStep, AskModel, CallTool, ToolReturns, Answer, SaveCheckpoint, AgentSucceeds,
         SoftFinalize, AgentFails, NothingChanged, disk
<1>4. saved' \in [RunIds -> Checkpoints]
  <2>1. CASE SaveCheckpoint(w)
    BY <1>2, <2>1, BaseSays DEF SaveCheckpoint, Scans
  <2>2. CASE UNCHANGED saved
    BY <2>2, BaseSays
  <2>3. QED
    BY <2>1, <2>2 DEF AgentStep, AskModel, CallTool, ToolReturns, Answer, AgentSucceeds,
         SoftFinalize, AgentFails, NothingChanged, disk
<1>5. CASE SaveCheckpoint(w)
  BY <1>1, <1>2, <1>3, <1>4, <1>5, BaseSays DEF SaveCheckpoint
<1>6. ASSUME NEW new \in Scans, win' = [win EXCEPT ![w] = new],
             new.occ = win[w].occ, new.run = win[w].run, new.job = win[w].job,
             new.pc = "executing" \/ (new.pc = "delivering" /\ new.outcome \in Terminal)
      PROVE  /\ win' \in [Windows -> Scans] /\ \A v \in Windows \ {w} : win'[v] = win[v]
             /\ win'[w].occ = win[w].occ /\ win'[w].run = win[w].run /\ win'[w].job = win[w].job
             /\ \/ win'[w].pc = "executing"
                \/ win'[w].pc = "delivering" /\ win'[w].outcome \in Terminal
  BY <1>6, BaseSays
<1>7. win[w].calls + 1 \in Nat /\ win[w].attempt + 1 \in Nat
  BY <1>2 DEF Scans
<1>8. ASSUME NEW outcome \in Terminal
      PROVE  [win[w] EXCEPT !.pc = "delivering", !.outcome = outcome] \in Scans
  BY <1>2 DEF Scans, Pcs, Outcomes
<1>9. CASE AskModel(w) \/ ToolReturns(w) \/ Answer(w)
  <2>1. PICK memory \in Checkpoints : win' = [win EXCEPT ![w] = [win[w] EXCEPT !.memory = memory]]
    BY <1>9 DEF AskModel, ToolReturns, Answer, EmitCheckpoint, Checkpoints
  <2> DEFINE new == [win[w] EXCEPT !.memory = memory]
  <2>2. new \in Scans
    BY <1>2 DEF Scans
  <2>3. /\ new.occ = win[w].occ /\ new.run = win[w].run /\ new.job = win[w].job
        /\ new.pc = "executing"
    BY <1>1, <1>2 DEF Scans
  <2> HIDE DEF new
  <2>4. QED BY <1>1, <1>2, <1>3, <1>4, <1>6, <2>1, <2>2, <2>3 DEF new
<1>10. CASE CallTool(w)
  <2> DEFINE calls == win[w].calls + 1
             new == [win[w] EXCEPT !.memory = "unsure", !.calls = calls]
  <2>1. win' = [win EXCEPT ![w] = new] /\ calls \in Nat
    BY <1>10, <1>2, <1>7, BaseSays DEF CallTool
  <2> HIDE DEF calls
  <2>2. /\ new \in Scans /\ new.occ = win[w].occ /\ new.run = win[w].run /\ new.job = win[w].job
        /\ new.pc = "executing"
    BY <1>1, <1>2, <2>1 DEF Scans, Checkpoints
  <2> HIDE DEF new
  <2>3. QED BY <1>1, <1>2, <1>3, <1>4, <1>6, <2>1, <2>2
<1>11. CASE AgentSucceeds(w) \/ SoftFinalize(w) \/ AgentFails(w) \/ NothingChanged(w)
  <2>1. \/ \E outcome \in Terminal :
             win' = [win EXCEPT ![w] = [win[w] EXCEPT !.pc = "delivering", !.outcome = outcome]]
        \/ win' = [win EXCEPT ![w] = [win[w] EXCEPT !.attempt = @ + 1, !.calls = 0,
                                                   !.memory = "resumable"]]
    BY <1>11, <1>2, BaseSays DEF AgentSucceeds, SoftFinalize, AgentFails, NothingChanged, Terminal
  <2>2. ASSUME NEW outcome \in Terminal,
               win' = [win EXCEPT ![w] = [win[w] EXCEPT !.pc = "delivering", !.outcome = outcome]]
        PROVE  \E new \in Scans :
                 /\ win' = [win EXCEPT ![w] = new]
                 /\ new.occ = win[w].occ /\ new.run = win[w].run /\ new.job = win[w].job
                 /\ new.pc = "delivering" /\ new.outcome \in Terminal
    <3> DEFINE new == [win[w] EXCEPT !.pc = "delivering", !.outcome = outcome]
    <3>1. /\ new \in Scans /\ new.occ = win[w].occ /\ new.run = win[w].run
          /\ new.job = win[w].job /\ new.pc = "delivering" /\ new.outcome \in Terminal
      BY <1>2, <1>8 DEF Scans
    <3>2. win' = [win EXCEPT ![w] = new]
      BY <2>2
    <3> HIDE DEF new
    <3>3. QED BY <3>1, <3>2
  <2>3. ASSUME win' = [win EXCEPT ![w] = [win[w] EXCEPT !.attempt = @ + 1, !.calls = 0,
                                                        !.memory = "resumable"]]
        PROVE  \E new \in Scans :
                 /\ win' = [win EXCEPT ![w] = new]
                 /\ new.occ = win[w].occ /\ new.run = win[w].run /\ new.job = win[w].job
                 /\ new.pc = "executing"
    <3> DEFINE attempt == win[w].attempt + 1
               new == [win[w] EXCEPT !.attempt = attempt, !.calls = 0, !.memory = "resumable"]
    <3>1. win' = [win EXCEPT ![w] = new] /\ attempt \in Nat
      BY <1>7, <2>3
    <3> HIDE DEF attempt
    <3>2. /\ new \in Scans /\ new.occ = win[w].occ /\ new.run = win[w].run
          /\ new.job = win[w].job /\ new.pc = "executing"
      BY <1>1, <1>2, <3>1 DEF Scans, Checkpoints
    <3> HIDE DEF new
    <3>3. QED BY <3>1, <3>2
  <2>4. QED BY <1>1, <1>2, <1>3, <1>4, <1>6, <2>1, <2>2, <2>3
<1>12. QED BY <1>5, <1>9, <1>10, <1>11 DEF AgentStep

LEMMA AgentStepBase ==
  ASSUME Base, NEW w \in Windows, AgentStep(w)
  PROVE  Base'
<1>1. Queues(w)
  BY AgentStepDoes DEF Queues, Keeps, Waiting, Inside, Holds
<1>2. Knows(w)'
  BY AgentStepDoes, BaseSays DEF Knows, Decided, Inside
<1>3. win[w].run \in RunIds
  BY AgentStepDoes, BaseSays DEF Knows, HasPlace, Holds, Inside
<1>4. soft' \subseteq RunIds
  BY <1>3, AgentStepDoes, BaseSays
<1>5. QED BY <1>1, <1>2, <1>4, AgentStepDoes, BaseSays, BaseKept DEF bounds, ActiveIsEntered

LEMMA DeliverDoes ==
  ASSUME Base, NEW w \in Windows, Deliver(w)
  PROVE  /\ win[w].pc = "delivering" /\ Holds(w) /\ win[w].outcome \in Terminal
         /\ UNCHANGED <<now, job, state, runs, saved, soft, locks, fresh, bounds>>
         /\ sent' \subseteq RunIds
         /\ win' \in [Windows -> Scans] /\ \A v \in Windows \ {w} : win'[v] = win[v]
         /\ win'[w].occ = win[w].occ /\ win'[w].run = win[w].run /\ win'[w].job = win[w].job
         /\ win'[w].pc = "closing" /\ win'[w].outcome = win[w].outcome
<1>1. /\ win[w].pc = "delivering" /\ Holds(w) /\ win[w].outcome \in Terminal
      /\ win[w].run \in RunIds /\ win[w] \in Scans
  BY BaseSays DEF Deliver, Knows, HasPlace, Holds, Decided, Inside
<1>2. PICK d \in {"none", "ok", "failed"} :
        /\ win' = [win EXCEPT ![w] = [win[w] EXCEPT !.pc = "closing", !.delivery = d]]
        /\ sent' \in {sent, sent \cup {win[w].run}}
  BY <1>1, BaseSays DEF Deliver, Deliveries
<1> DEFINE new == [win[w] EXCEPT !.pc = "closing", !.delivery = d]
<1>3. /\ new \in Scans /\ new.occ = win[w].occ /\ new.run = win[w].run /\ new.job = win[w].job
      /\ new.pc = "closing" /\ new.outcome = win[w].outcome
  BY <1>1 DEF Scans, Pcs
<1>4. win' = [win EXCEPT ![w] = new]
  BY <1>2
<1> HIDE DEF new
<1>5. QED BY <1>1, <1>2, <1>3, <1>4, BaseSays DEF Deliver, disk

LEMMA DeliverBase ==
  ASSUME Base, NEW w \in Windows, Deliver(w)
  PROVE  Base'
<1>1. Queues(w)
  BY DeliverDoes DEF Queues, Keeps, Waiting, Inside, Holds
<1>2. Knows(w)'
  BY DeliverDoes, BaseSays DEF Knows, Decided, Inside
<1>3. QED BY <1>1, <1>2, DeliverDoes, BaseSays, BaseKept DEF bounds, ActiveIsEntered

\* The run as it is closed.
ClosedRun(w) ==
  [runs[win[w].run] EXCEPT !.status = win[w].outcome, !.delivery = win[w].delivery,
                           !.completed = now]
LEMMA CloseDoes ==
  ASSUME Base, NEW w \in Windows, Close(w)
  PROVE  /\ win[w].pc = "closing" /\ Holds(w)
         /\ win[w].run \in RunIds /\ runs[win[w].run] \in Runs /\ win[w].occ \in Occurrences
         /\ UNCHANGED <<now, job, state, sent, fresh, bounds>>
         /\ soft' \in {soft, soft \ {win[w].run}}
         /\ saved' \in [RunIds -> Checkpoints]
         /\ win' \in [Windows -> Scans] /\ \A v \in Windows \ {w} : win'[v] = win[v]
         /\ \/ /\ runs' = [runs EXCEPT ![win[w].run] = ClosedRun(w)] /\ ClosedRun(w) \in Runs
               /\ win'[w] = [win[w] EXCEPT !.pc = "finishing"] /\ UNCHANGED locks
            \/ win'[w] = Rest /\ locks' = Tail(locks) /\ UNCHANGED runs
<1>1. /\ win[w].pc = "closing" /\ Holds(w) /\ win[w].outcome \in Terminal
      /\ win[w].run \in RunIds /\ runs[win[w].run] \in Runs /\ win[w].occ \in Occurrences
      /\ win[w] \in Scans
  BY BaseSays DEF Close, Knows, HasPlace, Holds, Decided, Inside
<1>2. CASE CanSaveRun(win[w].run)
  <2> DEFINE new == [win[w] EXCEPT !.pc = "finishing"]
  <2>1. new \in Scans
    BY <1>1 DEF Scans, Pcs
  <2>2. win' = [win EXCEPT ![w] = new] /\ UNCHANGED locks
    BY <1>2 DEF Close
  <2>3. /\ win' \in [Windows -> Scans] /\ win'[w] = new
        /\ \A v \in Windows \ {w} : win'[v] = win[v]
    <3> HIDE DEF new
    <3>1. QED BY <2>1, <2>2, BaseSays
  <2>4. ClosedRun(w) \in Runs
    BY <1>1, BaseSays DEF ClosedRun, Runs, Scans, Terminal, Times
  <2>5. runs' = [runs EXCEPT ![win[w].run] = ClosedRun(w)]
    BY <1>1, <1>2, BaseSays DEF Close, ClosedRun, Runs
  <2>6. saved' \in [RunIds -> Checkpoints]
    BY <1>1, <1>2, BaseSays DEF Close, Checkpoints
  <2>7. QED BY <1>1, <2>2, <2>3, <2>4, <2>5, <2>6 DEF Close
<1>3. CASE ~CanSaveRun(win[w].run)
  <2>1. Becomes(w, Rest) /\ locks' = Tail(locks) /\ UNCHANGED <<runs, saved>>
    BY <1>3 DEF Close, Becomes, Release
  <2>2. /\ win' \in [Windows -> Scans] /\ win'[w] = Rest
        /\ \A v \in Windows \ {w} : win'[v] = win[v]
    BY <2>1, BaseSays, RestTyped, OthersStay
  <2>3. QED BY <1>1, <2>1, <2>2, BaseSays DEF Close
<1>4. QED BY <1>2, <1>3

LEMMA CloseBase ==
  ASSUME Base, NEW w \in Windows, Close(w)
  PROVE  Base'
<1>1. CASE /\ runs' = [runs EXCEPT ![win[w].run] = ClosedRun(w)] /\ ClosedRun(w) \in Runs
           /\ win'[w] = [win[w] EXCEPT !.pc = "finishing"] /\ UNCHANGED locks
  <2>1. win'[w].pc = "finishing" /\ win'[w].run = win[w].run /\ win'[w].occ = win[w].occ
    BY <1>1, BaseSays DEF Scans
  <2>2. /\ runs' \in [RunIds -> Runs \cup {NoRun}]
        /\ \A q \in RunIds : runs[q] \in Runs => runs'[q] \in Runs
    BY <1>1, CloseDoes, BaseSays, LedgerKept
  <2>3. Queues(w) /\ Knows(w)'
    BY <1>1, <2>1, <2>2, CloseDoes DEF Queues, Keeps, Knows, Waiting, Inside, Decided, Holds
  <2>4. QED BY <2>2, <2>3, CloseDoes, BaseSays, BaseKept DEF bounds, ActiveIsEntered
<1>2. CASE win'[w] = Rest /\ locks' = Tail(locks) /\ UNCHANGED runs
  <2>1. Queues(w) /\ Knows(w)'
    BY <1>2, CloseDoes, RestTyped DEF Queues, Leaves, Knows, Waiting, Inside, Decided
  <2>2. QED BY <1>2, <2>1, CloseDoes, BaseSays, BaseKept DEF bounds, ActiveIsEntered
<1>3. QED BY <1>1, <1>2, CloseDoes

\* Whether the run that a window finishes failed.
FailedRun(r) == r.status = "failed" \/ r.delivery = "failed"
LEMMA FinishDoes ==
  ASSUME Base, NEW w \in Windows, Finish(w)
  PROVE  /\ win[w].pc = "finishing" /\ Holds(w)
         /\ win[w].run \in RunIds /\ runs[win[w].run] \in Runs /\ win[w].occ \in Occurrences
         /\ UNCHANGED <<now, job, runs, saved, sent, soft, bounds>>
         /\ win' \in [Windows -> Scans] /\ \A v \in Windows \ {w} : win'[v] = win[v]
         /\ \/ /\ state.active = win[w].run
               /\ Save(w, Finished(runs[win[w].run], FailedRun(runs[win[w].run])))
               /\ \/ /\ state.pending \in {runs[win[w].run].occ.at, None}
                     /\ win'[w] = Rest /\ locks' = Tail(locks)
                  \/ /\ state.pending \notin {runs[win[w].run].occ.at, None}
                     /\ win'[w].pc = "lockRun" /\ win'[w].occ \in Occurrences
                     /\ locks' = Append(Tail(locks), w)
            \/ win'[w] = Rest /\ locks' = Tail(locks) /\ UNCHANGED <<state, fresh>>
<1> DEFINE r == runs[win[w].run]
           queued == IF state.pending # r.occ.at THEN state.pending ELSE None
<1>1. /\ win[w].pc = "finishing" /\ Holds(w)
      /\ win[w].run \in RunIds /\ r \in Runs /\ win[w].occ \in Occurrences /\ win[w].job \in Jobs
  BY BaseSays DEF Finish, Knows, HasPlace, Holds, Decided, Inside
<1>2. CASE ~(state.active = win[w].run /\ win[w].job.rev = job.rev)
  <2>1. Becomes(w, Rest) /\ locks' = Tail(locks) /\ UNCHANGED <<state, fresh>>
    BY <1>2 DEF Finish, Becomes, Release
  <2>2. QED BY <1>1, <2>1, BaseSays, RestTyped, OthersStay DEF Finish
<1>3. CASE state.active = win[w].run /\ win[w].job.rev = job.rev /\ queued = None
  <2>1. /\ Becomes(w, Rest) /\ locks' = Tail(locks)
        /\ Save(w, Finished(r, FailedRun(r))) /\ state.pending \in {r.occ.at, None}
    BY <1>3 DEF Finish, Becomes, Release, FailedRun
  <2>2. QED BY <1>1, <1>3, <2>1, BaseSays, RestTyped, OthersStay DEF Finish
<1>4. CASE state.active = win[w].run /\ win[w].job.rev = job.rev /\ queued # None
  <2> DEFINE occ == [at |-> queued, manual |-> FALSE]
  <2>1. occ \in Occurrences
    BY <1>4, BaseSays DEF Occurrences, States, Times
  <2>2. /\ Becomes(w, Running(win[w].job, occ)) /\ locks' = Append(Tail(locks), w)
        /\ Save(w, Finished(r, FailedRun(r))) /\ state.pending \notin {r.occ.at, None}
    BY <1>4 DEF Finish, Becomes, Running, FailedRun
  <2> HIDE DEF occ
  <2>3. /\ win' \in [Windows -> Scans] /\ \A v \in Windows \ {w} : win'[v] = win[v]
        /\ win'[w].pc = "lockRun" /\ win'[w].occ \in Occurrences
    BY <1>1, <2>1, <2>2, BaseSays, RunningTyped, OthersStay
  <2>4. QED BY <1>1, <1>4, <2>2, <2>3 DEF Finish
<1>5. QED BY <1>2, <1>3, <1>4

LEMMA FinishBase ==
  ASSUME Base, NEW w \in Windows, Finish(w)
  PROVE  Base'
<1>1. state' \in States /\ fresh' \subseteq Windows /\ state'.active \in {None, state.active}
  <2>1. CASE UNCHANGED <<state, fresh>>
    BY <2>1, BaseSays
  <2>2. CASE Save(w, Finished(runs[win[w].run], FailedRun(runs[win[w].run])))
    <3> DEFINE r == runs[win[w].run]
    <3>1. r \in Runs /\ FailedRun(r) \in BOOLEAN
      BY FinishDoes DEF FailedRun
    <3>2. Finished(r, FailedRun(r)) \in States /\ Finished(r, FailedRun(r)).active = None
      <4> HIDE DEF r
      <4>1. QED BY <3>1, BaseSays, FinishedTyped
    <3>3. QED BY <2>2, <3>2, SaveTyped DEF Base
  <2>3. QED BY <2>1, <2>2, FinishDoes
<1>2. Queues(w) /\ Knows(w)'
  <2>1. CASE win'[w] = Rest /\ locks' = Tail(locks)
    BY <2>1, FinishDoes, RestTyped DEF Queues, Leaves, Knows, Waiting, Inside, Decided
  <2>2. CASE /\ win'[w].pc = "lockRun" /\ win'[w].occ \in Occurrences
             /\ locks' = Append(Tail(locks), w)
    BY <2>2, FinishDoes DEF Queues, GoesBack, Knows, Waiting, Inside, Decided
  <2>3. QED BY <2>1, <2>2, FinishDoes
<1>3. QED BY <1>1, <1>2, FinishDoes, BaseSays, BaseKept DEF bounds, ActiveIsEntered

\* The user and the clock leave windows and queue alone.
World == RequestRun \/ Toggle \/ Tick
LEMMA WorldDoes ==
  ASSUME Base, World
  PROVE  /\ UNCHANGED <<runs, saved, sent, soft, locks, win, crashes>>
         /\ now' \in {now, now + 2} /\ job' \in Jobs /\ edits' \in Nat
         /\ state' \in States /\ state'.active = state.active /\ fresh' \subseteq Windows
         /\ state' = state \/ state'.manual = now
<1>1. CASE RequestRun
  <2>1. NextSlot(now) \in Times
    BY NextSlotIsLater, ConstantsAssumption DEF Times
  <2> DEFINE next == IF state.saved THEN state.nextRunAt ELSE NextSlot(now)
  <2>2. state' = [state EXCEPT !.saved = TRUE, !.jobRev = job.rev, !.status = "idle",
                    !.failures = 0, !.manual = now, !.nextRunAt = next]
    BY <1>1, BaseSays DEF RequestRun, States
  <2>3. next \in Times
    BY <2>1, BaseSays DEF States
  <2> HIDE DEF next
  <2>4. state' \in States /\ state'.active = state.active /\ state'.manual = now
    BY <2>2, <2>3, BaseSays DEF States, Times, Jobs
  <2>5. QED BY <1>1, <2>4, BaseSays DEF RequestRun
<1>2. CASE Toggle
  BY <1>2, BaseSays DEF Toggle, Jobs
<1>3. CASE Tick
  BY <1>3, BaseSays DEF Tick, disk, bounds
<1>4. QED BY <1>1, <1>2, <1>3 DEF World

LEMMA WorldBase ==
  ASSUME Base, World
  PROVE  Base'
<1>1. TypeOK'
  BY WorldDoes, BaseSays DEF TypeOK
<1>2. Entered'
  BY WorldDoes, BaseSays DEF Entered, ActiveIsEntered, Knows
<1>3. LockInv'
  BY WorldDoes DEF Base, LockInv, HasPlace, InLine, Once
<1>4. QED BY <1>1, <1>2, <1>3 DEF Base, TypeInv

LEMMA CrashDoes ==
  ASSUME Base, NEW w \in Windows, Crash(w)
  PROVE  /\ UNCHANGED <<now, job, state, runs, saved, sent, soft, edits>> /\ crashes' \in Nat
         /\ fresh' = fresh \ {w}
         /\ win' \in [Windows -> Scans] /\ \A v \in Windows \ {w} : win'[v] = win[v]
         /\ win'[w].pc = "off" /\ locks' = Without(locks, w)
<1>1. Becomes(w, [Rest EXCEPT !.pc = "off"])
  BY DEF Crash, Becomes
<1>2. /\ win' \in [Windows -> Scans] /\ win'[w].pc = "off"
      /\ \A v \in Windows \ {w} : win'[v] = win[v]
  BY <1>1, BaseSays, RestTyped, OthersStay
<1>3. QED BY <1>2, BaseSays DEF Crash, disk

LEMMA CrashBase ==
  ASSUME Base, NEW w \in Windows, Crash(w)
  PROVE  Base'
<1>1. Queues(w) /\ Knows(w)'
  BY CrashDoes DEF Queues, Vanishes, Knows, Waiting, Inside, Decided
<1>2. QED BY <1>1, CrashDoes, BaseSays, BaseKept DEF ActiveIsEntered

LEMMA RestartDoes ==
  ASSUME Base, NEW w \in Windows, Restart(w)
  PROVE  /\ UNCHANGED <<now, disk, sent, soft, locks, fresh, bounds>> /\ win[w].pc = "off"
         /\ win' \in [Windows -> Scans] /\ \A v \in Windows \ {w} : win'[v] = win[v]
         /\ win'[w].pc = "idle"
BY BaseSays, RestTyped DEF Restart

LEMMA RestartBase ==
  ASSUME Base, NEW w \in Windows, Restart(w)
  PROVE  Base'
<1>1. Queues(w) /\ Knows(w)'
  BY RestartDoes DEF Queues, Keeps, Knows, Waiting, Inside, Decided
<1>2. QED BY <1>1, RestartDoes, BaseSays, BaseKept DEF ActiveIsEntered, disk, bounds

LEMMA InitBase == Init => Base
<1> SUFFICES ASSUME Init PROVE Base
  OBVIOUS
<1>1. TypeOK
  <2>1. NoState \in States /\ [rev |-> 1, enabled |-> TRUE] \in Jobs
    BY DEF NoState, States, Times, Jobs
  <2>2. win \in [Windows -> Scans]
    BY RestTyped DEF Init
  <2>3. QED BY <2>1, <2>2 DEF Init, TypeOK, Checkpoints
<1>2. \A w \in Windows : win[w].pc = "idle"
  BY RestTyped DEF Init
<1>3. Entered
  BY <1>2 DEF Init, Entered, ActiveIsEntered, Knows, Decided, Inside, NoState
<1>4. LockInv
  BY <1>2 DEF Init, LockInv, HasPlace, Once, InLine, Waiting, Inside
<1>5. QED BY <1>1, <1>3, <1>4 DEF Base, TypeInv

\* The steps of the specification, grouped as the lemmas are.
LEMMA StepsAre ==
  ASSUME [Next]_vars
  PROVE  \/ \E w \in Windows :
              \/ Scan(w) \/ SaveNext(w) \/ Recover(w) \/ RecoverDelivery(w) \/ SaveRecovery(w)
              \/ TurnBack(w) \/ Enqueue(w) \/ Activate(w) \/ Start(w) \/ AgentStep(w)
              \/ Deliver(w) \/ Close(w) \/ Finish(w) \/ Crash(w) \/ Restart(w)
         \/ World \/ UNCHANGED vars
BY DEF Next, WindowStep, ScanStep, RunStep, AgentStep, World

LEMMA NextBase == Base /\ [Next]_vars => Base'
<1> SUFFICES ASSUME Base, [Next]_vars PROVE Base'
  OBVIOUS
<1>1. CASE UNCHANGED vars
  BY <1>1 DEF vars, disk, bounds, Base, TypeInv, TypeOK, Entered, ActiveIsEntered, Knows,
              LockInv, HasPlace, InLine, Once
<1>2. CASE ~UNCHANGED vars
  BY <1>2, StepsAre, WorldBase, ScanBase, SaveNextBase, RecoverBase, RecoverDeliveryBase,
     SaveRecoveryBase, TurnBackBase, EnqueueBase, ActivateBase, StartBase, AgentStepBase,
     DeliverBase, CloseBase, FinishBase, CrashBase, RestartBase
<1>3. QED BY <1>1, <1>2

LEMMA AlwaysBase == Spec => []Base
BY InitBase, NextBase, PTL DEF Spec

\* Every variable keeps its kind, whatever windows and users do: a window knows the
\* occurrence and the run it works on, and the state names no run that was never entered.
THEOREM AutomationTypeCorrect == Spec => []TypeOK
<1>1. Base => TypeOK
  BY DEF Base, TypeInv
<1>2. QED BY <1>1, AlwaysBase, PTL

----------------------------------------------------------------------------
\* One run at a time.

\* Who has the lock works alone under it.
LEMMA Alone ==
  ASSUME Base, NEW w \in Windows, Holds(w), NEW v \in Windows \ {w}
  PROVE  win[v].pc \notin Inside
BY BaseSays DEF HasPlace, Holds

\* What every step leaves of the others, and what the steps of a window that does
\* not work under the lock, before or after them, leave of runs and of the active one.
Outside(w) ==
  /\ win'[w].pc \notin Inside /\ runs' = runs /\ state'.active = state.active
  /\ \A v \in Windows \ {w} : win'[v] = win[v]
Under(w) == Holds(w) /\ \A v \in Windows \ {w} : win'[v] = win[v]

LEMMA ScanIsOutside ==
  ASSUME Base, NEW w \in Windows, Scan(w)
  PROVE  Outside(w) /\ state' = state
<1>1. UNCHANGED <<runs, state>>
  BY DEF Scan, disk
<1>2. CASE state.active # None
  <2>1. Becomes(w, Recovering(job))
    BY <1>2 DEF Scan, Becomes, Recovering
  <2>2. QED BY <1>1, <2>1, BaseSays, RecoveringTyped, OthersStay DEF Outside, Inside
<1>3. CASE state.active = None
  <2>1. Decide(w, job, state, locks)
    BY <1>3 DEF Scan
  <2>2. QED BY <1>1, <2>1, BaseSays, DecideTyped DEF Base, Outside, Inside
<1>4. QED BY <1>2, <1>3

\* Noting the next slot changes nothing else.
LEMMA SaveNextDoes ==
  ASSUME Base, NEW w \in Windows, SaveNext(w)
  PROVE  /\ win[w].pc = "saving" /\ UNCHANGED <<now, job, runs, saved, sent, soft, locks, bounds>>
         /\ win' \in [Windows -> Scans] /\ win'[w].pc = "idle"
         /\ \A v \in Windows \ {w} : win'[v] = win[v]
         /\ state'.active = state.active /\ state'.lastKey = state.lastKey
         /\ state'.pending = state.pending /\ state'.nextRunAt \in {state.nextRunAt, win[w].next}
<1>1. Becomes(w, Rest)
  BY DEF SaveNext, Becomes
<1>2. /\ win' \in [Windows -> Scans] /\ win'[w].pc = "idle"
      /\ \A v \in Windows \ {w} : win'[v] = win[v]
  BY <1>1, BaseSays, RestTyped, OthersStay
<1>3. /\ state'.active = state.active /\ state'.lastKey = state.lastKey
      /\ state'.pending = state.pending /\ state'.nextRunAt \in {state.nextRunAt, win[w].next}
  <2>1. CASE CanSave(w)
    <3> DEFINE new == [state EXCEPT !.status = "idle", !.nextRunAt = win[w].next]
    <3>1. /\ new \in States /\ new.active = state.active /\ new.lastKey = state.lastKey
          /\ new.pending = state.pending /\ new.nextRunAt = win[w].next
      BY BaseSays DEF States, Scans
    <3>2. Save(w, new)
      BY <2>1 DEF SaveNext
    <3> HIDE DEF new
    <3>3. QED BY <3>1, <3>2, SaveTyped DEF Base
  <2>2. CASE ~CanSave(w)
    BY <2>2 DEF SaveNext
  <2>3. QED BY <2>1, <2>2
<1>4. QED BY <1>2, <1>3 DEF SaveNext

\* Steps outside the lock.
LEMMA OutsideSteps ==
  ASSUME Base, NEW w \in Windows, Scan(w) \/ SaveNext(w) \/ Crash(w) \/ Restart(w)
  PROVE  Outside(w)
BY ScanIsOutside, SaveNextDoes, CrashDoes, RestartDoes DEF Outside, Inside, disk

\* Under the lock, the steps by which a window comes to a run or leaves it ...
LEMMA RecoverIsUnder ==
  ASSUME Base, NEW w \in Windows, Recover(w)
  PROVE  Under(w) /\ win'[w].pc \in {"idle", "saving", "lockRun", "recovering", "recovered"}
<1>1. CASE Holds(w) /\ Decide(w, win[w].job, state, Tail(locks))
  <2>1. Tail(locks) \in Seq(Windows)
    BY <1>1, BaseSays DEF Holds
  <2>2. QED BY <1>1, <2>1, BaseSays, DecideTyped DEF Base, Under
<1>2. CASE TakesOver(w)
  <2>1. Under(w)
    BY <1>2, BaseSays DEF TakesOver, Becomes, Under
  <2>2. win'[w].pc \in {"recovering", "recovered"}
    BY <1>2, BaseSays DEF TakesOver, Becomes, Scans
  <2>3. QED BY <2>1, <2>2
<1>3. QED BY <1>1, <1>2, RecoverCases
LEMMA RecoverDeliveryIsUnder ==
  ASSUME Base, NEW w \in Windows, RecoverDelivery(w)
  PROVE  /\ Under(w) /\ win'[w].pc = "recovered"
         /\ win'[w].run = win[w].run /\ win'[w].outcome = win[w].outcome
<1>1. Under(w)
  BY BaseSays DEF RecoverDelivery, HasPlace, Inside, Holds, Under
<1>2. win'[w] = [win[w] EXCEPT !.pc = "recovered"]
  BY BaseSays DEF RecoverDelivery
<1>3. QED BY <1>1, <1>2, BaseSays DEF Scans
LEMMA SaveRecoveryIsUnder ==
  ASSUME Base, NEW w \in Windows, SaveRecovery(w)
  PROVE  Under(w) /\ win'[w].pc \in {"idle", "saving", "lockRun"}
<1>0. Holds(w) /\ Tail(locks) \in Seq(Windows)
  BY BaseSays DEF SaveRecovery, HasPlace, Inside, Holds
<1>1. CASE CanSave(w)
  <2>1. Recovered(w) \in States
    BY BaseSays, RecoveredTyped DEF SaveRecovery, Knows, Inside
  <2>2. state' \in States /\ Decide(w, win[w].job, state', Tail(locks))
    BY <1>1, <2>1, SaveTyped DEF SaveRecovery, Base
  <2>3. QED BY <1>0, <2>2, BaseSays, DecideTyped DEF Base, Under
<1>2. CASE ~CanSave(w)
  BY <1>0, <1>2, BaseSays, RestTyped DEF SaveRecovery, Under
<1>3. QED BY <1>1, <1>2
LEMMA TurnBackIsUnder ==
  ASSUME Base, NEW w \in Windows, TurnBack(w)
  PROVE  Under(w) /\ win'[w].pc = "idle"
BY BaseSays, RestTyped DEF TurnBack, Under

\* A window in a run is in the active one, which is neither closed nor taken for
\* interrupted; one that has entered a run finds it as it left it.
Mine(w) ==
  /\ InRun(w) => /\ state.active = win[w].run
                 /\ runs[win[w].run].status \in {"queued", "running"}
  /\ win[w].pc = "queued" => runs[win[w].run].status = "queued"
RunInv == \A w \in Windows : Mine(w)

LEMMA InRunIsInside ==
  ASSUME NEW w \in Windows, InRun(w) \/ win[w].pc = "queued"
  PROVE  win[w].pc \in Inside
BY DEF InRun, Inside

LEMMA OneRunFollows ==
  ASSUME Base, RunInv
  PROVE  OneRunAtATime
<1> SUFFICES ASSUME NEW w \in Windows, InRun(w)
             PROVE  /\ state.active = win[w].run
                    /\ runs[win[w].run].status \in {"queued", "running"}
                    /\ \A v \in Windows \ {w} : ~InRun(v)
  BY DEF OneRunAtATime
<1>1. Holds(w)
  BY InRunIsInside, BaseSays DEF HasPlace, Holds
<1>2. QED BY <1>1, Alone, InRunIsInside DEF RunInv, Mine

LEMMA NextRun ==
  ASSUME Base, RunInv, [Next]_vars
  PROVE  RunInv'
<1>1. ASSUME NEW w \in Windows, Outside(w)
      PROVE  RunInv'
  <2>1. Mine(w)'
    BY <1>1 DEF Outside, Mine, InRun, Inside
  <2>2. \A v \in Windows \ {w} : Mine(v)'
    BY <1>1 DEF RunInv, Outside, Mine, InRun
  <2>3. QED BY <2>1, <2>2 DEF RunInv
<1>2. ASSUME NEW w \in Windows, Under(w), Mine(w)'
      PROVE  RunInv'
  <2>1. \A v \in Windows \ {w} : win[v].pc \notin Inside /\ win'[v] = win[v]
    BY <1>2, Alone DEF Under
  <2>2. \A v \in Windows \ {w} : Mine(v)'
    BY <2>1 DEF Mine, InRun, Inside
  <2>3. QED BY <1>2, <2>2 DEF RunInv
<1>3. ASSUME NEW w \in Windows, Recover(w) \/ RecoverDelivery(w) \/ SaveRecovery(w) \/ TurnBack(w)
      PROVE  Under(w) /\ Mine(w)'
  BY <1>3, RecoverIsUnder, RecoverDeliveryIsUnder, SaveRecoveryIsUnder, TurnBackIsUnder
  DEF Mine, InRun
<1>4. ASSUME NEW w \in Windows, Enqueue(w)
      PROVE  Under(w) /\ Mine(w)'
  <2>1. win'[w].pc = "queued" /\ win'[w].run = NewRun
    BY <1>4, EnqueueDoes, BaseSays DEF Scans
  <2>2. runs'[NewRun] = Entry(win[w].occ)
    BY <1>4, EnqueueDoes, BaseSays
  <2>3. runs'[NewRun].status = "queued"
    BY <2>2 DEF Entry
  <2>4. QED BY <1>4, <2>1, <2>3, EnqueueDoes DEF Under, Mine, InRun
<1>5. ASSUME NEW w \in Windows, Activate(w)
      PROVE  Under(w) /\ Mine(w)'
  <2>1. CASE win'[w] = Rest
    BY <1>5, <2>1, ActivateDoes, RestTyped DEF Under, Mine, InRun
  <2>2. CASE /\ Save(w, Activated(w)) /\ Activated(w) \in States
             /\ win'[w] = [win[w] EXCEPT !.pc = "claimed"]
    <3>1. Activated(w).active = win[w].run
      BY BaseSays DEF Activated, States
    <3>2. state'.active = win[w].run
      BY <2>2, <3>1, SaveTyped DEF Base
    <3>3. win'[w].pc = "claimed" /\ win'[w].run = win[w].run
      BY <2>2, BaseSays DEF Scans
    <3>4. QED BY <1>5, <3>2, <3>3, ActivateDoes DEF Under, Mine, InRun, RunInv
  <2>3. QED BY <1>5, <2>1, <2>2, ActivateDoes
<1>6. ASSUME NEW w \in Windows, Start(w)
      PROVE  Under(w) /\ Mine(w)'
  <2>1. win'[w].pc = "executing" /\ win'[w].run = win[w].run
    BY <1>6, StartDoes, BaseSays DEF Scans
  <2>2. runs'[win[w].run].status = "running"
    <3> DEFINE run == [runs[win[w].run] EXCEPT !.status = "running", !.started = TRUE]
    <3>1. runs'[win[w].run] = run
      BY <1>6, StartDoes, BaseSays
    <3>2. runs[win[w].run] \in Runs
      BY <1>6, StartDoes
    <3>3. run.status = "running"
      BY <3>2 DEF Runs
    <3>4. QED BY <3>1, <3>3
  <2>3. QED BY <1>6, <2>1, <2>2, StartDoes DEF Under, Mine, InRun, RunInv
<1>7. ASSUME NEW w \in Windows, AgentStep(w) \/ Deliver(w)
      PROVE  Under(w) /\ Mine(w)'
  BY <1>7, AgentStepDoes, DeliverDoes DEF Under, Mine, InRun, RunInv
<1>8. ASSUME NEW w \in Windows, Close(w)
      PROVE  Under(w) /\ Mine(w)'
  <2>1. win'[w].pc \in {"finishing", "idle"}
    <3>1. win[w] \in Scans
      BY BaseSays
    <3>2. win'[w] \in {Rest, [win[w] EXCEPT !.pc = "finishing"]}
      BY <1>8, CloseDoes
    <3>3. QED BY <3>1, <3>2, RestTyped DEF Scans
  <2>2. QED BY <1>8, <2>1, CloseDoes DEF Under, Mine, InRun
<1>9. ASSUME NEW w \in Windows, Finish(w)
      PROVE  Under(w) /\ Mine(w)'
  BY <1>9, FinishDoes, RestTyped DEF Under, Mine, InRun
<1>10. CASE World
  BY <1>10, WorldDoes DEF RunInv, Mine, InRun
<1>11. CASE UNCHANGED vars
  BY <1>11 DEF vars, disk, RunInv, Mine, InRun
<1>12. QED
  BY StepsAre, OutsideSteps, <1>1, <1>2, <1>3, <1>4, <1>5, <1>6, <1>7, <1>8, <1>9, <1>10, <1>11

LEMMA InitRun == Init => RunInv
BY RestTyped DEF Init, RunInv, Mine, InRun

\* However many windows scan a job, whichever are killed and whatever the user
\* changes: no two run it at once, and whoever runs it works on the run the state
\* names, which nobody has closed or taken for interrupted.
THEOREM RunsExclude == Spec => []OneRunAtATime
<1>1. Init => RunInv
  BY InitRun
<1>2. Base /\ RunInv /\ [Next]_vars => RunInv'
  BY NextRun
<1>3. Base /\ RunInv => OneRunAtATime
  BY OneRunFollows
<1>4. QED BY <1>1, <1>2, <1>3, AlwaysBase, PTL DEF Spec

----------------------------------------------------------------------------
\* While nobody asks for manual runs, a slot is run again only after an interruption,
\* in spite of stale scans: windows decide in the order in which they wait for the
\* lock, and what they decide for never goes back.

\* Nobody has asked for a run.
NoRequest == state.manual = None

----------------------------------------------------------------------------
\* What a window decides for.

\* The newest slot that has come.
Newest(at) == at \in Slots /\ at <= now /\ \A s \in Slots : s <= now => s <= at

ClockIsOdd == now % 2 = 1

\* Without "run-once", the slot decided for is the newest: "latest" looks for it, and
\* "skip" passes over all slots but one that came within the last minute.
LEMMA PickedIsNewest ==
  ASSUME CatchUp # "run-once", now \in Nat, ClockIsOdd, NEW s, s.nextRunAt \in Slots \cup {None},
         NEW occ, Picked(s, occ)
  PROVE  Newest(occ.at) /\ ~occ.manual
<1>1. Awaited(s) \in Slots /\ Awaited(s) <= now /\ Awaited(s) \in Nat
  BY AwaitedIsSlot, ConstantsAssumption DEF Picked, Due
<1>2. occ.at = DueSlot(s) /\ ~occ.manual /\ ~PassedOver(s)
  BY DEF Picked
<1>3. CASE CatchUp = "latest"
  <2>1. /\ LatestDue(Awaited(s)) \in Slots /\ LatestDue(Awaited(s)) <= now
        /\ \A t \in Slots : t <= now => t <= LatestDue(Awaited(s))
    <3> DEFINE due == {Awaited(s)} \cup {t \in Slots : Awaited(s) < t /\ t <= now}
    <3>1. LatestDue(Awaited(s)) \in due /\ \A t \in due : t <= LatestDue(Awaited(s))
      BY <1>1, LatestIsNewest
    <3>2. ASSUME NEW t \in Slots, t <= now PROVE t <= LatestDue(Awaited(s))
      <4>1. t \in Nat /\ LatestDue(Awaited(s)) \in Nat /\ Awaited(s) <= LatestDue(Awaited(s))
        BY <1>1, <3>1, ConstantsAssumption
      <4>2. QED BY <1>1, <3>1, <3>2, <4>1
    <3>3. QED BY <1>1, <3>1, <3>2
  <2>2. QED BY <1>2, <1>3, <2>1 DEF DueSlot, Newest
<1>4. CASE CatchUp = "skip"
  <2>1. now - Awaited(s) <= 1
    BY <1>1, <1>2, <1>4 DEF PassedOver, Minute
  <2>2. Awaited(s) = now - 1
    BY <1>1, <2>1, ConstantsAssumption DEF ClockIsOdd
  <2>3. ASSUME NEW t \in Slots, t <= now PROVE t <= Awaited(s)
    <3>1. t \in Nat /\ t # now
      BY <2>3, ConstantsAssumption DEF ClockIsOdd
    <3>2. QED BY <2>2, <2>3, <3>1
  <2>4. QED BY <1>1, <1>2, <1>4, <2>3 DEF DueSlot, Newest
<1>5. QED BY <1>3, <1>4, ConstantsAssumption

----------------------------------------------------------------------------
\* The invariant.

\* Occurrences are slots that have come.
Slotted(occ) == ~occ.manual /\ occ.at \in Slots /\ occ.at <= now
SlotOf(w) ==
  /\ win[w].pc = "saving" => win[w].next \in Slots \cup {None}
  /\ win[w].pc \in Decided => Slotted(win[w].occ)
SlotsOnly ==
  /\ state.nextRunAt \in Slots \cup {None}
  /\ state.lastKey # None => Slotted(state.lastKey)
  /\ \A r \in RunIds : runs[r] # NoRun => Slotted(runs[r].occ)
  /\ \A w \in Windows : SlotOf(w)

After(occ) == state.lastKey = None \/ state.lastKey.at <= occ.at
StrictlyAfter(occ) == state.lastKey = None \/ state.lastKey.at < occ.at

\* A window that works under the lock works on the run it entered or took over; the
\* slot it claims comes after all that were run.
Work(w) ==
  /\ win[w].pc \in Inside \cap Decided => runs[win[w].run].occ = win[w].occ
  /\ win[w].pc = "queued" => state.active = None
  /\ win[w].pc \in {"queued", "claimed"} =>
       ~runs[win[w].run].started /\ StrictlyAfter(win[w].occ)
  /\ win[w].pc \in {"claimed", "executing", "delivering", "closing", "finishing"} =>
       state.active = win[w].run /\ state.pending = win[w].occ.at
  /\ win[w].pc \in {"recovering", "recovered"} =>
       /\ state.active = win[w].run
       /\ win[w].outcome = "over" \/ runs[win[w].run].interrupted

\* The windows that wait have decided in the order in which they wait, for nothing
\* that lies before the last run or the active one.
InOrder ==
  /\ \A v, w \in Windows :
       win[v].pc \in Decided /\ win[w].pc \in Decided /\ Ahead(locks, v, w)
         => win[v].occ.at <= win[w].occ.at
  /\ \A w \in Windows : win[w].pc \in Decided =>
       /\ After(win[w].occ)
       /\ state.active # None => runs[state.active].occ.at <= win[w].occ.at
  /\ state.active # None => After(runs[state.active].occ)

\* Every run that was started and not interrupted is the active one or not later
\* than the last one.
Unbroken(r) == Ran(r) /\ ~runs[r].interrupted
Settled ==
  \A r \in RunIds : Unbroken(r) =>
    r = state.active \/ (state.lastKey # None /\ runs[r].occ.at <= state.lastKey.at)

SlotInv ==
  /\ ClockIsOdd /\ SlotsOnly /\ (\A w \in Windows : Work(w)) /\ InOrder /\ Settled
  /\ SlotRunsOnce

----------------------------------------------------------------------------
\* What the steps have in common.

\* The windows: w goes on with what it has, or decides anew at the end of the queue.
GoesOn(w) ==
  /\ win'[w].pc # "saving"
  /\ win'[w].pc \in Decided =>
       win[w].pc \in Decided /\ win'[w].occ = win[w].occ /\ locks' = locks
WillSave(w) == win'[w].pc = "saving" /\ win'[w].next \in Slots \cup {None}
WillRun(w) ==
  /\ win'[w].pc = "lockRun" /\ Newest(win'[w].occ.at) /\ ~win'[w].occ.manual
  /\ Enters(w) \/ GoesBack(w)
Moves(w) ==
  /\ \A v \in Windows \ {w} : win'[v] = win[v]
  /\ Queues(w)
  /\ GoesOn(w) \/ WillSave(w) \/ WillRun(w)

\* The ledger and the state: nothing that counts changes ...
SameLedger ==
  \A r \in RunIds :
    /\ runs'[r] = NoRun <=> runs[r] = NoRun
    /\ runs[r] # NoRun => /\ runs'[r].occ = runs[r].occ /\ runs'[r].started = runs[r].started
                          /\ runs[r].interrupted => runs'[r].interrupted
SameState == state'.active = state.active /\ state'.lastKey = state.lastKey
Quiet == SameLedger /\ SameState
\* ... or a run is entered, named, started, or no longer active.
EntersRun(w) ==
  /\ SameState /\ state.active = None
  /\ win[w].pc = "lockRun" /\ runs[NewRun] = NoRun /\ NewRun \in RunIds
  /\ runs' = [runs EXCEPT ![NewRun] = Entry(win[w].occ)]
Activates(w) ==
  /\ runs' = runs /\ win[w].pc = "queued" /\ Holds(w) /\ win'[w].pc = "claimed"
  /\ win'[w].occ = win[w].occ /\ locks' = locks
  /\ state'.active = win[w].run /\ state'.lastKey = state.lastKey
Starts(w) ==
  /\ SameState /\ win[w].pc = "claimed" /\ win[w].run \in RunIds /\ runs[win[w].run] \in Runs
  /\ runs' = [runs EXCEPT ![win[w].run] =
                [runs[win[w].run] EXCEPT !.status = "running", !.started = TRUE]]
Settles(w) ==
  /\ runs' = runs /\ state.active # None /\ state'.active = None
  /\ win[w].pc \in Inside /\ Holds(w)
  /\ \/ state'.lastKey = runs[state.active].occ
     \/ state'.lastKey = state.lastKey /\ runs[state.active].interrupted
Changes(w) == Quiet \/ EntersRun(w) \/ Activates(w) \/ Starts(w) \/ Settles(w)
Noted == state'.nextRunAt \in Slots \cup {None}

----------------------------------------------------------------------------
\* What each step does.

LEMMA DecideMoves ==
  ASSUME CatchUp # "run-once", Base, ClockIsOdd, NEW w \in Windows, NEW j \in Jobs,
         NEW s \in States, s.manual = None, s.nextRunAt \in Slots \cup {None}, NEW q,
         Decide(w, j, s, q)
  PROVE  /\ \A v \in Windows \ {w} : win'[v] = win[v]
         /\ \/ win'[w].pc = "idle" /\ locks' = q
            \/ WillSave(w) /\ locks' = q
            \/ /\ win'[w].pc = "lockRun" /\ Newest(win'[w].occ.at) /\ ~win'[w].occ.manual
               /\ locks' = Append(q, w)
<1>0. now \in Nat /\ win \in [Windows -> Scans]
  BY BaseSays
<1>1. CASE DecidesNothing(w, q)
  BY <1>0, <1>1, RestTyped, OthersStay DEF DecidesNothing
<1>2. CASE DecidesToSave(w, j, s, q)
  <2>1. PICK at \in Times : Becomes(w, Saving(j, at)) /\ locks' = q /\ at \in Slots \cup {None}
    BY <1>2 DEF DecidesToSave
  <2>2. /\ Saving(j, at) \in Scans /\ Saving(j, at).pc = "saving" /\ Saving(j, at).next = at
    BY SavingTyped
  <2>3. QED BY <1>0, <2>1, <2>2, OthersStay DEF WillSave
<1>3. CASE DecidesToRun(w, j, s, q)
  <2>1. PICK occ \in Occurrences :
          Becomes(w, Running(j, occ)) /\ locks' = Append(q, w) /\ Picked(s, occ)
    BY <1>3 DEF DecidesToRun
  <2>2. Newest(occ.at) /\ ~occ.manual
    BY <1>0, <2>1, PickedIsNewest
  <2>3. Running(j, occ) \in Scans /\ Running(j, occ).pc = "lockRun" /\ Running(j, occ).occ = occ
    BY RunningTyped
  <2>4. QED BY <1>0, <2>1, <2>2, <2>3, OthersStay
<1>4. QED BY <1>0, <1>1, <1>2, <1>3, DecisionEnds

\* What holds while a window scans.
Stage == Base /\ RunInv /\ SlotInv /\ NoRequest /\ NoRequest' /\ CatchUp # "run-once"

\* What the steps of a window are to the invariant.
Steps(w) == now' = now /\ Moves(w) /\ Changes(w) /\ Noted /\ \A v \in Windows : Work(v)'

LEMMA OthersWork ==
  ASSUME Stage, NEW w \in Windows, Under(w), Work(w)'
  PROVE  \A v \in Windows : Work(v)'
<1>1. \A v \in Windows \ {w} : win[v].pc \notin Inside /\ win'[v] = win[v]
  BY Alone DEF Under, Stage
<1>2. \A v \in Windows \ {w} : Work(v)'
  BY <1>1 DEF Work, Inside
<1>3. QED BY <1>2

LEMMA OutsideWork ==
  ASSUME Stage, NEW w \in Windows, Outside(w),
         state'.lastKey = state.lastKey, state'.pending = state.pending
  PROVE  \A v \in Windows : Work(v)'
<1>1. Work(w)'
  BY DEF Outside, Work, Inside
<1>2. \A v \in Windows \ {w} : Work(v)'
  BY DEF Outside, Work, StrictlyAfter, Stage, SlotInv
<1>3. QED BY <1>1, <1>2

LEMMA NotInside ==
  ASSUME NEW w \in Windows, win'[w].pc \notin Inside
  PROVE  Work(w)'
BY DEF Work, Inside

LEMMA SameRunsQuiet ==
  ASSUME runs' = runs, SameState
  PROVE  Quiet
BY DEF Quiet, SameLedger

LEMMA ScanSteps ==
  ASSUME Stage, NEW w \in Windows, Scan(w)
  PROVE  Steps(w)
<1>1. Outside(w) /\ state' = state /\ now' = now
  BY ScanIsOutside DEF Stage, Scan
<1>2. \A v \in Windows : Work(v)'
  BY <1>1, OutsideWork
<1>3. Quiet /\ Noted
  BY <1>1, SameRunsQuiet DEF Outside, SameState, Noted, Stage, SlotInv, SlotsOnly
<1>4. win[w].pc \notin Waiting \cup Inside
  BY DEF Scan, Waiting, Inside
<1>5. CASE state.active # None
  <2>1. Becomes(w, Recovering(job)) /\ locks' = Append(locks, w)
    BY <1>5 DEF Scan, Becomes, Recovering
  <2>2. /\ win'[w] = Recovering(job) /\ Recovering(job).pc = "lockRecover"
        /\ \A v \in Windows \ {w} : win'[v] = win[v]
    BY <2>1, BaseSays, RecoveringTyped, OthersStay DEF Stage
  <2>3. Moves(w)
    BY <1>4, <2>1, <2>2 DEF Moves, Queues, Enters, GoesOn, Waiting, Decided
  <2>4. QED BY <1>1, <1>2, <1>3, <2>3 DEF Steps, Changes
<1>6. CASE state.active = None
  <2>1. Decide(w, job, state, locks)
    BY <1>6 DEF Scan
  <2>2. /\ \A v \in Windows \ {w} : win'[v] = win[v]
        /\ \/ win'[w].pc = "idle" /\ locks' = locks
           \/ WillSave(w) /\ locks' = locks
           \/ /\ win'[w].pc = "lockRun" /\ Newest(win'[w].occ.at) /\ ~win'[w].occ.manual
              /\ locks' = Append(locks, w)
    BY <2>1, BaseSays, DecideMoves DEF Stage, SlotInv, SlotsOnly, NoRequest
  <2>3. Moves(w)
    BY <1>4, <2>2
    DEF Moves, Queues, Keeps, Enters, GoesOn, WillSave, WillRun, Waiting, Inside, Decided
  <2>4. QED BY <1>1, <1>2, <1>3, <2>3 DEF Steps, Changes
<1>7. QED BY <1>5, <1>6

LEMMA SaveNextSteps ==
  ASSUME Stage, NEW w \in Windows, SaveNext(w)
  PROVE  Steps(w)
<1>1. Base
  BY DEF Stage
<1>2. Outside(w) /\ now' = now /\ state'.lastKey = state.lastKey /\ state'.pending = state.pending
  BY <1>1, SaveNextDoes, OutsideSteps
<1>3. \A v \in Windows : Work(v)'
  BY <1>2, OutsideWork
<1>4. Quiet
  BY <1>2, SameRunsQuiet DEF Outside, SameState
<1>5. Noted
  BY <1>1, SaveNextDoes DEF Noted, Stage, SlotInv, SlotsOnly, SlotOf
<1>6. Moves(w)
  BY <1>1, SaveNextDoes DEF Moves, Queues, Keeps, GoesOn, Waiting, Inside, Decided
<1>7. QED BY <1>2, <1>3, <1>4, <1>5, <1>6 DEF Steps, Changes

LEMMA CrashSteps ==
  ASSUME Stage, NEW w \in Windows, Crash(w) \/ Restart(w)
  PROVE  Steps(w)
<1>1. Base
  BY DEF Stage
<1>2. Outside(w) /\ now' = now /\ state' = state
  BY <1>1, CrashDoes, RestartDoes, OutsideSteps DEF disk
<1>3. \A v \in Windows : Work(v)'
  BY <1>2, OutsideWork
<1>4. Quiet /\ Noted
  BY <1>2, SameRunsQuiet DEF Outside, SameState, Noted, Stage, SlotInv, SlotsOnly
<1>5. Moves(w)
  BY <1>1, CrashDoes, RestartDoes
  DEF Moves, Queues, Keeps, Vanishes, GoesOn, Waiting, Inside, Decided
<1>6. QED BY <1>2, <1>3, <1>4, <1>5 DEF Steps, Changes

LEMMA RecoverSteps ==
  ASSUME Stage, NEW w \in Windows, Recover(w)
  PROVE  Steps(w)
<1>1. Base
  BY DEF Stage
<1>2. CASE /\ Holds(w) /\ Decide(w, win[w].job, state, Tail(locks))
           /\ UNCHANGED <<now, job, state, runs, saved, sent, soft, bounds>>
  <2>1. /\ \A v \in Windows \ {w} : win'[v] = win[v]
        /\ \/ win'[w].pc = "idle" /\ locks' = Tail(locks)
           \/ WillSave(w) /\ locks' = Tail(locks)
           \/ /\ win'[w].pc = "lockRun" /\ Newest(win'[w].occ.at) /\ ~win'[w].occ.manual
              /\ locks' = Append(Tail(locks), w)
    BY <1>2, BaseSays, DecideMoves DEF Stage, SlotInv, SlotsOnly, NoRequest
  <2>2. Moves(w)
    BY <1>2, <2>1
    DEF Moves, Queues, Leaves, GoesBack, GoesOn, WillSave, WillRun, Waiting, Inside, Decided
  <2>3. Quiet /\ Noted
    BY <1>2, SameRunsQuiet DEF SameState, Noted, Stage, SlotInv, SlotsOnly
  <2>4. Under(w) /\ win'[w].pc \notin Inside
    BY <1>2, <2>1 DEF Under, WillSave, Inside
  <2>5. QED BY <1>2, <2>2, <2>3, <2>4, NotInside, OthersWork DEF Steps, Changes
<1>3. CASE TakesOver(w)
  <2> DEFINE r == state.active
  <2>1. PICK pc \in {"recovering", "recovered"}, outcome \in {"over", "replay", "block"} :
          /\ Becomes(w, [win[w] EXCEPT !.pc = pc, !.run = r, !.outcome = outcome])
          /\ \/ outcome = "over" /\ UNCHANGED <<runs, saved>>
             \/ runs' = [runs EXCEPT ![r] = Interrupted(r)]
    BY <1>3 DEF TakesOver
  <2>2. r \in RunIds /\ runs[r] \in Runs /\ r # None /\ win[w] \in Scans
    BY <1>1, <1>3, BaseSays DEF TakesOver, ActiveIsEntered
  <2>3. /\ win[w].pc = "lockRecover" /\ Holds(w)
        /\ UNCHANGED <<now, job, state, sent, soft, locks, bounds>>
    BY <1>3 DEF TakesOver
  <2> HIDE DEF r
  <2>4. win'[w].pc = pc /\ win'[w].run = r /\ win'[w].outcome = outcome
    <3> DEFINE new == [win[w] EXCEPT !.pc = pc, !.run = r, !.outcome = outcome]
    <3>1. new.pc = pc /\ new.run = r /\ new.outcome = outcome
      BY <2>2 DEF Scans
    <3>2. win'[w] = new
      BY <1>1, <2>1, BaseSays DEF Becomes
    <3>3. QED BY <3>1, <3>2
  <2>5. /\ Interrupted(r) # NoRun /\ Interrupted(r).interrupted
        /\ Interrupted(r).occ = runs[r].occ /\ Interrupted(r).started = runs[r].started
    <3>1. Interrupted(r) \in Runs
      BY <1>1, <2>2, BaseSays DEF Interrupted, Runs, Terminal, Times
    <3>2. QED BY <2>2, <3>1, NullsAssumption DEF Interrupted, Runs
  <2>6. SameLedger /\ (outcome = "over" \/ runs'[r].interrupted)
    BY <1>1, <2>1, <2>2, <2>5, BaseSays, NullsAssumption DEF SameLedger
  <2>7. Moves(w)
    <3>1. \A v \in Windows \ {w} : win'[v] = win[v]
      BY <1>1, <2>1, BaseSays DEF Becomes
    <3>2. QED BY <2>3, <2>4, <3>1 DEF Moves, Queues, Keeps, GoesOn, Holds, Waiting, Inside, Decided
  <2>8. Work(w)'
    BY <2>3, <2>4, <2>6 DEF Work, Inside, Decided, r
  <2>9. Under(w)
    BY <2>3, <2>7 DEF Under, Moves
  <2>10. Quiet /\ Noted
    BY <2>3, <2>6 DEF Quiet, SameState, Noted, Stage, SlotInv, SlotsOnly
  <2>11. QED BY <2>3, <2>7, <2>8, <2>9, <2>10, OthersWork DEF Steps, Changes
<1>4. QED BY <1>1, <1>2, <1>3, RecoverCases

LEMMA RecoverDeliverySteps ==
  ASSUME Stage, NEW w \in Windows, RecoverDelivery(w)
  PROVE  Steps(w)
<1>1. /\ Base /\ win[w].pc = "recovering"
      /\ UNCHANGED <<now, job, state, runs, locks, fresh, bounds>>
  BY DEF Stage, RecoverDelivery
<1>2. /\ Under(w) /\ win'[w].pc = "recovered"
      /\ win'[w].run = win[w].run /\ win'[w].outcome = win[w].outcome
  BY <1>1, RecoverDeliveryIsUnder
<1>3. Work(w)'
  BY <1>1, <1>2 DEF Work, Inside, Decided, Stage, SlotInv
<1>4. Quiet /\ Noted
  BY <1>1, SameRunsQuiet DEF SameState, Noted, Stage, SlotInv, SlotsOnly
<1>5. Moves(w)
  BY <1>1, <1>2 DEF Under, Moves, Queues, Keeps, GoesOn, Waiting, Inside, Decided
<1>6. QED BY <1>1, <1>2, <1>3, <1>4, <1>5, OthersWork DEF Steps, Changes

LEMMA SaveRecoverySteps ==
  ASSUME Stage, NEW w \in Windows, SaveRecovery(w)
  PROVE  Steps(w)
<1> DEFINE r == win[w].run
<1>1. /\ Base /\ win[w].pc = "recovered" /\ Holds(w) /\ r \in RunIds /\ runs[r] \in Runs
      /\ UNCHANGED <<now, job, runs, saved, sent, soft, bounds>>
  BY BaseSays DEF Stage, SaveRecovery, HasPlace, Knows, Inside, Holds
<1>2. Under(w) /\ win'[w].pc \notin Inside
  BY <1>1, SaveRecoveryIsUnder DEF Inside
<1>3. \A v \in Windows : Work(v)'
  BY <1>2, NotInside, OthersWork
<1>4. CASE ~CanSave(w)
  <2>1. Becomes(w, Rest) /\ locks' = Tail(locks) /\ UNCHANGED state
    BY <1>4 DEF SaveRecovery, Becomes, Release
  <2>2. win'[w].pc = "idle"
    BY <1>1, <2>1, BaseSays, RestTyped, OthersStay
  <2>3. Moves(w)
    BY <1>1, <1>2, <2>1, <2>2 DEF Under, Moves, Queues, Leaves, GoesOn, Waiting, Inside, Decided
  <2>4. Quiet /\ Noted
    BY <1>1, <2>1, SameRunsQuiet DEF SameState, Noted, Stage, SlotInv, SlotsOnly
  <2>5. QED BY <1>1, <1>3, <2>3, <2>4 DEF Steps, Changes
<1>5. CASE CanSave(w)
  <2>1. Save(w, Recovered(w)) /\ Decide(w, win[w].job, state', Tail(locks))
    BY <1>5 DEF SaveRecovery
  <2>2. /\ Recovered(w) \in States /\ Recovered(w).active = None
        /\ Recovered(w).manual = state.manual
        /\ win[w].outcome = "over" => Recovered(w).lastKey = runs[r].occ
        /\ win[w].outcome # "over" => Recovered(w).lastKey = state.lastKey
        /\ Recovered(w).nextRunAt \in
             {state.nextRunAt, runs[r].occ.at, NextSlot(LookFrom(runs[r].occ.at, runs[r].completed))}
    BY <1>1, BaseSays, RecoveredTyped
  <2>3. Slotted(runs[r].occ) /\ state.nextRunAt \in Slots \cup {None}
    BY <1>1, NullsAssumption DEF Stage, SlotInv, SlotsOnly
  <2>4. /\ state' \in States /\ state'.active = None /\ state'.manual = None
        /\ state'.lastKey = Recovered(w).lastKey /\ Noted
    <3>1. /\ state' \in States /\ state'.active = Recovered(w).active
          /\ state'.manual = Recovered(w).manual
          /\ state'.lastKey = Recovered(w).lastKey /\ state'.nextRunAt = Recovered(w).nextRunAt
      BY <1>1, <2>1, <2>2, SaveTyped DEF Base
    <3>2. NextSlot(LookFrom(runs[r].occ.at, runs[r].completed)) \in Slots \cup {None}
      BY NextSlotIsLater
    <3>3. QED BY <2>2, <2>3, <3>1, <3>2 DEF Noted, Slotted, Stage, NoRequest
  <2>5. /\ \A v \in Windows \ {w} : win'[v] = win[v]
        /\ \/ win'[w].pc = "idle" /\ locks' = Tail(locks)
           \/ WillSave(w) /\ locks' = Tail(locks)
           \/ /\ win'[w].pc = "lockRun" /\ Newest(win'[w].occ.at) /\ ~win'[w].occ.manual
              /\ locks' = Append(Tail(locks), w)
    BY <1>1, <2>1, <2>4, BaseSays, DecideMoves DEF Stage, SlotInv, Noted
  <2>6. Moves(w)
    BY <1>1, <2>5
    DEF Moves, Queues, Leaves, GoesBack, GoesOn, WillSave, WillRun, Waiting, Inside, Decided
  <2>7. state.active = r /\ (win[w].outcome = "over" \/ runs[r].interrupted)
    BY <1>1 DEF Stage, SlotInv, Work
  <2>8. Settles(w)
    BY <1>1, <2>2, <2>4, <2>7, ConstantsAssumption DEF Settles, Inside
  <2>9. QED BY <1>1, <1>3, <2>4, <2>6, <2>8 DEF Steps, Changes
<1>6. QED BY <1>4, <1>5

LEMMA TurnBackSteps ==
  ASSUME Stage, NEW w \in Windows, TurnBack(w)
  PROVE  Steps(w)
<1>1. /\ Base /\ win[w].pc = "lockRun" /\ Holds(w) /\ locks' = Tail(locks)
      /\ UNCHANGED <<now, job, runs, saved, sent, soft, bounds>>
  BY DEF Stage, TurnBack, Release
<1>2. Under(w) /\ win'[w].pc = "idle"
  BY <1>1, TurnBackIsUnder
<1>3. \A v \in Windows : Work(v)'
  BY <1>2, NotInside, OthersWork DEF Inside
<1>4. Moves(w)
  BY <1>1, <1>2 DEF Under, Moves, Queues, Leaves, GoesOn, Waiting, Inside, Decided
<1>5. SameState /\ state'.nextRunAt = state.nextRunAt
  <2>1. CASE UNCHANGED <<state, fresh>>
    BY <2>1 DEF SameState
  <2>2. CASE Save(w, [state EXCEPT !.pending = win[w].occ.at])
    <3> DEFINE new == [state EXCEPT !.pending = win[w].occ.at]
    <3>1. win[w].occ \in Occurrences
      BY <1>1, BaseSays DEF Knows, Decided
    <3>2. /\ new \in States /\ new.active = state.active /\ new.lastKey = state.lastKey
          /\ new.nextRunAt = state.nextRunAt
      BY <1>1, <3>1, BaseSays DEF States, Occurrences, Times
    <3>3. Save(w, new)
      BY <2>2
    <3> HIDE DEF new
    <3>4. QED BY <1>1, <3>2, <3>3, SaveTyped DEF Base, SameState
  <2>3. QED BY <2>1, <2>2 DEF TurnBack
<1>6. Quiet /\ Noted
  BY <1>1, <1>5, SameRunsQuiet DEF Noted, Stage, SlotInv, SlotsOnly
<1>7. QED BY <1>1, <1>3, <1>4, <1>6 DEF Steps, Changes

LEMMA EnqueueSteps ==
  ASSUME Stage, NEW w \in Windows, Enqueue(w)
  PROVE  Steps(w)
<1>1. /\ Base /\ win[w].pc = "lockRun" /\ Holds(w) /\ win[w].occ \in Occurrences
      /\ ~AlreadyDone(win[w].occ) /\ state.active = None /\ Entry(win[w].occ) \in Runs
      /\ UNCHANGED <<now, job, state, saved, sent, soft, locks, bounds>>
      /\ NewRun \in RunIds /\ runs[NewRun] = NoRun
      /\ runs' = [runs EXCEPT ![NewRun] = Entry(win[w].occ)]
      /\ \A v \in Windows \ {w} : win'[v] = win[v]
  BY EnqueueDoes DEF Stage
<1>2. win'[w].pc = "queued" /\ win'[w].run = NewRun /\ win'[w].occ = win[w].occ
  <2>1. win[w] \in Scans
    BY <1>1, BaseSays
  <2>2. win'[w] = [win[w] EXCEPT !.pc = "queued", !.run = NewRun]
    BY <1>1, EnqueueDoes
  <2>3. QED BY <2>1, <2>2 DEF Scans
<1>3. Moves(w)
  BY <1>1, <1>2 DEF Moves, Queues, Keeps, GoesOn, Waiting, Inside, Decided
<1>4. StrictlyAfter(win[w].occ)
  <2>1. SUFFICES ASSUME state.lastKey # None PROVE state.lastKey.at < win[w].occ.at
    BY DEF StrictlyAfter
  <2>2. state.lastKey \in Occurrences /\ state.lastKey # win[w].occ
    BY <1>1, <2>1, BaseSays DEF States, AlreadyDone
  <2>3. /\ ~state.lastKey.manual /\ ~win[w].occ.manual
        /\ state.lastKey.at <= win[w].occ.at
    BY <1>1, <2>1 DEF Stage, SlotInv, SlotsOnly, SlotOf, Slotted, InOrder, After, Decided
  <2>4. state.lastKey.at # win[w].occ.at
    BY <1>1, <2>2, <2>3 DEF Occurrences
  <2>5. QED BY <1>1, <2>2, <2>3, <2>4 DEF Occurrences
<1>5. runs'[NewRun] = Entry(win[w].occ)
  BY <1>1, BaseSays
<1>6. Entry(win[w].occ).occ = win[w].occ /\ ~Entry(win[w].occ).started
  BY DEF Entry
<1>7. Work(w)'
  BY <1>1, <1>2, <1>4, <1>5, <1>6 DEF Work, StrictlyAfter, Inside, Decided
<1>8. EntersRun(w) /\ Noted
  BY <1>1 DEF EntersRun, SameState, Noted, Stage, SlotInv, SlotsOnly
<1>9. QED BY <1>1, <1>3, <1>7, <1>8, OthersWork DEF Steps, Changes, Under

LEMMA ActivateSteps ==
  ASSUME Stage, NEW w \in Windows, Activate(w)
  PROVE  Steps(w)
<1>1. /\ Base /\ win[w].pc = "queued" /\ Holds(w) /\ win[w].occ \in Occurrences
      /\ UNCHANGED <<now, job, runs, saved, sent, soft, bounds>>
      /\ \A v \in Windows \ {w} : win'[v] = win[v]
      /\ \/ /\ Save(w, Activated(w)) /\ Activated(w) \in States
            /\ win'[w] = [win[w] EXCEPT !.pc = "claimed"] /\ UNCHANGED locks
         \/ win'[w] = Rest /\ locks' = Tail(locks) /\ UNCHANGED <<state, fresh>>
  BY ActivateDoes DEF Stage
<1>2. CASE win'[w] = Rest /\ locks' = Tail(locks) /\ UNCHANGED <<state, fresh>>
  <2>1. Moves(w)
    BY <1>1, <1>2, RestTyped DEF Moves, Queues, Leaves, GoesOn, Waiting, Inside, Decided
  <2>2. Quiet /\ Noted
    BY <1>1, <1>2, SameRunsQuiet DEF SameState, Noted, Stage, SlotInv, SlotsOnly
  <2>3. Under(w) /\ win'[w].pc \notin Inside
    BY <1>1, <1>2, RestTyped DEF Under, Inside
  <2>4. QED BY <1>1, <2>1, <2>2, <2>3, NotInside, OthersWork DEF Steps, Changes
<1>3. CASE /\ Save(w, Activated(w)) /\ Activated(w) \in States
           /\ win'[w] = [win[w] EXCEPT !.pc = "claimed"] /\ UNCHANGED locks
  <2>1. win'[w].pc = "claimed" /\ win'[w].run = win[w].run /\ win'[w].occ = win[w].occ
    BY <1>1, <1>3, BaseSays DEF Scans
  <2>2. /\ Activated(w).active = win[w].run /\ Activated(w).lastKey = state.lastKey
        /\ Activated(w).pending = win[w].occ.at /\ Activated(w).nextRunAt = state.nextRunAt
    BY <1>1, BaseSays DEF Activated, States
  <2>3. /\ state'.active = win[w].run /\ state'.lastKey = state.lastKey
        /\ state'.pending = win[w].occ.at /\ state'.nextRunAt = state.nextRunAt
    BY <1>1, <1>3, <2>2, SaveTyped DEF Base
  <2>4. Moves(w)
    BY <1>1, <1>3, <2>1 DEF Moves, Queues, Keeps, GoesOn, Waiting, Inside, Decided
  <2>5. Work(w)'
    BY <1>1, <2>1, <2>3 DEF Work, StrictlyAfter, Inside, Decided, Stage, SlotInv
  <2>6. Activates(w) /\ Noted
    BY <1>1, <1>3, <2>1, <2>3 DEF Activates, Noted, Stage, SlotInv, SlotsOnly
  <2>7. QED BY <1>1, <2>4, <2>5, <2>6, OthersWork DEF Steps, Changes, Under
<1>4. QED BY <1>1, <1>2, <1>3

\* The run as it is started.
Begun(r) == [runs[r] EXCEPT !.status = "running", !.started = TRUE]
LEMMA BegunIs ==
  ASSUME NEW r, runs[r] \in Runs
  PROVE  /\ Begun(r) \in Runs /\ Begun(r) # NoRun /\ Begun(r).started
         /\ Begun(r).occ = runs[r].occ /\ Begun(r).interrupted = runs[r].interrupted
<1>1. Begun(r) \in Runs
  BY DEF Begun, Runs, Terminal
<1>2. /\ Begun(r).started
      /\ Begun(r).occ = runs[r].occ /\ Begun(r).interrupted = runs[r].interrupted
  BY DEF Begun, Runs
<1>3. QED BY <1>1, <1>2, NullsAssumption

LEMMA StartSteps ==
  ASSUME Stage, NEW w \in Windows, Start(w)
  PROVE  Steps(w)
<1> DEFINE r == win[w].run
<1>1. /\ Base /\ win[w].pc = "claimed" /\ Holds(w) /\ r \in RunIds /\ runs[r] \in Runs
      /\ UNCHANGED <<now, job, state, saved, sent, soft, locks, fresh, bounds>>
      /\ runs' = [runs EXCEPT ![r] = Begun(r)]
      /\ \A v \in Windows \ {w} : win'[v] = win[v]
  BY StartDoes DEF Stage, Begun
<1>2. win'[w].pc = "executing" /\ win'[w].run = r /\ win'[w].occ = win[w].occ
  BY <1>1, StartDoes, BaseSays DEF Scans
<1>3. Moves(w)
  BY <1>1, <1>2 DEF Moves, Queues, Keeps, GoesOn, Waiting, Inside, Decided
<1>4. runs'[r].occ = runs[r].occ
  BY <1>1, BegunIs, BaseSays
<1>5. Work(w)'
  BY <1>1, <1>2, <1>4 DEF Work, Inside, Decided, Stage, SlotInv
<1>6. Starts(w) /\ Noted
  BY <1>1 DEF Starts, Begun, SameState, Noted, Stage, SlotInv, SlotsOnly
<1>7. QED BY <1>1, <1>3, <1>5, <1>6, OthersWork DEF Steps, Changes, Under

LEMMA AgentSteps ==
  ASSUME Stage, NEW w \in Windows, AgentStep(w) \/ Deliver(w)
  PROVE  Steps(w)
<1>1. /\ Base /\ win[w].pc \in {"executing", "delivering"} /\ Holds(w)
      /\ UNCHANGED <<now, job, state, runs, locks>>
      /\ \A v \in Windows \ {w} : win'[v] = win[v]
      /\ win'[w].occ = win[w].occ /\ win'[w].run = win[w].run
      /\ win'[w].pc \in {"executing", "delivering", "closing"}
  BY AgentStepDoes, DeliverDoes DEF Stage
<1>2. Moves(w)
  BY <1>1 DEF Moves, Queues, Keeps, GoesOn, Waiting, Inside, Decided
<1>3. Work(w)'
  BY <1>1 DEF Work, Inside, Decided, Stage, SlotInv
<1>4. Quiet /\ Noted
  BY <1>1, SameRunsQuiet DEF SameState, Noted, Stage, SlotInv, SlotsOnly
<1>5. QED BY <1>1, <1>2, <1>3, <1>4, OthersWork DEF Steps, Changes, Under

LEMMA CloseSteps ==
  ASSUME Stage, NEW w \in Windows, Close(w)
  PROVE  Steps(w)
<1> DEFINE r == win[w].run
<1>1. /\ Base /\ win[w].pc = "closing" /\ Holds(w) /\ r \in RunIds /\ runs[r] \in Runs
      /\ UNCHANGED <<now, job, state, sent, fresh, bounds>>
      /\ \A v \in Windows \ {w} : win'[v] = win[v]
      /\ \/ /\ runs' = [runs EXCEPT ![r] = ClosedRun(w)] /\ ClosedRun(w) \in Runs
            /\ win'[w] = [win[w] EXCEPT !.pc = "finishing"] /\ UNCHANGED locks
         \/ win'[w] = Rest /\ locks' = Tail(locks) /\ UNCHANGED runs
  BY CloseDoes DEF Stage
<1>2. SameState /\ Noted
  BY <1>1 DEF SameState, Noted, Stage, SlotInv, SlotsOnly
<1>3. CASE win'[w] = Rest /\ locks' = Tail(locks) /\ UNCHANGED runs
  <2>1. Moves(w)
    BY <1>1, <1>3, RestTyped DEF Moves, Queues, Leaves, GoesOn, Waiting, Inside, Decided
  <2>2. Under(w) /\ win'[w].pc \notin Inside
    BY <1>1, <1>3, RestTyped DEF Under, Inside
  <2>3. QED BY <1>1, <1>2, <1>3, <2>1, <2>2, SameRunsQuiet, NotInside, OthersWork DEF Steps, Changes
<1>4. CASE /\ runs' = [runs EXCEPT ![r] = ClosedRun(w)] /\ ClosedRun(w) \in Runs
           /\ win'[w] = [win[w] EXCEPT !.pc = "finishing"] /\ UNCHANGED locks
  <2>1. win'[w].pc = "finishing" /\ win'[w].run = r /\ win'[w].occ = win[w].occ
    BY <1>1, <1>4, BaseSays DEF Scans
  <2>2. /\ ClosedRun(w) # NoRun /\ ClosedRun(w).occ = runs[r].occ
        /\ ClosedRun(w).started = runs[r].started
        /\ ClosedRun(w).interrupted = runs[r].interrupted
    BY <1>1, <1>4, NullsAssumption DEF ClosedRun, Runs
  <2>3. SameLedger /\ runs'[r].occ = runs[r].occ
    BY <1>1, <1>4, <2>2, BaseSays, NullsAssumption DEF SameLedger
  <2>4. Moves(w)
    BY <1>1, <1>4, <2>1 DEF Moves, Queues, Keeps, GoesOn, Waiting, Inside, Decided
  <2>5. Work(w)'
    BY <1>1, <2>1, <2>3 DEF Work, Inside, Decided, Stage, SlotInv
  <2>6. QED BY <1>1, <1>2, <2>3, <2>4, <2>5, OthersWork DEF Steps, Changes, Quiet, Under
<1>5. QED BY <1>1, <1>3, <1>4

\* A slot noted behind a run never is another than the run's: nobody else has the lock.
LEMMA FinishSteps ==
  ASSUME Stage, NEW w \in Windows, Finish(w)
  PROVE  Steps(w)
<1> DEFINE r == runs[win[w].run]
<1>1. /\ Base /\ win[w].pc = "finishing" /\ Holds(w) /\ win[w].run \in RunIds /\ r \in Runs
      /\ UNCHANGED <<now, job, runs, saved, sent, soft, bounds>>
      /\ \A v \in Windows \ {w} : win'[v] = win[v]
  BY FinishDoes DEF Stage
<1>2. state.active = win[w].run /\ state.pending = win[w].occ.at /\ r.occ = win[w].occ
  BY <1>1 DEF Stage, SlotInv, Work, Inside, Decided
<1>3. /\ win'[w] = Rest /\ locks' = Tail(locks)
      /\ Save(w, Finished(r, FailedRun(r))) \/ UNCHANGED <<state, fresh>>
  BY <1>1, <1>2, FinishDoes
<1>4. Moves(w)
  BY <1>1, <1>3, RestTyped DEF Moves, Queues, Leaves, GoesOn, Waiting, Inside, Decided
<1>5. \A v \in Windows : Work(v)'
  BY <1>1, <1>3, RestTyped, NotInside, OthersWork DEF Under, Inside
<1>6. CASE UNCHANGED <<state, fresh>>
  <2>1. Quiet /\ Noted
    BY <1>1, <1>6, SameRunsQuiet DEF SameState, Noted, Stage, SlotInv, SlotsOnly
  <2>2. QED BY <1>1, <1>4, <1>5, <2>1 DEF Steps, Changes
<1>7. CASE Save(w, Finished(r, FailedRun(r)))
  <2>1. FailedRun(r) \in BOOLEAN /\ state \in States
    BY <1>1, BaseSays DEF FailedRun
  <2>2. /\ Finished(r, FailedRun(r)) \in States /\ Finished(r, FailedRun(r)).active = None
        /\ Finished(r, FailedRun(r)).lastKey = r.occ
        /\ Finished(r, FailedRun(r)).nextRunAt
             \in {state.nextRunAt, NextSlot(LookFrom(r.occ.at, r.completed))}
    <3> HIDE DEF r
    <3>1. QED BY <1>1, <2>1, FinishedTyped
  <2>3. state'.active = None /\ state'.lastKey = r.occ /\ Noted
    <3>1. /\ state'.active = None /\ state'.lastKey = r.occ
          /\ state'.nextRunAt \in {state.nextRunAt, NextSlot(LookFrom(r.occ.at, r.completed))}
      BY <1>1, <1>7, <2>2, SaveTyped DEF Base
    <3>2. NextSlot(LookFrom(r.occ.at, r.completed)) \in Slots \cup {None}
      BY NextSlotIsLater
    <3>3. QED BY <3>1, <3>2 DEF Noted, Stage, SlotInv, SlotsOnly
  <2>4. Settles(w)
    BY <1>1, <1>2, <2>3, ConstantsAssumption DEF Settles, Inside
  <2>5. QED BY <1>1, <1>4, <1>5, <2>3, <2>4 DEF Steps, Changes
<1>8. QED BY <1>3, <1>6, <1>7

----------------------------------------------------------------------------
\* What that means for the invariant.

\* The ledger is as it was, but for the run that is entered or started.
LEMMA LedgerAfter ==
  ASSUME Stage, NEW w \in Windows, Steps(w), NEW r \in RunIds, runs'[r] # NoRun
  PROVE  \/ /\ runs[r] # NoRun /\ runs'[r].occ = runs[r].occ
            /\ runs[r].interrupted => runs'[r].interrupted
            /\ \/ runs'[r].started = runs[r].started
               \/ Starts(w) /\ r = win[w].run
         \/ /\ EntersRun(w) /\ r = NewRun
            /\ runs'[r].occ = win[w].occ /\ ~runs'[r].started
<1>0. runs \in [RunIds -> Runs \cup {NoRun}]
  BY BaseSays DEF Stage
<1>1. CASE Quiet
  BY <1>1 DEF Quiet, SameLedger
<1>2. CASE EntersRun(w)
  <2>1. CASE r = NewRun
    <3>1. runs'[r] = Entry(win[w].occ)
      BY <1>0, <1>2, <2>1 DEF EntersRun
    <3>2. runs'[r].occ = win[w].occ /\ ~runs'[r].started
      BY <3>1 DEF Entry
    <3>3. QED BY <1>2, <2>1, <3>2
  <2>2. CASE r # NewRun
    BY <1>0, <1>2, <2>2 DEF EntersRun
  <2>3. QED BY <2>1, <2>2
<1>3. CASE Activates(w) \/ Settles(w)
  BY <1>3 DEF Activates, Settles
<1>4. CASE Starts(w)
  <2>1. CASE r = win[w].run
    <3>1. runs'[r] = Begun(r) /\ runs[r] \in Runs
      BY <1>0, <1>4, <2>1 DEF Starts, Begun
    <3>2. Begun(r).occ = runs[r].occ /\ Begun(r).interrupted = runs[r].interrupted
      BY <3>1, BegunIs
    <3>3. QED BY <1>4, <2>1, <3>1, <3>2, NullsAssumption
  <2>2. CASE r # win[w].run
    BY <1>0, <1>4, <2>2 DEF Starts
  <2>3. QED BY <2>1, <2>2
<1>5. QED BY <1>1, <1>2, <1>3, <1>4 DEF Steps, Changes

\* The last occurrence is the one it was, or that of the active run.
LEMMA LastKeyAfter ==
  ASSUME Stage, NEW w \in Windows, Steps(w)
  PROVE  \/ state'.lastKey = state.lastKey
         \/ /\ Settles(w) /\ state'.lastKey = runs[state.active].occ
            /\ state.active \in RunIds /\ runs[state.active] # NoRun
BY BaseSays, NullsAssumption
DEF Stage, Steps, Changes, Quiet, SameState, EntersRun, Activates, Starts, Settles, ActiveIsEntered

LEMMA SlotsOnlyKept ==
  ASSUME Stage, NEW w \in Windows, Steps(w)
  PROVE  SlotsOnly'
<1>0. now' = now
  BY DEF Steps
<1>2. state'.lastKey # None => Slotted(state'.lastKey)
  <2>1. state.lastKey # None => Slotted(state.lastKey)
    BY DEF Stage, SlotInv, SlotsOnly
  <2>2. state.active \in RunIds /\ runs[state.active] # NoRun => Slotted(runs[state.active].occ)
    BY DEF Stage, SlotInv, SlotsOnly
  <2>3. QED BY <2>1, <2>2, LastKeyAfter
<1>3. ASSUME NEW r \in RunIds, runs'[r] # NoRun PROVE Slotted(runs'[r].occ)
  <2>1. win[w].pc = "lockRun" => Slotted(win[w].occ)
    BY DEF Stage, SlotInv, SlotsOnly, SlotOf, Decided
  <2>2. runs[r] # NoRun => Slotted(runs[r].occ)
    BY DEF Stage, SlotInv, SlotsOnly
  <2>3. QED BY <1>3, <2>1, <2>2, LedgerAfter DEF EntersRun
<1>4. ASSUME NEW v \in Windows PROVE SlotOf(v)'
  <2>0. SlotOf(v) /\ SlotOf(w)
    BY DEF Stage, SlotInv, SlotsOnly
  <2>1. CASE v # w
    BY <1>0, <2>0, <2>1 DEF Steps, Moves, SlotOf, Slotted
  <2>2. CASE v = w
    <3>1. CASE GoesOn(w)
      BY <1>0, <2>0, <2>2, <3>1 DEF GoesOn, SlotOf, Slotted
    <3>2. CASE WillSave(w)
      BY <2>2, <3>2 DEF WillSave, SlotOf, Decided
    <3>3. CASE WillRun(w)
      BY <1>0, <2>2, <3>3 DEF WillRun, SlotOf, Slotted, Newest
    <3>4. QED BY <3>1, <3>2, <3>3 DEF Steps, Moves
  <2>3. QED BY <2>1, <2>2
<1>5. state'.nextRunAt \in Slots \cup {None}
  BY DEF Steps, Noted
<1>6. QED BY <1>0, <1>2, <1>3, <1>4, <1>5 DEF SlotsOnly, Slotted

\* No step lets a window pass another one in the queue.
LEMMA NobodyPasses ==
  ASSUME Base, NEW w \in Windows, Queues(w), NEW v, NEW u, u # w, Ahead(locks', v, u)
  PROVE  Ahead(locks, v, u)
<1>0. locks \in Seq(Windows) /\ Once(locks) /\ HasPlace(w)
  BY DEF Base, TypeInv, TypeOK, LockInv
<1>1. CASE Keeps(w)
  BY <1>1 DEF Keeps
<1>2. CASE Enters(w)
  BY <1>0, <1>2, AppendToQueue DEF Enters, HasPlace
<1>3. CASE Leaves(w)
  BY <1>0, <1>3, TailOfQueue DEF Leaves, Holds
<1>4. CASE GoesBack(w)
  <2> DEFINE q == Tail(locks)
  <2>1. /\ q \in Seq(Windows) /\ Once(q) /\ ~InLine(q, w)
        /\ Ahead(q, v, u) => Ahead(locks, v, u)
    BY <1>0, <1>4, TailOfQueue DEF GoesBack, Holds
  <2>2. locks' = Append(q, w)
    BY <1>4 DEF GoesBack
  <2> HIDE DEF q
  <2>3. Ahead(q, v, u)
    BY <2>1, <2>2, AppendToQueue
  <2>4. QED BY <2>1, <2>3
<1>5. CASE Vanishes(w)
  BY <1>0, <1>5, WithoutWindow DEF Vanishes
<1>6. QED BY <1>1, <1>2, <1>3, <1>4, <1>5 DEF Queues

\* Whoever joins the queue is behind all others.
LEMMA JoinsLast ==
  ASSUME Base, NEW w \in Windows, Enters(w) \/ GoesBack(w), NEW u, u # w
  PROVE  ~Ahead(locks', w, u)
<1>0. locks \in Seq(Windows) /\ Once(locks) /\ HasPlace(w)
  BY DEF Base, TypeInv, TypeOK, LockInv
<1>1. \A q, v, x : Ahead(q, v, x) => InLine(q, v)
  BY DEF Ahead, InLine
<1>2. CASE Enters(w)
  BY <1>0, <1>1, <1>2, AppendToQueue DEF Enters, HasPlace
<1>3. CASE GoesBack(w)
  <2> DEFINE q == Tail(locks)
  <2>1. q \in Seq(Windows) /\ Once(q) /\ ~InLine(q, w)
    BY <1>0, <1>3, TailOfQueue DEF GoesBack, Holds
  <2>2. locks' = Append(q, w)
    BY <1>3 DEF GoesBack
  <2> HIDE DEF q
  <2>3. QED BY <1>1, <2>1, <2>2, AppendToQueue
<1>4. QED BY <1>2, <1>3

\* Who has the lock is ahead of all others.
LEMMA HolderIsAhead ==
  ASSUME Base, NEW w \in Windows, Holds(w), NEW u \in Windows, u # w, win[u].pc \in Waiting \cup Inside
  PROVE  Ahead(locks, w, u)
<1>1. locks \in Seq(Windows) /\ HasPlace(u) /\ locks # <<>> /\ Head(locks) = w
  BY DEF Base, TypeInv, TypeOK, LockInv, Holds
<1>2. PICK i \in DOMAIN locks : locks[i] = u
  BY <1>1 DEF HasPlace, InLine
<1>3. DOMAIN locks = 1 .. Len(locks) /\ Len(locks) \in Nat \ {0} /\ locks[1] = w
  BY <1>1
<1>4. 1 \in DOMAIN locks /\ 1 < i
  BY <1>2, <1>3
<1>5. QED BY <1>2, <1>3, <1>4 DEF Ahead

\* The slots of windows and runs are numbers.
LEMMA SlotsAreNumbers ==
  ASSUME Stage
  PROVE  /\ \A v \in Windows : win[v].pc \in Decided => win[v].occ.at \in Nat
         /\ \A r \in RunIds : runs[r] # NoRun => runs[r].occ.at \in Nat
         /\ state.lastKey # None => state.lastKey.at \in Nat
         /\ state.active # None =>
              state.active \in RunIds /\ runs[state.active] # NoRun /\ runs[state.active].occ.at \in Nat
BY BaseSays, NullsAssumption, ConstantsAssumption
DEF Stage, SlotInv, SlotsOnly, SlotOf, Slotted, ActiveIsEntered

\* A window that decides anew does so for a slot no older than any that anybody knows.
LEMMA DecidesForNewest ==
  ASSUME Stage, NEW w \in Windows, Steps(w), WillRun(w)
  PROVE  /\ win'[w].occ.at \in Nat
         /\ \A v \in Windows : win'[v].pc \in Decided => win'[v].occ.at <= win'[w].occ.at
         /\ \A r \in RunIds : runs'[r] # NoRun => runs'[r].occ.at <= win'[w].occ.at
         /\ state'.lastKey # None => state'.lastKey.at <= win'[w].occ.at
<1>1. SlotsOnly' /\ now' = now
  BY SlotsOnlyKept DEF Steps
<1>2. Newest(win'[w].occ.at)
  BY DEF WillRun
<1>3. QED BY <1>1, <1>2, ConstantsAssumption DEF SlotsOnly, SlotOf, Slotted, Newest

LEMMA WindowsInOrder ==
  ASSUME Stage, NEW w \in Windows, Steps(w), NEW v \in Windows, NEW u \in Windows,
         win'[v].pc \in Decided, win'[u].pc \in Decided, Ahead(locks', v, u)
  PROVE  win'[v].occ.at <= win'[u].occ.at
<1>0. /\ Base /\ Queues(w) /\ \A x \in Windows \ {w} : win'[x] = win[x]
      /\ u = w \/ v = w => GoesOn(w) \/ WillRun(w)
      /\ \A x, y \in Windows : win[x].pc \in Decided /\ win[y].pc \in Decided /\ Ahead(locks, x, y)
           => win[x].occ.at <= win[y].occ.at
  <2>1. win'[w].pc \in Decided => ~WillSave(w)
    BY DEF WillSave, Decided
  <2>2. QED BY <2>1 DEF Steps, Moves, Stage, SlotInv, InOrder
<1>1. CASE u = w /\ WillRun(w)
  BY <1>1, DecidesForNewest
<1>2. CASE u = w /\ GoesOn(w)
  <2>1. /\ locks' = locks /\ win[w].pc \in Decided /\ win'[w].occ = win[w].occ
        /\ win[w].occ.at \in Nat
    BY <1>2, SlotsAreNumbers DEF GoesOn
  <2>2. QED BY <1>0, <1>2, <2>1
<1>3. CASE u # w /\ v # w
  BY <1>0, <1>3, NobodyPasses
<1>4. CASE u # w /\ v = w
  <2>1. ~WillRun(w)
    BY <1>0, <1>4, JoinsLast DEF WillRun
  <2>2. GoesOn(w)
    BY <1>0, <1>4, <2>1
  <2>3. QED BY <1>0, <1>4, <2>2 DEF GoesOn
<1>5. QED BY <1>0, <1>1, <1>2, <1>3, <1>4

\* The active run is the one it was, or that of the window that claims its slot.
LEMMA ActiveAfter ==
  ASSUME Stage, NEW w \in Windows, Steps(w), state'.active # None
  PROVE  /\ state'.lastKey = state.lastKey
         /\ \/ /\ state.active # None /\ state'.active = state.active
               /\ runs'[state.active].occ = runs[state.active].occ
            \/ /\ state'.active = win[w].run /\ runs'[win[w].run].occ = win[w].occ
               /\ win[w].pc = "queued" /\ Holds(w)
               /\ win'[w].pc = "claimed" /\ win'[w].occ = win[w].occ
<1>1. CASE Activates(w)
  <2>1. runs[win[w].run].occ = win[w].occ
    BY <1>1 DEF Activates, Stage, SlotInv, Work, Inside, Decided
  <2>2. QED BY <1>1, <2>1 DEF Activates
<1>2. CASE ~Activates(w)
  <2>1. SameState /\ (Quiet \/ EntersRun(w) \/ Starts(w))
    BY <1>2 DEF Steps, Changes, Quiet, EntersRun, Starts, Settles
  <2>2. state.active # None /\ ~EntersRun(w)
    BY <2>1 DEF SameState, EntersRun
  <2>3. state.active \in RunIds /\ runs[state.active] # NoRun
    BY <2>2, SlotsAreNumbers
  <2>4. runs'[state.active].occ = runs[state.active].occ
    <3>1. CASE Quiet
      BY <2>3, <3>1 DEF Quiet, SameLedger
    <3>2. CASE Starts(w)
      BY <2>3, <3>2, BegunIs, BaseSays DEF Starts, Begun, Stage
    <3>3. QED BY <2>1, <2>2, <3>1, <3>2
  <2>5. QED BY <2>1, <2>2, <2>4 DEF SameState
<1>3. QED BY <1>1, <1>2

\* What is later than the last occurrence and the active one stays so.
LEMMA StaysLater ==
  ASSUME Stage, NEW w \in Windows, Steps(w), NEW at \in Nat,
         state.lastKey # None => state.lastKey.at <= at,
         state.active # None => runs[state.active].occ.at <= at
  PROVE  state'.lastKey # None => state'.lastKey.at <= at
BY LastKeyAfter DEF Settles

LEMMA InOrderKept ==
  ASSUME Stage, NEW w \in Windows, Steps(w)
  PROVE  InOrder'
<1>0. /\ Base /\ \A x \in Windows \ {w} : win'[x] = win[x]
      /\ \A u \in Windows : win[u].pc \in Decided =>
           /\ state.lastKey # None => state.lastKey.at <= win[u].occ.at
           /\ state.active # None => runs[state.active].occ.at <= win[u].occ.at
      /\ state.active # None /\ state.lastKey # None =>
           state.lastKey.at <= runs[state.active].occ.at
      /\ \A x, y \in Windows : win[x].pc \in Decided /\ win[y].pc \in Decided /\ Ahead(locks, x, y)
           => win[x].occ.at <= win[y].occ.at
  BY DEF Stage, SlotInv, InOrder, After, Steps, Moves
<1>1. \A u, v \in Windows : win'[v].pc \in Decided /\ win'[u].pc \in Decided /\ Ahead(locks', v, u)
        => win'[v].occ.at <= win'[u].occ.at
  BY WindowsInOrder
<1>2. ASSUME NEW u \in Windows, win'[u].pc \in Decided
      PROVE  /\ state'.lastKey # None => state'.lastKey.at <= win'[u].occ.at
             /\ state'.active # None => runs'[state'.active].occ.at <= win'[u].occ.at
  <2>1. CASE u = w /\ WillRun(w)
    <3>1. state'.active # None => state'.active \in RunIds /\ runs'[state'.active] # NoRun
      <4>1. CASE Activates(w)
        BY <4>1, BaseSays, NullsAssumption DEF Activates, Stage, Knows, Inside
      <4>2. CASE ~Activates(w) /\ state'.active # None
        <5>1. /\ state'.active = state.active /\ state.active # None
              /\ Quiet \/ Starts(w)
          BY <4>2 DEF Steps, Changes, Quiet, SameState, EntersRun, Starts, Settles
        <5>2. state.active \in RunIds /\ runs[state.active] # NoRun
          BY <5>1, SlotsAreNumbers
        <5>3. CASE Quiet
          BY <5>1, <5>2, <5>3 DEF Quiet, SameLedger
        <5>4. CASE Starts(w)
          BY <5>1, <5>2, <5>4, BegunIs, BaseSays DEF Starts, Begun, Stage
        <5>5. QED BY <5>1, <5>3, <5>4
      <4>3. QED BY <4>1, <4>2
    <3>2. QED BY <2>1, <3>1, DecidesForNewest
  <2>2. CASE ~(u = w /\ WillRun(w))
    <3>1. win[u].pc \in Decided /\ win'[u].occ = win[u].occ
      <4>1. u = w => ~WillSave(w)
        BY <1>2 DEF WillSave, Decided
      <4>2. QED BY <1>0, <1>2, <2>2, <4>1 DEF Steps, Moves, GoesOn
    <3>2. win[u].occ.at \in Nat
      BY <3>1, SlotsAreNumbers
    <3>3. state'.lastKey # None => state'.lastKey.at <= win'[u].occ.at
      BY <1>0, <3>1, <3>2, StaysLater
    <3>4. ASSUME state'.active # None PROVE runs'[state'.active].occ.at <= win'[u].occ.at
      <4>1. CASE /\ state.active # None /\ state'.active = state.active
                 /\ runs'[state.active].occ = runs[state.active].occ
        BY <1>0, <3>1, <4>1
      <4>2. CASE /\ state'.active = win[w].run /\ runs'[win[w].run].occ = win[w].occ
                 /\ win[w].pc = "queued" /\ Holds(w)
        <5>1. CASE u = w
          BY <3>1, <3>2, <4>2, <5>1
        <5>2. CASE u # w
          <6>1. win[u].pc \in Waiting \cup Inside /\ win[w].pc \in Decided
            BY <3>1, <4>2 DEF Waiting, Inside, Decided
          <6>2. Ahead(locks, w, u)
            BY <1>0, <4>2, <5>2, <6>1, HolderIsAhead
          <6>3. QED BY <1>0, <3>1, <4>2, <6>1, <6>2
        <5>3. QED BY <5>1, <5>2
      <4>3. QED BY <3>4, <4>1, <4>2, ActiveAfter
    <3>5. QED BY <3>3, <3>4
  <2>3. QED BY <2>1, <2>2
<1>3. ASSUME state'.active # None, state'.lastKey # None
      PROVE  state'.lastKey.at <= runs'[state'.active].occ.at
  <2>1. CASE /\ state.active # None /\ state'.active = state.active
             /\ runs'[state.active].occ = runs[state.active].occ
    BY <1>0, <1>3, <2>1, ActiveAfter
  <2>2. CASE /\ state'.active = win[w].run /\ runs'[win[w].run].occ = win[w].occ
             /\ win[w].pc = "queued"
    BY <1>0, <1>3, <2>2, ActiveAfter DEF Decided
  <2>3. QED BY <1>3, <2>1, <2>2, ActiveAfter
<1>4. QED BY <1>1, <1>2, <1>3 DEF InOrder, After

LEMMA SettledKept ==
  ASSUME Stage, NEW w \in Windows, Steps(w)
  PROVE  Settled'
<1> SUFFICES ASSUME NEW r \in RunIds, Unbroken(r)', r # state'.active
             PROVE  state'.lastKey # None /\ runs'[r].occ.at <= state'.lastKey.at
  BY DEF Settled
<1>0. runs'[r] # NoRun /\ runs'[r].started /\ ~runs'[r].interrupted
  BY DEF Unbroken, Ran
<1>1. CASE Starts(w) /\ r = win[w].run
  <2>1. state'.active = win[w].run
    BY <1>1 DEF Starts, SameState, Stage, SlotInv, Work
  <2>2. QED BY <1>1, <2>1
<1>2. CASE ~(Starts(w) /\ r = win[w].run)
  <2>1. Unbroken(r) /\ runs'[r].occ = runs[r].occ /\ runs[r].occ.at \in Nat
    BY <1>0, <1>2, LedgerAfter, SlotsAreNumbers DEF Unbroken, Ran
  <2>2. r = state.active \/ (state.lastKey # None /\ runs[r].occ.at <= state.lastKey.at)
    BY <2>1 DEF Stage, SlotInv, Settled
  <2>3. CASE Settles(w)
    <3>1. /\ state.active # None /\ state.lastKey # None =>
               state.lastKey.at <= runs[state.active].occ.at /\ state.lastKey.at \in Nat
          /\ state.active # None /\ runs[state.active].occ.at \in Nat
          /\ runs[state.active].occ # None
      <4>1. After(runs[state.active].occ) /\ state.active # None
        BY <2>3 DEF Settles, Stage, SlotInv, InOrder
      <4>2. runs[state.active].occ \in Occurrences
        BY <4>1, BaseSays DEF Stage, ActiveIsEntered, Runs
      <4>3. QED BY <4>1, <4>2, SlotsAreNumbers, NullsAssumption DEF After
    <3>2. ~runs[r].interrupted
      BY <2>1 DEF Unbroken
    <3>3. QED BY <2>1, <2>2, <2>3, <3>1, <3>2 DEF Settles
  <2>4. CASE ~Settles(w)
    <3>1. state'.lastKey = state.lastKey
      BY <2>4, LastKeyAfter
    <3>2. state'.active = state.active \/ (Activates(w) /\ state.active = None)
      BY <2>4 DEF Steps, Changes, Quiet, SameState, EntersRun, Activates, Starts, Stage, SlotInv, Work
    <3>3. r # None
      BY ConstantsAssumption
    <3>4. QED BY <2>1, <2>2, <3>1, <3>2, <3>3
  <2>5. QED BY <2>3, <2>4
<1>3. QED BY <1>1, <1>2

\* A run that is started has a later slot than all that stand.
LEMMA StartedIsNew ==
  ASSUME Stage, NEW w \in Windows, Starts(w), NEW q \in RunIds, q # win[w].run, Unbroken(q)
  PROVE  runs[q].occ # runs[win[w].run].occ
<1>1. /\ state.active = win[w].run /\ StrictlyAfter(win[w].occ)
      /\ runs[win[w].run].occ = win[w].occ /\ win[w].pc \in Decided
  BY DEF Starts, Stage, SlotInv, Work, Inside, Decided
<1>2. state.lastKey # None /\ runs[q].occ.at <= state.lastKey.at
  BY <1>1 DEF Stage, SlotInv, Settled
<1>3. state.lastKey.at < win[w].occ.at
  BY <1>1, <1>2 DEF StrictlyAfter
<1>4. runs[q].occ.at \in Nat /\ state.lastKey.at \in Nat /\ win[w].occ.at \in Nat
  BY <1>1, <1>2, SlotsAreNumbers DEF Unbroken, Ran
<1>5. runs[q].occ.at # win[w].occ.at
  BY <1>2, <1>3, <1>4
<1>6. QED BY <1>1, <1>5

LEMMA SlotRunsOnceKept ==
  ASSUME Stage, NEW w \in Windows, Steps(w)
  PROVE  SlotRunsOnce'
<1> SUFFICES ASSUME NEW r \in RunIds, NEW q \in RunIds, r # q, Ran(r)', Ran(q)',
                    runs'[r].occ = runs'[q].occ,
                    ~runs'[r].interrupted, ~runs'[q].interrupted
             PROVE  FALSE
  BY DEF SlotRunsOnce
<1>0. /\ runs'[r] # NoRun /\ runs'[r].started
      /\ runs'[q] # NoRun /\ runs'[q].started
  BY DEF Ran
<1>1. ASSUME NEW x \in RunIds, runs'[x] # NoRun, runs'[x].started, ~runs'[x].interrupted
      PROVE  /\ runs[x] # NoRun /\ runs'[x].occ = runs[x].occ /\ ~runs[x].interrupted
             /\ Unbroken(x) \/ (Starts(w) /\ x = win[w].run)
  BY <1>1, LedgerAfter DEF Unbroken, Ran
<1>2. CASE Unbroken(r) /\ Unbroken(q)
  <2>1. Scheduled(r)
    BY <1>2 DEF Unbroken, Ran, Scheduled, Stage, SlotInv, SlotsOnly, Slotted
  <2>2. runs[r].occ = runs[q].occ
    BY <1>0, <1>1
  <2>3. QED BY <1>2, <2>1, <2>2 DEF Unbroken, Stage, SlotInv, SlotRunsOnce
<1>3. CASE Starts(w) /\ r = win[w].run
  BY <1>0, <1>1, <1>3, StartedIsNew
<1>4. CASE Starts(w) /\ q = win[w].run
  BY <1>0, <1>1, <1>4, StartedIsNew
<1>5. QED BY <1>0, <1>1, <1>2, <1>3, <1>4

----------------------------------------------------------------------------
\* The invariant is inductive.

LEMMA InitSlots == Init => SlotInv
<1> SUFFICES ASSUME Init PROVE SlotInv
  OBVIOUS
<1>1. /\ now = 1 /\ state.nextRunAt = None /\ state.lastKey = None /\ state.active = None
      /\ \A r \in RunIds : runs[r] = NoRun
      /\ \A w \in Windows : win[w].pc = "idle"
  BY RestTyped DEF Init, NoState
<1>2. ClockIsOdd
  BY <1>1 DEF ClockIsOdd
<1>3. SlotsOnly
  BY <1>1 DEF SlotsOnly, SlotOf, Decided
<1>4. \A w \in Windows : Work(w)
  BY <1>1 DEF Work, Inside
<1>5. InOrder /\ Settled /\ SlotRunsOnce
  BY <1>1 DEF InOrder, Decided, Settled, Unbroken, SlotRunsOnce, Ran
<1>6. QED BY <1>2, <1>3, <1>4, <1>5 DEF SlotInv

\* Time goes by, and the user switches the job.
LEMMA WorldKeeps ==
  ASSUME Stage, \/ World
                \/ UNCHANGED vars
  PROVE  SlotInv'
<1>1. /\ UNCHANGED <<runs, locks, win>> /\ state' = state /\ now' \in {now, now + 2}
      /\ now \in Nat
  <2>1. CASE World
    <3>1. state' = state \/ state'.manual \in Nat
      BY <2>1, WorldDoes, BaseSays DEF Stage
    <3>2. state' = state
      BY <3>1, ConstantsAssumption DEF Stage, NoRequest
    <3>3. QED BY <2>1, <3>2, WorldDoes, BaseSays DEF Stage
  <2>2. CASE UNCHANGED vars
    BY <2>2, BaseSays DEF vars, disk, Stage
  <2>3. QED BY <2>1, <2>2
<1>2. ClockIsOdd'
  <2>1. now % 2 = 1
    BY DEF ClockIsOdd, Stage, SlotInv
  <2>2. ASSUME NEW n \in Nat, n % 2 = 1 PROVE (n + 2) % 2 = 1
    BY <2>2
  <2>3. (now + 2) % 2 = 1
    BY <1>1, <2>1, <2>2
  <2>4. QED BY <1>1, <2>1, <2>3 DEF ClockIsOdd
<1>3. ASSUME NEW occ, Slotted(occ) PROVE occ.at \in Slots /\ occ.at <= now'
  <2>1. occ.at \in Slots /\ occ.at \in Nat /\ occ.at <= now
    BY <1>3, ConstantsAssumption DEF Slotted
  <2>2. QED BY <1>1, <2>1
<1>4. SlotsOnly'
  BY <1>1, <1>3 DEF SlotsOnly, SlotOf, Slotted, Stage, SlotInv
<1>5. \A w \in Windows : Work(w)'
  BY <1>1 DEF Work, StrictlyAfter, Stage, SlotInv
<1>6. InOrder'
  BY <1>1 DEF InOrder, After, Stage, SlotInv
<1>7. Settled' /\ SlotRunsOnce'
  BY <1>1 DEF Settled, Unbroken, Ran, Scheduled, SlotRunsOnce, Stage, SlotInv
<1>8. QED BY <1>2, <1>4, <1>5, <1>6, <1>7 DEF SlotInv

LEMMA NextSlots ==
  ASSUME Stage, [Next]_vars
  PROVE  SlotInv'
<1>1. ASSUME NEW w \in Windows, Steps(w) PROVE SlotInv'
  <2>1. ClockIsOdd' /\ \A v \in Windows : Work(v)'
    BY <1>1 DEF Steps, ClockIsOdd, Stage, SlotInv
  <2>2. QED
    BY <1>1, <2>1, SlotsOnlyKept, InOrderKept, SettledKept, SlotRunsOnceKept DEF SlotInv
<1>2. (\E w \in Windows : Steps(w)) \/ World \/ UNCHANGED vars
  BY StepsAre, ScanSteps, SaveNextSteps, CrashSteps, RecoverSteps, RecoverDeliverySteps,
     SaveRecoverySteps, TurnBackSteps, EnqueueSteps, ActivateSteps, StartSteps, AgentSteps,
     CloseSteps, FinishSteps
<1>3. QED BY <1>1, <1>2, WorldKeeps

\* However many windows scan a job with stale copies of its state, and whichever of
\* them are killed, a slot that was run is run again only when the earlier run was
\* taken for interrupted: as long as nobody asks for manual runs, and unless the job
\* catches up on a single missed slot ("run-once").
THEOREM SlotsRunOnce ==
  ASSUME CatchUp # "run-once"
  PROVE  Spec /\ []NoRequest => []SlotRunsOnce
<1>1. Init => SlotInv
  BY InitSlots
<1>2. Base /\ RunInv /\ SlotInv /\ NoRequest /\ NoRequest' /\ [Next]_vars => SlotInv'
  BY NextSlots DEF Stage
<1>3. Init => RunInv
  BY InitRun
<1>4. Base /\ RunInv /\ [Next]_vars => RunInv'
  BY NextRun
<1>5. SlotInv => SlotRunsOnce
  BY DEF SlotInv
<1>6. QED BY <1>1, <1>2, <1>3, <1>4, <1>5, AlwaysBase, PTL DEF Spec

----------------------------------------------------------------------------
\* With a single window, and nobody asking for manual runs, the answer for an
\* occurrence goes out once, wherever the window is killed.

SingleWindow == \A v, w \in Windows : v = w

\* What is delivered for good stays so: the run lies behind the last occurrence, or is
\* the active one and cannot be put back without its answer being written off, or the
\* job is blocked.
Past(r) == state.lastKey # None /\ runs[r].occ.at <= state.lastKey.at
CannotBeReplayed(r) ==
  \/ runs[r].status \in Terminal
  \/ runs[r].status = "running" /\ (saved[r] = "final" \/ r \in soft)
Answered(r) ==
  /\ runs[r] # NoRun
  /\ Past(r) \/ (state.active = r /\ CannotBeReplayed(r)) \/ state.status = "blocked"

\* A run that may still execute has not been delivered, one that is about to be
\* delivered has its final checkpoint on disk or was stopped after a tool, and one that
\* is put back was not delivered for good.
Carries(w) ==
  /\ win[w].pc \in {"queued", "claimed", "executing"} => win[w].run \notin sent
  /\ win[w].pc \in {"executing", "delivering", "closing"} => runs[win[w].run].status = "running"
  /\ win[w].pc = "delivering" /\ win[w].outcome = "succeeded" =>
       saved[win[w].run] = "final" \/ win[w].run \in soft
  /\ win[w].pc = "recovering" =>
       win[w].outcome = "over" /\ runs[win[w].run].status \in Terminal
  /\ win[w].pc = "recovered" /\ win[w].outcome = "replay" => win[w].run \notin Standing
  /\ state.status = "blocked" => win[w].pc \in {"off", "idle"}
BlockedIsOver == state.status = "blocked" => state.active = None
ActiveIsLater == state.active # None => StrictlyAfter(runs[state.active].occ)

AnswerInv ==
  /\ \A r \in sent : runs[r] # NoRun
  /\ \A r \in Standing : Answered(r)
  /\ \A w \in Windows : Carries(w)
  /\ BlockedIsOver /\ ActiveIsLater /\ AnswerOnce

Act == Stage /\ AnswerInv /\ SingleWindow

LEMMA SaveKeepsStatus ==
  ASSUME NEW w, NEW new \in States, Save(w, new)
  PROVE  state'.status = new.status
BY DEF Save, States

\* Steps that neither deliver nor settle anything.
LEMMA Undisturbed ==
  ASSUME Act, NEW w \in Windows, Carries(w)',
         sent' = sent, soft \subseteq soft',
         \A r \in RunIds : runs[r] # NoRun =>
           /\ runs'[r] # NoRun /\ runs'[r].occ = runs[r].occ
           /\ runs[r].interrupted => runs'[r].interrupted,
         \A r \in Standing : CannotBeReplayed(r) => CannotBeReplayed(r)',
         state'.active = state.active, state'.lastKey = state.lastKey,
         state'.status = "blocked" <=> state.status = "blocked"
  PROVE  AnswerInv'
<1>0. /\ sent \subseteq RunIds /\ \A r \in sent : runs[r] # NoRun
      /\ state.active # None => state.active \in RunIds /\ runs[state.active] # NoRun
  BY BaseSays, NullsAssumption DEF Act, Stage, ActiveIsEntered, AnswerInv
<1>1. \A r \in sent' : runs'[r] # NoRun
  BY <1>0
<1>2. Standing' \subseteq Standing
  BY <1>0 DEF Standing
<1>3. Standing \subseteq RunIds /\ \A r \in Standing : Answered(r) /\ runs'[r].occ = runs[r].occ
  BY <1>0 DEF Act, AnswerInv, Standing
<1>4. \A r \in Standing' : Answered(r)'
  BY <1>0, <1>1, <1>2, <1>3 DEF Answered, Past
<1>5. \A v \in Windows : Carries(v)'
  BY DEF Act, SingleWindow
<1>6. BlockedIsOver' /\ ActiveIsLater'
  BY <1>0 DEF Act, AnswerInv, BlockedIsOver, ActiveIsLater, StrictlyAfter
<1>7. AnswerOnce'
  BY <1>2, <1>3 DEF Act, AnswerInv, AnswerOnce
<1>8. QED BY <1>1, <1>4, <1>5, <1>6, <1>7 DEF AnswerInv

\* Where a decision leaves the window; on a blocked job, at rest.
LEMMA DecisionRests ==
  ASSUME Base, NEW w \in Windows, NEW j \in Jobs, NEW s \in States, NEW q \in Seq(Windows),
         Decide(w, j, s, q)
  PROVE  /\ win'[w].pc \in {"idle", "saving", "lockRun"}
         /\ s.status = "blocked" => win'[w].pc = "idle"
<1>1. win'[w].pc \in {"idle", "saving", "lockRun"}
  BY DecideTyped DEF Base
<1>2. ASSUME s.status = "blocked" PROVE win'[w].pc = "idle"
  <2>1. Becomes(w, Rest)
    BY <1>2 DEF Decide, Becomes
  <2>2. QED BY <2>1, BaseSays, RestTyped, OthersStay
<1>3. QED BY <1>1, <1>2

LEMMA ScanAnswers ==
  ASSUME Act, NEW w \in Windows, Scan(w)
  PROVE  AnswerInv'
<1>1. /\ Base /\ UNCHANGED <<state, runs, saved, sent, soft>> /\ win[w].pc = "idle"
  BY DEF Act, Stage, Scan, disk
<1>2. CASE state.active # None
  <2>1. Becomes(w, Recovering(job))
    BY <1>2 DEF Scan, Becomes, Recovering
  <2>2. win'[w].pc = "lockRecover"
    BY <1>1, <2>1, BaseSays, RecoveringTyped, OthersStay
  <2>3. Carries(w)'
    BY <1>1, <1>2, <2>2 DEF Carries, Act, AnswerInv, BlockedIsOver
  <2>4. QED BY <1>1, <2>3, Undisturbed DEF CannotBeReplayed
<1>3. CASE state.active = None
  <2>1. Decide(w, job, state, locks)
    BY <1>3 DEF Scan
  <2>2. /\ win'[w].pc \in {"idle", "saving", "lockRun"}
        /\ state.status = "blocked" => win'[w].pc = "idle"
    BY <1>1, <2>1, BaseSays, DecisionRests
  <2>3. Carries(w)'
    BY <1>1, <2>2 DEF Carries
  <2>4. QED BY <1>1, <2>3, Undisturbed DEF CannotBeReplayed
<1>4. QED BY <1>2, <1>3

LEMMA SaveNextAnswers ==
  ASSUME Act, NEW w \in Windows, SaveNext(w)
  PROVE  AnswerInv'
<1>1. /\ Base /\ win[w].pc = "saving" /\ win'[w].pc = "idle" /\ UNCHANGED <<runs, saved, sent, soft>>
      /\ state'.active = state.active /\ state'.lastKey = state.lastKey
  BY SaveNextDoes DEF Act, Stage
<1>2. state.status # "blocked"
  BY <1>1 DEF Act, AnswerInv, Carries
<1>3. state'.status # "blocked"
  <2>1. CASE CanSave(w)
    <3> DEFINE new == [state EXCEPT !.status = "idle", !.nextRunAt = win[w].next]
    <3>1. new \in States /\ new.status = "idle"
      BY <1>1, BaseSays DEF States, Scans
    <3>2. Save(w, new)
      BY <2>1 DEF SaveNext
    <3> HIDE DEF new
    <3>3. QED BY <3>1, <3>2, SaveKeepsStatus
  <2>2. CASE ~CanSave(w)
    BY <1>2, <2>2 DEF SaveNext
  <2>3. QED BY <2>1, <2>2
<1>4. Carries(w)'
  BY <1>1, <1>3 DEF Carries
<1>5. QED BY <1>1, <1>2, <1>3, <1>4, Undisturbed DEF CannotBeReplayed

LEMMA CrashAnswers ==
  ASSUME Act, NEW w \in Windows, Crash(w) \/ Restart(w)
  PROVE  AnswerInv'
<1>1. UNCHANGED <<state, runs, saved, sent, soft>> /\ win'[w].pc \in {"off", "idle"}
  BY CrashDoes, RestartDoes DEF Act, Stage, disk
<1>2. Carries(w)'
  BY <1>1 DEF Carries
<1>3. QED BY <1>1, <1>2, Undisturbed DEF CannotBeReplayed

\* A run that is put back was not delivered for good: its checkpoint would be the final
\* one, unless it was stopped after a tool.
LEMMA ReplayIsUnsent ==
  ASSUME Act, state.active # None, Active.status = "queued" \/ Resumable(state.active),
         Active.status \notin Terminal
  PROVE  state.active \in Standing => state.active \in soft
<1> SUFFICES ASSUME state.active \in Standing, state.active \notin soft PROVE FALSE
  OBVIOUS
<1>1. Answered(state.active) /\ StrictlyAfter(Active.occ) /\ state.status # "blocked"
  BY DEF Act, AnswerInv, ActiveIsLater, BlockedIsOver, Active
<1>2. ~CannotBeReplayed(state.active)
  BY DEF CannotBeReplayed, Resumable, Active
<1>3. Past(state.active)
  BY <1>1, <1>2 DEF Answered
<1>4. Active.occ.at \in Nat /\ state.lastKey.at \in Nat
  <2>1. state.active \in RunIds /\ runs[state.active] # NoRun
    BY BaseSays, NullsAssumption DEF Act, Stage, ActiveIsEntered
  <2>2. QED BY <1>3, <2>1, SlotsAreNumbers DEF Past, Active, Act
<1>5. QED BY <1>1, <1>3, <1>4 DEF Past, StrictlyAfter, Active

LEMMA RecoverAnswers ==
  ASSUME Act, NEW w \in Windows, Recover(w)
  PROVE  AnswerInv'
<1>0. Base
  BY DEF Act, Stage
<1>1. CASE state.active = None \/ ~Overdue
  <2>1. /\ Holds(w) /\ Decide(w, win[w].job, state, Tail(locks))
        /\ UNCHANGED <<state, runs, saved, sent, soft>>
    BY <1>1 DEF Recover
  <2>2. Tail(locks) \in Seq(Windows)
    BY <1>0, <2>1, BaseSays DEF Holds
  <2>3. /\ win'[w].pc \in {"idle", "saving", "lockRun"}
        /\ state.status = "blocked" => win'[w].pc = "idle"
    BY <1>0, <2>1, <2>2, BaseSays, DecisionRests
  <2>4. Carries(w)'
    BY <2>1, <2>3 DEF Carries
  <2>5. QED BY <2>1, <2>4, Undisturbed DEF CannotBeReplayed
<1>2. CASE ~(state.active = None \/ ~Overdue)
  <2> DEFINE r == state.active
             over == Active.status \in Terminal
             replay == Active.status = "queued" \/ Resumable(r)
             pc == IF over THEN "recovering" ELSE "recovered"
             outcome == IF over THEN "over" ELSE IF replay THEN "replay" ELSE "block"
  <2>1. /\ win'[w].pc = pc /\ win'[w].run = r /\ win'[w].outcome = outcome
    <3>1. win' = [win EXCEPT ![w] = [win[w] EXCEPT !.pc = pc, !.run = r, !.outcome = outcome]]
      BY <1>0, <1>2, BaseSays DEF Recover, Scans
    <3> HIDE DEF pc, outcome, r
    <3>2. QED BY <1>0, <3>1, BaseSays DEF Scans
  <2>2. /\ runs' = IF over THEN runs ELSE [runs EXCEPT ![r] = Interrupted(r)]
        /\ saved' = IF over THEN saved ELSE [saved EXCEPT ![r] = "none"]
        /\ UNCHANGED <<state, sent, soft>>
    BY <1>0, <1>2, BaseSays DEF Recover, Interrupted
  <2>3. r # None /\ r \in RunIds /\ runs[r] \in Runs /\ runs[r] # NoRun
    BY <1>0, <1>2, BaseSays, NullsAssumption DEF ActiveIsEntered
  <2>4. /\ Interrupted(r) # NoRun /\ Interrupted(r).occ = runs[r].occ
        /\ Interrupted(r).status \in Terminal /\ Interrupted(r).interrupted
    <3>1. Interrupted(r) \in Runs
      BY <1>0, <2>3, BaseSays DEF Interrupted, Runs, Terminal, Times
    <3>2. QED BY <2>3, <3>1, NullsAssumption DEF Interrupted, Runs, Terminal
  <2>5. \A q \in RunIds : runs[q] # NoRun =>
          /\ runs'[q] # NoRun /\ runs'[q].occ = runs[q].occ
          /\ runs[q].interrupted => runs'[q].interrupted
    BY <1>0, <2>2, <2>3, <2>4, BaseSays
  <2>6. \A q \in Standing : CannotBeReplayed(q) => CannotBeReplayed(q)'
    <3>1. ~over => runs'[r].status \in Terminal
      BY <1>0, <2>2, <2>3, <2>4, BaseSays
    <3>2. \A q \in Standing \ {r} : runs'[q] = runs[q] /\ saved'[q] = saved[q]
      BY <1>0, <2>2, <2>3, BaseSays DEF Standing
    <3>3. over => runs' = runs /\ saved' = saved
      BY <2>2
    <3> HIDE DEF over, r
    <3>4. QED BY <2>2, <3>1, <3>2, <3>3 DEF CannotBeReplayed
  <2>7. outcome = "replay" => r \notin Standing'
    <3>1. SUFFICES ASSUME outcome = "replay" PROVE runs'[r].interrupted /\ (r \in sent => r \in soft)
      BY <2>2 DEF Standing
    <3>2. runs'[r].interrupted
      BY <1>0, <2>2, <2>3, <2>4, <3>1, BaseSays
    <3>3. r \in Standing => r \in soft
      BY <2>3, <3>1, ReplayIsUnsent
    <3>4. QED BY <3>2, <3>3 DEF Standing
  <2>8. Carries(w)'
    <3>1. state.status # "blocked"
      BY <2>3 DEF Act, AnswerInv, BlockedIsOver
    <3>2. over => runs' = runs /\ runs[r].status \in Terminal
      BY <2>2 DEF Active
    <3>3. (pc = "recovering" <=> over) /\ (over => outcome = "over")
      OBVIOUS
    <3>4. pc \in {"recovering", "recovered"}
      OBVIOUS
    <3> HIDE DEF pc, over, outcome, r
    <3>5. QED BY <2>1, <2>2, <2>7, <3>1, <3>2, <3>3, <3>4 DEF Carries
  <2>9. QED BY <2>2, <2>5, <2>6, <2>8, Undisturbed
<1>3. QED BY <1>1, <1>2

\* The active run lies behind none that was delivered.
LEMMA ActiveIsNew ==
  ASSUME Act, state.active # None, NEW q \in Standing, q # state.active
  PROVE  runs[q].occ # runs[state.active].occ /\ Past(q)
<1>1. Answered(q) /\ StrictlyAfter(runs[state.active].occ) /\ state.status # "blocked"
  BY DEF Act, AnswerInv, ActiveIsLater, BlockedIsOver
<1>2. Past(q) /\ runs[q] # NoRun
  BY <1>1 DEF Answered
<1>3. /\ q \in RunIds /\ state.active \in RunIds /\ runs[state.active] # NoRun
  BY BaseSays, NullsAssumption DEF Act, Stage, ActiveIsEntered, Standing
<1>4. runs[q].occ.at \in Nat /\ runs[state.active].occ.at \in Nat /\ state.lastKey.at \in Nat
  BY <1>2, <1>3, SlotsAreNumbers DEF Past, Act
<1>5. runs[q].occ.at < runs[state.active].occ.at
  BY <1>1, <1>2, <1>4 DEF Past, StrictlyAfter
<1>6. runs[q].occ.at # runs[state.active].occ.at
  BY <1>4, <1>5
<1>7. QED BY <1>2, <1>6

\* Steps that deliver the active run, or settle it.
LEMMA ActiveDelivered ==
  ASSUME Act, NEW w \in Windows, Carries(w)', state.active # None, state' = state,
         sent' \in {sent, sent \cup {state.active}}, soft \ {state.active} \subseteq soft',
         runs'[state.active] # NoRun, runs'[state.active].occ = runs[state.active].occ,
         \A q \in RunIds \ {state.active} : runs'[q] = runs[q],
         CannotBeReplayed(state.active)',
         \A q \in Standing : CannotBeReplayed(q) => CannotBeReplayed(q)'
  PROVE  AnswerInv'
<1>1. /\ \A q \in sent : q \in RunIds /\ runs[q] # NoRun
      /\ state.active \in RunIds /\ runs[state.active] # NoRun
  BY BaseSays, NullsAssumption DEF Act, Stage, ActiveIsEntered, AnswerInv
<1>2. \A q \in sent' : runs'[q] # NoRun
  BY <1>1
<1>3. \A q \in Standing' : q = state.active \/ q \in Standing
  BY <1>1 DEF Standing
<1>4. \A q \in Standing' : runs'[q].occ = runs[q].occ
  BY <1>1, <1>3 DEF Standing
<1>5. \A q \in Standing' : Answered(q)'
  <2>1. ASSUME NEW q \in Standing', q # state.active PROVE Answered(q)'
    <3>1. q \in Standing /\ Past(q) /\ runs'[q] = runs[q]
      BY <1>1, <1>3, <2>1, ActiveIsNew DEF Standing
    <3>2. q \in sent
      BY <3>1 DEF Standing
    <3>3. QED BY <1>1, <3>1, <3>2 DEF Answered, Past
  <2>2. Answered(state.active)'
    BY DEF Answered
  <2>3. QED BY <2>1, <2>2
<1>6. \A v \in Windows : Carries(v)'
  BY DEF Act, SingleWindow
<1>7. BlockedIsOver' /\ ActiveIsLater'
  BY DEF Act, AnswerInv, BlockedIsOver, ActiveIsLater, StrictlyAfter
<1>8. AnswerOnce'
  BY <1>3, <1>4, ActiveIsNew DEF Act, AnswerInv, AnswerOnce
<1>9. QED BY <1>2, <1>5, <1>6, <1>7, <1>8 DEF AnswerInv

\* Steps after which no run is active: the last one counts, or the job is blocked, or
\* what is put back was not delivered for good.
LEMMA SettledAnswers ==
  ASSUME Act, NEW w \in Windows, UNCHANGED <<runs, saved, sent, soft>>,
         state.active # None, state'.active = None,
         win'[w].pc \in {"idle", "saving", "lockRun"},
         state'.status = "blocked" => win'[w].pc = "idle",
         \/ state'.lastKey = runs[state.active].occ
         \/ state'.lastKey = state.lastKey
            /\ (state'.status = "blocked" \/ state.active \notin Standing)
  PROVE  AnswerInv'
<1>1. ASSUME NEW q \in Standing PROVE Answered(q)'
  <2>0. /\ q \in RunIds /\ runs[q] # NoRun /\ state.active \in RunIds
        /\ runs[state.active] # NoRun /\ runs[state.active].occ # None
    BY BaseSays, NullsAssumption
    DEF Act, Stage, ActiveIsEntered, AnswerInv, Answered, Runs, Standing
  <2>1. CASE state'.lastKey = runs[state.active].occ
    <3>1. CASE q = state.active
      <4>1. runs[q].occ.at \in Nat
        BY <2>0, SlotsAreNumbers DEF Act
      <4>2. QED BY <2>0, <2>1, <3>1, <4>1 DEF Answered, Past
    <3>2. CASE q # state.active
      <4>1. Past(q) /\ StrictlyAfter(runs[state.active].occ)
        BY <3>2, ActiveIsNew DEF Act, AnswerInv, ActiveIsLater
      <4>2. /\ runs[q].occ.at \in Nat /\ runs[state.active].occ.at \in Nat
            /\ state.lastKey.at \in Nat
        BY <2>0, <4>1, SlotsAreNumbers DEF Past, Act
      <4>3. runs[q].occ.at <= runs[state.active].occ.at
        BY <4>1, <4>2 DEF Past, StrictlyAfter
      <4>4. QED BY <2>0, <2>1, <4>3 DEF Answered, Past
    <3>3. QED BY <3>1, <3>2
  <2>2. CASE state'.lastKey = state.lastKey /\ state'.status = "blocked"
    BY <2>0, <2>2 DEF Answered
  <2>3. CASE state'.lastKey = state.lastKey /\ state.active \notin Standing
    <3>1. Past(q)
      BY <2>3, ActiveIsNew
    <3>2. QED BY <2>0, <2>3, <3>1 DEF Answered, Past
  <2>4. QED BY <2>1, <2>2, <2>3
<1>2. \A v \in Windows : Carries(v)'
  <2>1. Carries(w)'
    BY DEF Carries
  <2>2. QED BY <2>1 DEF Act, SingleWindow
<1>3. Standing' = Standing
  BY DEF Standing
<1>4. BlockedIsOver' /\ ActiveIsLater' /\ AnswerOnce' /\ \A q \in sent' : runs'[q] # NoRun
  BY <1>3 DEF Act, AnswerInv, BlockedIsOver, ActiveIsLater, AnswerOnce
<1>5. QED BY <1>1, <1>2, <1>3, <1>4 DEF AnswerInv

LEMMA RecoverDeliveryAnswers ==
  ASSUME Act, NEW w \in Windows, RecoverDelivery(w)
  PROVE  AnswerInv'
<1> DEFINE r == win[w].run
<1>1. /\ Base /\ win[w].pc = "recovering" /\ runs' = runs /\ state' = state /\ soft' = soft
      /\ win'[w].pc = "recovered" /\ win'[w].run = r /\ win'[w].outcome = win[w].outcome
      /\ saved' = [saved EXCEPT ![r] = "none"] /\ r \in RunIds
      /\ sent' \in {sent, sent \cup {r}}
  BY RecoverDeliveryIsUnder, BaseSays DEF Act, Stage, RecoverDelivery, Knows, Inside
<1>2. state.active = r /\ runs[r].status \in Terminal /\ r # None
  BY <1>1, ConstantsAssumption DEF Act, Stage, SlotInv, Work, AnswerInv, Carries
<1>3. state.status # "blocked"
  BY <1>2 DEF Act, AnswerInv, BlockedIsOver
<1>4. Carries(w)'
  BY <1>1, <1>3 DEF Carries, Act, AnswerInv
<1>5. \A q \in RunIds : CannotBeReplayed(q) => CannotBeReplayed(q)'
  BY <1>1, <1>2, BaseSays DEF CannotBeReplayed
<1>6. CannotBeReplayed(r)'
  BY <1>1, <1>2 DEF CannotBeReplayed
<1>7. Standing \subseteq RunIds /\ runs[r] # NoRun
  BY <1>1, <1>2, BaseSays, NullsAssumption DEF Standing, ActiveIsEntered
<1>8. QED BY <1>1, <1>2, <1>4, <1>5, <1>6, <1>7, ActiveDelivered

LEMMA SaveRecoveryAnswers ==
  ASSUME Act, NEW w \in Windows, SaveRecovery(w)
  PROVE  AnswerInv'
<1> DEFINE r == win[w].run
<1>1. /\ Base /\ win[w].pc = "recovered" /\ Holds(w) /\ r \in RunIds /\ runs[r] \in Runs
      /\ UNCHANGED <<now, job, runs, saved, sent, soft, bounds>>
  BY BaseSays DEF Act, Stage, SaveRecovery, HasPlace, Knows, Inside, Holds
<1>2. state.active = r /\ r # None
  BY <1>1, ConstantsAssumption DEF Act, Stage, SlotInv, Work
<1>3. CASE ~CanSave(w)
  <2>1. UNCHANGED state /\ win'[w].pc = "idle"
    BY <1>1, <1>3, BaseSays, RestTyped DEF SaveRecovery
  <2>2. Carries(w)'
    BY <2>1 DEF Carries
  <2>3. QED BY <1>1, <2>1, <2>2, Undisturbed DEF CannotBeReplayed
<1>4. CASE CanSave(w)
  <2>1. Save(w, Recovered(w)) /\ Decide(w, win[w].job, state', Tail(locks))
    BY <1>4 DEF SaveRecovery
  <2>2. /\ Recovered(w) \in States /\ Recovered(w).active = None
        /\ win[w].outcome = "over" => Recovered(w).lastKey = runs[r].occ
        /\ win[w].outcome # "over" => Recovered(w).lastKey = state.lastKey
    BY <1>1, BaseSays, RecoveredTyped
  <2>3. win[w].outcome \notin {"over", "replay"} => Recovered(w).status = "blocked"
    BY <1>1, BaseSays DEF Recovered, States
  <2>4. /\ state' \in States /\ state'.active = None /\ state'.lastKey = Recovered(w).lastKey
        /\ state'.status = Recovered(w).status
    BY <1>1, <2>1, <2>2, SaveTyped, SaveKeepsStatus DEF Base
  <2>5. Tail(locks) \in Seq(Windows)
    BY <1>1, BaseSays DEF Holds
  <2>6. /\ win'[w].pc \in {"idle", "saving", "lockRun"}
        /\ state'.status = "blocked" => win'[w].pc = "idle"
    BY <1>1, <2>1, <2>4, <2>5, BaseSays, DecisionRests
  <2>7. win[w].outcome = "replay" => r \notin Standing
    BY <1>1 DEF Act, AnswerInv, Carries
  <2>8. QED BY <1>1, <1>2, <2>2, <2>3, <2>4, <2>6, <2>7, SettledAnswers
<1>5. QED BY <1>3, <1>4

LEMMA TurnBackAnswers ==
  ASSUME Act, NEW w \in Windows, TurnBack(w)
  PROVE  AnswerInv'
<1>1. /\ Base /\ win[w].pc = "lockRun" /\ win'[w].pc = "idle" /\ UNCHANGED <<runs, saved, sent, soft>>
  BY TurnBackIsUnder DEF Act, Stage, TurnBack
<1>2. /\ state'.active = state.active /\ state'.lastKey = state.lastKey
      /\ state'.status = state.status
  <2>1. CASE UNCHANGED <<state, fresh>>
    BY <2>1
  <2>2. CASE Save(w, [state EXCEPT !.pending = win[w].occ.at])
    <3> DEFINE new == [state EXCEPT !.pending = win[w].occ.at]
    <3>1. win[w].occ \in Occurrences
      BY <1>1, BaseSays DEF Knows, Decided
    <3>2. /\ new \in States /\ new.active = state.active /\ new.lastKey = state.lastKey
          /\ new.status = state.status
      BY <1>1, <3>1, BaseSays DEF States, Occurrences, Times
    <3>3. Save(w, new)
      BY <2>2
    <3> HIDE DEF new
    <3>4. QED BY <1>1, <3>2, <3>3, SaveTyped, SaveKeepsStatus DEF Base
  <2>3. QED BY <2>1, <2>2 DEF TurnBack
<1>3. Carries(w)'
  BY <1>1 DEF Carries
<1>4. QED BY <1>1, <1>2, <1>3, Undisturbed DEF CannotBeReplayed

LEMMA EnqueueAnswers ==
  ASSUME Act, NEW w \in Windows, Enqueue(w)
  PROVE  AnswerInv'
<1>1. /\ Base /\ win[w].pc = "lockRun" /\ UNCHANGED <<state, saved, sent, soft>>
      /\ NewRun \in RunIds /\ runs[NewRun] = NoRun
      /\ runs' = [runs EXCEPT ![NewRun] = Entry(win[w].occ)]
  BY EnqueueDoes DEF Act, Stage
<1>2. win'[w].pc = "queued" /\ win'[w].run = NewRun
  BY <1>1, EnqueueDoes, BaseSays DEF Scans
<1>3. NewRun \notin sent
  BY <1>1 DEF Act, AnswerInv, Answered
<1>4. \A q \in RunIds : q # NewRun => runs'[q] = runs[q]
  BY <1>1, BaseSays
<1>5. Carries(w)'
  BY <1>1, <1>2, <1>3 DEF Carries, Act, AnswerInv
<1>6. Standing \subseteq RunIds /\ NewRun \notin Standing
  BY <1>1, <1>3, BaseSays DEF Standing
<1>7. QED BY <1>1, <1>3, <1>4, <1>5, <1>6, Undisturbed DEF CannotBeReplayed

LEMMA ActivateAnswers ==
  ASSUME Act, NEW w \in Windows, Activate(w)
  PROVE  AnswerInv'
<1> DEFINE r == win[w].run
<1>1. /\ Base /\ win[w].pc = "queued" /\ r \in RunIds /\ runs[r] \in Runs
      /\ UNCHANGED <<runs, saved, sent, soft>>
      /\ \/ /\ Save(w, Activated(w)) /\ Activated(w) \in States
            /\ win'[w] = [win[w] EXCEPT !.pc = "claimed"]
         \/ win'[w] = Rest /\ UNCHANGED <<state, fresh>>
  BY ActivateDoes DEF Act, Stage
<1>2. CASE win'[w] = Rest /\ UNCHANGED <<state, fresh>>
  <2>1. Carries(w)'
    BY <1>2, RestTyped DEF Carries
  <2>2. QED BY <1>1, <1>2, <2>1, Undisturbed DEF CannotBeReplayed
<1>3. CASE /\ Save(w, Activated(w)) /\ Activated(w) \in States
           /\ win'[w] = [win[w] EXCEPT !.pc = "claimed"]
  <2>1. win'[w].pc = "claimed" /\ win'[w].run = r
    BY <1>1, <1>3, BaseSays DEF Scans
  <2>2. /\ Activated(w).active = r /\ Activated(w).lastKey = state.lastKey
        /\ Activated(w).status = "running"
    BY <1>1, BaseSays DEF Activated, States
  <2>3. state'.active = r /\ state'.lastKey = state.lastKey /\ state'.status = "running"
    BY <1>1, <1>3, <2>2, SaveTyped, SaveKeepsStatus DEF Base
  <2>4. /\ state.active = None /\ state.status # "blocked" /\ r \notin sent
        /\ StrictlyAfter(runs[r].occ)
    BY <1>1 DEF Act, Stage, SlotInv, Work, AnswerInv, Carries, Inside, Decided
  <2>5. r # None
    BY <1>1, ConstantsAssumption
  <2>6. \A q \in Standing : Answered(q)'
    <3>1. None \notin Standing
      BY <1>1, BaseSays, ConstantsAssumption DEF Standing
    <3>2. \A q \in Standing : runs[q] # NoRun /\ Past(q)
      BY <2>4, <3>1 DEF Act, AnswerInv, Answered
    <3>3. QED BY <1>1, <2>3, <3>2 DEF Answered, Past
  <2>7. Carries(w)'
    BY <1>1, <2>1, <2>3, <2>4 DEF Carries
  <2>8. \A v \in Windows : Carries(v)'
    BY <2>7 DEF Act, SingleWindow
  <2>9. Standing' = Standing /\ \A q \in sent' : runs'[q] # NoRun
    BY <1>1 DEF Standing, Act, AnswerInv
  <2>10. BlockedIsOver' /\ ActiveIsLater' /\ AnswerOnce'
    BY <1>1, <2>3, <2>4, <2>9
    DEF Act, AnswerInv, BlockedIsOver, ActiveIsLater, AnswerOnce, StrictlyAfter
  <2>11. QED BY <1>1, <2>6, <2>8, <2>9, <2>10 DEF AnswerInv
<1>4. QED BY <1>1, <1>2, <1>3

LEMMA StartAnswers ==
  ASSUME Act, NEW w \in Windows, Start(w)
  PROVE  AnswerInv'
<1> DEFINE r == win[w].run
<1>1. /\ Base /\ win[w].pc = "claimed" /\ r \in RunIds /\ runs[r] \in Runs
      /\ UNCHANGED <<state, saved, sent, soft>>
      /\ runs' = [runs EXCEPT ![r] = Begun(r)]
  BY StartDoes DEF Act, Stage, Begun
<1>2. win'[w].pc = "executing" /\ win'[w].run = r
  BY <1>1, StartDoes, BaseSays DEF Scans
<1>3. Begun(r) # NoRun /\ Begun(r).occ = runs[r].occ /\ Begun(r).status = "running"
  <2>1. Begun(r).status = "running"
    BY <1>1 DEF Begun, Runs
  <2>2. QED BY <1>1, <2>1, BegunIs
<1>4. /\ runs'[r] = Begun(r) /\ \A q \in RunIds : q # r => runs'[q] = runs[q]
      /\ Standing \subseteq RunIds /\ Standing \subseteq sent
  BY <1>1, BaseSays DEF Standing
<1>5. r \notin sent /\ state.status # "blocked"
  BY <1>1 DEF Act, AnswerInv, Carries
<1>6. Carries(w)'
  BY <1>1, <1>2, <1>3, <1>4, <1>5 DEF Carries
<1>7. \A q \in RunIds : runs[q] # NoRun =>
        /\ runs'[q] # NoRun /\ runs'[q].occ = runs[q].occ
        /\ runs[q].interrupted => runs'[q].interrupted
  BY <1>1, <1>3, <1>4, BegunIs
<1>8. \A q \in Standing : CannotBeReplayed(q) => CannotBeReplayed(q)'
  BY <1>1, <1>4, <1>5 DEF CannotBeReplayed
<1>9. QED BY <1>1, <1>6, <1>7, <1>8, Undisturbed

\* The agent writes its own run's checkpoint only, and an answer is used when the final
\* one is written, or when its tools were stopped.
LEMMA AgentWrites ==
  ASSUME Base, NEW w \in Windows, AgentStep(w)
  PROVE  /\ \A q \in RunIds : q # win[w].run => saved'[q] = saved[q]
         /\ soft \subseteq soft'
         /\ win'[w].pc = "delivering" /\ win'[w].outcome = "succeeded"
              => saved'[win[w].run] = "final" \/ win[w].run \in soft'
<1>1. win[w].pc = "executing"
  BY AgentStepDoes
<1>2. CASE SaveCheckpoint(w)
  BY <1>1, <1>2, BaseSays DEF SaveCheckpoint
<1>0. soft \subseteq soft'
  BY AgentStepDoes
<1>3. CASE AgentSucceeds(w) \/ SoftFinalize(w)
  BY <1>0, <1>3 DEF AgentSucceeds, SoftFinalize, Flushed, disk
<1>4. CASE AskModel(w) \/ CallTool(w) \/ ToolReturns(w) \/ Answer(w)
  <2>1. win'[w].pc = win[w].pc
    BY <1>4, BaseSays DEF AskModel, CallTool, ToolReturns, Answer, EmitCheckpoint, Scans
  <2>2. saved' = saved
    BY <1>4 DEF AskModel, CallTool, ToolReturns, Answer, disk
  <2>3. QED BY <1>0, <1>1, <2>1, <2>2
<1>5. CASE AgentFails(w) \/ NothingChanged(w)
  <2>1. win'[w].pc = "executing" \/ win'[w].outcome \in {"failed", "skipped"}
    <3>1. CASE \E outcome \in {"failed", "skipped"} :
                 win' = [win EXCEPT ![w].pc = "delivering", ![w].outcome = outcome]
      BY <3>1, BaseSays DEF Scans
    <3>2. CASE win' = [win EXCEPT ![w].attempt = @ + 1, ![w].calls = 0,
                                  ![w].memory = "resumable"]
      BY <1>1, <3>2, BaseSays DEF Scans
    <3>3. QED BY <1>5, <3>1, <3>2 DEF AgentFails, NothingChanged
  <2>2. saved' = saved
    BY <1>5 DEF AgentFails, NothingChanged, disk
  <2>3. QED BY <1>0, <2>1, <2>2
<1>6. QED BY <1>0, <1>2, <1>3, <1>4, <1>5 DEF AgentStep

LEMMA AgentAnswers ==
  ASSUME Act, NEW w \in Windows, AgentStep(w)
  PROVE  AnswerInv'
<1>1. /\ Base /\ win[w].pc = "executing" /\ UNCHANGED <<state, runs, sent>>
      /\ win'[w].run = win[w].run /\ win'[w].pc \in {"executing", "delivering"}
      /\ Standing \subseteq sent /\ sent \subseteq RunIds
  BY AgentStepDoes, BaseSays DEF Act, Stage, Standing
<1>2. /\ win[w].run \notin sent /\ runs[win[w].run].status = "running"
      /\ state.status # "blocked"
  BY <1>1 DEF Act, AnswerInv, Carries
<1>3. Carries(w)'
  BY <1>1, <1>2, AgentWrites DEF Carries
<1>4. \A q \in Standing : CannotBeReplayed(q) => CannotBeReplayed(q)'
  BY <1>1, <1>2, AgentWrites DEF CannotBeReplayed
<1>5. QED BY <1>1, <1>3, <1>4, AgentWrites, Undisturbed

LEMMA DeliverAnswers ==
  ASSUME Act, NEW w \in Windows, Deliver(w)
  PROVE  AnswerInv'
<1> DEFINE r == win[w].run
<1>1. /\ Base /\ win[w].pc = "delivering" /\ UNCHANGED <<state, runs, saved, soft>>
      /\ win'[w].pc = "closing" /\ win'[w].run = r
      /\ sent' = sent \/ (sent' = sent \cup {r} /\ win[w].outcome = "succeeded")
      /\ r \in RunIds
  BY DeliverDoes, BaseSays DEF Act, Stage, Deliver, Knows, Inside
<1>2. state.active = r /\ r # None
  BY <1>1, ConstantsAssumption DEF Act, Stage, SlotInv, Work
<1>3. /\ runs[r].status = "running" /\ state.status # "blocked"
      /\ win[w].outcome = "succeeded" => saved[r] = "final" \/ r \in soft
  BY <1>1 DEF Act, AnswerInv, Carries
<1>4. Carries(w)'
  BY <1>1, <1>3 DEF Carries
<1>5. win[w].outcome = "succeeded" => CannotBeReplayed(r)'
  BY <1>1, <1>3 DEF CannotBeReplayed
<1>6. \A q \in Standing : CannotBeReplayed(q) => CannotBeReplayed(q)'
  BY <1>1 DEF CannotBeReplayed
<1>7. runs[r] # NoRun
  BY <1>1, <1>2, BaseSays, NullsAssumption DEF ActiveIsEntered
<1>8. CASE win[w].outcome = "succeeded"
  BY <1>1, <1>2, <1>4, <1>5, <1>6, <1>7, <1>8, ActiveDelivered
<1>9. CASE sent' = sent
  BY <1>1, <1>4, <1>6, <1>9, Undisturbed
<1>10. QED BY <1>1, <1>8, <1>9

LEMMA CloseAnswers ==
  ASSUME Act, NEW w \in Windows, Close(w)
  PROVE  AnswerInv'
<1> DEFINE r == win[w].run
<1>1. /\ Base /\ win[w].pc = "closing" /\ UNCHANGED <<state, sent>>
      /\ soft' \in {soft, soft \ {r}}
      /\ r \in RunIds /\ runs[r] \in Runs /\ win[w].outcome \in Terminal
      /\ Standing \subseteq RunIds
  BY CloseDoes, BaseSays DEF Act, Stage, Knows, Standing
<1>2. runs[r].status = "running" /\ state.status # "blocked" /\ state.active = r /\ r # None
  BY <1>1, ConstantsAssumption DEF Act, Stage, SlotInv, Work, AnswerInv, Carries
<1>3. /\ runs' = [runs EXCEPT ![r] = ClosedRun(w)] /\ saved' = [saved EXCEPT ![r] = "none"]
      /\ win' = [win EXCEPT ![w].pc = "finishing"]
  BY <1>1, <1>2, BaseSays DEF Close, CanSaveRun, Terminal, ClosedRun, Runs
<1>4. ClosedRun(w) # NoRun /\ ClosedRun(w).occ = runs[r].occ /\ ClosedRun(w).status \in Terminal
  <2>1. ClosedRun(w) \in Runs
    BY <1>1, BaseSays DEF ClosedRun, Runs, Scans, Terminal, Times
  <2>2. QED BY <1>1, <2>1, NullsAssumption DEF ClosedRun, Runs
<1>5. /\ runs'[r] = ClosedRun(w)
      /\ \A q \in RunIds : q # r => runs'[q] = runs[q] /\ saved'[q] = saved[q]
      /\ win'[w].pc = "finishing" /\ win'[w].run = r
  BY <1>1, <1>3, BaseSays DEF Scans
<1>6. Carries(w)'
  BY <1>1, <1>2, <1>5 DEF Carries
<1>7. CannotBeReplayed(r)'
  BY <1>4, <1>5 DEF CannotBeReplayed
<1>8. \A q \in Standing : CannotBeReplayed(q) => CannotBeReplayed(q)'
  BY <1>1, <1>4, <1>5 DEF CannotBeReplayed
<1>9. QED BY <1>1, <1>2, <1>4, <1>5, <1>6, <1>7, <1>8, ActiveDelivered

LEMMA FinishAnswers ==
  ASSUME Act, NEW w \in Windows, Finish(w)
  PROVE  AnswerInv'
<1> DEFINE r == runs[win[w].run]
<1>1. /\ Base /\ win[w].pc = "finishing" /\ win[w].run \in RunIds /\ r \in Runs
      /\ UNCHANGED <<runs, saved, sent, soft>>
  BY FinishDoes DEF Act, Stage
<1>2. /\ state.active = win[w].run /\ state.pending = win[w].occ.at /\ r.occ = win[w].occ
      /\ state.active # None
  BY <1>1, ConstantsAssumption DEF Act, Stage, SlotInv, Work, Inside, Decided
<1>3. /\ win'[w].pc = "idle"
      /\ Save(w, Finished(r, FailedRun(r))) \/ UNCHANGED <<state, fresh>>
  BY <1>1, <1>2, FinishDoes, RestTyped
<1>4. CASE UNCHANGED <<state, fresh>>
  <2>1. Carries(w)'
    BY <1>3 DEF Carries
  <2>2. QED BY <1>1, <1>4, <2>1, Undisturbed DEF CannotBeReplayed
<1>5. CASE Save(w, Finished(r, FailedRun(r)))
  <2>1. FailedRun(r) \in BOOLEAN /\ state \in States
    BY <1>1, BaseSays DEF FailedRun
  <2>2. /\ Finished(r, FailedRun(r)) \in States /\ Finished(r, FailedRun(r)).active = None
        /\ Finished(r, FailedRun(r)).lastKey = r.occ
    <3> HIDE DEF r
    <3>1. QED BY <1>1, <2>1, FinishedTyped
  <2>3. state'.active = None /\ state'.lastKey = runs[state.active].occ
    BY <1>1, <1>2, <1>5, <2>2, SaveTyped DEF Base
  <2>4. QED BY <1>1, <1>2, <1>3, <2>3, SettledAnswers
<1>6. QED BY <1>3, <1>4, <1>5

----------------------------------------------------------------------------
\* The invariant is inductive.

LEMMA InitAnswers == Init => AnswerInv
<1> SUFFICES ASSUME Init PROVE AnswerInv
  OBVIOUS
<1>1. /\ sent = {} /\ Standing = {} /\ state.active = None /\ state.status = "idle"
      /\ \A w \in Windows : win[w].pc = "idle"
  BY RestTyped DEF Init, NoState, Standing
<1>2. QED BY <1>1 DEF AnswerInv, Carries, BlockedIsOver, ActiveIsLater, AnswerOnce

LEMMA NextAnswers ==
  ASSUME Act, [Next]_vars
  PROVE  AnswerInv'
<1>1. CASE World \/ UNCHANGED vars
  <2>1. UNCHANGED <<runs, saved, sent, soft, win, state>>
    <3>1. CASE World
      <4>1. now \in Nat /\ (state' = state \/ state'.manual = now)
        BY <3>1, WorldDoes, BaseSays DEF Act, Stage
      <4>2. state' = state
        BY <4>1, ConstantsAssumption DEF Act, Stage, NoRequest
      <4>3. QED BY <3>1, <4>2, WorldDoes DEF Act, Stage
    <3>2. QED BY <1>1, <3>1 DEF vars, disk
  <2>2. QED
    BY <2>1
    DEF Act, AnswerInv, Answered, Past, CannotBeReplayed, Carries, BlockedIsOver, ActiveIsLater,
        StrictlyAfter, AnswerOnce, Standing
<1>2. CASE ~(World \/ UNCHANGED vars)
  BY <1>2, StepsAre, ScanAnswers, SaveNextAnswers, RecoverAnswers, RecoverDeliveryAnswers,
     SaveRecoveryAnswers, TurnBackAnswers, EnqueueAnswers, ActivateAnswers, StartAnswers,
     AgentAnswers, DeliverAnswers, CloseAnswers, FinishAnswers, CrashAnswers
<1>3. QED BY <1>1, <1>2

\* A window that is killed, however often and between whatever steps, never makes an
\* answer go out twice for one slot, unless the first was given after the tools were
\* stopped and its run taken for interrupted: a device with one window, nobody asking
\* for manual runs, and a job that does not catch up on a single missed slot ("run-once").
THEOREM AnswersGoOutOnce ==
  ASSUME SingleWindow, CatchUp # "run-once"
  PROVE  Spec /\ []NoRequest => []AnswerOnce
<1>1. Init => RunInv /\ SlotInv /\ AnswerInv
  BY InitRun, InitSlots, InitAnswers
<1>2. Base /\ RunInv /\ SlotInv /\ AnswerInv /\ NoRequest /\ NoRequest' /\ [Next]_vars
        => SlotInv' /\ AnswerInv'
  BY NextSlots, NextAnswers DEF Stage, Act
<1>3. Base /\ RunInv /\ [Next]_vars => RunInv'
  BY NextRun
<1>4. AnswerInv => AnswerOnce
  BY DEF AnswerInv
<1>5. QED BY <1>1, <1>2, <1>3, <1>4, AlwaysBase, PTL DEF Spec

----------------------------------------------------------------------------
\* With a single window and a trigger that never runs out of slots, nothing is done
\* twice, whatever catchUp and overlap say and whenever the user asks for a run.

\* A slot is left when the clock has run as far as it goes.
Recurring == \E s \in Slots : s > MaxTime + 1

\* What a run has done must not be done again, unless it was interrupted before its
\* answer was out for good; what the runs other than r have done; each is done once.
Served(r) == Ran(r) /\ (~runs[r].interrupted \/ r \in Standing)
Done(r) == {runs[q].occ : q \in {p \in RunIds : p # r /\ Served(p)}}
DoneOnce == \A r \in RunIds : Served(r) => runs[r].occ \notin Done(r)

\* An occurrence that may be done after those of D, a state that does not ask for
\* those of D again, and one that puts the occurrence d behind it.
Follows(occ, D) ==
  \A d \in D : d.manual = occ.manual =>
    /\ occ.manual => d # occ
    /\ ~occ.manual => d.at < occ.at
AsksNoneOf(s, D) == \A d \in D : d.manual => s.manual # d.at
Passes(s, d) ==
  /\ d.manual => s.manual # d.at \/ s.lastKey = d
  /\ ~d.manual => s.nextRunAt # None /\ d.at < s.nextRunAt

\* The clock, and what has come.
InTime ==
  /\ now <= MaxTime + 1
  /\ state.manual # None => state.manual <= now
  /\ \A r \in RunIds : runs[r] # NoRun => runs[r].occ.at <= now
  /\ \A w \in Windows : win[w].pc \in Decided => win[w].occ.at <= now

\* What the ledger tells of a run: one that is queued has not begun, one that has ended
\* knows when, and the checkpoint of one whose answer is out does not allow a replay,
\* unless its tools were stopped.
Covered(r) == saved[r] # "resumable" \/ r \in soft
Booked(r) ==
  /\ runs[r] # NoRun =>
       /\ runs[r].status = "queued" => ~runs[r].started
       /\ runs[r].status = "succeeded" => runs[r].started
       /\ runs[r].interrupted => runs[r].status = "failed"
       /\ runs[r].status \in Terminal =>
            /\ runs[r].completed # None
            /\ runs[r].occ.at <= runs[r].completed /\ runs[r].completed <= now
  /\ r \in sent => Ran(r) /\ Covered(r)

\* The state is past all that was done, the active run left out; the active run comes
\* after all that was done, and nobody can be asking for it again meanwhile.
PastAll == state.status # "blocked" => \A d \in Done(state.active) : Passes(state, d)
ActiveIsNewest ==
  state.active # None =>
    Follows(runs[state.active].occ, Done(state.active)) /\ AsksNoneOf(state, Done(state.active))

\* What a window has decided for is new, unless it will be turned back.
ChoosesNew(w) ==
  /\ win[w].pc = "lockRun" =>
       \/ state.active # None \/ state.lastKey = win[w].occ
       \/ Follows(win[w].occ, Done(None)) /\ AsksNoneOf(state, Done(None))
  /\ win[w].pc = "saving" =>
       /\ win[w].next # None
       /\ \A d \in Done(state.active) : ~d.manual => d.at < win[w].next

\* A run on its way from the queue to its end.
InProgress == {"claimed", "executing", "delivering", "closing", "finishing"}
Proceeds(w) ==
  /\ win[w].pc \in {"queued"} \cup InProgress => runs[win[w].run].occ = win[w].occ
  /\ win[w].pc = "queued" =>
       /\ state.active = None
       /\ Follows(win[w].occ, Done(win[w].run)) /\ AsksNoneOf(state, Done(win[w].run))
  /\ win[w].pc \in {"queued", "claimed"} => runs[win[w].run].status = "queued"
  /\ win[w].pc \in InProgress => state.active = win[w].run /\ state.pending = win[w].occ.at
  /\ win[w].pc \in {"executing", "delivering", "closing"} =>
       runs[win[w].run].started /\ runs[win[w].run].status = "running"
  /\ win[w].pc = "executing" => win[w].run \notin sent
  /\ win[w].pc = "delivering" /\ win[w].outcome = "succeeded" =>
       saved[win[w].run] = "final" \/ win[w].run \in soft
  /\ win[w].pc = "finishing" => runs[win[w].run].status \in Terminal

\* A run that is taken over.
TakesBack(w) ==
  /\ win[w].pc = "recovering" => win[w].outcome = "over"
  /\ win[w].pc \in {"recovering", "recovered"} =>
       /\ state.active = win[w].run
       /\ win[w].outcome = "over" => runs[win[w].run].status \in Terminal
       /\ win[w].outcome = "replay" =>
            runs[win[w].run].interrupted /\ win[w].run \notin Standing

Careful(w) ==
  /\ ChoosesNew(w) /\ Proceeds(w) /\ TakesBack(w)
  /\ state.status = "blocked" => win[w].pc \in {"off", "idle"}

OnceInv ==
  /\ InTime /\ (\A r \in RunIds : Booked(r))
  /\ PastAll /\ ActiveIsNewest /\ DoneOnce /\ BlockedIsOver
  /\ \A w \in Windows : Careful(w)

Sole == Base /\ RunInv /\ OnceInv /\ SingleWindow /\ Recurring

----------------------------------------------------------------------------
\* Decisions.

\* The trigger always names a later slot.
LEMMA NextSlotComes ==
  ASSUME Recurring, NEW after \in Int, after <= MaxTime + 1
  PROVE  NextSlot(after) \in Nat /\ NextSlot(after) > after /\ NextSlot(after) # None
<1> DEFINE later == {s \in Slots : s > after}
<1>1. later \in SUBSET Nat /\ later # {}
  <2>1. Slots \subseteq Nat /\ MaxTime \in Nat
    BY ConstantsAssumption
  <2>2. PICK s \in Slots : s > MaxTime + 1
    BY DEF Recurring
  <2>3. s \in Nat /\ s > after
    BY <2>1, <2>2
  <2>4. QED BY <2>1, <2>3
<1>2. \E s \in later : \A t \in later : s <= t
  <2> HIDE DEF later
  <2>1. QED BY <1>1, LeastExists
<1>3. NextSlot(after) = CHOOSE s \in later : \A t \in later : s <= t
  BY <1>1 DEF NextSlot
<1>4. NextSlot(after) \in later
  <2> HIDE DEF later
  <2>1. QED BY <1>2, <1>3
<1>5. QED BY <1>1, <1>4, ConstantsAssumption

\* The slot decided for is the awaited one or a later one that has come.
LEMMA DueSlotIsLate ==
  ASSUME NEW s, s.nextRunAt \in Times, Due(s), now \in Nat
  PROVE  DueSlot(s) \in Nat /\ Awaited(s) <= DueSlot(s) /\ DueSlot(s) <= now
<1>1. Awaited(s) \in Nat /\ Awaited(s) <= now
  BY AwaitedIsTime DEF Due, Times
<1>2. LatestDue(Awaited(s)) \in Nat /\ Awaited(s) <= LatestDue(Awaited(s))
      /\ LatestDue(Awaited(s)) <= now
  BY <1>1, LatestIsNewest, ConstantsAssumption
<1>3. QED BY <1>1, <1>2 DEF DueSlot

\* A decision from a state that is past all of D never repeats one of them.
LEMMA DecisionIsNew ==
  ASSUME Base, Recurring, now <= MaxTime + 1, NEW w \in Windows, NEW j \in Jobs,
         NEW s \in States, NEW q, Decide(w, j, s, q), s.manual # None => s.manual <= now,
         NEW D, \A d \in D : d \in Occurrences /\ d.at <= now,
         s.status # "blocked" => \A d \in D : Passes(s, d)
  PROVE  /\ win'[w].pc = "lockRun" =>
              /\ win'[w].occ.at <= now
              /\ s.lastKey = win'[w].occ \/ (Follows(win'[w].occ, D) /\ AsksNoneOf(s, D))
         /\ win'[w].pc = "saving" =>
              win'[w].next # None /\ \A d \in D : ~d.manual => d.at < win'[w].next
<1>0. /\ now \in Nat /\ win \in [Windows -> Scans] /\ s.nextRunAt \in Times /\ s.manual \in Times
      /\ None \notin Nat
  BY BaseSays, ConstantsAssumption DEF States
<1>1. CASE Becomes(w, Rest)
  <2>1. win'[w].pc = "idle"
    BY <1>0, <1>1, RestTyped, OthersStay
  <2>2. QED BY <2>1
<1>2. CASE s.status # "blocked" /\ s.manual # None
  <2> DEFINE occ == [at |-> s.manual, manual |-> TRUE]
  <2>1. s.manual \in Nat /\ occ \in Occurrences /\ occ.manual /\ occ.at = s.manual
    BY <1>0, <1>2 DEF Times, Occurrences
  <2>2. Becomes(w, Running(j, occ))
    BY <1>2 DEF Decide, Becomes, Running
  <2> HIDE DEF occ
  <2>3. win'[w].pc = "lockRun" /\ win'[w].occ = occ
    <3>1. Running(j, occ) \in Scans /\ Running(j, occ).pc = "lockRun" /\ Running(j, occ).occ = occ
      BY <2>1, RunningTyped
    <3>2. QED BY <1>0, <2>2, <3>1, OthersStay
  <2>4. ASSUME s.lastKey # occ PROVE Follows(occ, D) /\ AsksNoneOf(s, D)
    <3>1. ASSUME NEW d \in D, d.manual PROVE s.manual # d.at
      <4>1. SUFFICES ASSUME s.manual = d.at PROVE FALSE
        OBVIOUS
      <4>2. d = occ
        BY <2>1, <3>1, <4>1 DEF Occurrences
      <4>3. s.lastKey = d
        BY <1>2, <3>1, <4>1 DEF Passes
      <4>4. QED BY <2>4, <4>2, <4>3
    <3>2. QED BY <2>1, <3>1 DEF Follows, AsksNoneOf
  <2>5. QED BY <1>2, <2>1, <2>3, <2>4
<1>3. CASE s.status # "blocked" /\ s.manual = None /\ Picked(s, [at |-> DueSlot(s), manual |-> FALSE])
           /\ Becomes(w, Running(j, [at |-> DueSlot(s), manual |-> FALSE]))
  <2> DEFINE occ == [at |-> DueSlot(s), manual |-> FALSE]
  <2>1. DueSlot(s) \in Nat /\ Awaited(s) <= DueSlot(s) /\ DueSlot(s) <= now /\ Due(s)
    BY <1>0, <1>3, DueSlotIsLate DEF Picked
  <2>2. occ \in Occurrences /\ ~occ.manual /\ occ.at = DueSlot(s)
    BY <2>1 DEF Occurrences
  <2> HIDE DEF occ
  <2>3. win'[w].pc = "lockRun" /\ win'[w].occ = occ
    <3>1. Running(j, occ) \in Scans /\ Running(j, occ).pc = "lockRun" /\ Running(j, occ).occ = occ
      BY <2>2, RunningTyped
    <3>2. QED BY <1>0, <1>3, <3>1, OthersStay DEF occ
  <2>4. ASSUME NEW d \in D, ~d.manual PROVE d.at < occ.at
    <3>1. s.nextRunAt # None /\ d.at < s.nextRunAt /\ d.at \in Nat /\ s.nextRunAt \in Nat
      BY <1>0, <1>3, <2>4 DEF Passes, Times, Occurrences
    <3>2. QED BY <2>1, <2>2, <3>1 DEF Awaited
  <2>5. \A d \in D : s.manual # d.at
    BY <1>0, <1>3 DEF Occurrences
  <2>6. QED BY <2>1, <2>2, <2>3, <2>4, <2>5 DEF Follows, AsksNoneOf
<1>4. ASSUME NEW next, next = (IF Due(s) THEN NextSlot(now) ELSE Awaited(s)),
             s.status # "blocked", Becomes(w, Saving(j, next))
      PROVE  win'[w].pc = "saving" /\ win'[w].next # None
             /\ \A d \in D : ~d.manual => d.at < win'[w].next
  <2>1. /\ NextSlot(now) \in Nat /\ NextSlot(now) > now
        /\ NextSlot(-1) \in Nat
    BY <1>0, NextSlotComes, ConstantsAssumption
  <2>2. Awaited(s) \in Nat
    BY <1>0, <2>1 DEF Awaited, Times
  <2>3. next \in Nat
    BY <1>4, <2>1, <2>2
  <2>4. win'[w].pc = "saving" /\ win'[w].next = next
    <3>1. Saving(j, next) \in Scans /\ Saving(j, next).pc = "saving" /\ Saving(j, next).next = next
      BY <2>3, SavingTyped DEF Times
    <3>2. QED BY <1>0, <1>4, <3>1, OthersStay
  <2>5. ASSUME NEW d \in D, ~d.manual PROVE d.at < next
    <3>1. s.nextRunAt # None /\ d.at < s.nextRunAt /\ d.at \in Nat /\ d.at <= now
      BY <1>4, <2>5 DEF Passes, Occurrences
    <3>2. QED BY <1>0, <1>4, <2>1, <3>1 DEF Awaited
  <2>6. QED BY <1>0, <2>3, <2>4, <2>5
<1>5. CASE s.status # "blocked" /\ s.manual = None
  <2> DEFINE next == IF Due(s) THEN NextSlot(now) ELSE Awaited(s)
  <2>1. \/ Becomes(w, Rest)
        \/ Picked(s, [at |-> DueSlot(s), manual |-> FALSE])
           /\ Becomes(w, Running(j, [at |-> DueSlot(s), manual |-> FALSE]))
        \/ Becomes(w, Saving(j, next))
    BY <1>5 DEF Decide, Becomes, Running, Saving, Picked
  <2> HIDE DEF next
  <2>2. next = (IF Due(s) THEN NextSlot(now) ELSE Awaited(s))
    BY DEF next
  <2>3. CASE Becomes(w, Saving(j, next))
    BY <1>4, <1>5, <2>2, <2>3
  <2>4. QED BY <1>1, <1>3, <1>5, <2>1, <2>3
<1>6. CASE s.status = "blocked"
  <2>1. Becomes(w, Rest)
    BY <1>6 DEF Decide, Becomes
  <2>2. QED BY <1>1, <2>1
<1>7. QED BY <1>2, <1>5, <1>6

----------------------------------------------------------------------------
\* What the steps have in common.

\* A step that completes nothing: nothing more is served.
NothingServed ==
  \A r \in RunIds : Served(r)' => Served(r) /\ runs'[r].occ = runs[r].occ
LEMMA DoneShrinks ==
  ASSUME NothingServed
  PROVE  \A r : Done(r)' \subseteq Done(r)
BY DEF NothingServed, Done

\* What is done is in the ledger, and has come.
LEMMA DoneHasCome ==
  ASSUME Sole, NEW r, NEW d \in Done(r)
  PROVE  d \in Occurrences /\ d.at \in Nat /\ d.at <= now
<1>1. PICK q \in RunIds : Served(q) /\ d = runs[q].occ
  BY DEF Done
<1>2. runs[q] # NoRun /\ runs[q] \in Runs
  BY <1>1, BaseSays DEF Sole, Served, Ran, Standing
<1>3. d \in Occurrences /\ d.at \in Nat
  BY <1>1, <1>2 DEF Runs, Occurrences
<1>4. QED BY <1>1, <1>2, <1>3 DEF Sole, OnceInv, InTime

SameWishes ==
  /\ state'.active = state.active /\ state'.lastKey = state.lastKey
  /\ state'.manual = state.manual /\ state'.nextRunAt = state.nextRunAt
  /\ state'.status = "blocked" <=> state.status = "blocked"

LEMMA NothingDone ==
  ASSUME Sole, NEW w \in Windows, now' = now, SameWishes, NothingServed,
         \A r \in RunIds : Booked(r)',
         \A r \in RunIds : runs'[r] # NoRun => runs'[r].occ.at <= now,
         state.active # None => runs'[state.active].occ = runs[state.active].occ,
         win'[w].pc \in Decided => win'[w].occ.at <= now,
         Careful(w)'
  PROVE  OnceInv'
<1>1. \A r : Done(r)' \subseteq Done(r)
  BY DoneShrinks
<1>2. InTime'
  BY DEF Sole, OnceInv, InTime, SingleWindow, SameWishes
<1>3. PastAll'
  BY <1>1 DEF Sole, OnceInv, PastAll, SameWishes, Done, Passes
<1>4. ActiveIsNewest'
  <2>1. ASSUME NEW d, d \in Done(state.active)' PROVE d \in Done(state.active)
    BY <1>1, <2>1 DEF SameWishes, Done
  <2>2. state'.active # None =>
          /\ Follows(runs[state.active].occ, Done(state.active))
          /\ AsksNoneOf(state, Done(state.active))
          /\ state'.active = state.active /\ runs'[state.active].occ = runs[state.active].occ
    BY DEF Sole, OnceInv, ActiveIsNewest, SameWishes
  <2>3. QED BY <2>1, <2>2 DEF ActiveIsNewest, Follows, AsksNoneOf, SameWishes
<1>5. DoneOnce'
  BY <1>1 DEF Sole, OnceInv, DoneOnce, NothingServed, Done
<1>6. BlockedIsOver' /\ \A v \in Windows : Careful(v)'
  BY DEF Sole, OnceInv, BlockedIsOver, SingleWindow, SameWishes
<1>7. QED BY <1>2, <1>3, <1>4, <1>5, <1>6 DEF OnceInv

\* Steps that leave the ledger alone.
LEMMA LedgerRests ==
  ASSUME Sole, NEW w \in Windows, now' = now, runs' = runs, SameWishes,
         \A r \in sent' : r \in sent \/ (Ran(r) /\ ~runs[r].interrupted),
         \A r \in sent' : r \in RunIds => Covered(r)', soft \subseteq soft',
         win'[w].pc \in Decided => win'[w].occ.at <= now,
         Careful(w)'
  PROVE  OnceInv'
<1>1. NothingServed
  BY DEF NothingServed, Served, Ran, Standing
<1>2. \A r \in RunIds : Booked(r)'
  BY DEF Sole, OnceInv, Booked, Covered, Ran
<1>3. \A r \in RunIds : runs'[r] # NoRun => runs'[r].occ.at <= now
  BY DEF Sole, OnceInv, InTime
<1>4. QED BY <1>1, <1>2, <1>3, NothingDone

----------------------------------------------------------------------------
\* The scan.

LEMMA DecisionIsCareful ==
  ASSUME Sole, NEW w \in Windows, NEW j \in Jobs, NEW q \in Seq(Windows), Decide(w, j, state, q),
         UNCHANGED <<now, state, runs, sent, soft>>
  PROVE  Careful(w)' /\ (win'[w].pc \in Decided => win'[w].occ.at <= now)
<1> DEFINE D == Done(state.active)
<1>0. Base /\ Recurring /\ state \in States
  BY BaseSays DEF Sole
<1>1. /\ win'[w].pc \in {"idle", "saving", "lockRun"}
      /\ state.status = "blocked" => win'[w].pc = "idle"
  BY <1>0, DecisionRests
<1>2. /\ now <= MaxTime + 1 /\ (state.manual # None => state.manual <= now)
      /\ state.status # "blocked" => \A d \in D : Passes(state, d)
  BY DEF Sole, OnceInv, InTime, PastAll
<1>3. \A d \in D : d \in Occurrences /\ d.at <= now
  BY DoneHasCome
<1> HIDE DEF D
<1>4. /\ win'[w].pc = "lockRun" =>
           /\ win'[w].occ.at <= now
           /\ state.lastKey = win'[w].occ \/ (Follows(win'[w].occ, D) /\ AsksNoneOf(state, D))
      /\ win'[w].pc = "saving" =>
           win'[w].next # None /\ \A d \in D : ~d.manual => d.at < win'[w].next
  BY <1>0, <1>2, <1>3, DecisionIsNew
<1>5. D = Done(state.active)' /\ (state.active = None => D = Done(None)')
  BY DEF D, Done, Served, Ran, Standing
<1>6. ChoosesNew(w)'
  BY <1>4, <1>5 DEF ChoosesNew, AsksNoneOf
<1>7. Proceeds(w)' /\ TakesBack(w)'
  BY <1>1 DEF Proceeds, TakesBack, InProgress
<1>8. QED BY <1>1, <1>4, <1>6, <1>7 DEF Careful, Decided

\* A window at rest needs no care.
LEMMA RestIsCareful ==
  ASSUME NEW w, win'[w].pc \in {"off", "idle"}
  PROVE  Careful(w)' /\ win'[w].pc \notin Decided
BY DEF Careful, ChoosesNew, Proceeds, TakesBack, InProgress, Decided

LEMMA LedgerSays ==
  ASSUME Sole, NEW r \in sent
  PROVE  r \in RunIds /\ Ran(r) /\ Covered(r)
BY BaseSays DEF Sole, OnceInv, Booked, Covered

LEMMA ScanOnce ==
  ASSUME Sole, NEW w \in Windows, Scan(w)
  PROVE  OnceInv'
<1>1. /\ Base /\ UNCHANGED <<now, state, runs, saved, sent, soft>> /\ win[w].pc = "idle"
      /\ locks \in Seq(Windows) /\ job \in Jobs
  BY BaseSays DEF Sole, Scan, disk
<1>2. Careful(w)' /\ (win'[w].pc \in Decided => win'[w].occ.at <= now)
  <2>1. CASE state.active # None
    <3>1. Becomes(w, Recovering(job))
      BY <2>1 DEF Scan, Becomes, Recovering
    <3>2. win'[w].pc = "lockRecover"
      BY <1>1, <3>1, BaseSays, RecoveringTyped, OthersStay
    <3>3. state.status # "blocked"
      BY <2>1 DEF Sole, OnceInv, BlockedIsOver
    <3>4. QED BY <1>1, <3>2, <3>3
             DEF Careful, ChoosesNew, Proceeds, TakesBack, InProgress, Decided
  <2>2. CASE state.active = None
    <3>1. Decide(w, job, state, locks)
      BY <2>2 DEF Scan
    <3>2. QED BY <1>1, <3>1, DecisionIsCareful
  <2>3. QED BY <2>1, <2>2
<1>3. QED BY <1>1, <1>2, LedgerRests, LedgerSays DEF SameWishes, Covered

LEMMA CrashOnce ==
  ASSUME Sole, NEW w \in Windows, Crash(w) \/ Restart(w)
  PROVE  OnceInv'
<1>1. UNCHANGED <<now, state, runs, saved, sent, soft>> /\ win'[w].pc \in {"off", "idle"}
  BY CrashDoes, RestartDoes DEF Sole, disk
<1>2. QED BY <1>1, RestIsCareful, LedgerRests, LedgerSays DEF SameWishes, Covered

\* What is noted lies behind all that was done.
LEMMA SaveNextOnce ==
  ASSUME Sole, NEW w \in Windows, SaveNext(w)
  PROVE  OnceInv'
<1>1. /\ Base /\ win[w].pc = "saving" /\ win'[w].pc = "idle"
      /\ UNCHANGED <<now, runs, saved, sent, soft>>
  BY SaveNextDoes DEF Sole
<1>2. Careful(w)' /\ win'[w].pc \notin Decided
  BY <1>1, RestIsCareful
<1>3. CASE ~CanSave(w)
  <2>1. state' = state
    BY <1>3 DEF SaveNext
  <2>2. QED BY <1>1, <1>2, <2>1, LedgerRests, LedgerSays DEF SameWishes, Covered
<1>4. CASE CanSave(w)
  <2> DEFINE new == [state EXCEPT !.status = "idle", !.nextRunAt = win[w].next]
  <2>1. /\ new \in States /\ new.status = "idle" /\ new.nextRunAt = win[w].next
        /\ new.active = state.active /\ new.lastKey = state.lastKey /\ new.manual = state.manual
    BY <1>1, BaseSays DEF States, Scans
  <2>2. Save(w, new)
    BY <1>4 DEF SaveNext
  <2> HIDE DEF new
  <2>3. /\ state'.status = "idle" /\ state'.nextRunAt = win[w].next
        /\ state'.active = state.active /\ state'.lastKey = state.lastKey
        /\ state'.manual = state.manual
    BY <1>1, <2>1, <2>2, SaveTyped, SaveKeepsStatus DEF Base
  <2>4. \A r : Done(r)' = Done(r)
    BY <1>1 DEF Done, Served, Ran, Standing
  <2>5. /\ win[w].next # None /\ state.status # "blocked"
        /\ \A d \in Done(state.active) : ~d.manual => d.at < win[w].next
    BY <1>1 DEF Sole, OnceInv, Careful, ChoosesNew
  <2>6. PastAll'
    <3>1. \A d \in Done(state.active) : Passes(state, d)
      BY <2>5 DEF Sole, OnceInv, PastAll
    <3>2. \A d \in Done(state.active) : Passes(state', d)
      BY <2>3, <2>5, <3>1 DEF Passes
    <3>3. Done(state.active)' = Done(state.active)
      BY <1>1, <2>3 DEF Done, Served, Ran, Standing
    <3>4. QED BY <3>2, <3>3 DEF PastAll
  <2>7. ActiveIsNewest'
    <3>1. Done(state.active)' = Done(state.active)
      BY <1>1, <2>3 DEF Done, Served, Ran, Standing
    <3>2. QED BY <1>1, <2>3, <3>1 DEF Sole, OnceInv, ActiveIsNewest, AsksNoneOf
  <2>8. DoneOnce' /\ BlockedIsOver'
    BY <1>1, <2>3, <2>4 DEF Sole, OnceInv, DoneOnce, BlockedIsOver, Served, Ran, Standing
  <2>9. InTime' /\ (\A r \in RunIds : Booked(r)') /\ \A v \in Windows : Careful(v)'
    BY <1>1, <1>2, <2>3 DEF Sole, OnceInv, InTime, Booked, Covered, SingleWindow, Ran
  <2>10. QED BY <2>6, <2>7, <2>8, <2>9 DEF OnceInv
<1>5. QED BY <1>3, <1>4

LEMMA TurnBackOnce ==
  ASSUME Sole, NEW w \in Windows, TurnBack(w)
  PROVE  OnceInv'
<1>1. /\ Base /\ win[w].pc = "lockRun" /\ win'[w].pc = "idle"
      /\ UNCHANGED <<now, runs, saved, sent, soft>>
  BY TurnBackIsUnder DEF Sole, TurnBack
<1>2. SameWishes
  <2>1. CASE UNCHANGED <<state, fresh>>
    BY <2>1 DEF SameWishes
  <2>2. CASE Save(w, [state EXCEPT !.pending = win[w].occ.at])
    <3> DEFINE new == [state EXCEPT !.pending = win[w].occ.at]
    <3>1. win[w].occ \in Occurrences
      BY <1>1, BaseSays DEF Knows, Decided
    <3>2. /\ new \in States /\ new.active = state.active /\ new.lastKey = state.lastKey
          /\ new.status = state.status /\ new.manual = state.manual
          /\ new.nextRunAt = state.nextRunAt
      BY <1>1, <3>1, BaseSays DEF States, Occurrences, Times
    <3>3. Save(w, new)
      BY <2>2
    <3> HIDE DEF new
    <3>4. QED BY <1>1, <3>2, <3>3, SaveTyped, SaveKeepsStatus DEF Base, SameWishes
  <2>3. QED BY <2>1, <2>2 DEF TurnBack
<1>3. \A r \in sent' : r \in sent /\ Covered(r)'
  BY <1>1, LedgerSays DEF Covered
<1>4. QED BY <1>1, <1>2, <1>3, RestIsCareful, LedgerRests

----------------------------------------------------------------------------
\* An active run is taken over.

\* One that is put back has no answer out: its checkpoint would not allow it, unless its
\* tools were stopped.
LEMMA PutBackIsUnsent ==
  ASSUME Sole, state.active # None, Active.status = "queued" \/ Resumable(state.active)
  PROVE  state.active \in sent => state.active \in soft
<1> SUFFICES ASSUME state.active \in sent, state.active \notin soft PROVE FALSE
  OBVIOUS
<1>1. state.active \in RunIds /\ Ran(state.active) /\ saved[state.active] # "resumable"
  BY LedgerSays DEF Covered
<1>2. QED BY <1>1 DEF Sole, OnceInv, Booked, Covered, Ran, Active, Resumable

LEMMA RecoverOnce ==
  ASSUME Sole, NEW w \in Windows, Recover(w)
  PROVE  OnceInv'
<1>0. Base
  BY DEF Sole
<1>1. CASE state.active = None \/ ~Overdue
  <2>1. /\ Holds(w) /\ Decide(w, win[w].job, state, Tail(locks))
        /\ UNCHANGED <<now, state, runs, saved, sent, soft>>
    BY <1>1 DEF Recover
  <2>2. Tail(locks) \in Seq(Windows) /\ win[w].job \in Jobs
    BY <1>0, <2>1, BaseSays DEF Holds
  <2>3. Careful(w)' /\ (win'[w].pc \in Decided => win'[w].occ.at <= now)
    BY <2>1, <2>2, DecisionIsCareful
  <2>4. QED BY <2>1, <2>3, LedgerRests, LedgerSays DEF SameWishes, Covered
<1>2. CASE ~(state.active = None \/ ~Overdue)
  <2> DEFINE r == state.active
             over == Active.status \in Terminal
             replay == Active.status = "queued" \/ Resumable(r)
             pc == IF over THEN "recovering" ELSE "recovered"
             outcome == IF over THEN "over" ELSE IF replay THEN "replay" ELSE "block"
  <2>1. /\ win'[w].pc = pc /\ win'[w].run = r /\ win'[w].outcome = outcome
    <3>1. win' = [win EXCEPT ![w] = [win[w] EXCEPT !.pc = pc, !.run = r, !.outcome = outcome]]
      BY <1>0, <1>2, BaseSays DEF Recover, Scans
    <3> HIDE DEF pc, outcome, r
    <3>2. QED BY <1>0, <3>1, BaseSays DEF Scans
  <2>2. /\ runs' = IF over THEN runs ELSE [runs EXCEPT ![r] = Interrupted(r)]
        /\ saved' = IF over THEN saved ELSE [saved EXCEPT ![r] = "none"]
        /\ UNCHANGED <<now, state, sent, soft>>
    BY <1>0, <1>2, BaseSays DEF Recover, Interrupted
  <2>3. r # None /\ r \in RunIds /\ runs[r] \in Runs /\ runs[r] # NoRun
    BY <1>0, <1>2, BaseSays, NullsAssumption DEF ActiveIsEntered
  <2>4. /\ Interrupted(r) # NoRun /\ Interrupted(r).occ = runs[r].occ
        /\ Interrupted(r).started = runs[r].started /\ Interrupted(r).interrupted
        /\ Interrupted(r).status = "failed" /\ Interrupted(r).completed = now
    <3>1. Interrupted(r) \in Runs
      BY <1>0, <2>3, BaseSays DEF Interrupted, Runs, Terminal, Times
    <3>2. QED BY <2>3, <3>1, NullsAssumption DEF Interrupted, Runs
  <2>5. \A q \in RunIds : \/ runs'[q] = runs[q] /\ saved'[q] = saved[q]
                          \/ q = r /\ runs'[q] = Interrupted(r) /\ saved'[q] = "none"
    BY <1>0, <2>2, <2>3, BaseSays
  <2>6. now \in Nat /\ now # None
    BY <1>0, BaseSays, ConstantsAssumption
  <2>7. outcome = "replay" => r \notin Standing'
    <3>1. SUFFICES ASSUME outcome = "replay" PROVE runs'[r].interrupted /\ (r \in sent => r \in soft)
      BY <2>2 DEF Standing
    <3>2. runs'[r].interrupted
      BY <1>0, <2>2, <2>3, <2>4, <3>1, BaseSays
    <3>3. QED BY <2>3, <3>1, <3>2, PutBackIsUnsent
  <2>8. over => runs' = runs /\ runs[r].status \in Terminal
    BY <2>2 DEF Active
  <2>9. ~over => runs'[r] = Interrupted(r)
    BY <1>0, <2>2, <2>3, BaseSays
  <2>10. /\ (pc = "recovering" <=> over) /\ (outcome = "over" <=> over)
         /\ pc \in {"recovering", "recovered"}
    OBVIOUS
  <2> HIDE DEF pc, over, outcome, replay, r
  <2>11. NothingServed
    <3> SUFFICES ASSUME NEW q \in RunIds, Served(q)' PROVE Served(q) /\ runs'[q].occ = runs[q].occ
      BY DEF NothingServed
    <3>1. sent' = sent /\ soft' = soft
      BY <2>2
    <3>2. CASE runs'[q] = runs[q]
      BY <3>1, <3>2 DEF Served, Ran, Standing
    <3>3. CASE q = r /\ runs'[q] = Interrupted(r)
      <4>1. q \in sent /\ q \notin soft /\ Interrupted(r).started
        BY <2>4, <3>1, <3>3 DEF Served, Ran, Standing
      <4>2. QED BY <2>3, <2>4, <3>3, <4>1 DEF Served, Ran, Standing
    <3>4. QED BY <2>5, <3>2, <3>3
  <2>12. \A q \in RunIds : Booked(q)'
    <3> SUFFICES ASSUME NEW q \in RunIds PROVE Booked(q)'
      OBVIOUS
    <3>1. Booked(q) /\ (runs[q] # NoRun => runs[q].occ.at <= now)
      BY DEF Sole, OnceInv, InTime
    <3>2. CASE runs'[q] = runs[q] /\ saved'[q] = saved[q]
      BY <2>2, <3>1, <3>2 DEF Booked, Ran, Covered
    <3>3. CASE q = r /\ runs'[q] = Interrupted(r) /\ saved'[q] = "none"
      BY <2>2, <2>3, <2>4, <2>6, <3>1, <3>3 DEF Booked, Ran, Covered
    <3>4. QED BY <2>5, <3>2, <3>3
  <2>13. \A q \in RunIds : runs'[q] # NoRun => runs'[q].occ.at <= now
    BY <2>3, <2>4, <2>5 DEF Sole, OnceInv, InTime
  <2>14. Careful(w)'
    <3>1. state.status # "blocked"
      BY <2>3 DEF Sole, OnceInv, BlockedIsOver, r
    <3>2. state'.active = r
      BY <2>2 DEF r
    <3>3. TakesBack(w)'
      BY <2>1, <2>2, <2>4, <2>7, <2>8, <2>9, <2>10, <3>2 DEF TakesBack
    <3>4. ChoosesNew(w)' /\ Proceeds(w)'
      BY <2>1, <2>10 DEF ChoosesNew, Proceeds, InProgress
    <3>5. QED BY <2>2, <3>1, <3>3, <3>4 DEF Careful
  <2>15. win'[w].pc \notin Decided
    BY <2>1, <2>10 DEF Decided
  <2>16. runs'[state.active].occ = runs[state.active].occ
    BY <2>3, <2>4, <2>5 DEF r
  <2>17. SameWishes
    BY <2>2 DEF SameWishes
  <2>18. now' = now
    BY <2>2
  <2>19. QED BY <2>11, <2>12, <2>13, <2>14, <2>15, <2>16, <2>17, <2>18, NothingDone
<1>3. QED BY <1>1, <1>2

LEMMA RecoverDeliveryOnce ==
  ASSUME Sole, NEW w \in Windows, RecoverDelivery(w)
  PROVE  OnceInv'
<1> DEFINE r == win[w].run
<1>1. /\ Base /\ win[w].pc = "recovering" /\ UNCHANGED <<runs, state, now, soft>>
      /\ win'[w].pc = "recovered" /\ win'[w].run = r /\ win'[w].outcome = win[w].outcome
      /\ saved' = [saved EXCEPT ![r] = "none"] /\ r \in RunIds
      /\ sent' = sent \/ (sent' = sent \cup {r} /\ runs[r].status = "succeeded")
      /\ runs[r] # NoRun
  BY RecoverDeliveryIsUnder, BaseSays, NullsAssumption DEF Sole, RecoverDelivery, Knows, Inside
<1>2. /\ win[w].outcome = "over" /\ state.active = r /\ runs[r].status \in Terminal
      /\ state.status # "blocked"
  BY <1>1 DEF Sole, OnceInv, Careful, TakesBack
<1>3. runs[r].status = "succeeded" => Ran(r) /\ ~runs[r].interrupted
  BY <1>1 DEF Sole, OnceInv, Booked, Covered, Ran
<1>4. Careful(w)' /\ win'[w].pc \notin Decided
  BY <1>1, <1>2 DEF Careful, ChoosesNew, Proceeds, TakesBack, InProgress, Decided
<1>5. \A q \in RunIds : saved'[q] = "none" \/ saved'[q] = saved[q]
  BY <1>1, BaseSays
<1>6. \A q \in sent' : q \in RunIds => Covered(q)'
  <2>1. ASSUME NEW q \in RunIds, q \in sent' PROVE Covered(q)'
    <3>1. CASE q = r
      BY <1>1, <3>1, BaseSays DEF Covered
    <3>2. CASE q # r
      <4>1. q \in sent
        BY <1>1, <2>1, <3>2
      <4>2. Covered(q)
        BY <4>1, LedgerSays
      <4>3. QED BY <1>1, <1>5, <4>2 DEF Covered
    <3>3. QED BY <3>1, <3>2
  <2>2. QED BY <2>1
<1>7. \A q \in sent' : q \in sent \/ (Ran(q) /\ ~runs[q].interrupted)
  BY <1>1, <1>3
<1>8. QED BY <1>1, <1>4, <1>6, <1>7, LedgerRests DEF SameWishes

----------------------------------------------------------------------------
\* A run, from the ledger's entry to its end.

LEMMA EnqueueOnce ==
  ASSUME Sole, NEW w \in Windows, Enqueue(w)
  PROVE  OnceInv'
<1>0. PICK n \in RunIds : n = NewRun
  BY EnqueueDoes DEF Sole
<1>1. /\ Base /\ win[w].pc = "lockRun" /\ UNCHANGED <<now, state, saved, sent, soft>>
      /\ runs[n] = NoRun /\ state.active = None
      /\ ~AlreadyDone(win[w].occ) /\ Entry(win[w].occ) \in Runs
      /\ runs' = [runs EXCEPT ![n] = Entry(win[w].occ)]
  BY <1>0, EnqueueDoes DEF Sole
<1>2. win'[w].pc = "queued" /\ win'[w].run = n /\ win'[w].occ = win[w].occ
  <2>1. win[w] \in Scans
    BY <1>1, BaseSays
  <2>2. win'[w] = [win[w] EXCEPT !.pc = "queued", !.run = n]
    BY <1>0, <1>1, EnqueueDoes
  <2>3. QED BY <2>1, <2>2 DEF Scans
<1>3. /\ n \notin sent /\ runs'[n] = Entry(win[w].occ)
      /\ \A q \in RunIds : q # n => runs'[q] = runs[q]
  BY <1>1, BaseSays DEF Sole, OnceInv, Booked, Covered, Ran
<1>4. win[w].occ.at <= now /\ state.status # "blocked"
  BY <1>1 DEF Sole, OnceInv, InTime, Careful, Decided
<1>5. Follows(win[w].occ, Done(None)) /\ AsksNoneOf(state, Done(None))
  BY <1>1 DEF Sole, OnceInv, Careful, ChoosesNew, AlreadyDone
<1>6. NothingServed
  BY <1>1, <1>3 DEF NothingServed, Served, Ran, Entry, Standing
<1>7. \A q \in RunIds : Booked(q)'
  BY <1>1, <1>3 DEF Sole, OnceInv, Booked, Ran, Entry, Terminal, Covered
<1>8. \A q \in RunIds : runs'[q] # NoRun => runs'[q].occ.at <= now
  BY <1>1, <1>3, <1>4 DEF Sole, OnceInv, InTime, Entry
<1>9. Careful(w)'
  <2>1. Done(n)' \subseteq Done(None)
    BY <1>6, ConstantsAssumption DEF Done, NothingServed
  <2>2. Follows(win[w].occ, Done(n)') /\ AsksNoneOf(state, Done(n)')
    BY <1>5, <2>1 DEF Follows, AsksNoneOf
  <2>3. Done(win[w].run)' = Done(n)'
    BY <1>2 DEF Done
  <2>4. Proceeds(w)'
    BY <1>1, <1>2, <1>3, <2>2, <2>3 DEF Proceeds, InProgress, Entry, Follows, AsksNoneOf
  <2>5. ChoosesNew(w)' /\ TakesBack(w)'
    BY <1>2 DEF ChoosesNew, TakesBack
  <2>6. QED BY <1>1, <1>4, <2>4, <2>5 DEF Careful
<1>10. QED BY <1>1, <1>2, <1>4, <1>6, <1>7, <1>8, <1>9, NothingDone DEF SameWishes

LEMMA ActivateOnce ==
  ASSUME Sole, NEW w \in Windows, Activate(w)
  PROVE  OnceInv'
<1>0. PICK r \in RunIds : r = win[w].run
  BY ActivateDoes DEF Sole
<1>1. /\ Base /\ win[w].pc = "queued" /\ runs[r] \in Runs /\ r # None
      /\ UNCHANGED <<now, runs, saved, sent, soft>>
      /\ \/ /\ Save(w, Activated(w)) /\ Activated(w) \in States
            /\ win'[w] = [win[w] EXCEPT !.pc = "claimed"]
         \/ win'[w] = Rest /\ UNCHANGED <<state, fresh>>
  BY <1>0, ActivateDoes, ConstantsAssumption DEF Sole
<1>2. CASE win'[w] = Rest /\ UNCHANGED <<state, fresh>>
  BY <1>1, <1>2, RestTyped, RestIsCareful, LedgerRests, LedgerSays DEF SameWishes, Covered
<1>3. CASE /\ Save(w, Activated(w)) /\ Activated(w) \in States
           /\ win'[w] = [win[w] EXCEPT !.pc = "claimed"]
  <2>1. win'[w].pc = "claimed" /\ win'[w].run = r /\ win'[w].occ = win[w].occ
    BY <1>0, <1>1, <1>3, BaseSays DEF Scans
  <2>2. /\ Activated(w).active = r /\ Activated(w).lastKey = state.lastKey
        /\ Activated(w).status = "running" /\ Activated(w).manual = state.manual
        /\ Activated(w).nextRunAt = state.nextRunAt /\ Activated(w).pending = win[w].occ.at
    BY <1>0, <1>1, BaseSays DEF Activated, States
  <2>3. /\ state'.active = r /\ state'.lastKey = state.lastKey /\ state'.status = "running"
        /\ state'.manual = state.manual /\ state'.nextRunAt = state.nextRunAt
        /\ state'.pending = win[w].occ.at
    BY <1>1, <1>3, <2>2, SaveTyped, SaveKeepsStatus DEF Base
  <2>4. /\ state.active = None /\ state.status # "blocked" /\ runs[r].occ = win[w].occ
        /\ runs[r].status = "queued"
        /\ Follows(runs[r].occ, Done(r)) /\ AsksNoneOf(state, Done(r))
        /\ win[w].occ.at <= now
    BY <1>0, <1>1 DEF Sole, OnceInv, InTime, Careful, Proceeds, Decided
  <2>5. /\ Done(state.active)' = Done(r) /\ Done(r) \subseteq Done(state.active)
        /\ \A q : Done(q)' = Done(q)
    BY <1>1, <2>3, <2>4, ConstantsAssumption DEF Done, Served, Ran, Standing
  <2>6. PastAll'
    <3>1. \A d \in Done(r) : Passes(state, d)
      BY <2>4, <2>5 DEF Sole, OnceInv, PastAll
    <3>2. \A d \in Done(r) : Passes(state', d)
      BY <2>3, <3>1 DEF Passes
    <3>3. QED BY <2>5, <3>2 DEF PastAll
  <2>7. ActiveIsNewest'
    BY <1>1, <2>3, <2>4, <2>5 DEF ActiveIsNewest, AsksNoneOf
  <2>8. DoneOnce' /\ BlockedIsOver' /\ InTime' /\ \A q \in RunIds : Booked(q)'
    BY <1>1, <2>1, <2>3, <2>4, <2>5
    DEF Sole, OnceInv, DoneOnce, BlockedIsOver, InTime, Booked, Covered, Served, Ran, Standing, SingleWindow
  <2>9. Careful(w)'
    BY <1>1, <2>1, <2>3, <2>4 DEF Careful, ChoosesNew, Proceeds, TakesBack, InProgress
  <2>10. QED BY <2>6, <2>7, <2>8, <2>9 DEF OnceInv, Sole, SingleWindow
<1>4. QED BY <1>1, <1>2, <1>3

\* The run that begins comes after all that was done.
LEMMA StartOnce ==
  ASSUME Sole, NEW w \in Windows, Start(w)
  PROVE  OnceInv'
<1>0. PICK r \in RunIds : r = win[w].run
  BY StartDoes DEF Sole
<1>1. /\ Base /\ win[w].pc = "claimed" /\ runs[r] \in Runs /\ runs[r] # NoRun /\ r # None
      /\ UNCHANGED <<now, state, saved, sent, soft>>
      /\ runs' = [runs EXCEPT ![r] = Begun(r)]
  BY <1>0, StartDoes, NullsAssumption, ConstantsAssumption DEF Sole, Begun
<1>2. win'[w].pc = "executing" /\ win'[w].run = r /\ win'[w].occ = win[w].occ
  <2>1. win[w] \in Scans
    BY <1>1, BaseSays
  <2>2. win'[w] = [win[w] EXCEPT !.pc = "executing"]
    BY <1>1, StartDoes
  <2>3. QED BY <1>0, <2>1, <2>2 DEF Scans
<1>3. /\ Begun(r) # NoRun /\ Begun(r).occ = runs[r].occ /\ Begun(r).status = "running"
      /\ Begun(r).started /\ Begun(r).interrupted = runs[r].interrupted
  <2>1. Begun(r).status = "running" /\ Begun(r).started /\ Begun(r).interrupted = runs[r].interrupted
    BY <1>1 DEF Begun, Runs
  <2>2. QED BY <1>1, <2>1, BegunIs
<1>4. runs'[r] = Begun(r) /\ \A q \in RunIds : q # r => runs'[q] = runs[q]
  BY <1>1, BaseSays
<1>5. /\ runs[r].status = "queued" /\ runs[r].occ = win[w].occ /\ state.active = r
      /\ state.pending = win[w].occ.at /\ state.status # "blocked" /\ win[w].occ.at <= now
  BY <1>0, <1>1 DEF Sole, OnceInv, InTime, Careful, Proceeds, InProgress, Decided
<1>6. ~runs[r].started /\ ~runs[r].interrupted /\ r \notin sent
  BY <1>1, <1>5 DEF Sole, OnceInv, Booked, Covered, Ran
<1>7. Done(r)' = Done(r) /\ Done(state.active)' = Done(state.active)
  BY <1>1, <1>4, <1>5 DEF Done, Served, Ran, Standing
<1>8. PastAll' /\ ActiveIsNewest'
  BY <1>1, <1>3, <1>4, <1>5, <1>7 DEF Sole, OnceInv, PastAll, ActiveIsNewest
<1>9. DoneOnce'
  <2>1. Follows(runs[r].occ, Done(r))
    BY <1>1, <1>5 DEF Sole, OnceInv, ActiveIsNewest
  <2>2. \A d \in Done(r) : d # runs[r].occ
    BY <2>1, DoneHasCome DEF Follows
  <2>3. \A q \in RunIds : q # r /\ Served(q)' => Served(q) /\ runs'[q].occ \in Done(r)
    BY <1>1, <1>4 DEF Done, Served, Ran, Standing
  <2>4. \A q \in RunIds : q # r => Done(q)' \subseteq Done(q) \cup {runs[r].occ}
    BY <1>1, <1>3, <1>4, <1>6 DEF Done, Served, Ran, Standing
  <2>5. ASSUME NEW q \in RunIds, Served(q)' PROVE runs'[q].occ \notin Done(q)'
    <3>1. CASE q = r
      BY <1>3, <1>4, <1>7, <2>2, <3>1
    <3>2. CASE q # r
      <4>1. Served(q) /\ runs'[q] = runs[q] /\ runs[q].occ \in Done(r)
        BY <1>4, <2>3, <2>5, <3>2
      <4>2. runs[q].occ \notin Done(q) /\ runs[q].occ # runs[r].occ
        BY <2>2, <4>1 DEF Sole, OnceInv, DoneOnce
      <4>3. QED BY <2>4, <3>2, <4>1, <4>2
    <3>3. QED BY <3>1, <3>2
  <2>6. QED BY <2>5 DEF DoneOnce
<1>10. BlockedIsOver' /\ InTime' /\ \A q \in RunIds : Booked(q)'
  BY <1>1, <1>2, <1>3, <1>4, <1>5, <1>6
  DEF Sole, OnceInv, BlockedIsOver, InTime, Booked, Ran, SingleWindow, Terminal, Covered
<1>11. Careful(w)'
  BY <1>1, <1>2, <1>3, <1>4, <1>5, <1>6
  DEF Careful, ChoosesNew, Proceeds, TakesBack, InProgress
<1>12. QED BY <1>8, <1>9, <1>10, <1>11 DEF OnceInv, Sole, SingleWindow

LEMMA AgentOnce ==
  ASSUME Sole, NEW w \in Windows, AgentStep(w)
  PROVE  OnceInv'
<1>1. /\ Base /\ win[w].pc = "executing" /\ UNCHANGED <<now, state, runs, sent>>
      /\ win'[w].run = win[w].run /\ win'[w].occ = win[w].occ
      /\ win'[w].pc \in {"executing", "delivering"}
  BY AgentStepDoes, BaseSays DEF Sole
<1>2. Careful(w) /\ win[w].occ.at <= now /\ win[w].run \notin sent
  BY <1>1 DEF Sole, OnceInv, InTime, Careful, Proceeds, Decided
<1>3. Careful(w)'
  <2>1. ChoosesNew(w)' /\ TakesBack(w)' /\ (state'.status = "blocked" => win'[w].pc \in {"off", "idle"})
    BY <1>1, <1>2 DEF Careful, ChoosesNew, TakesBack
  <2>2. Proceeds(w)'
    BY <1>1, <1>2, AgentWrites DEF Careful, Proceeds, InProgress
  <2>3. QED BY <2>1, <2>2 DEF Careful
<1>4. soft \subseteq soft' /\ \A q \in sent : Covered(q)'
  BY <1>1, <1>2, AgentWrites, LedgerSays DEF Covered
<1>5. QED BY <1>1, <1>2, <1>3, <1>4, LedgerRests DEF SameWishes

\* An answer goes out with its final checkpoint on disk, or of a run known as soft.
LEMMA DeliverOnce ==
  ASSUME Sole, NEW w \in Windows, Deliver(w)
  PROVE  OnceInv'
<1> DEFINE r == win[w].run
<1>1. /\ Base /\ win[w].pc = "delivering" /\ UNCHANGED <<now, state, runs, saved, soft>>
      /\ win'[w].pc = "closing" /\ win'[w].run = r /\ win'[w].occ = win[w].occ
      /\ sent' = sent \/ (sent' = sent \cup {r} /\ win[w].outcome = "succeeded")
      /\ r \in RunIds /\ runs[r] # NoRun
  <2>1. /\ Base /\ win[w].pc = "delivering" /\ UNCHANGED <<now, state, runs, saved, soft>>
        /\ win'[w].pc = "closing" /\ win'[w].run = r /\ win'[w].occ = win[w].occ
    BY DeliverDoes DEF Sole
  <2>2. r \in RunIds /\ runs[r] # NoRun
    BY <2>1, BaseSays, NullsAssumption DEF Knows, Inside
  <2>3. sent' = sent \/ (sent' = sent \cup {r} /\ win[w].outcome = "succeeded")
    BY DEF Deliver
  <2>4. QED BY <2>1, <2>2, <2>3
<1>2. /\ Careful(w) /\ win[w].occ.at <= now
      /\ runs[r].status = "running" /\ runs[r].started
      /\ win[w].outcome = "succeeded" => saved[r] = "final" \/ r \in soft
  BY <1>1 DEF Sole, OnceInv, InTime, Careful, Proceeds, Decided
<1>3. Ran(r) /\ ~runs[r].interrupted
  BY <1>1, <1>2 DEF Sole, OnceInv, Booked, Covered, Ran
<1>4. Careful(w)'
  BY <1>1, <1>2 DEF Careful, ChoosesNew, Proceeds, TakesBack, InProgress
<1>5. \A q \in sent' : Covered(q)' /\ (q \in sent \/ (Ran(q) /\ ~runs[q].interrupted))
  BY <1>1, <1>2, <1>3, LedgerSays DEF Covered
<1>6. QED BY <1>1, <1>2, <1>4, <1>5, LedgerRests DEF SameWishes

LEMMA CloseOnce ==
  ASSUME Sole, NEW w \in Windows, Close(w)
  PROVE  OnceInv'
<1>0. PICK r \in RunIds : r = win[w].run
  BY CloseDoes DEF Sole
<1>1. /\ Base /\ win[w].pc = "closing" /\ UNCHANGED <<now, state, sent>>
      /\ soft' \in {soft, soft \ {r}}
      /\ runs[r] \in Runs /\ runs[r] # NoRun /\ win[w].outcome \in Terminal
      /\ now \in Nat /\ now # None
  <2>1. Base /\ win[w].pc = "closing" /\ runs[r] \in Runs
    BY <1>0, CloseDoes DEF Sole
  <2>2. UNCHANGED <<now, state, sent>> /\ soft' \in {soft, soft \ {r}}
    BY <1>0, <2>1, CloseDoes
  <2>3. win[w].outcome \in Terminal
    BY <2>1, BaseSays DEF Knows
  <2>4. QED BY <2>1, <2>2, <2>3, BaseSays, NullsAssumption, ConstantsAssumption
<1>2. /\ Careful(w) /\ win[w].occ.at <= now /\ runs[r].occ = win[w].occ
      /\ runs[r].status = "running" /\ runs[r].started /\ ~runs[r].interrupted
  BY <1>0, <1>1 DEF Sole, OnceInv, InTime, Booked, Covered, Careful, Proceeds, Decided, InProgress
<1>3. /\ runs' = [runs EXCEPT ![r] = ClosedRun(w)] /\ saved' = [saved EXCEPT ![r] = "none"]
      /\ win' = [win EXCEPT ![w].pc = "finishing"]
  BY <1>0, <1>1, <1>2, BaseSays DEF Close, CanSaveRun, Terminal, ClosedRun, Runs
<1>4. /\ ClosedRun(w) # NoRun /\ ClosedRun(w).occ = runs[r].occ /\ ClosedRun(w).status \in Terminal
      /\ ClosedRun(w).started /\ ~ClosedRun(w).interrupted /\ ClosedRun(w).completed = now
      /\ ClosedRun(w).status # "queued"
  <2>1. ClosedRun(w) \in Runs
    BY <1>0, <1>1, BaseSays DEF ClosedRun, Runs, Scans, Terminal, Times
  <2>2. QED BY <1>0, <1>1, <1>2, <2>1, NullsAssumption DEF ClosedRun, Runs, Terminal
<1>5. /\ runs'[r] = ClosedRun(w) /\ saved'[r] = "none"
      /\ \A q \in RunIds : q # r => runs'[q] = runs[q] /\ saved'[q] = saved[q]
      /\ win'[w].pc = "finishing" /\ win'[w].run = r /\ win'[w].occ = win[w].occ
  BY <1>0, <1>1, <1>3, BaseSays DEF Scans
<1>6. NothingServed
  BY <1>1, <1>2, <1>4, <1>5 DEF NothingServed, Served, Ran, Standing
<1>7. \A q \in RunIds : Booked(q)'
  BY <1>1, <1>2, <1>4, <1>5 DEF Sole, OnceInv, Booked, Ran, Covered
<1>8. \A q \in RunIds : runs'[q] # NoRun => runs'[q].occ = runs[q].occ /\ runs'[q].occ.at <= now
  BY <1>1, <1>4, <1>5 DEF Sole, OnceInv, InTime
<1>9. Careful(w)'
  BY <1>0, <1>1, <1>2, <1>4, <1>5 DEF Careful, ChoosesNew, Proceeds, TakesBack, InProgress
<1>10. state.active = r
  BY <1>0, <1>1 DEF Sole, OnceInv, Careful, Proceeds, InProgress
<1>11. QED BY <1>1, <1>2, <1>4, <1>5, <1>6, <1>7, <1>8, <1>9, <1>10, NothingDone DEF SameWishes

----------------------------------------------------------------------------
\* The active run is over, put back, or blocks the job.

\* The state has put the run behind it: as the last one and, for a slot, with a later
\* slot to wait for; or the run was interrupted and may be done again.
PutsBehind(r) ==
  /\ state'.lastKey = runs[r].occ
  /\ runs[r].occ.manual => state'.nextRunAt = state.nextRunAt
  /\ ~runs[r].occ.manual =>
       \E x \in Nat : runs[r].occ.at <= x /\ x <= now /\ state'.nextRunAt = NextSlot(x)
PutsBack(r) ==
  /\ runs[r].interrupted /\ r \notin Standing
  /\ state'.lastKey = state.lastKey
  /\ state.nextRunAt # None => state'.nextRunAt = state.nextRunAt

LEMMA PastTheActive ==
  ASSUME Sole, NEW r \in RunIds, state.active = r, state'.manual \in {state.manual, None},
         PutsBehind(r) \/ PutsBack(r), NEW d \in Done(None)
  PROVE  Passes(state', d)
<1>1. /\ r # None /\ state.status # "blocked" /\ Follows(runs[r].occ, Done(r))
      /\ AsksNoneOf(state, Done(r)) /\ \A e \in Done(r) : Passes(state, e)
      /\ runs[r] \in Runs /\ runs[r] # NoRun /\ now \in Nat /\ now <= MaxTime + 1 /\ None \notin Nat
  BY BaseSays, ConstantsAssumption, NullsAssumption
  DEF Sole, OnceInv, InTime, BlockedIsOver, PastAll, ActiveIsNewest, ActiveIsEntered
<1>2. d \in Occurrences /\ d.at \in Nat /\ runs[r].occ \in Occurrences /\ runs[r].occ.at \in Nat
  BY <1>1, DoneHasCome DEF Runs, Occurrences
<1>3. d \in Done(r) \/ (Served(r) /\ d = runs[r].occ)
  BY DEF Done
<1>4. ASSUME NEW x \in Nat, x <= now PROVE NextSlot(x) # None /\ NextSlot(x) \in Nat /\ x < NextSlot(x)
  <2>1. x \in Int /\ x <= MaxTime + 1
    BY <1>1, <1>4, ConstantsAssumption
  <2>2. QED BY <2>1, NextSlotComes DEF Sole
<1>5. CASE d.manual /\ d \in Done(r)
  BY <1>1, <1>2, <1>5 DEF AsksNoneOf, Passes
<1>6. CASE d.manual /\ d = runs[r].occ /\ Served(r)
  BY <1>1, <1>6 DEF PutsBehind, PutsBack, Passes, Served
<1>7. CASE ~d.manual /\ PutsBack(r)
  <2>1. d \in Done(r)
    BY <1>3, <1>7 DEF PutsBack, Served
  <2>2. QED BY <1>1, <1>7, <2>1 DEF Passes, PutsBack
<1>8. CASE ~d.manual /\ PutsBehind(r)
  <2>1. CASE runs[r].occ.manual
    <3>1. d \in Done(r)
      BY <1>3, <1>8, <2>1
    <3>2. QED BY <1>1, <1>8, <2>1, <3>1 DEF Passes, PutsBehind
  <2>2. CASE ~runs[r].occ.manual
    <3>1. PICK x \in Nat : runs[r].occ.at <= x /\ x <= now /\ state'.nextRunAt = NextSlot(x)
      BY <1>8, <2>2 DEF PutsBehind
    <3>2. d.at <= runs[r].occ.at
      <4>1. d \in Done(r) => d.manual = runs[r].occ.manual
        BY <1>2, <1>8, <2>2 DEF Occurrences
      <4>2. QED BY <1>1, <1>2, <1>3, <1>8, <2>2, <4>1 DEF Follows
    <3>3. NextSlot(x) # None /\ NextSlot(x) \in Nat /\ x < NextSlot(x)
      BY <1>4, <3>1
    <3>4. state'.nextRunAt # None /\ d.at < state'.nextRunAt
      BY <1>2, <3>1, <3>2, <3>3
    <3>5. QED BY <1>8, <3>4 DEF Passes
  <2>3. QED BY <2>1, <2>2
<1>9. QED BY <1>3, <1>5, <1>6, <1>7, <1>8

LEMMA SettlesOnce ==
  ASSUME Sole, NEW w \in Windows, NEW j \in Jobs, UNCHANGED <<now, runs, saved, sent, soft>>,
         NEW r \in RunIds, state.active = r, state' \in States, state'.active = None,
         state'.manual \in {state.manual, None},
         win'[w].pc = "idle" \/ \E q \in Seq(Windows) : Decide(w, j, state', q),
         state'.status = "blocked" \/ PutsBehind(r) \/ PutsBack(r)
  PROVE  OnceInv'
<1>1. Base /\ Recurring
  BY DEF Sole
<1>2. state'.status # "blocked" => \A d \in Done(None) : Passes(state', d)
  BY PastTheActive
<1>3. Done(None)' = Done(None) /\ \A q : Done(q)' = Done(q)
  BY DEF Done, Served, Ran, Standing
<1>4. Done(state.active)' = Done(None)
  BY DEF Done, Served, Ran, Standing
<1>5. PastAll' /\ ActiveIsNewest' /\ BlockedIsOver'
  BY <1>2, <1>4 DEF PastAll, ActiveIsNewest, BlockedIsOver
<1>6. DoneOnce' /\ \A q \in RunIds : Booked(q)'
  BY <1>3 DEF Sole, OnceInv, DoneOnce, Booked, Covered, Served, Ran, Standing
<1>7. now <= MaxTime + 1 /\ (state'.manual # None => state'.manual <= now)
  BY DEF Sole, OnceInv, InTime
<1>8. Careful(w)' /\ (win'[w].pc \in Decided => win'[w].occ.at <= now)
  <2>1. CASE win'[w].pc = "idle"
    BY <2>1, RestIsCareful
  <2>2. ASSUME NEW q \in Seq(Windows), Decide(w, j, state', q)
        PROVE  Careful(w)' /\ (win'[w].pc \in Decided => win'[w].occ.at <= now)
    <3>1. /\ win'[w].pc \in {"idle", "saving", "lockRun"}
          /\ state'.status = "blocked" => win'[w].pc = "idle"
      BY <1>1, <2>2, DecisionRests
    <3>2. PICK D : D = Done(None)
      OBVIOUS
    <3>3. \A d \in D : d \in Occurrences /\ d.at <= now
      BY <3>2, DoneHasCome
    <3>4. /\ win'[w].pc = "lockRun" =>
               /\ win'[w].occ.at <= now
               /\ state'.lastKey = win'[w].occ \/ (Follows(win'[w].occ, D) /\ AsksNoneOf(state', D))
          /\ win'[w].pc = "saving" =>
               win'[w].next # None /\ \A d \in D : ~d.manual => d.at < win'[w].next
      BY <1>1, <1>2, <1>7, <2>2, <3>2, <3>3, DecisionIsNew
    <3>5. D = Done(state.active)' /\ D = Done(None)'
      BY <1>3, <1>4, <3>2
    <3>6. ChoosesNew(w)'
      BY <3>4, <3>5 DEF ChoosesNew, AsksNoneOf
    <3>7. QED BY <3>1, <3>4, <3>6 DEF Careful, Proceeds, TakesBack, InProgress, Decided
  <2>3. QED BY <2>1, <2>2
<1>9. InTime'
  BY <1>7, <1>8 DEF Sole, OnceInv, InTime, SingleWindow
<1>10. QED BY <1>5, <1>6, <1>8, <1>9 DEF OnceInv, Sole, SingleWindow

\* Which slot is waited for after a run.
LEMMA ClosedWaits ==
  ASSUME state \in States, NEW occ \in Occurrences, NEW failed \in BOOLEAN, NEW end \in Times
  PROVE  /\ occ.manual => Closed(occ, failed, end).nextRunAt = state.nextRunAt
         /\ ~occ.manual => Closed(occ, failed, end).nextRunAt = NextSlot(LookFrom(occ.at, end))
<1> DEFINE next == IF occ.manual THEN state.nextRunAt ELSE NextSlot(LookFrom(occ.at, end))
<1>1. Closed(occ, failed, end).nextRunAt = next
  BY DEF Closed, States
<1>2. QED BY <1>1

\* A run that has ended is put behind by the state that closes it.
LEMMA ClosedPutsBehind ==
  ASSUME Sole, NEW r \in RunIds, state.active = r, runs[r].status \in Terminal,
         NEW failed \in BOOLEAN, state'.lastKey = runs[r].occ,
         state'.nextRunAt = Closed(runs[r].occ, failed, runs[r].completed).nextRunAt
  PROVE  PutsBehind(r)
<1>1. runs[r] \in Runs /\ runs[r] # NoRun /\ state \in States
  BY BaseSays, NullsAssumption, ConstantsAssumption DEF Sole, ActiveIsEntered
<1>2. /\ runs[r].occ \in Occurrences /\ runs[r].completed \in Times
      /\ runs[r].occ.at \in Nat
  BY <1>1 DEF Runs, Occurrences
<1>3. /\ runs[r].completed # None /\ runs[r].occ.at <= runs[r].completed
      /\ runs[r].completed <= now /\ runs[r].occ.at <= now
  BY <1>1 DEF Sole, OnceInv, Booked, Covered, InTime
<1>4. /\ LookFrom(runs[r].occ.at, runs[r].completed) \in Nat
      /\ runs[r].occ.at <= LookFrom(runs[r].occ.at, runs[r].completed)
      /\ LookFrom(runs[r].occ.at, runs[r].completed) <= now
  BY <1>2, <1>3 DEF LookFrom, Times
<1>5. QED BY <1>1, <1>2, <1>4, ClosedWaits DEF PutsBehind

LEMMA FinishOnce ==
  ASSUME Sole, NEW w \in Windows, Finish(w)
  PROVE  OnceInv'
<1>0. PICK r \in RunIds : r = win[w].run
  BY FinishDoes DEF Sole
<1>1. /\ Base /\ win[w].pc = "finishing" /\ runs[r] \in Runs /\ win[w].job \in Jobs
      /\ UNCHANGED <<now, runs, saved, sent, soft>> /\ state \in States
  BY <1>0, FinishDoes, BaseSays DEF Sole
<1>2. /\ state.active = r /\ state.pending = win[w].occ.at /\ runs[r].occ = win[w].occ
      /\ runs[r].status \in Terminal
  BY <1>0, <1>1 DEF Sole, OnceInv, Careful, Proceeds, InProgress
<1>3. /\ win'[w].pc = "idle"
      /\ Save(w, Finished(runs[r], FailedRun(runs[r]))) \/ UNCHANGED <<state, fresh>>
  BY <1>0, <1>1, <1>2, FinishDoes, RestTyped
<1>4. CASE UNCHANGED <<state, fresh>>
  BY <1>1, <1>3, <1>4, RestIsCareful, LedgerRests, LedgerSays DEF SameWishes, Covered
<1>5. CASE Save(w, Finished(runs[r], FailedRun(runs[r])))
  <2> DEFINE failed == FailedRun(runs[r])
             new == Finished(runs[r], failed)
             closed == Closed(runs[r].occ, failed, runs[r].completed)
  <2>1. failed \in BOOLEAN
    BY DEF FailedRun
  <2>2. runs[r].occ \in Occurrences /\ runs[r].completed \in Times
    BY <1>1 DEF Runs
  <2>3. Save(w, new)
    BY <1>5
  <2>4. new = [closed EXCEPT !.manual = None]
    BY DEF Finished
  <2> HIDE DEF failed
  <2>5. /\ new \in States /\ new.active = None /\ new.lastKey = runs[r].occ /\ new.manual = None
    BY <1>1, <2>1, FinishedTyped
  <2>6. closed \in States
    BY <1>1, <2>1, <2>2, ClosedTyped
  <2> HIDE DEF new, closed
  <2>7. new.nextRunAt = closed.nextRunAt
    BY <2>4, <2>6 DEF States
  <2>8. /\ state' \in States /\ state'.active = None /\ state'.lastKey = runs[r].occ
        /\ state'.manual = None /\ state'.nextRunAt = closed.nextRunAt
    BY <1>1, <2>3, <2>5, <2>7, SaveTyped DEF Base
  <2>9. PutsBehind(r)
    BY <1>2, <2>1, <2>8, ClosedPutsBehind DEF closed
  <2>10. QED BY <1>1, <1>2, <1>3, <2>8, <2>9, SettlesOnce
<1>6. QED BY <1>3, <1>4, <1>5

LEMMA SaveRecoveryOnce ==
  ASSUME Sole, NEW w \in Windows, SaveRecovery(w)
  PROVE  OnceInv'
<1>0. PICK r \in RunIds : r = win[w].run
  BY BaseSays DEF Sole, SaveRecovery, Knows, Inside
<1>1. /\ Base /\ win[w].pc = "recovered" /\ Holds(w) /\ runs[r] \in Runs /\ runs[r] # NoRun
      /\ UNCHANGED <<now, runs, saved, sent, soft>> /\ win[w].job \in Jobs /\ state \in States
      /\ now \in Nat
  BY <1>0, BaseSays, NullsAssumption DEF Sole, SaveRecovery, HasPlace, Knows, Inside, Holds
<1>2. /\ state.active = r
      /\ win[w].outcome = "over" => runs[r].status \in Terminal
      /\ win[w].outcome = "replay" => runs[r].interrupted /\ r \notin Standing
  BY <1>0, <1>1 DEF Sole, OnceInv, Careful, TakesBack
<1>3. CASE ~CanSave(w)
  <2>1. UNCHANGED state /\ win'[w].pc = "idle"
    BY <1>1, <1>3, BaseSays, RestTyped DEF SaveRecovery
  <2>2. QED BY <1>1, <2>1, RestIsCareful, LedgerRests, LedgerSays DEF SameWishes, Covered
<1>4. CASE CanSave(w)
  <2>1. Save(w, Recovered(w)) /\ Decide(w, win[w].job, state', Tail(locks))
    BY <1>4 DEF SaveRecovery
  <2>2. /\ Recovered(w) \in States /\ Recovered(w).active = None
        /\ Recovered(w).manual = state.manual
        /\ win[w].outcome = "over" => Recovered(w).lastKey = runs[r].occ
        /\ win[w].outcome # "over" => Recovered(w).lastKey = state.lastKey
    BY <1>0, <1>1, RecoveredTyped
  <2>3. /\ state' \in States /\ state'.active = None /\ state'.lastKey = Recovered(w).lastKey
        /\ state'.status = Recovered(w).status /\ state'.manual = state.manual
        /\ state'.nextRunAt = Recovered(w).nextRunAt
    BY <1>1, <2>1, <2>2, SaveTyped, SaveKeepsStatus DEF Base
  <2>4. Tail(locks) \in Seq(Windows)
    BY <1>1, BaseSays DEF Holds
  <2>5. CASE win[w].outcome = "over"
    <3> DEFINE failed == FailedRun(runs[r])
    <3>1. failed \in BOOLEAN
      BY DEF FailedRun
    <3>2. Recovered(w) = Closed(runs[r].occ, failed, runs[r].completed)
      BY <1>0, <2>5 DEF Recovered, FailedRun
    <3> HIDE DEF failed
    <3>3. PutsBehind(r)
      BY <1>2, <2>2, <2>3, <2>5, <3>1, <3>2, ClosedPutsBehind
    <3>4. QED BY <1>1, <1>2, <2>1, <2>3, <2>4, <3>3, SettlesOnce
  <2>6. CASE win[w].outcome = "replay"
    <3>1. state.nextRunAt # None => Recovered(w).nextRunAt = state.nextRunAt
      BY <1>1, <2>6 DEF Recovered, States
    <3>2. PutsBack(r)
      BY <1>2, <2>2, <2>3, <2>6, <3>1 DEF PutsBack
    <3>3. QED BY <1>1, <1>2, <2>1, <2>3, <2>4, <3>2, SettlesOnce
  <2>7. CASE win[w].outcome \notin {"over", "replay"}
    <3>1. Recovered(w).status = "blocked"
      BY <1>1, <2>7 DEF Recovered, States
    <3>2. QED BY <1>1, <1>2, <2>1, <2>3, <2>4, <3>1, SettlesOnce
  <2>8. QED BY <2>5, <2>6, <2>7
<1>5. QED BY <1>3, <1>4

----------------------------------------------------------------------------
\* The user and the clock.

\* A request names a time nobody has asked for yet.
LEMMA RequestOnce ==
  ASSUME Sole, RequestRun
  PROVE  OnceInv'
<1>1. /\ Base /\ UNCHANGED <<now, runs, saved, sent, soft, win>> /\ state \in States
      /\ state.active = None /\ state.status # "blocked" /\ ~Requested(now)
      /\ now \in Nat /\ now # None /\ now <= MaxTime + 1 /\ None \notin RunIds
  BY BaseSays, ConstantsAssumption DEF Sole, OnceInv, InTime, RequestRun
<1>2. /\ state'.active = None /\ state'.lastKey = state.lastKey /\ state'.manual = now
      /\ state'.status = "idle"
      /\ state'.nextRunAt = IF state.saved THEN state.nextRunAt ELSE NextSlot(now)
  <2>1. job.rev \in Nat
    BY <1>1, BaseSays DEF Jobs
  <2>2. QED BY <1>1, <2>1 DEF RequestRun, States
<1>3. /\ \A q : Done(q)' = Done(q)
      /\ Done(state.active)' = Done(None)
  BY <1>1, <1>2 DEF Done, Served, Ran, Standing
<1>4. ASSUME NEW d \in Done(None), d.manual PROVE now # d.at
  <2>1. PICK q \in RunIds : Served(q) /\ d = runs[q].occ
    BY DEF Done
  <2>2. d \in Occurrences
    BY DoneHasCome
  <2>3. now = d.at => d = [at |-> now, manual |-> TRUE]
    BY <1>4, <2>2 DEF Occurrences
  <2>4. QED BY <1>1, <2>1, <2>3 DEF Requested, Served, Ran, Standing
<1>5. ASSUME NEW d \in Done(None) PROVE Passes(state', d)
  <2>1. Passes(state, d)
    BY <1>1 DEF Sole, OnceInv, PastAll
  <2>2. d.at \in Nat /\ d.at <= now
    BY DoneHasCome
  <2>3. NextSlot(now) \in Nat /\ now < NextSlot(now) /\ NextSlot(now) # None
    BY <1>1, NextSlotComes DEF Sole
  <2>4. QED BY <1>1, <1>2, <1>4, <2>1, <2>2, <2>3 DEF Passes
<1>6. PastAll' /\ ActiveIsNewest' /\ BlockedIsOver'
  BY <1>2, <1>3, <1>5 DEF PastAll, ActiveIsNewest, BlockedIsOver
<1>7. DoneOnce' /\ InTime' /\ \A q \in RunIds : Booked(q)'
  BY <1>1, <1>2, <1>3 DEF Sole, OnceInv, DoneOnce, InTime, Booked, Covered, Served, Ran, Standing
<1>8. ASSUME NEW v \in Windows PROVE Careful(v)'
  <2>1. Careful(v) /\ Knows(v)
    BY <1>1, BaseSays DEF Sole, OnceInv
  <2>2. win[v].pc \notin InProgress \cup {"recovering", "recovered"}
    BY <1>1, <2>1 DEF Careful, Proceeds, TakesBack, InProgress, Knows, Inside
  <2>3. ChoosesNew(v)'
    <3>1. AsksNoneOf(state', Done(None))
      BY <1>2, <1>4 DEF AsksNoneOf
    <3>2. ASSUME win[v].pc = "lockRun"
          PROVE  state'.lastKey = win[v].occ \/ Follows(win[v].occ, Done(None))
      BY <1>1, <1>2, <2>1, <3>2 DEF Careful, ChoosesNew
    <3>3. ASSUME win[v].pc = "saving"
          PROVE  win[v].next # None /\ \A d \in Done(None) : ~d.manual => d.at < win[v].next
      BY <1>1, <2>1, <3>3 DEF Careful, ChoosesNew
    <3>4. win'[v] = win[v] /\ Done(None)' = Done(None)
      BY <1>1, <1>3
    <3>5. QED BY <1>2, <1>3, <3>1, <3>2, <3>3, <3>4 DEF ChoosesNew, AsksNoneOf
  <2>4. Proceeds(v)'
    <3>1. CASE win[v].pc = "queued"
      <4>1. /\ runs[win[v].run].occ = win[v].occ /\ runs[win[v].run].status = "queued"
            /\ Follows(win[v].occ, Done(win[v].run))
        BY <2>1, <3>1 DEF Careful, Proceeds
      <4>2. Done(win[v].run) \subseteq Done(None)
        BY <1>1 DEF Done
      <4>3. AsksNoneOf(state', Done(win[v].run))
        BY <1>2, <1>4, <4>2 DEF AsksNoneOf
      <4>4. Done(win[v].run)' = Done(win[v].run)
        BY <1>1 DEF Done, Served, Ran, Standing
      <4>5. QED BY <1>1, <1>2, <3>1, <4>1, <4>3, <4>4 DEF Proceeds, InProgress, AsksNoneOf
    <3>2. CASE win[v].pc # "queued"
      BY <1>1, <2>2, <3>2 DEF Proceeds, InProgress
    <3>3. QED BY <3>1, <3>2
  <2>5. TakesBack(v)'
    BY <1>1, <2>2 DEF TakesBack
  <2>6. QED BY <1>2, <2>3, <2>4, <2>5 DEF Careful
<1>9. QED BY <1>6, <1>7, <1>8 DEF OnceInv

\* What neither the user nor the clock nor a stutter disturbs.
LEMMA NothingHappens ==
  ASSUME Sole, UNCHANGED <<state, runs, saved, sent, soft, win>>, now' \in Nat, now <= now',
         now' <= MaxTime + 1
  PROVE  OnceInv'
<1>1. \A q : Done(q)' = Done(q)
  BY DEF Done, Served, Ran, Standing
<1>2. Done(state.active)' = Done(state.active) /\ \A v \in Windows : Done(win[v].run)' = Done(win[v].run)
  BY DEF Done, Served, Ran, Standing
<1>3. PastAll' /\ ActiveIsNewest' /\ DoneOnce' /\ BlockedIsOver'
  BY <1>1, <1>2 DEF Sole, OnceInv, PastAll, ActiveIsNewest, DoneOnce, BlockedIsOver, Served, Ran, Standing
<1>4. /\ now \in Nat /\ runs \in [RunIds -> Runs \cup {NoRun}] /\ state \in States
      /\ None \notin Nat /\ \A v \in Windows : Knows(v)
  BY BaseSays, ConstantsAssumption DEF Sole
<1>5. InTime'
  <2>1. \A r \in RunIds : runs[r] # NoRun => runs[r].occ.at \in Nat /\ runs[r].occ.at <= now
    BY <1>4 DEF Sole, OnceInv, InTime, Runs, Occurrences
  <2>2. \A v \in Windows : win[v].pc \in Decided => win[v].occ.at \in Nat /\ win[v].occ.at <= now
    BY <1>4 DEF Sole, OnceInv, InTime, Knows, Occurrences
  <2>3. state.manual # None => state.manual \in Nat /\ state.manual <= now
    BY <1>4 DEF Sole, OnceInv, InTime, States, Times
  <2>4. QED BY <1>4, <2>1, <2>2, <2>3 DEF InTime
<1>6. \A r \in RunIds : Booked(r)'
  <2> SUFFICES ASSUME NEW r \in RunIds PROVE Booked(r)'
    OBVIOUS
  <2>1. runs[r] # NoRun /\ runs[r].completed # None => runs[r].completed \in Nat
    BY <1>4 DEF Runs, Times
  <2>2. QED BY <1>4, <2>1 DEF Sole, OnceInv, Booked, Covered, Ran
<1>7. \A v \in Windows : Careful(v)'
  BY <1>1, <1>2
  DEF Sole, OnceInv, Careful, ChoosesNew, Proceeds, TakesBack, InProgress, AsksNoneOf, Standing
<1>8. QED BY <1>3, <1>5, <1>6, <1>7 DEF OnceInv

----------------------------------------------------------------------------
\* The invariant is inductive.

LEMMA InitOnce == Init => OnceInv
<1> SUFFICES ASSUME Init PROVE OnceInv
  OBVIOUS
<1>1. /\ sent = {} /\ state.active = None /\ state.status = "idle" /\ state.manual = None
      /\ now = 1 /\ \A r \in RunIds : runs[r] = NoRun
      /\ \A w \in Windows : win[w].pc = "idle"
  BY RestTyped DEF Init, NoState
<1>2. InTime
  BY <1>1, ConstantsAssumption DEF InTime, Decided
<1>3. \A r : Done(r) = {}
  BY <1>1 DEF Done, Served, Ran, Standing
<1>4. PastAll /\ ActiveIsNewest /\ DoneOnce /\ BlockedIsOver
  BY <1>1, <1>3 DEF PastAll, ActiveIsNewest, DoneOnce, BlockedIsOver
<1>5. \A r \in RunIds : Booked(r)
  BY <1>1 DEF Booked, Covered
<1>6. \A w \in Windows : Careful(w)
  BY <1>1 DEF Careful, ChoosesNew, Proceeds, TakesBack, InProgress
<1>7. QED BY <1>2, <1>4, <1>5, <1>6 DEF OnceInv

LEMMA NextOnce ==
  ASSUME Sole, [Next]_vars
  PROVE  OnceInv'
<1>1. CASE Toggle \/ UNCHANGED vars
  <2>1. UNCHANGED <<now, state, runs, saved, sent, soft, win>>
    BY <1>1 DEF Toggle, vars, disk
  <2>2. now \in Nat /\ now <= MaxTime + 1
    BY BaseSays DEF Sole, OnceInv, InTime
  <2>3. QED BY <2>1, <2>2, NothingHappens
<1>2. CASE Tick
  <2>1. UNCHANGED <<state, runs, saved, sent, soft, win>> /\ now' = now + 2 /\ now + 2 <= MaxTime
    BY <1>2 DEF Tick, disk
  <2>2. now \in Nat /\ MaxTime \in Nat
    BY BaseSays, ConstantsAssumption DEF Sole
  <2>3. now' \in Nat /\ now <= now' /\ now' <= MaxTime + 1
    BY <2>1, <2>2
  <2>4. QED BY <2>1, <2>3, NothingHappens
<1>3. CASE ~(World \/ UNCHANGED vars)
  BY <1>3, StepsAre, ScanOnce, SaveNextOnce, RecoverOnce, RecoverDeliveryOnce,
     SaveRecoveryOnce, TurnBackOnce, EnqueueOnce, ActivateOnce, StartOnce, AgentOnce,
     DeliverOnce, CloseOnce, FinishOnce, CrashOnce
<1>4. QED BY <1>1, <1>2, <1>3, RequestOnce DEF World

LEMMA OnceFollows ==
  ASSUME OnceInv, sent \subseteq RunIds
  PROVE  SlotRunsOnce /\ AnswerOnce
<1>1. ASSUME NEW r \in RunIds, NEW q \in RunIds, r # q, Served(r), Served(q)
      PROVE  runs[r].occ # runs[q].occ
  <2>1. runs[q].occ \in Done(r)
    BY <1>1 DEF Done
  <2>2. QED BY <1>1, <2>1 DEF OnceInv, DoneOnce
<1>2. \A r \in Standing : r \in RunIds /\ Served(r)
  BY DEF OnceInv, Booked, Covered, Served, Standing
<1>3. QED BY <1>1, <1>2 DEF SlotRunsOnce, AnswerOnce, Served

\* On a device with one window, and for a job whose trigger always has a later slot,
\* nothing is done twice, be it a slot or a request of the user: unless a run was taken
\* for interrupted before its answer was out for good (after it only if its tools were
\* stopped and it had no final checkpoint), no other run has its occurrence.  This holds
\* whatever catchUp and overlap say, whenever the user switches the job or asks for a run,
\* and however often and between whatever steps the window is killed.
THEOREM NothingIsDoneTwice ==
  ASSUME SingleWindow, Recurring
  PROVE  Spec => [](DoneOnce /\ SlotRunsOnce /\ AnswerOnce)
<1>1. Init => RunInv /\ OnceInv
  BY InitRun, InitOnce
<1>2. Base /\ RunInv /\ OnceInv /\ [Next]_vars => RunInv' /\ OnceInv'
  BY NextRun, NextOnce DEF Sole
<1>3. Base /\ OnceInv => DoneOnce /\ SlotRunsOnce /\ AnswerOnce
  BY OnceFollows, BaseSays DEF OnceInv
<1>4. QED BY <1>1, <1>2, <1>3, AlwaysBase, PTL DEF Spec

----------------------------------------------------------------------------
\* The job implements JobLedger, for any number of windows.

\* What the ledger says of a run: only a run that failed was taken for interrupted,
\* and one that succeeded was delivered before it was closed.
Consistent(run) ==
  /\ run.interrupted => run.status = "failed"
  /\ run.status = "succeeded" => run.delivery # "none"
LedgerIsConsistent == \A r \in RunIds : runs[r] # NoRun => Consistent(runs[r])

\* How the run a window works on, and the active one, stand at each step of it.
Abides(w) ==
  /\ win[w].pc = "queued" => state.active = None
  /\ win[w].pc = "claimed" => runs[win[w].run].status = "queued"
  /\ win[w].pc \in {"executing", "delivering", "closing"} => runs[win[w].run].status = "running"
  /\ win[w].pc = "closing" /\ win[w].outcome = "succeeded" => win[w].delivery # "none"
  /\ win[w].pc = "finishing" => runs[win[w].run].status \in Terminal
  /\ win[w].pc \in {"recovering", "recovered"} =>
       state.active = win[w].run /\ runs[win[w].run].status \in Terminal
LedgerInv == LedgerIsConsistent /\ \A w \in Windows : Abides(w)
\* What a step may start from.
Keeping == Base /\ RunInv /\ LedgerInv

\* A step that leaves runs, active run and answers alone is none of the ledger's.
LEMMA LedgerStutters ==
  ASSUME runs' = runs, state'.active = state.active, sent' = sent
  PROVE  UNCHANGED Ledger!vars
BY DEF Ledger!vars

LEMMA PhaseMoves ==
  ASSUME runs \in [RunIds -> Runs \cup {NoRun}], NEW r \in RunIds, NEW run,
         runs' = [runs EXCEPT ![r] = run], state'.active = state.active, sent' = sent
  PROVE  Ledger!Moves(r, PhaseOf(run))
<1>1. [q \in RunIds |-> PhaseOf(runs[q])]'
        = [[q \in RunIds |-> PhaseOf(runs[q])] EXCEPT ![r] = PhaseOf(run)]
  <2>1. \A q \in RunIds : runs'[q] = IF q = r THEN run ELSE runs[q]
    OBVIOUS
  <2>2. QED BY <2>1
<1>2. QED BY <1>1 DEF Ledger!Moves

\* A consistent run shows its status, unless it was taken for interrupted.
LEMMA PhaseShows ==
  ASSUME LedgerIsConsistent, NEW r \in RunIds, runs[r] \in Runs
  PROVE  /\ Consistent(runs[r])
         /\ runs[r].status \in {"queued", "running"} => PhaseOf(runs[r]) = runs[r].status
         /\ runs[r].status \in Terminal => PhaseOf(runs[r]) \in Ledger!Over
<1>1. runs[r] # NoRun
  BY NullsAssumption
<1>2. Consistent(runs[r])
  BY <1>1 DEF LedgerIsConsistent
<1>3. QED BY <1>1, <1>2 DEF Consistent, PhaseOf, Ledger!Over, Terminal

\* What a step leaves of the invariant.
LEMMA LedgerOutside ==
  ASSUME LedgerInv, NEW w \in Windows, Outside(w)
  PROVE  LedgerInv'
<1>1. LedgerIsConsistent'
  BY DEF LedgerInv, LedgerIsConsistent, Outside
<1>2. Abides(w)'
  BY DEF Outside, Abides, Inside
<1>3. \A v \in Windows \ {w} : Abides(v)'
  BY DEF LedgerInv, Outside, Abides
<1>4. QED BY <1>1, <1>2, <1>3 DEF LedgerInv
LEMMA LedgerUnder ==
  ASSUME Base, NEW w \in Windows, Under(w), LedgerIsConsistent', Abides(w)'
  PROVE  LedgerInv'
<1>1. \A v \in Windows \ {w} : win[v].pc \notin Inside /\ win'[v] = win[v]
  BY Alone DEF Under
<1>2. \A v \in Windows \ {w} : Abides(v)'
  BY <1>1 DEF Abides, Inside
<1>3. QED BY <1>2 DEF LedgerInv
LEMMA ConsistentStays ==
  ASSUME LedgerIsConsistent, runs \in [RunIds -> Runs \cup {NoRun}], NEW r \in RunIds, NEW run,
         runs' = [runs EXCEPT ![r] = run], Consistent(run)
  PROVE  LedgerIsConsistent'
<1>1. \A q \in RunIds : runs'[q] = IF q = r THEN run ELSE runs[q]
  OBVIOUS
<1>2. QED BY <1>1 DEF LedgerIsConsistent

\* Each step keeps the invariant and is one of the ledger's or none.
KeepsOn == LedgerInv' /\ [Ledger!Next]_(Ledger!vars)

LEMMA OutsideKeepsOn ==
  ASSUME Keeping, NEW w \in Windows, Scan(w) \/ SaveNext(w) \/ Crash(w) \/ Restart(w)
  PROVE  KeepsOn
<1>1. Outside(w)
  BY OutsideSteps DEF Keeping
<1>2. sent' = sent
  BY SaveNextDoes, CrashDoes, RestartDoes DEF Keeping, Scan
<1>3. QED BY <1>1, <1>2, LedgerOutside, LedgerStutters DEF Keeping, KeepsOn, Outside

LEMMA WorldKeepsOn ==
  ASSUME Keeping, World \/ UNCHANGED vars
  PROVE  KeepsOn
<1>1. runs' = runs /\ win' = win /\ sent' = sent /\ state'.active = state.active
  BY WorldDoes DEF Keeping, vars, disk
<1>2. LedgerInv'
  BY <1>1 DEF Keeping, LedgerInv, LedgerIsConsistent, Abides
<1>3. QED BY <1>1, <1>2, LedgerStutters DEF KeepsOn

LEMMA TurnBackKeepsOn ==
  ASSUME Keeping, NEW w \in Windows, TurnBack(w)
  PROVE  KeepsOn
<1>1. Under(w) /\ win'[w].pc = "idle"
  BY TurnBackIsUnder DEF Keeping
<1>2. runs' = runs /\ sent' = sent
  BY DEF TurnBack
<1>3. state'.active = state.active
  <2>1. CASE UNCHANGED <<state, fresh>>
    BY <2>1
  <2>2. CASE Save(w, [state EXCEPT !.pending = win[w].occ.at])
    <3> DEFINE new == [state EXCEPT !.pending = win[w].occ.at]
    <3>1. win[w].occ \in Occurrences
      BY BaseSays DEF Keeping, TurnBack, Knows, Decided
    <3>2. new \in States /\ new.active = state.active
      BY <3>1, BaseSays DEF Keeping, States, Occurrences, Times
    <3> HIDE DEF new
    <3>3. Save(w, new)
      BY <2>2 DEF new
    <3>4. QED BY <3>2, <3>3, SaveTyped DEF Keeping, Base
  <2>3. QED BY <2>1, <2>2 DEF TurnBack
<1>4. LedgerIsConsistent' /\ Abides(w)'
  BY <1>1, <1>2 DEF Keeping, LedgerInv, LedgerIsConsistent, Abides
<1>5. QED BY <1>1, <1>2, <1>3, <1>4, LedgerUnder, LedgerStutters DEF Keeping, KeepsOn

LEMMA EnqueueKeepsOn ==
  ASSUME Keeping, NEW w \in Windows, Enqueue(w)
  PROVE  KeepsOn
<1>0. Base /\ LedgerIsConsistent
  BY DEF Keeping, LedgerInv
<1> DEFINE run == Entry(win[w].occ)
<1>1. /\ state.active = None /\ state' = state /\ sent' = sent /\ Under(w)
      /\ NewRun \in RunIds /\ runs[NewRun] = NoRun /\ run \in Runs
      /\ runs' = [runs EXCEPT ![NewRun] = run]
  BY <1>0, EnqueueDoes DEF Under
<1>2. win'[w].pc = "queued"
  BY <1>0, EnqueueDoes, BaseSays DEF Scans
<1>3. Consistent(run) /\ PhaseOf(run) = "queued"
  BY <1>1, NullsAssumption DEF Consistent, PhaseOf, Entry, Terminal
<1> HIDE DEF run
<1>4. LedgerIsConsistent' /\ Abides(w)'
  BY <1>0, <1>1, <1>2, <1>3, BaseSays, ConsistentStays DEF Abides
<1>5. Ledger!Enter(NewRun)
  <2>1. Ledger!Moves(NewRun, PhaseOf(run))
    BY <1>0, <1>1, BaseSays, PhaseMoves
  <2>2. PhaseOf(runs[NewRun]) = "none"
    BY <1>1 DEF PhaseOf
  <2>3. QED BY <1>1, <1>3, <2>1, <2>2 DEF Ledger!Enter
<1>6. QED BY <1>0, <1>1, <1>4, <1>5, LedgerUnder DEF KeepsOn, Ledger!Next

LEMMA ActivateKeepsOn ==
  ASSUME Keeping, NEW w \in Windows, Activate(w)
  PROVE  KeepsOn
<1>0. Base /\ LedgerIsConsistent
  BY DEF Keeping, LedgerInv
<1>1. /\ win[w].pc = "queued" /\ win[w].run \in RunIds /\ runs[win[w].run] \in Runs
      /\ runs' = runs /\ sent' = sent /\ Under(w)
  BY <1>0, ActivateDoes DEF Under
<1>2. runs[win[w].run].status = "queued" /\ state.active = None
  BY <1>1 DEF Keeping, RunInv, Mine, LedgerInv, Abides
<1>3. LedgerIsConsistent'
  BY <1>0, <1>1 DEF LedgerIsConsistent
<1>4. CASE /\ Save(w, Activated(w)) /\ Activated(w) \in States
           /\ win'[w] = [win[w] EXCEPT !.pc = "claimed"]
  <2>1. win'[w].pc = "claimed" /\ win'[w].run = win[w].run
    BY <1>0, <1>4, BaseSays DEF Scans
  <2>2. Activated(w).active = win[w].run
    BY <1>0, BaseSays DEF Activated, States
  <2>3. state'.active = win[w].run
    BY <1>0, <1>4, <2>2, SaveTyped DEF Base
  <2>4. Abides(w)'
    BY <1>1, <1>2, <2>1 DEF Abides
  <2>5. PhaseOf(runs[win[w].run]) = "queued"
    BY <1>0, <1>1, <1>2, PhaseShows
  <2>6. Ledger!Claim(win[w].run)
    BY <1>1, <1>2, <2>3, <2>5 DEF Ledger!Claim
  <2>7. QED BY <1>0, <1>1, <1>3, <2>4, <2>6, LedgerUnder DEF KeepsOn, Ledger!Next
<1>5. CASE win'[w] = Rest /\ UNCHANGED <<state, fresh>>
  <2>1. Abides(w)'
    BY <1>5, RestTyped DEF Abides
  <2>2. QED BY <1>0, <1>1, <1>3, <1>5, <2>1, LedgerUnder, LedgerStutters DEF KeepsOn
<1>6. QED BY <1>0, <1>4, <1>5, ActivateDoes

LEMMA StartKeepsOn ==
  ASSUME Keeping, NEW w \in Windows, Start(w)
  PROVE  KeepsOn
<1>0. Base /\ LedgerIsConsistent
  BY DEF Keeping, LedgerInv
<1> DEFINE r == win[w].run
           run == [runs[r] EXCEPT !.status = "running", !.started = TRUE]
<1>1. /\ win[w].pc = "claimed" /\ r \in RunIds /\ runs[r] \in Runs /\ run \in Runs
      /\ runs' = [runs EXCEPT ![r] = run] /\ state' = state /\ sent' = sent /\ Under(w)
  BY <1>0, StartDoes DEF Under
<1>2. win'[w].pc = "executing" /\ win'[w].run = r
  BY <1>0, StartDoes, BaseSays DEF Scans
<1>3. state.active = r /\ runs[r].status = "queued"
  BY <1>1 DEF Keeping, RunInv, Mine, InRun, LedgerInv, Abides
<1>4. Consistent(runs[r]) /\ PhaseOf(runs[r]) = "queued"
  BY <1>0, <1>1, <1>3, PhaseShows
<1>5. run.status = "running" /\ ~run.interrupted /\ run # NoRun
  BY <1>1, <1>3, <1>4, NullsAssumption DEF Runs, Consistent
<1>6. Consistent(run) /\ PhaseOf(run) = "running"
  BY <1>5 DEF Consistent, PhaseOf, Terminal
<1> HIDE DEF run
<1>7. LedgerIsConsistent' /\ Abides(w)'
  <2>1. runs'[r] = run
    BY <1>0, <1>1, BaseSays
  <2>2. QED BY <1>0, <1>1, <1>2, <1>5, <1>6, <2>1, BaseSays, ConsistentStays DEF Abides
<1>8. Ledger!Begin(r)
  <2>1. Ledger!Moves(r, PhaseOf(run))
    BY <1>0, <1>1, BaseSays, PhaseMoves
  <2>2. QED BY <1>1, <1>3, <1>4, <1>6, <2>1 DEF Ledger!Begin
<1>9. QED BY <1>0, <1>1, <1>7, <1>8, LedgerUnder DEF KeepsOn, Ledger!Next

LEMMA AgentKeepsOn ==
  ASSUME Keeping, NEW w \in Windows, AgentStep(w)
  PROVE  KeepsOn
<1>0. Base /\ LedgerIsConsistent
  BY DEF Keeping, LedgerInv
<1>1. /\ win[w].pc = "executing" /\ Under(w) /\ runs' = runs /\ state' = state /\ sent' = sent
      /\ win'[w].run = win[w].run /\ win'[w].pc \in {"executing", "delivering"}
  BY <1>0, AgentStepDoes DEF Under
<1>2. runs[win[w].run].status = "running"
  BY <1>1 DEF Keeping, LedgerInv, Abides
<1>3. LedgerIsConsistent' /\ Abides(w)'
  BY <1>0, <1>1, <1>2 DEF LedgerIsConsistent, Abides
<1>4. QED BY <1>0, <1>1, <1>3, LedgerUnder, LedgerStutters DEF KeepsOn

LEMMA DeliverKeepsOn ==
  ASSUME Keeping, NEW w \in Windows, Deliver(w)
  PROVE  KeepsOn
<1>0. Base /\ LedgerIsConsistent
  BY DEF Keeping, LedgerInv
<1> DEFINE r == win[w].run
<1>1. /\ win[w].pc = "delivering" /\ Under(w) /\ runs' = runs /\ state' = state
      /\ win'[w].run = r /\ win'[w].pc = "closing" /\ win'[w].outcome = win[w].outcome
  BY <1>0, DeliverDoes DEF Under
<1>2. state.active = r /\ runs[r].status = "running" /\ r \in RunIds /\ runs[r] \in Runs
  BY <1>0, <1>1, BaseSays DEF Keeping, RunInv, Mine, InRun, LedgerInv, Abides, Knows, Inside
<1>3. win[w].outcome = "succeeded" => win'[w].delivery # "none"
  <2>1. PICK d \in Deliveries(win[w].outcome) :
          win' = [win EXCEPT ![w] = [win[w] EXCEPT !.pc = "closing", !.delivery = d]]
    BY <1>0, BaseSays DEF Deliver
  <2>2. win'[w].delivery = d
    BY <1>0, <2>1, BaseSays DEF Scans
  <2>3. QED BY <2>1, <2>2 DEF Deliveries
<1>4. LedgerIsConsistent' /\ Abides(w)'
  BY <1>0, <1>1, <1>2, <1>3 DEF LedgerIsConsistent, Abides
<1>5. PhaseOf(runs[r]) = "running"
  BY <1>0, <1>2, PhaseShows
<1>6. CASE sent' = sent
  BY <1>0, <1>1, <1>4, <1>6, LedgerUnder, LedgerStutters DEF KeepsOn
<1>7. CASE sent' = sent \cup {r}
  <2>1. [q \in RunIds |-> PhaseOf(runs[q])]' = [q \in RunIds |-> PhaseOf(runs[q])]
    BY <1>1
  <2>2. Ledger!Tell(r)
    BY <1>1, <1>2, <1>5, <1>7, <2>1 DEF Ledger!Tell
  <2>3. QED BY <1>0, <1>1, <1>2, <1>4, <2>2, LedgerUnder DEF KeepsOn, Ledger!Next
<1>8. sent' \in {sent, sent \cup {r}}
  BY <1>0, BaseSays DEF Deliver
<1>9. QED BY <1>6, <1>7, <1>8

LEMMA CloseKeepsOn ==
  ASSUME Keeping, NEW w \in Windows, Close(w)
  PROVE  KeepsOn
<1>0. Base /\ LedgerIsConsistent
  BY DEF Keeping, LedgerInv
<1> DEFINE r == win[w].run
           run == ClosedRun(w)
<1>1. /\ win[w].pc = "closing" /\ Under(w) /\ r \in RunIds /\ runs[r] \in Runs
      /\ state' = state /\ sent' = sent
  BY <1>0, CloseDoes DEF Under
<1>2. /\ state.active = r /\ runs[r].status = "running" /\ win[w].outcome \in Terminal
      /\ win[w].outcome = "succeeded" => win[w].delivery # "none"
  BY <1>0, <1>1, BaseSays DEF Keeping, RunInv, Mine, InRun, LedgerInv, Abides, Knows
<1>3. Consistent(runs[r]) /\ PhaseOf(runs[r]) = "running"
  BY <1>0, <1>1, <1>2, PhaseShows
<1>4. CASE /\ runs' = [runs EXCEPT ![r] = run] /\ run \in Runs
           /\ win'[w] = [win[w] EXCEPT !.pc = "finishing"]
  <2>1. win'[w].pc = "finishing" /\ win'[w].run = r
    BY <1>0, <1>4, BaseSays DEF Scans
  <2>2. /\ run.status = win[w].outcome /\ run.delivery = win[w].delivery
        /\ ~run.interrupted /\ run # NoRun
    <3>1. ~runs[r].interrupted
      BY <1>1, <1>2, <1>3 DEF Consistent, Runs
    <3>2. QED BY <1>1, <1>4, <3>1, NullsAssumption DEF ClosedRun, Runs
  <2>3. Consistent(run) /\ PhaseOf(run) = "ended" /\ run.status \in Terminal
    BY <1>2, <2>2 DEF Consistent, PhaseOf
  <2> HIDE DEF run
  <2>4. LedgerIsConsistent' /\ Abides(w)'
    <3>1. runs'[r] = run
      BY <1>0, <1>1, <1>4, BaseSays
    <3>2. QED BY <1>0, <1>1, <1>4, <2>1, <2>3, <3>1, BaseSays, ConsistentStays DEF Abides
  <2>5. Ledger!End(r)
    <3>1. Ledger!Moves(r, PhaseOf(run))
      BY <1>0, <1>1, <1>4, BaseSays, PhaseMoves
    <3>2. QED BY <1>1, <1>2, <1>3, <2>3, <3>1 DEF Ledger!End
  <2>6. QED BY <1>0, <1>1, <2>4, <2>5, LedgerUnder DEF KeepsOn, Ledger!Next
<1>5. CASE win'[w] = Rest /\ UNCHANGED runs
  <2>1. LedgerIsConsistent' /\ Abides(w)'
    BY <1>0, <1>5, RestTyped DEF LedgerIsConsistent, Abides
  <2>2. QED BY <1>0, <1>1, <1>5, <2>1, LedgerUnder, LedgerStutters DEF KeepsOn
<1>6. QED BY <1>0, <1>4, <1>5, CloseDoes

\* The active run is over, and the job is free again.
LEMMA ActiveLeaves ==
  ASSUME Keeping, state.active \in RunIds, Active.status \in Terminal,
         runs[state.active] \in Runs, state.active # None, state'.active = None,
         runs' = runs, sent' = sent
  PROVE  Ledger!Next
<1>1. PhaseOf(Active) \in Ledger!Over
  BY PhaseShows DEF Keeping, LedgerInv, Active
<1>2. [q \in RunIds |-> PhaseOf(runs[q])]' = [q \in RunIds |-> PhaseOf(runs[q])]
  OBVIOUS
<1>3. Ledger!Leave
  BY <1>1, <1>2 DEF Ledger!Leave, Active
<1>4. QED BY <1>3 DEF Ledger!Next

LEMMA FinishKeepsOn ==
  ASSUME Keeping, NEW w \in Windows, Finish(w)
  PROVE  KeepsOn
<1>0. Base /\ LedgerIsConsistent
  BY DEF Keeping, LedgerInv
<1> DEFINE r == win[w].run
<1>1. /\ win[w].pc = "finishing" /\ Under(w) /\ r \in RunIds /\ runs[r] \in Runs
      /\ runs' = runs /\ sent' = sent /\ win'[w].pc \in {"idle", "lockRun"}
  BY <1>0, FinishDoes, RestTyped DEF Under
<1>2. runs[r].status \in Terminal
  BY <1>1 DEF Keeping, LedgerInv, Abides
<1>3. LedgerIsConsistent' /\ Abides(w)'
  BY <1>0, <1>1 DEF LedgerIsConsistent, Abides
<1>4. CASE state' = state
  BY <1>0, <1>1, <1>3, <1>4, LedgerUnder, LedgerStutters DEF KeepsOn
<1>5. CASE state.active = r /\ Save(w, Finished(runs[r], FailedRun(runs[r])))
  <2>1. FailedRun(runs[r]) \in BOOLEAN
    BY DEF FailedRun
  <2>2. /\ Finished(runs[r], FailedRun(runs[r])) \in States
        /\ Finished(runs[r], FailedRun(runs[r])).active = None
    <3> HIDE DEF r
    <3>1. QED BY <1>0, <1>1, <2>1, BaseSays, FinishedTyped
  <2>3. state'.active = None
    BY <1>0, <1>5, <2>2, SaveTyped DEF Base
  <2>4. r # None
    BY <1>1, ConstantsAssumption
  <2>5. Ledger!Next
    BY <1>1, <1>2, <1>5, <2>3, <2>4, ActiveLeaves DEF Active
  <2>6. QED BY <1>0, <1>1, <1>3, <2>5, LedgerUnder DEF KeepsOn
<1>6. QED BY <1>0, <1>4, <1>5, FinishDoes

LEMMA RecoverKeepsOn ==
  ASSUME Keeping, NEW w \in Windows, Recover(w)
  PROVE  KeepsOn
<1>0. Base /\ LedgerIsConsistent
  BY DEF Keeping, LedgerInv
<1>1. /\ Under(w) /\ state' = state /\ sent' = sent
      /\ win'[w].pc \in {"idle", "saving", "lockRun", "recovering", "recovered"}
  BY <1>0, RecoverIsUnder DEF Recover
<1>2. CASE state.active = None \/ ~Overdue
  <2>1. /\ Holds(w) /\ Decide(w, win[w].job, state, Tail(locks)) /\ runs' = runs
    BY <1>2 DEF Recover
  <2>2. Tail(locks) \in Seq(Windows)
    BY <1>0, <2>1, BaseSays DEF Holds
  <2>3. win'[w].pc \in {"idle", "saving", "lockRun"}
    BY <1>0, <2>1, <2>2, BaseSays, DecideTyped DEF Base
  <2>4. LedgerIsConsistent' /\ Abides(w)'
    BY <1>0, <2>1, <2>3 DEF LedgerIsConsistent, Abides
  <2>5. QED BY <1>0, <1>1, <2>1, <2>4, LedgerUnder, LedgerStutters DEF KeepsOn
<1>3. CASE ~(state.active = None \/ ~Overdue)
  <2> DEFINE r == state.active
  <2>1. r # None /\ r \in RunIds /\ runs[r] \in Runs
    BY <1>0, <1>3, BaseSays DEF ActiveIsEntered
  <2>2. win'[w].run = r
    <3> DEFINE over == Active.status \in Terminal
               replay == Active.status = "queued" \/ Resumable(r)
               pc == IF over THEN "recovering" ELSE "recovered"
               outcome == IF over THEN "over" ELSE IF replay THEN "replay" ELSE "block"
    <3>1. win' = [win EXCEPT ![w] = [win[w] EXCEPT !.pc = pc, !.run = r, !.outcome = outcome]]
      BY <1>0, <1>3, BaseSays DEF Recover, Scans
    <3> HIDE DEF pc, outcome, r
    <3>2. QED BY <1>0, <3>1, BaseSays DEF Scans
  <2>3. CASE Active.status \in Terminal
    <3>1. runs' = runs
      BY <1>3, <2>3 DEF Recover
    <3>2. LedgerIsConsistent' /\ Abides(w)'
      BY <1>0, <1>1, <2>2, <2>3, <3>1 DEF LedgerIsConsistent, Abides, Active
    <3>3. QED BY <1>0, <1>1, <3>1, <3>2, LedgerUnder, LedgerStutters DEF KeepsOn
  <2>4. CASE Active.status \notin Terminal
    <3> DEFINE run == Interrupted(r)
    <3>1. runs' = [runs EXCEPT ![r] = run]
      BY <1>0, <1>3, <2>1, <2>4, BaseSays DEF Recover, Interrupted, Runs
    <3>2. run.status = "failed" /\ run.interrupted /\ run # NoRun
      <4>1. run \in Runs
        BY <1>0, <2>1, BaseSays DEF Interrupted, Runs, Terminal, Times
      <4>2. QED BY <2>1, <4>1, NullsAssumption DEF Interrupted, Runs
    <3>3. Consistent(run) /\ PhaseOf(run) = "lost" /\ run.status \in Terminal
      BY <3>2 DEF Consistent, PhaseOf, Terminal
    <3>4. PhaseOf(runs[r]) \in {"queued", "running"}
      <4>1. runs[r].status \in {"queued", "running"}
        BY <2>1, <2>4 DEF Active, Runs
      <4>2. QED BY <1>0, <2>1, <4>1, PhaseShows
    <3> HIDE DEF run
    <3>5. LedgerIsConsistent' /\ Abides(w)'
      <4>1. runs'[r] = run
        BY <1>0, <2>1, <3>1, BaseSays
      <4>2. QED BY <1>0, <1>1, <2>1, <2>2, <3>1, <3>3, <4>1, BaseSays, ConsistentStays DEF Abides
    <3>6. Ledger!Lose(r)
      <4>1. Ledger!Moves(r, PhaseOf(run))
        BY <1>0, <1>1, <2>1, <3>1, BaseSays, PhaseMoves
      <4>2. QED BY <2>1, <3>3, <3>4, <4>1 DEF Ledger!Lose
    <3>7. QED BY <1>0, <1>1, <2>1, <3>5, <3>6, LedgerUnder DEF KeepsOn, Ledger!Next
  <2>5. QED BY <2>3, <2>4
<1>4. QED BY <1>2, <1>3

LEMMA RecoverDeliveryKeepsOn ==
  ASSUME Keeping, NEW w \in Windows, RecoverDelivery(w)
  PROVE  KeepsOn
<1>0. Base /\ LedgerIsConsistent
  BY DEF Keeping, LedgerInv
<1>1. /\ win[w].pc = "recovering" /\ Under(w) /\ win'[w].pc = "recovered"
      /\ win'[w].run = win[w].run /\ state' = state /\ runs' = runs
  BY <1>0, RecoverDeliveryIsUnder DEF RecoverDelivery
<1>2. /\ state.active = win[w].run /\ runs[win[w].run].status \in Terminal
      /\ win[w].run \in RunIds /\ runs[win[w].run] \in Runs
  BY <1>0, <1>1, BaseSays DEF Keeping, LedgerInv, Abides, Knows, Inside
<1>3. sent' = sent
  BY <1>0, <1>2, PhaseShows DEF RecoverDelivery, Consistent
<1>4. LedgerIsConsistent' /\ Abides(w)'
  BY <1>0, <1>1, <1>2 DEF LedgerIsConsistent, Abides
<1>5. QED BY <1>0, <1>1, <1>3, <1>4, LedgerUnder, LedgerStutters DEF KeepsOn

LEMMA SaveRecoveryKeepsOn ==
  ASSUME Keeping, NEW w \in Windows, SaveRecovery(w)
  PROVE  KeepsOn
<1>0. Base /\ LedgerIsConsistent
  BY DEF Keeping, LedgerInv
<1>1. /\ win[w].pc = "recovered" /\ Under(w) /\ runs' = runs /\ sent' = sent
      /\ win'[w].pc \in {"idle", "saving", "lockRun"}
  BY <1>0, SaveRecoveryIsUnder DEF SaveRecovery
<1>2. /\ state.active = win[w].run /\ runs[win[w].run].status \in Terminal
      /\ win[w].run \in RunIds /\ runs[win[w].run] \in Runs
  BY <1>0, <1>1, BaseSays DEF Keeping, LedgerInv, Abides, Knows, Inside
<1>3. LedgerIsConsistent' /\ Abides(w)'
  BY <1>0, <1>1 DEF LedgerIsConsistent, Abides
<1>4. CASE CanSave(w)
  <2>1. Recovered(w) \in States /\ Recovered(w).active = None
    BY <1>0, <1>2, BaseSays, RecoveredTyped
  <2>2. state'.active = None
    BY <1>0, <1>4, <2>1, SaveTyped DEF SaveRecovery, Base
  <2>3. Ledger!Next
    BY <1>1, <1>2, <2>2, ConstantsAssumption, ActiveLeaves DEF Active
  <2>4. QED BY <1>0, <1>1, <1>3, <2>3, LedgerUnder DEF KeepsOn
<1>5. CASE ~CanSave(w)
  <2>1. state' = state
    BY <1>5 DEF SaveRecovery
  <2>2. QED BY <1>0, <1>1, <1>3, <2>1, LedgerUnder, LedgerStutters DEF KeepsOn
<1>6. QED BY <1>4, <1>5

LEMMA InitLedger == Init => LedgerInv /\ Ledger!Init
<1> SUFFICES ASSUME Init PROVE LedgerInv /\ Ledger!Init
  OBVIOUS
<1>1. \A w \in Windows : win[w].pc = "idle"
  BY RestTyped DEF Init
<1>2. LedgerInv
  BY <1>1 DEF Init, LedgerInv, LedgerIsConsistent, Abides
<1>3. Ledger!Init
  BY DEF Init, NoState, PhaseOf, Ledger!Init
<1>4. QED BY <1>2, <1>3

LEMMA NextLedger ==
  ASSUME Base, RunInv, LedgerInv, [Next]_vars
  PROVE  LedgerInv' /\ [Ledger!Next]_(Ledger!vars)
<1>1. Keeping
  BY DEF Keeping
<1>2. KeepsOn
  BY <1>1, StepsAre, OutsideKeepsOn, WorldKeepsOn, RecoverKeepsOn, RecoverDeliveryKeepsOn,
     SaveRecoveryKeepsOn, TurnBackKeepsOn, EnqueueKeepsOn, ActivateKeepsOn, StartKeepsOn,
     AgentKeepsOn, DeliverKeepsOn, CloseKeepsOn, FinishKeepsOn
<1>3. QED BY <1>2 DEF KeepsOn

\* The windows together implement JobLedger, however many they are, whatever the user
\* changes and wherever one is killed: every run goes its way once, only while it holds
\* the job, and its answer goes out before it is over.
THEOREM LedgerIsKept == Spec => KeepsLedger
<1>1. Init => RunInv /\ LedgerInv /\ Ledger!Init
  BY InitRun, InitLedger
<1>2. Base /\ RunInv /\ [Next]_vars => RunInv'
  BY NextRun
<1>3. Base /\ RunInv /\ LedgerInv /\ [Next]_vars => LedgerInv' /\ [Ledger!Next]_(Ledger!vars)
  BY NextLedger
<1>4. QED BY <1>1, <1>2, <1>3, AlwaysBase, PTL DEF Spec, KeepsLedger, Ledger!Spec

=============================================================================

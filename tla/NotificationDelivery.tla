------------------------- MODULE NotificationDelivery -------------------------
(***************************************************************************)
(* Delivery of a notification (notification-center-service.ts,             *)
(* notification-center-history-store.ts): notify goes through the targets  *)
(* of an event one after the other.  For each it takes the lock of this    *)
(* event and target, looks the delivery up in the history, sends, and      *)
(* records: the file of the year under the lock of that year, then the     *)
(* index of all years under the same lock.  Windows share the files and    *)
(* the locks; each has a session memory of what it delivered.              *)
(*                                                                         *)
(* A lock is held while its callback runs: it is free again when the call  *)
(* returns, throws or dies with its window.                                *)
(***************************************************************************)
EXTENDS Integers, FiniteSets

CONSTANTS
  Windows,
  Callers,     \* who calls notify: at most one call of each is under way
  WindowOf,    \* the window of a caller
  Events,      \* events, by occurrenceKey
  Targets,     \* resolved targets
  Years,
  YearOf,      \* the year of an event's scheduledAt
  None,        \* no event, no target
  MaxFaults    \* bound: failing reads, writes and sends, windows closed or reloaded

ASSUME DeliveryAssumption ==
  /\ WindowOf \in [Callers -> Windows] /\ YearOf \in [Events -> Years]
  /\ None \notin Events \cup Targets /\ MaxFaults \in Nat
  /\ IsFiniteSet(Events) /\ IsFiniteSet(Targets)

VARIABLES
  call,      \* the call of each caller
  session,   \* successfulSessionKeys of each window
  history,   \* the records of the year files
  index,     \* yearCounts of the index file
  faults,
  seen,      \* history: what each window knows it has shown since it was opened
  crossed    \* history: two years were recorded at the same time

delivery == <<call, session, history, index, faults, seen, crossed>>

Keys == Events \X Targets
Records == [Keys -> {"none", "delivered", "failed"}]
States == [pc : {"idle", "next", "send", "record", "write", "count", "verify", "done",
                 "rejected"},
           event : Events \cup {None}, left : SUBSET Targets, target : Targets \cup {None},
           sent : BOOLEAN, file : Records \cup {<<>>}, counts : [Years -> Nat] \cup {<<>>}]
\* Faulty variant: a field is forgotten.
NoCallLacking == [pc |-> "idle", event |-> None, left |-> {}, target |-> None,
                  file |-> <<>>, counts |-> <<>>]
NoCall == [pc |-> "idle", event |-> None, left |-> {}, target |-> None,
           sent |-> FALSE, file |-> <<>>, counts |-> <<>>]

DeliveryTypeOK ==
  /\ call \in [Callers -> States]
  /\ session \in [Windows -> SUBSET Keys] /\ seen \in [Windows -> SUBSET Keys]
  /\ history \in Records /\ index \in [Years -> Nat]
  /\ faults \in 0 .. MaxFaults /\ crossed \in BOOLEAN

DeliveryInit ==
  /\ call = [c \in Callers |-> NoCall]
  /\ session = [w \in Windows |-> {}] /\ seen = [w \in Windows |-> {}]
  /\ history = [k \in Keys |-> "none"] /\ index = [y \in Years |-> 0]
  /\ faults = 0 /\ crossed = FALSE

----------------------------------------------------------------------------
At(c, pc) == call[c].pc = pc
Key(c) == <<call[c].event, call[c].target>>
Year(c) == YearOf[call[c].event]
InYear(y) == {k \in Keys : YearOf[k[1]] = y}
Put(c, new) == call' = [call EXCEPT ![c] = new]
GoTo(c, pc) == Put(c, [call[c] EXCEPT !.pc = pc])
Fault == faults < MaxFaults /\ faults' = faults + 1
Known(w, k) == session' = [session EXCEPT ![w] = @ \cup {k}]

Delivering(c) == call[c].pc \in {"send", "record", "write", "count", "verify"}
Recording(c) == call[c].pc \in {"write", "count", "verify"}

\* withNotificationLock.  Faulty variant: the years are not locked.
DeliverFree(k) == \A c \in Callers : Delivering(c) => Key(c) # k
HistoryUnlocked(y) == TRUE
HistoryFree(y) == \A c \in Callers : Recording(c) => Year(c) # y

\* notify
Start(c, event) ==
  /\ At(c, "idle")
  /\ Put(c, [NoCall EXCEPT !.pc = "next", !.event = event, !.left = Targets])
  /\ UNCHANGED <<session, history, index, faults, seen, crossed>>

\* With the lock of its next target a call looks the delivery up
\* (findNotificationDeliveryHistory): what was delivered is left alone, what
\* failed is tried again.  Faulty variant: only the session memory counts.
DeliveredHere(w, k) == k \in session[w]
Delivered(w, k) == k \in session[w] \/ history[k] = "delivered"
Takes(c, target) ==
  At(c, "next") /\ target \in call[c].left /\ DeliverFree(<<call[c].event, target>>)
Check(c, target) ==
  /\ Takes(c, target)
  /\ LET rest == [call[c] EXCEPT !.left = @ \ {target}] IN
       Put(c, IF ~Delivered(WindowOf[c], <<call[c].event, target>>)
              THEN [rest EXCEPT !.pc = "send", !.target = target]
              ELSE IF rest.left = {} THEN [rest EXCEPT !.pc = "done"] ELSE rest)
  /\ UNCHANGED <<session, history, index, faults, seen, crossed>>

\* A history that cannot be read rejects the call: its other targets are left.
CheckFails(c, target) ==
  /\ Takes(c, target) /\ <<call[c].event, target>> \notin session[WindowOf[c]] /\ Fault
  /\ Put(c, [NoCall EXCEPT !.pc = "rejected"])
  /\ UNCHANGED <<session, history, index, seen, crossed>>

\* The channel delivers, or says that it did not.
Send(c, sent) ==
  /\ At(c, "send") /\ (sent \/ faults < MaxFaults)
  /\ faults' = IF sent THEN faults ELSE faults + 1
  /\ Put(c, [call[c] EXCEPT !.pc = "record", !.sent = sent])
  /\ seen' = IF sent THEN [seen EXCEPT ![WindowOf[c]] = @ \cup {Key(c)}] ELSE seen
  /\ UNCHANGED <<session, history, index, crossed>>

----------------------------------------------------------------------------
\* recordNotificationDelivery

ReadYear(c) ==
  /\ At(c, "record") /\ HistoryFree(Year(c))
  /\ Put(c, [call[c] EXCEPT !.pc = "write",
               !.file = [history EXCEPT ![Key(c)] = IF call[c].sent THEN "delivered" ELSE "failed"]])
  /\ crossed' = (crossed \/ \E other \in Callers : Recording(other))
  /\ UNCHANGED <<session, history, index, faults, seen>>

\* The file of the year is written as a whole, then the index of all years is
\* read: no other call looks at the records of this year in between.
NewHistory(c) == [k \in Keys |-> IF k \in InYear(Year(c)) THEN call[c].file[k] ELSE history[k]]
Saved(c) == Cardinality({k \in InYear(Year(c)) : call[c].file[k] # "none"})
WriteYear(c) ==
  /\ At(c, "write") /\ history' = NewHistory(c)
  /\ Put(c, [call[c] EXCEPT !.pc = "count", !.counts = [index EXCEPT ![Year(c)] = Saved(c)]])
  /\ UNCHANGED <<session, index, faults, seen, crossed>>

\* The index of all years is written as a whole, under the lock of one.
WriteIndex(c) ==
  /\ At(c, "count") /\ index' = call[c].counts /\ GoTo(c, "verify")
  /\ UNCHANGED <<session, history, faults, seen, crossed>>

\* The call goes on with its next target, or returns.
NextTarget(c) ==
  Put(c, [NoCall EXCEPT !.pc = IF call[c].left = {} THEN "done" ELSE "next",
                        !.event = call[c].event, !.left = call[c].left])

\* A delivery is remembered when it is recorded, and when recording it failed.
\* Faulty variant: only when it is recorded.
NotRemembered(c) == UNCHANGED session
Remembered(c) == IF call[c].sent THEN Known(WindowOf[c], Key(c)) ELSE UNCHANGED session

\* validateSavedIndex: the index read back has the count just written.
Verified(c) == index[Year(c)] = Saved(c)
VerifyIndex(c) ==
  /\ At(c, "verify") /\ Verified(c)
  /\ IF call[c].sent THEN Known(WindowOf[c], Key(c)) ELSE UNCHANGED session
  /\ NextTarget(c)
  /\ UNCHANGED <<history, index, faults, seen, crossed>>

\* Reading, writing or verifying fails; what was written may be on file.
RecordFails(c, landed) ==
  /\ At(c, "record") \/ Recording(c)
  /\ \/ At(c, "verify") /\ ~Verified(c) /\ UNCHANGED faults
     \/ Fault
  /\ landed => At(c, "write")
  /\ history' = IF landed THEN NewHistory(c) ELSE history
  /\ Remembered(c) /\ NextTarget(c)
  /\ UNCHANGED <<index, seen, crossed>>

\* The caller takes note of the result.
Settle(c) ==
  /\ call[c].pc \in {"done", "rejected"} /\ Put(c, NoCall)
  /\ UNCHANGED <<session, history, index, faults, seen, crossed>>

\* A window is closed or reloaded.
Crash(w) ==
  /\ Fault
  /\ call' = [c \in Callers |-> IF WindowOf[c] = w THEN NoCall ELSE call[c]]
  /\ session' = [session EXCEPT ![w] = {}] /\ seen' = [seen EXCEPT ![w] = {}]
  /\ UNCHANGED <<history, index, crossed>>

Deliver(c) ==
  \/ \E target \in Targets : Check(c, target) \/ CheckFails(c, target)
  \/ \E sent \in BOOLEAN : Send(c, sent)
  \/ ReadYear(c) \/ WriteYear(c) \/ WriteIndex(c) \/ VerifyIndex(c)
  \/ \E landed \in BOOLEAN : RecordFails(c, landed)

----------------------------------------------------------------------------
\* Correctness

\* The lookup in the history still holds when the notification is shown: no
\* other call delivered it, is about to record it, or recorded it meanwhile.
Shows(c) == At(c, "send") /\ call'[c].pc = "record" /\ call'[c].sent
SendIsFresh ==
  [][\A c \in Callers : Shows(c) =>
       /\ history[Key(c)] # "delivered" /\ Key(c) \notin session[WindowOf[c]]
       /\ \A other \in Callers \ {c} :
            Delivering(other) /\ call[other].sent => Key(other) # Key(c)]_delivery

\* What a window has shown it never forgets, whatever fails: it is on file, in
\* the session memory, or still being recorded.
ShownIsKnown ==
  \A w \in Windows : \A k \in seen[w] :
    \/ k \in session[w] \/ history[k] = "delivered"
    \/ \E c \in Callers : WindowOf[c] = w /\ Delivering(c) /\ Key(c) = k /\ call[c].sent

\* Between recordings the index counts the records of every year, unless a
\* recording failed or died, or two years were recorded at the same time.
Count(y) == Cardinality({k \in InYear(y) : history[k] # "none"})
IndexCounts ==
  faults = 0 /\ ~crossed =>
    \A y \in Years : HistoryFree(y) => index[y] = Count(y)
=============================================================================

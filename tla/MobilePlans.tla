---------------------------- MODULE MobilePlans ----------------------------
(***************************************************************************)
(* The mobile plans of the notification center: the reminders a phone's    *)
(* operating system will show although the application is not running.     *)
(*                                                                         *)
(* A plan file on disk records, per plan key, which notification of the    *)
(* operating system stands for it.  One asynchronous queue reconciles that *)
(* file with the business data (register, save, cancel), rebuilds it on    *)
(* request, and revokes it when the membership ends; the settings page can *)
(* clear it past the queue.  Queue and clearing exclude each other by a    *)
(* lock only.  Each action below is the code between two awaits.           *)
(***************************************************************************)
EXTENDS Naturals, FiniteSets

CONSTANTS
  Keys,        \* plan keys
  Sources,     \* business modules a plan can belong to
  Providers,   \* the sources that have a registered provider
  SourceOf,    \* [Keys -> Sources]
  Payloads,    \* what a notification says and when (the payload hash)
  At,          \* [Payloads -> Nat], the minute a payload is due
  Ids,         \* notification ids of the operating system
  Faults,      \* the kinds of failure that may happen
  MaxTime,     \* bound: last minute of the clock
  MaxEdits,    \* bound: steps of the user and of the membership
  MaxFaults,   \* bound: failures in a behaviour
  NoPlan, NoPayload, NoKey, NoId

FaultKinds == {"load", "provider", "schedule", "save", "verify", "cancel",
               "history", "expiry", "crash"}

ASSUME ConstantsAssumption ==
  /\ SourceOf \in [Keys -> Sources]
  /\ Providers \subseteq Sources
  /\ At \in [Payloads -> Nat]
  /\ Faults \subseteq FaultKinds
  /\ MaxTime \in Nat /\ MaxEdits \in Nat /\ MaxFaults \in Nat

Plans == [id : Ids, payload : Payloads]

ASSUME NullsAssumption ==
  NoPlan \notin Plans /\ NoPayload \notin Payloads /\ NoId \notin Ids

PlanFiles == [Keys -> Plans \cup {NoPlan}]
Desires == [Keys -> Payloads \cup {NoPayload}]
FaultLog == [seen : Nat, leak : BOOLEAN, gap : BOOLEAN]
Notifications == [id : Ids, key : Keys, payload : Payloads]

EmptyFile == [k \in Keys |-> NoPlan]
NothingDesired == [k \in Keys |-> NoPayload]

\* A plan counts as expired only this many minutes after its time.
Grace == 1

VARIABLES
  want,        \* business data: the payload each key should announce, if any
  advanced,    \* the entitlement snapshot grants the advanced features
  enabled,     \* settings.mobile.enabled
  now,         \* the clock
  disk,        \* the plan file of this device
  os,          \* notifications the operating system still holds
  recorded,    \* keys whose delivery history says "scheduled"
  membership,  \* membershipState of the notification runtime
  timer,       \* refreshTimer is set
  requested,   \* the three request flags of the queue
  lock,        \* holder of the "mobile-plan" lock
  pc,          \* where drainReconcileQueue stands
  force, file, desired, unread, failed, asOf, todo, key, newId,
               \* local variables of reconcileInternal
  cpc, cfile,  \* where clearCurrentDeviceMobilePlans stands, what it will save
  edits,
  faults       \* the failures so far, and what they can have left behind

business == <<want, advanced, enabled, membership>>
outside == <<now, disk, os, recorded>>
queue == <<requested, pc, force>>
locals == <<file, desired, unread, failed, asOf, todo, key, newId>>
clearing == <<cpc, cfile>>
bounds == <<edits, faults>>
vars == <<business, outside, timer, queue, lock, locals, clearing, bounds>>

----------------------------------------------------------------------------
\* Types.

QueuePcs == {"idle", "lockRevoke", "revoking", "lockReconcile", "building",
             "scanning", "removing", "replacing", "adding", "recording"}
HoldingPcs == QueuePcs \ {"idle", "lockRevoke", "lockReconcile"}

\* Every variable holds a value of its kind.
TypeOK ==
  /\ want \in Desires /\ advanced \in BOOLEAN /\ enabled \in BOOLEAN
  /\ membership \in {"unknown", "ready", "unavailable"}
  /\ now \in Nat
  /\ disk \in PlanFiles /\ os \subseteq Notifications /\ recorded \subseteq Keys
  /\ timer \in BOOLEAN
  /\ requested \subseteq {"reconcile", "rebuild", "revoke"}
  /\ lock \in {"free", "queue", "clear"}
  /\ pc \in QueuePcs /\ force \in BOOLEAN
  /\ file \in PlanFiles /\ desired \in Desires
  /\ unread \subseteq Sources /\ failed \subseteq Sources
  /\ asOf \in Nat /\ todo \subseteq Keys
  /\ key \in Keys \cup {NoKey} /\ newId \in Ids \cup {NoId}
  /\ cpc \in {"idle", "lock", "saving"} /\ cfile \in PlanFiles
  /\ edits \in Nat /\ faults \in FaultLog

----------------------------------------------------------------------------
\* The operating system and the failures.

Live(id) == \E n \in os : n.id = id
UsedIds == {n.id : n \in os} \cup {newId}
             \cup {disk[k].id : k \in {j \in Keys : disk[j] # NoPlan}}
FreshIds == Ids \ UsedIds

\* Faulty variants, to test the properties: the old notification goes first;
\* a cancel that is not carried out; an id nobody checked.
CancelBeforeRegistering(k, p, id) ==
  {n \in os : n.key # k} \cup {[id |-> id, key |-> k, payload |-> p]}
CancelForgotten(ids) == os
UncheckedId == NoId

\* The operating system numbers a new notification.
FreshId == CHOOSE id \in Ids : id \notin UsedIds

\* A notification whose time has come is shown at once and not held.
HeldAfter(k, p, id) ==
  IF At[p] > now THEN os \cup {[id |-> id, key |-> k, payload |-> p]} ELSE os
Without(ids) == {n \in os : n.id \notin ids}

\* Failures after which the operating system may hold what no plan names, and
\* failures after which a plan may name what the operating system does not hold.
Leaks == {"cancel", "verify", "crash"}
Gaps == {"save", "verify", "crash"}

Fault(kind) ==
  /\ kind \in Faults
  /\ faults.seen < MaxFaults
  /\ faults' = [seen |-> faults.seen + 1, leak |-> faults.leak \/ kind \in Leaks,
                gap |-> faults.gap \/ kind \in Gaps]
NoFault == UNCHANGED faults

----------------------------------------------------------------------------
\* The request flags and the drain loop.

\* One turn of the loop: a revocation goes first and leaves the other flags;
\* otherwise both other flags are taken together, and without the membership
\* the round returns at once.
Begin(flags) ==
  IF "revoke" \in flags
  THEN /\ pc' = "lockRevoke"
       /\ requested' = flags \ {"revoke"}
       /\ force' = FALSE
  ELSE /\ requested' = {}
       /\ force' = (advanced /\ "rebuild" \in flags)
       /\ pc' = IF advanced /\ flags # {} THEN "lockReconcile" ELSE "idle"

\* ensureReconcileQueue: an idle queue starts at once, a running one will see
\* the flag when it comes round.
Request(flag) ==
  IF pc = "idle"
  THEN Begin(requested \cup {flag})
  ELSE requested' = requested \cup {flag} /\ UNCHANGED <<pc, force>>

ForgetLocals ==
  /\ file' = EmptyFile /\ desired' = NothingDesired
  /\ unread' = {} /\ failed' = {} /\ asOf' = 0
  /\ todo' = {} /\ key' = NoKey /\ newId' = NoId

\* Faulty variant: nobody waits for the lock.
WithoutLock == TRUE

\* withNotificationLock grants the lock when nobody holds it.
LockFree == lock = "free"

\* End of a round, by return or by an exception: the lock is released and the
\* loop goes on exactly when a flag is up.
EndRound ==
  /\ lock' = "free"
  /\ Begin(requested)
  /\ ForgetLocals

----------------------------------------------------------------------------
\* Triggers.

\* Faulty variant: a lost membership only asks for a refresh.
PlanActionRefreshing(state) ==
  timer' = (timer \/ state # "unknown") /\ UNCHANGED queue

\* requestMobilePlanAction
PlanAction(state) ==
  CASE state = "ready" -> timer' = TRUE /\ UNCHANGED queue
    [] state = "unavailable" -> Request("revoke") /\ UNCHANGED timer
    [] OTHER -> UNCHANGED <<timer, queue>>

User == edits < MaxEdits /\ edits' = edits + 1 /\ UNCHANGED faults

\* A task, rule or review changes; only some stores announce it.
EditData(k, p) ==
  /\ User
  /\ want[k] # p
  /\ want' = [want EXCEPT ![k] = p]
  /\ PlanAction(membership) \/ UNCHANGED <<timer, queue>>
  /\ UNCHANGED <<advanced, enabled, membership, outside, lock, locals, clearing>>

ToggleMobile ==
  /\ User
  /\ enabled' = ~enabled
  /\ PlanAction(membership)
  /\ UNCHANGED <<want, advanced, membership, outside, lock, locals, clearing>>

Rebuild ==
  /\ User
  /\ Request("rebuild")
  /\ UNCHANGED <<business, outside, timer, lock, locals, clearing>>

\* The window becomes visible, or five minutes have passed.
Periodic ==
  /\ PlanAction(membership)
  /\ UNCHANGED <<business, outside, lock, locals, clearing, bounds>>

RefreshTimer ==
  /\ timer
  /\ timer' = FALSE
  /\ Request("reconcile")
  /\ UNCHANGED <<business, outside, lock, locals, clearing, bounds>>

PremiumReady ==
  /\ ~advanced \/ membership # "ready"
  /\ advanced' = TRUE
  /\ membership' = "ready"
  /\ PlanAction("ready")
  /\ UNCHANGED <<want, enabled, outside, lock, locals, clearing, bounds>>

PremiumUnavailable ==
  /\ User
  /\ advanced
  /\ advanced' = FALSE
  /\ membership' = "unavailable"
  /\ PlanAction("unavailable")
  /\ UNCHANGED <<want, enabled, outside, lock, locals, clearing>>

\* A grant passes its validUntil: the snapshot stops granting, and the event
\* that would announce it is not sent (see Entitlement).
PremiumExpires ==
  /\ Fault("expiry")
  /\ advanced
  /\ advanced' = FALSE
  /\ UNCHANGED <<want, enabled, membership, outside, timer, queue, lock,
                 locals, clearing, edits>>

Tick ==
  /\ now < MaxTime
  /\ now' = now + 1
  /\ os' = {n \in os : At[n.payload] > now + 1}
  /\ UNCHANGED <<business, disk, recorded, timer, queue, lock, locals, clearing,
                 bounds>>

\* The process is killed and started again.  What was in memory is gone; the
\* notification runtime starts from whatever the entitlement says by then.
Restart ==
  /\ Fault("crash")
  /\ \E granted \in BOOLEAN, known \in BOOLEAN :
       /\ advanced' = (granted /\ known)
       /\ membership' = CASE ~known -> "unknown"
                          [] known /\ granted -> "ready"
                          [] OTHER -> "unavailable"
       /\ pc' = IF known /\ ~granted THEN "lockRevoke" ELSE "idle"
  /\ requested' = {} /\ force' = FALSE /\ timer' = FALSE /\ lock' = "free"
  /\ ForgetLocals
  /\ cpc' = "idle" /\ cfile' = EmptyFile
  /\ UNCHANGED <<want, enabled, outside, edits>>

----------------------------------------------------------------------------
\* reconcileInternal

\* The lock is granted, settings and plan file are read.
StartReconcile ==
  /\ pc = "lockReconcile" /\ LockFree
  /\ lock' = "queue"
  /\ file' = disk
  /\ todo' = {k \in Keys : disk[k] # NoPlan}
  /\ asOf' = now
  /\ IF enabled THEN pc' = "building" /\ unread' = Providers
                ELSE pc' = "scanning" /\ unread' = {}
  /\ UNCHANGED <<business, outside, timer, requested, force, desired, failed,
                 key, newId, clearing, bounds>>

\* Settings or plan file cannot be read.
FailToLoad ==
  /\ pc \in {"lockReconcile", "lockRevoke"} /\ LockFree
  /\ Fault("load")
  /\ EndRound
  /\ UNCHANGED <<business, outside, timer, clearing, edits>>

\* One provider answers with the plans that are still ahead; what anybody wants lies
\* within the planning horizon ...
BuildPlans(s) ==
  /\ pc = "building" /\ s \in unread
  /\ unread' = unread \ {s}
  /\ desired' = [k \in Keys |->
       IF SourceOf[k] = s /\ want[k] # NoPayload
       THEN IF At[want[k]] > asOf THEN want[k] ELSE NoPayload
       ELSE desired[k]]
  /\ UNCHANGED <<business, outside, timer, queue, lock, file, failed, asOf,
                 todo, key, newId, clearing, bounds>>

\* ... or fails, and its source is left alone in this round.
ProviderFails(s) ==
  /\ pc = "building" /\ s \in unread
  /\ Fault("provider")
  /\ unread' = unread \ {s}
  /\ failed' = failed \cup {s}
  /\ UNCHANGED <<business, outside, timer, queue, lock, file, desired, asOf,
                 todo, key, newId, clearing, edits>>

StartScan ==
  /\ pc = "building" /\ unread = {}
  /\ pc' = "scanning"
  /\ asOf' = now
  /\ UNCHANGED <<business, outside, timer, requested, force, lock, file,
                 desired, unread, failed, todo, key, newId, clearing, bounds>>

AllProvidersFailed == Providers # {} /\ failed = Providers
Expired(k) == At[file[k].payload] + Grace < asOf
Unwanted(k) == desired[k] = NoPayload
\* Faulty variant: a single failed provider does not protect its plans.
LeftAloneIfAllFail(k) == AllProvidersFailed

LeftAlone(k) == AllProvidersFailed \/ SourceOf[k] \in failed
Outdated(k) == force \/ file[k].payload # desired[k]

Scanning(k) == pc = "scanning" /\ k \in todo

\* The provider failed, or the plan is up to date: nothing is touched.
KeepPlan(k) ==
  /\ Scanning(k)
  /\ \/ LeftAlone(k)
     \/ ~Expired(k) /\ ~Unwanted(k) /\ ~Outdated(k)
  /\ todo' = todo \ {k}
  /\ desired' = [desired EXCEPT ![k] = NoPayload]
  /\ UNCHANGED <<business, outside, timer, queue, lock, file, unread, failed,
                 asOf, key, newId, clearing, bounds>>

\* cancelAndRemovePlan up to its save: an expired plan is dropped and, when
\* wanted again, registered anew in the second loop.
DropPlan(k) ==
  /\ Scanning(k) /\ ~LeftAlone(k)
  /\ Expired(k) \/ Unwanted(k)
  /\ todo' = todo \ {k}
  /\ \/ /\ NoFault
        /\ os' = Without({file[k].id})
        /\ pc' = "removing" /\ key' = k
        /\ UNCHANGED desired
     \/ /\ Fault("cancel")
        /\ desired' = [desired EXCEPT ![k] = NoPayload]
        /\ UNCHANGED <<os, pc, key>>
  /\ UNCHANGED <<business, now, disk, recorded, timer, requested, force, lock,
                 file, unread, failed, asOf, newId, clearing, edits>>

\* replaceExistingPlan up to its save: the new notification is registered.
ReplacePlan(k) ==
  /\ Scanning(k) /\ ~LeftAlone(k) /\ ~Expired(k) /\ ~Unwanted(k) /\ Outdated(k)
  /\ FreshIds # {}
  /\ newId' = FreshId
  /\ os' = HeldAfter(k, desired[k], FreshId)
  /\ pc' = "replacing" /\ key' = k /\ todo' = todo \ {k}
  /\ UNCHANGED <<business, now, disk, recorded, timer, requested, force, lock,
                 file, desired, unread, failed, asOf, clearing, bounds>>

\* scheduleAndPersist up to its save, once every recorded plan is seen.
AddPlan(k) ==
  /\ pc = "scanning" /\ todo = {} /\ desired[k] # NoPayload
  /\ FreshIds # {}
  /\ newId' = FreshId
  /\ os' = HeldAfter(k, desired[k], FreshId)
  /\ pc' = "adding" /\ key' = k
  /\ UNCHANGED <<business, now, disk, recorded, timer, requested, force, lock,
                 file, desired, unread, failed, asOf, todo, clearing, bounds>>

\* The operating system refuses to register a notification.
FailToSchedule ==
  /\ pc = "scanning"
  /\ \/ \E k \in todo : ~LeftAlone(k) /\ ~Expired(k) /\ ~Unwanted(k) /\ Outdated(k)
     \/ todo = {} /\ \E k \in Keys : desired[k] # NoPayload
  /\ IF FreshIds = {} THEN NoFault ELSE Fault("schedule")
  /\ EndRound
  /\ UNCHANGED <<business, outside, timer, clearing, edits>>

FinishReconcile ==
  /\ pc = "scanning" /\ todo = {} /\ desired = NothingDesired
  /\ EndRound
  /\ UNCHANGED <<business, outside, timer, clearing, bounds>>

\* Faulty variant: the new record is not put into the file.
SaveWithoutNewPlan == IF pc = "removing" THEN [file EXCEPT ![key] = NoPlan] ELSE file

\* The plan file the pending save will write.
NextFile ==
  CASE pc = "removing" -> [file EXCEPT ![key] = NoPlan]
    [] pc \in {"replacing", "adding"} ->
         [file EXCEPT ![key] = [id |-> newId, payload |-> desired[key]]]
    [] pc = "revoking" -> file
    [] OTHER -> disk

SaveRemoval ==
  /\ pc = "removing"
  /\ disk' = NextFile /\ file' = NextFile
  /\ pc' = "scanning" /\ key' = NoKey
  /\ UNCHANGED <<business, now, os, recorded, timer, requested, force, lock,
                 desired, unread, failed, asOf, todo, newId, clearing, bounds>>

\* The new plan is saved and read back; only then the old one is cancelled.
SaveReplacement ==
  /\ pc = "replacing"
  /\ disk' = NextFile /\ file' = NextFile
  /\ \/ NoFault /\ os' = Without({file[key].id})
     \/ Fault("cancel") /\ UNCHANGED os
  /\ desired' = [desired EXCEPT ![key] = NoPayload]
  /\ pc' = "scanning" /\ key' = NoKey /\ newId' = NoId
  /\ UNCHANGED <<business, now, recorded, timer, requested, force, lock,
                 unread, failed, asOf, todo, clearing, edits>>

SaveAddition ==
  /\ pc = "adding"
  /\ disk' = NextFile /\ file' = NextFile
  /\ desired' = [desired EXCEPT ![key] = NoPayload]
  /\ pc' = "recording" /\ newId' = NoId
  /\ UNCHANGED <<business, now, os, recorded, timer, requested, force, lock,
                 unread, failed, asOf, todo, key, clearing, bounds>>

\* A history that cannot be written does not touch the plan.
RecordDelivery ==
  /\ pc = "recording"
  /\ \/ NoFault /\ recorded' = recorded \cup {key}
     \/ Fault("history") /\ UNCHANGED recorded
  /\ pc' = "scanning" /\ key' = NoKey
  /\ UNCHANGED <<business, now, disk, os, timer, requested, force, lock, file,
                 desired, unread, failed, asOf, todo, newId, clearing, edits>>

\* A save fails, before the file is written or when it is read back; a new
\* notification is taken back, as far as the operating system allows.
FailToSave ==
  /\ pc \in {"removing", "replacing", "adding", "revoking"}
  /\ \E landed, undone \in BOOLEAN :
       /\ undone \/ (newId # NoId /\ {"save", "cancel"} \subseteq Faults)
       /\ Fault(IF landed THEN "verify" ELSE IF undone THEN "save" ELSE "cancel")
       /\ disk' = IF landed THEN NextFile ELSE disk
       /\ os' = IF undone THEN Without({newId}) ELSE os
  /\ EndRound
  /\ UNCHANGED <<business, now, recorded, timer, clearing, edits>>

----------------------------------------------------------------------------
\* revokeForPremiumLossInternal

Recorded == {k \in Keys : disk[k] # NoPlan}

\* The plans whose notification cannot be cancelled stay in the file.
StartRevocation ==
  /\ pc = "lockRevoke" /\ LockFree
  /\ \E stuck \in SUBSET Recorded :
       /\ IF stuck = {} THEN NoFault ELSE Fault("cancel")
       /\ os' = Without({disk[k].id : k \in Recorded \ stuck})
       /\ IF Recorded \ stuck = {}
          THEN EndRound
          ELSE /\ lock' = "queue" /\ pc' = "revoking"
               /\ file' = [k \in Keys |-> IF k \in stuck THEN disk[k] ELSE NoPlan]
               /\ UNCHANGED <<requested, force, desired, unread, failed, asOf,
                              todo, key, newId>>
  /\ UNCHANGED <<business, now, disk, recorded, timer, clearing, edits>>

SaveRevocation ==
  /\ pc = "revoking"
  /\ disk' = NextFile
  /\ EndRound
  /\ UNCHANGED <<business, now, os, recorded, timer, clearing, bounds>>

----------------------------------------------------------------------------
\* clearCurrentDeviceMobilePlans

RequestClear ==
  /\ User
  /\ cpc = "idle"
  /\ cpc' = "lock"
  /\ UNCHANGED <<business, outside, timer, queue, lock, locals, cfile>>

StartClear ==
  /\ cpc = "lock" /\ LockFree
  /\ \E stuck \in SUBSET Recorded :
       /\ IF stuck = {} THEN NoFault ELSE Fault("cancel")
       /\ os' = Without({disk[k].id : k \in Recorded \ stuck})
       /\ cfile' = [k \in Keys |-> IF k \in stuck THEN disk[k] ELSE NoPlan]
  /\ lock' = "clear" /\ cpc' = "saving"
  /\ UNCHANGED <<business, now, disk, recorded, timer, queue, locals, edits>>

EndClear ==
  /\ cpc = "saving"
  /\ \/ NoFault /\ disk' = cfile
     \/ Fault("save") /\ UNCHANGED disk
     \/ Fault("verify") /\ disk' = cfile
  /\ lock' = "free" /\ cpc' = "idle" /\ cfile' = EmptyFile
  /\ UNCHANGED <<business, now, os, recorded, timer, queue, locals, edits>>

FailToLoadForClear ==
  /\ cpc = "lock" /\ LockFree
  /\ Fault("load")
  /\ cpc' = "idle"
  /\ UNCHANGED <<business, outside, timer, queue, lock, locals, cfile, edits>>

----------------------------------------------------------------------------
Init ==
  /\ want \in Desires
  /\ advanced = TRUE /\ enabled = TRUE /\ membership = "ready"
  /\ now = 0
  /\ disk = EmptyFile /\ os = {} /\ recorded = {}
  /\ timer = FALSE /\ requested = {} /\ lock = "free"
  /\ pc = "idle" /\ force = FALSE
  /\ file = EmptyFile /\ desired = NothingDesired
  /\ unread = {} /\ failed = {} /\ asOf = 0
  /\ todo = {} /\ key = NoKey /\ newId = NoId
  /\ cpc = "idle" /\ cfile = EmptyFile
  /\ edits = 0 /\ faults = [seen |-> 0, leak |-> FALSE, gap |-> FALSE]

Environment ==
  \/ \E k \in Keys, p \in Payloads \cup {NoPayload} : EditData(k, p)
  \/ ToggleMobile \/ Rebuild \/ RequestClear
  \/ PremiumReady \/ PremiumUnavailable \/ PremiumExpires
  \/ Tick \/ Restart

ScanStep ==
  \E k \in Keys : KeepPlan(k) \/ DropPlan(k) \/ ReplacePlan(k) \/ AddPlan(k)

QueueStep ==
  \/ StartReconcile \/ FailToLoad
  \/ \E s \in Sources : BuildPlans(s) \/ ProviderFails(s)
  \/ StartScan \/ ScanStep \/ FailToSchedule
  \/ SaveRemoval \/ SaveReplacement \/ SaveAddition \/ RecordDelivery
  \/ FailToSave \/ FinishReconcile
  \/ StartRevocation \/ SaveRevocation

ClearStep == StartClear \/ EndClear \/ FailToLoadForClear

Next == Environment \/ Periodic \/ RefreshTimer \/ QueueStep \/ ClearStep

\* Promises are settled, timers and the five-minute interval fire; nothing
\* obliges the user, the membership or the clock.
Fairness ==
  /\ WF_vars(QueueStep) /\ WF_vars(ClearStep)
  /\ WF_vars(RefreshTimer) /\ WF_vars(Periodic)

Spec == Init /\ [][Next]_vars
FairSpec == Spec /\ Fairness
----------------------------------------------------------------------------
\* Properties.

\* The lock really serialises the queue and the clearing: whoever is about to
\* write the plan file holds the lock and writes from what the file holds now,
\* so no record another one saved is lost or brought back
\* (withNotificationLock around every load ... save of the plan file).
NoLostUpdate ==
  /\ lock = "queue" <=> pc \in HoldingPcs
  /\ lock = "clear" <=> cpc = "saving"
  /\ pc \in HoldingPcs \ {"revoking"} => file = disk
  /\ pc = "revoking" => \A k \in Keys : file[k] \in {disk[k], NoPlan}
  /\ cpc = "saving" => \A k \in Keys : cfile[k] \in {disk[k], NoPlan}

Names(k, n) == disk[k] # NoPlan /\ disk[k].id = n.id

Listed == \A n \in os : Names(n.key, n) \/ (n.id = newId /\ n.key = key)

\* Every notification the operating system holds can still be cancelled: the
\* plan file names it, or the round that registered it is about to save it.
\* Hence no key is announced twice (replaceExistingPlan, scheduleAndPersist).
\* A failed cancel, a failed reading back and a kill break this for good.
Accounted == ~faults.leak => Listed

TakesAwayLast ==
  \A n \in os \ os' :
    /\ At[n.payload] > now'
    /\ "replacing" \in {pc, pc'}
    /\ n.id # newId
    => /\ disk'[n.key] # NoPlan /\ disk'[n.key].id = newId
       /\ (\E m \in os' : m.id = newId) \/ At[disk'[n.key].payload] <= now'

\* A replacement never takes the old notification away before the plan file
\* names the new one, and the new one is held or due; in particular not when
\* saving fails (replaceExistingPlan: register, save and read back, cancel).
ReplaceBeforeCancel == [][TakesAwayLast]_vars

LeavesFailedAlone ==
  \A k \in Keys :
    pc \in HoldingPcs \ {"building", "revoking"} /\ SourceOf[k] \in failed
    => /\ disk'[k] = disk[k]
       /\ \A n \in os \ os' : n.key = k => At[n.payload] <= now'

\* A round in which a provider failed changes neither the plans of its source
\* nor the notifications behind them, whatever else fails in that round
\* (reconcileInternal, failedSources and allProvidersFailed).
FailedSourceUntouched == [][LeavesFailedAlone]_vars

RecordsOnlySaved ==
  \A k \in recorded' \ recorded :
    /\ disk[k] # NoPlan
    /\ Live(disk[k].id) \/ At[disk[k].payload] <= now

\* The history calls a reminder scheduled only when the plan behind it is
\* saved under a notification the operating system holds, or has shown
\* (scheduleAndPersist: recordNotificationDelivery after persistPlanFile).
RecordedAfterSaved == [][RecordsOnlySaved]_vars

Ahead(k) == want[k] # NoPayload /\ At[want[k]] > now
Armed(k) == \E n \in os : n.key = k /\ n.payload = want[k]
MissesNothing == \A k \in Keys : Ahead(k) => Armed(k)
NothingStale == \A n \in os : want[n.key] = n.payload

\* Once the user leaves the data alone, the operating system holds exactly the
\* reminders the data ask for; none while mobile reminders are off or the
\* membership is lost.  It does so in spite of providers, files and the
\* operating system failing for a while; a failed save may leave a plan without
\* its notification, a failed cancel a notification without its plan.  Whatever
\* failed, a lost membership empties the plan file (handlePremiumUnavailable,
\* then each periodic trigger).
Converges ==
  <>[](/\ advanced /\ membership = "ready" /\ enabled =>
            (faults.gap \/ MissesNothing) /\ (faults.leak \/ NothingStale)
       /\ (advanced /\ membership = "ready" /\ ~enabled) \/ membership = "unavailable"
            => faults.leak \/ os = {}
       /\ membership = "unavailable" => disk = EmptyFile)

\* What the documentation says and the code does not do (see README): a
\* notification that could not be cancelled stays on file to be retried
\* (replaceExistingPlan).
CancelStaysRetryable ==
  pc = "idle" /\ cpc = "idle" => \A n \in os : Names(n.key, n)
=============================================================================

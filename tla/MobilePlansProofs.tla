------------------------- MODULE MobilePlansProofs -------------------------
(***************************************************************************)
(* Proofs about MobilePlans for every set of keys, sources, payloads and   *)
(* ids, every choice of failures and every bound: the types, the lock on   *)
(* the plan file, the order of a replacement, the plans of a failed        *)
(* provider, the delivery history, and (when cancelling and reading back   *)
(* do not fail and the process does not die) that no notification leaks.   *)
(***************************************************************************)
EXTENDS MobilePlans, TLAPS

\* A round that has something to save knows its key, and a round that has
\* registered a notification knows its id and its payload.
InFlight ==
  /\ pc \in {"removing", "replacing", "adding", "recording"} => key \in Keys
  /\ pc \in {"replacing", "adding"} => newId \in Ids /\ desired[key] \in Payloads

TypeInv == TypeOK /\ InFlight

LEMMA FreshIdIsAnId ==
  FreshIds # {} => FreshId \in Ids /\ FreshId \notin UsedIds
BY DEF FreshIds, FreshId

LEMMA EmptyFileType == EmptyFile \in PlanFiles
BY DEF EmptyFile, PlanFiles

LEMMA NothingDesiredType == NothingDesired \in Desires
BY DEF NothingDesired, Desires

\* What one turn of the loop leaves behind.
LEMMA BeginType ==
  ASSUME NEW flags, flags \subseteq {"reconcile", "rebuild", "revoke"},
         advanced \in BOOLEAN, Begin(flags)
  PROVE  /\ pc' \in {"idle", "lockRevoke", "lockReconcile"}
         /\ requested' \subseteq {"reconcile", "rebuild", "revoke"}
         /\ force' \in BOOLEAN
BY DEF Begin

\* A request moves an idle queue only.
LEMMA RequestType ==
  ASSUME TypeOK, NEW flag \in {"reconcile", "rebuild", "revoke"}, Request(flag)
  PROVE  /\ \/ pc = "idle" /\ pc' \in {"idle", "lockRevoke", "lockReconcile"}
            \/ pc' = pc
         /\ pc' \in QueuePcs
         /\ requested' \subseteq {"reconcile", "rebuild", "revoke"}
         /\ force' \in BOOLEAN
<1>1. requested \cup {flag} \subseteq {"reconcile", "rebuild", "revoke"}
  BY DEF TypeOK
<1>2. CASE pc = "idle"
  <2>1. Begin(requested \cup {flag})
    BY <1>2 DEF Request
  <2>2. QED BY <1>1, <1>2, <2>1, BeginType DEF TypeOK, QueuePcs
<1>3. CASE pc # "idle"
  BY <1>1, <1>3 DEF Request, TypeOK
<1>4. QED BY <1>2, <1>3

LEMMA PlanActionType ==
  ASSUME TypeOK, NEW state, PlanAction(state)
  PROVE  /\ \/ pc = "idle" /\ pc' \in {"idle", "lockRevoke", "lockReconcile"}
            \/ pc' = pc
         /\ pc' \in QueuePcs
         /\ requested' \subseteq {"reconcile", "rebuild", "revoke"}
         /\ force' \in BOOLEAN
         /\ timer' \in BOOLEAN
<1>1. CASE state = "ready"
  BY <1>1 DEF PlanAction, queue, TypeOK
<1>2. CASE state = "unavailable"
  <2>1. Request("revoke") /\ timer' = timer
    BY <1>2 DEF PlanAction
  <2>2. QED BY <2>1, RequestType DEF TypeOK
<1>3. CASE state # "ready" /\ state # "unavailable"
  BY <1>3 DEF PlanAction, queue, TypeOK
<1>4. QED BY <1>1, <1>2, <1>3

LEMMA EndRoundType ==
  ASSUME TypeOK, EndRound
  PROVE  /\ lock' = "free"
         /\ pc' \in {"idle", "lockRevoke", "lockReconcile"}
         /\ requested' \subseteq {"reconcile", "rebuild", "revoke"}
         /\ force' \in BOOLEAN
         /\ file' \in PlanFiles /\ desired' \in Desires
         /\ unread' = {} /\ failed' = {} /\ asOf' = 0
         /\ todo' = {} /\ key' = NoKey /\ newId' = NoId
<1>1. Begin(requested) /\ ForgetLocals /\ lock' = "free"
  BY DEF EndRound
<1>2. requested \subseteq {"reconcile", "rebuild", "revoke"} /\ advanced \in BOOLEAN
  BY DEF TypeOK
<1>3. /\ pc' \in {"idle", "lockRevoke", "lockReconcile"}
      /\ requested' \subseteq {"reconcile", "rebuild", "revoke"}
      /\ force' \in BOOLEAN
  BY <1>1, <1>2, BeginType
<1>4. QED BY <1>1, <1>3, EmptyFileType, NothingDesiredType DEF ForgetLocals

LEMMA FaultType ==
  ASSUME faults \in FaultLog, NEW kind, Fault(kind) \/ NoFault
  PROVE  faults' \in FaultLog
<1>1. CASE NoFault
  BY <1>1 DEF NoFault
<1>2. CASE Fault(kind)
  <2>1. faults' = [seen |-> faults.seen + 1, leak |-> faults.leak \/ kind \in Leaks,
                   gap |-> faults.gap \/ kind \in Gaps]
    BY <1>2 DEF Fault
  <2>2. faults.seen + 1 \in Nat
    BY DEF FaultLog
  <2>3. (faults.leak \/ kind \in Leaks) \in BOOLEAN /\ (faults.gap \/ kind \in Gaps) \in BOOLEAN
    BY Zenon
  <2>4. QED BY <2>1, <2>2, <2>3, Zenon DEF FaultLog
<1>3. QED BY <1>1, <1>2

LEMMA NextFileType ==
  ASSUME TypeInv
  PROVE  NextFile \in PlanFiles
<1>1. CASE pc = "removing"
  BY <1>1 DEF NextFile, TypeInv, TypeOK, PlanFiles
<1>2. CASE pc \in {"replacing", "adding"}
  <2>1. [id |-> newId, payload |-> desired[key]] \in Plans
    BY <1>2 DEF TypeInv, InFlight, Plans
  <2>2. QED BY <1>2, <2>1 DEF NextFile, TypeInv, TypeOK, PlanFiles
<1>3. CASE pc \notin {"removing", "replacing", "adding"}
  BY <1>3 DEF NextFile, TypeInv, TypeOK
<1>4. QED BY <1>1, <1>2, <1>3

LEMMA HeldAfterType ==
  ASSUME TypeOK, NEW k \in Keys, NEW p \in Payloads, NEW id \in Ids
  PROVE  HeldAfter(k, p, id) \subseteq Notifications
BY DEF HeldAfter, TypeOK, Notifications

\* Groups of actions by what they touch: what the environment does ...
LEMMA EnvironmentKeepsTypes ==
  ASSUME TypeInv, Environment \/ Periodic \/ RefreshTimer
  PROVE  TypeInv'
<1> USE DEF TypeInv, InFlight
<1>1. ASSUME NEW k \in Keys, NEW p \in Payloads \cup {NoPayload}, EditData(k, p)
      PROVE  TypeInv'
  <2>1. [want EXCEPT ![k] = p] \in Desires
    BY <1>1 DEF TypeOK, Desires
  <2>2. CASE PlanAction(membership)
    BY <1>1, <2>1, <2>2, PlanActionType
       DEF EditData, User, TypeOK, outside, locals, clearing
  <2>3. CASE UNCHANGED <<timer, queue>>
    BY <1>1, <2>1, <2>3
       DEF EditData, User, TypeOK, outside, locals, clearing, queue
  <2>4. QED BY <1>1, <2>2, <2>3 DEF EditData
<1>2. CASE ToggleMobile
  <2>1. PlanAction(membership)
    BY <1>2 DEF ToggleMobile
  <2>2. QED BY <1>2, <2>1, PlanActionType
            DEF ToggleMobile, User, TypeOK, outside, locals, clearing
<1>3. CASE Rebuild
  <2>1. Request("rebuild")
    BY <1>3 DEF Rebuild
  <2>2. QED BY <1>3, <2>1, RequestType
            DEF Rebuild, User, TypeOK, business, outside, locals, clearing
<1>4. CASE RequestClear
  BY <1>4 DEF RequestClear, User, TypeOK, business, outside, queue, locals
<1>5. CASE PremiumReady
  <2>1. PlanAction("ready")
    BY <1>5 DEF PremiumReady
  <2>2. QED BY <1>5, <2>1, PlanActionType
            DEF PremiumReady, TypeOK, outside, locals, clearing, bounds
<1>6. CASE PremiumUnavailable
  <2>1. PlanAction("unavailable")
    BY <1>6 DEF PremiumUnavailable
  <2>2. /\ advanced' \in BOOLEAN /\ membership' = "unavailable"
        /\ UNCHANGED <<want, enabled, outside, lock, locals, clearing, faults>>
    BY <1>6 DEF PremiumUnavailable, User
  <2>3. edits' \in Nat
    BY <1>6 DEF PremiumUnavailable, User, TypeOK
  <2>4. QED BY <2>1, <2>2, <2>3, PlanActionType
            DEF TypeOK, outside, locals, clearing
<1>7. CASE PremiumExpires
  <2>1. /\ advanced' \in BOOLEAN
        /\ UNCHANGED <<want, enabled, membership, outside, timer, queue, lock,
                       locals, clearing, edits>>
    BY <1>7 DEF PremiumExpires
  <2>2. faults' \in FaultLog
    BY <1>7, FaultType DEF PremiumExpires, TypeOK
  <2>3. QED BY <2>1, <2>2 DEF TypeOK, outside, queue, locals, clearing
<1>8. CASE Tick
  BY <1>8 DEF Tick, TypeOK, business, queue, locals, clearing, bounds
<1>9. CASE Restart
  <2>1. pc' \in {"idle", "lockRevoke"} /\ advanced' \in BOOLEAN
        /\ membership' \in {"unknown", "ready", "unavailable"}
    BY <1>9 DEF Restart
  <2>2. faults' \in FaultLog
    BY <1>9, FaultType DEF Restart, TypeOK
  <2>3. /\ requested' = {} /\ force' = FALSE /\ timer' = FALSE /\ lock' = "free"
        /\ ForgetLocals
        /\ cpc' = "idle" /\ cfile' = EmptyFile
        /\ UNCHANGED <<want, enabled, outside, edits>>
    BY <1>9 DEF Restart
  <2>4. QED BY <2>1, <2>2, <2>3, EmptyFileType, NothingDesiredType
            DEF ForgetLocals, TypeOK, outside, QueuePcs
<1>10. CASE Periodic
  <2>1. PlanAction(membership)
    BY <1>10 DEF Periodic
  <2>2. QED BY <1>10, <2>1, PlanActionType
            DEF Periodic, TypeOK, business, outside, locals, clearing, bounds
<1>11. CASE RefreshTimer
  <2>1. Request("reconcile")
    BY <1>11 DEF RefreshTimer
  <2>2. QED BY <1>11, <2>1, RequestType, ZenonT(40)
            DEF RefreshTimer, TypeOK, business, outside, locals, clearing, bounds
<1>12. QED BY <1>1, <1>2, <1>3, <1>4, <1>5, <1>6, <1>7, <1>8, <1>9, <1>10, <1>11
           DEF Environment

\* ... a round up to its first registration or cancelling ...
LEMMA ReadingKeepsTypes ==
  ASSUME TypeInv,
         \/ StartReconcile \/ FailToLoad \/ StartScan
         \/ \E s \in Sources : BuildPlans(s) \/ ProviderFails(s)
  PROVE  TypeInv'
<1> USE DEF TypeInv, InFlight
<1>1. CASE StartReconcile
  BY <1>1, EmptyFileType, ConstantsAssumption
     DEF StartReconcile, TypeOK, business, outside, clearing, bounds, QueuePcs
<1>2. CASE FailToLoad
  BY <1>2, EndRoundType, FaultType
     DEF FailToLoad, TypeOK, business, outside, clearing, QueuePcs
<1>3. CASE StartScan
  BY <1>3 DEF StartScan, TypeOK, business, outside, clearing, bounds, QueuePcs
<1>4. ASSUME NEW s \in Sources, BuildPlans(s)
      PROVE  TypeInv'
  <2>1. desired' \in Desires
    BY <1>4 DEF BuildPlans, TypeOK, Desires
  <2>2. QED BY <1>4, <2>1
            DEF BuildPlans, TypeOK, business, outside, queue, clearing, bounds
<1>5. ASSUME NEW s \in Sources, ProviderFails(s)
      PROVE  TypeInv'
  BY <1>5, FaultType DEF ProviderFails, TypeOK, business, outside, queue, clearing
<1>6. QED BY <1>1, <1>2, <1>3, <1>4, <1>5

\* ... its scan of the recorded and the missing plans ...
LEMMA ScanningKeepsTypes ==
  ASSUME TypeInv, ScanStep \/ FailToSchedule \/ FinishReconcile
  PROVE  TypeInv'
<1> USE DEF TypeInv, InFlight
<1>1. ASSUME NEW k \in Keys, KeepPlan(k)
      PROVE  TypeInv'
  <2>1. desired' \in Desires
    BY <1>1 DEF KeepPlan, TypeOK, Desires
  <2>2. pc = "scanning"
    BY <1>1 DEF KeepPlan, Scanning
  <2>3. QED BY <1>1, <2>1, <2>2
            DEF KeepPlan, TypeOK, business, outside, queue, clearing, bounds
<1>2. ASSUME NEW k \in Keys, DropPlan(k)
      PROVE  TypeInv'
  <2>1. /\ pc = "scanning" /\ desired' \in Desires /\ todo' \subseteq Keys
        /\ faults' \in FaultLog
        /\ \/ pc' = "removing" /\ key' = k /\ os' \subseteq os
           \/ pc' = "scanning" /\ key' = key /\ os' = os
    BY <1>2, FaultType DEF DropPlan, Scanning, Without, TypeOK, Desires
  <2>2. QED BY <1>2, <2>1
            DEF DropPlan, TypeOK, business, clearing, QueuePcs
<1>3. ASSUME NEW k \in Keys, ReplacePlan(k)
      PROVE  TypeInv'
  <2>1. desired[k] \in Payloads
    BY <1>3 DEF ReplacePlan, Unwanted, TypeOK, Desires
  <2>2. FreshId \in Ids /\ os' \subseteq Notifications
    BY <1>3, <2>1, FreshIdIsAnId, HeldAfterType DEF ReplacePlan
  <2>3. QED BY <1>3, <2>1, <2>2
            DEF ReplacePlan, TypeOK, business, clearing, bounds, QueuePcs
<1>4. ASSUME NEW k \in Keys, AddPlan(k)
      PROVE  TypeInv'
  <2>1. desired[k] \in Payloads
    BY <1>4 DEF AddPlan, TypeOK, Desires
  <2>2. FreshId \in Ids /\ os' \subseteq Notifications
    BY <1>4, <2>1, FreshIdIsAnId, HeldAfterType DEF AddPlan
  <2>3. QED BY <1>4, <2>1, <2>2
            DEF AddPlan, TypeOK, business, clearing, bounds, QueuePcs
<1>5. CASE FailToSchedule
  <2>1. EndRound /\ faults' \in FaultLog
    BY <1>5, FaultType DEF FailToSchedule, TypeOK
  <2>2. QED BY <1>5, <2>1, EndRoundType
            DEF FailToSchedule, TypeOK, business, outside, clearing, QueuePcs
<1>6. CASE FinishReconcile
  BY <1>6, EndRoundType
     DEF FinishReconcile, TypeOK, business, outside, clearing, bounds, QueuePcs
<1>7. QED BY <1>1, <1>2, <1>3, <1>4, <1>5, <1>6 DEF ScanStep

\* ... its saves ...
LEMMA SavingKeepsTypes ==
  ASSUME TypeInv,
         \/ SaveRemoval \/ SaveReplacement \/ SaveAddition \/ RecordDelivery
         \/ FailToSave
  PROVE  TypeInv'
<1> USE DEF TypeInv, InFlight
<1>1. CASE SaveRemoval
  BY <1>1, NextFileType
     DEF SaveRemoval, TypeOK, business, clearing, bounds, QueuePcs
<1>2. CASE SaveReplacement
  <2>1. /\ desired' \in Desires /\ faults' \in FaultLog /\ os' \subseteq Notifications
    BY <1>2, FaultType DEF SaveReplacement, Without, TypeOK, Desires
  <2>2. QED BY <1>2, <2>1, NextFileType
            DEF SaveReplacement, TypeOK, business, clearing, QueuePcs
<1>3. CASE SaveAddition
  <2>1. desired' \in Desires
    BY <1>3 DEF SaveAddition, TypeOK, Desires
  <2>2. QED BY <1>3, <2>1, NextFileType
            DEF SaveAddition, TypeOK, business, clearing, bounds, QueuePcs
<1>4. CASE RecordDelivery
  <2>1. recorded' \subseteq Keys /\ faults' \in FaultLog
    BY <1>4, FaultType DEF RecordDelivery, TypeOK
  <2>2. QED BY <1>4, <2>1
            DEF RecordDelivery, TypeOK, business, clearing, QueuePcs
<1>5. CASE FailToSave
  <2>1. disk' \in PlanFiles /\ faults' \in FaultLog /\ os' \subseteq Notifications
    BY <1>5, NextFileType, FaultType DEF FailToSave, Without, TypeOK
  <2>2. EndRound
    BY <1>5 DEF FailToSave
  <2>3. QED BY <1>5, <2>1, <2>2, EndRoundType
            DEF FailToSave, TypeOK, business, clearing, QueuePcs
<1>6. QED BY <1>1, <1>2, <1>3, <1>4, <1>5

\* ... and the two operations that cancel everything.
LEMMA CancellingKeepsTypes ==
  ASSUME TypeInv, StartRevocation \/ SaveRevocation \/ ClearStep
  PROVE  TypeInv'
<1> USE DEF TypeInv, InFlight
<1>1. CASE StartRevocation
  <2>1. PICK stuck \in SUBSET Recorded :
          /\ IF stuck = {} THEN NoFault ELSE Fault("cancel")
          /\ os' = Without({disk[k].id : k \in Recorded \ stuck})
          /\ IF Recorded \ stuck = {}
             THEN EndRound
             ELSE /\ lock' = "queue" /\ pc' = "revoking"
                  /\ file' = [k \in Keys |-> IF k \in stuck THEN disk[k] ELSE NoPlan]
                  /\ UNCHANGED <<requested, force, desired, unread, failed,
                                 asOf, todo, key, newId>>
    BY <1>1 DEF StartRevocation
  <2>2. faults' \in FaultLog /\ os' \subseteq Notifications
    BY <2>1, FaultType DEF Without, TypeOK
  <2>3. CASE Recorded \ stuck = {}
    BY <1>1, <2>1, <2>2, <2>3, EndRoundType
       DEF StartRevocation, TypeOK, business, clearing, QueuePcs
  <2>4. CASE Recorded \ stuck # {}
    <3>1. file' \in PlanFiles
      BY <2>1, <2>4 DEF TypeOK, PlanFiles
    <3>2. QED BY <1>1, <2>1, <2>2, <2>4, <3>1
              DEF StartRevocation, TypeOK, business, clearing, QueuePcs
  <2>5. QED BY <2>3, <2>4
<1>2. CASE SaveRevocation
  BY <1>2, NextFileType, EndRoundType
     DEF SaveRevocation, TypeOK, business, clearing, bounds, QueuePcs
<1>3. CASE StartClear
  <2>1. cfile' \in PlanFiles /\ faults' \in FaultLog /\ os' \subseteq Notifications
    BY <1>3, FaultType DEF StartClear, Without, TypeOK, PlanFiles
  <2>2. QED BY <1>3, <2>1 DEF StartClear, TypeOK, business, queue, locals
<1>4. CASE EndClear
  <2>1. disk' \in PlanFiles /\ faults' \in FaultLog
    BY <1>4, FaultType DEF EndClear, TypeOK
  <2>2. QED BY <1>4, <2>1, EmptyFileType
            DEF EndClear, TypeOK, business, queue, locals
<1>5. CASE FailToLoadForClear
  BY <1>5, FaultType DEF FailToLoadForClear, TypeOK, business, outside, queue, locals
<1>6. QED BY <1>1, <1>2, <1>3, <1>4, <1>5 DEF ClearStep

LEMMA InitTypes == Init => TypeInv
<1> SUFFICES ASSUME Init PROVE TypeInv
  OBVIOUS
<1>1. advanced \in BOOLEAN /\ enabled \in BOOLEAN /\ timer \in BOOLEAN
      /\ force \in BOOLEAN
  BY DEF Init
<1>2. TypeOK
  BY <1>1, EmptyFileType, NothingDesiredType DEF Init, TypeOK, QueuePcs, FaultLog
<1>3. InFlight
  BY DEF Init, InFlight
<1>4. QED BY <1>2, <1>3 DEF TypeInv

LEMMA NextKeepsTypes == TypeInv /\ [Next]_vars => TypeInv'
<1> SUFFICES ASSUME TypeInv, [Next]_vars PROVE TypeInv'
  OBVIOUS
<1>1. CASE Environment \/ Periodic \/ RefreshTimer
  BY <1>1, EnvironmentKeepsTypes
<1>2. CASE QueueStep
  BY <1>2, ReadingKeepsTypes, ScanningKeepsTypes, SavingKeepsTypes,
     CancellingKeepsTypes DEF QueueStep
<1>3. CASE ClearStep
  BY <1>3, CancellingKeepsTypes
<1>4. CASE UNCHANGED vars
  BY <1>4 DEF vars, business, outside, queue, locals, clearing, bounds,
              TypeInv, TypeOK, InFlight
<1>5. QED BY <1>1, <1>2, <1>3, <1>4 DEF Next

LEMMA TypeInvHolds == Spec => []TypeInv
<1>1. QED BY InitTypes, NextKeepsTypes, PTL DEF Spec

\* Every variable of the plan manager always holds a value of its kind; in
\* particular every record saved to the plan file names an id and a payload.
THEOREM TypeCorrect == Spec => []TypeOK
<1>1. TypeInv => TypeOK
  BY DEF TypeInv
<1>2. QED BY <1>1, TypeInvHolds, PTL

----------------------------------------------------------------------------
\* What the steps outside a round may do to the plans.

WaitingPcs == {"idle", "lockRevoke", "lockReconcile"}

\* User, membership, triggers and clock: they move an idle queue at most to
\* the lock, and a notification vanishes only by being shown.
LEMMA EnvironmentEffect ==
  ASSUME TypeInv, Environment \/ Periodic \/ RefreshTimer, ~Restart
  PROVE  /\ UNCHANGED <<disk, recorded, lock, locals, cfile>>
         /\ pc' = pc \/ (pc \in WaitingPcs /\ pc' \in WaitingPcs)
         /\ cpc' = cpc \/ (cpc = "idle" /\ cpc' = "lock")
         /\ os' \subseteq os /\ now' >= now
         /\ \A n \in os \ os' : At[n.payload] <= now'
<1> USE DEF TypeInv, WaitingPcs
<1>t. TypeOK /\ now \in Nat
  BY DEF TypeOK
<1>1. ASSUME NEW k \in Keys, NEW p \in Payloads \cup {NoPayload}, EditData(k, p)
      PROVE  /\ UNCHANGED <<outside, lock, locals, clearing>>
             /\ pc' = pc \/ (pc \in WaitingPcs /\ pc' \in WaitingPcs)
  <2>1. UNCHANGED <<outside, lock, locals, clearing>>
    BY <1>1 DEF EditData
  <2>2. PlanAction(membership) \/ UNCHANGED <<timer, queue>>
    BY <1>1 DEF EditData
  <2>3. QED BY <1>t, <2>1, <2>2, PlanActionType DEF queue
<1>2. CASE ToggleMobile \/ PremiumReady \/ PremiumUnavailable \/ Periodic
  <2>1. /\ UNCHANGED <<outside, lock, locals, clearing>>
        /\ \E state : PlanAction(state)
    BY <1>2 DEF ToggleMobile, PremiumReady, PremiumUnavailable, Periodic
  <2>2. QED BY <1>t, <2>1, PlanActionType
            DEF outside, clearing
<1>3. CASE Rebuild \/ RefreshTimer
  <2>1. /\ UNCHANGED <<outside, lock, locals, clearing>>
        /\ Request("rebuild") \/ Request("reconcile")
    BY <1>3 DEF Rebuild, RefreshTimer
  <2>2. QED BY <1>t, <2>1, RequestType
            DEF outside, clearing
<1>4. CASE RequestClear
  BY <1>t, <1>4 DEF RequestClear, outside, queue
<1>5. CASE PremiumExpires
  BY <1>t, <1>5 DEF PremiumExpires, outside, queue, clearing
<1>6. CASE Tick
  <2>1. /\ UNCHANGED <<disk, recorded, lock, locals, clearing, queue>>
        /\ now' = now + 1 /\ os' = {n \in os : At[n.payload] > now + 1}
    BY <1>6 DEF Tick
  <2>2. \A n \in os : At[n.payload] \in Nat
    BY ConstantsAssumption DEF TypeOK, Notifications
  <2>3. \A n \in os \ os' : At[n.payload] <= now'
    BY <1>t, <2>1, <2>2
  <2>4. QED BY <1>t, <2>1, <2>3 DEF queue, clearing
<1>7. QED
  BY <1>t, <1>1, <1>2, <1>3, <1>4, <1>5, <1>6
     DEF Environment, outside, clearing

LEMMA RestartEffect ==
  ASSUME Restart
  PROVE  /\ UNCHANGED outside
         /\ pc' \in WaitingPcs /\ lock' = "free" /\ cpc' = "idle"
         /\ newId' = NoId
BY DEF Restart, ForgetLocals, WaitingPcs

\* A round ends in a waiting state with nothing in flight.
LEMMA EndRoundEffect ==
  ASSUME TypeOK, EndRound
  PROVE  pc' \in WaitingPcs /\ lock' = "free" /\ newId' = NoId
BY EndRoundType DEF WaitingPcs

----------------------------------------------------------------------------
\* The lock.

LEMMA InitLock == Init => NoLostUpdate
BY DEF Init, NoLostUpdate, HoldingPcs

\* A waiting queue and an idle clearing satisfy every clause about them.
LEMMA NextKeepsLock ==
  ASSUME TypeInv, NoLostUpdate, [Next]_vars
  PROVE  NoLostUpdate'
<1> USE DEF TypeInv
<1>1. CASE (Environment \/ Periodic \/ RefreshTimer) /\ ~Restart
  BY <1>1, EnvironmentEffect
     DEF NoLostUpdate, locals, WaitingPcs, HoldingPcs, QueuePcs
<1>2. CASE Restart
  BY <1>2, RestartEffect DEF NoLostUpdate, WaitingPcs, HoldingPcs, QueuePcs
<1>3. ASSUME EndRound, pc \in HoldingPcs \/ LockFree, UNCHANGED cpc
      PROVE  NoLostUpdate'
  BY <1>3, EndRoundEffect
     DEF NoLostUpdate, LockFree, WaitingPcs, HoldingPcs, QueuePcs
<1>4. CASE FailToLoad \/ FailToSchedule \/ FinishReconcile \/ FailToSave
           \/ SaveRevocation
  <2>1. EndRound /\ UNCHANGED cpc
    BY <1>4 DEF FailToLoad, FailToSchedule, FinishReconcile, FailToSave,
                SaveRevocation, clearing
  <2>2. pc \in HoldingPcs \/ LockFree
    BY <1>4 DEF FailToLoad, FailToSchedule, FinishReconcile, FailToSave,
                SaveRevocation, HoldingPcs, QueuePcs
  <2>3. QED BY <1>3, <2>1, <2>2
<1>5. CASE StartReconcile
  BY <1>5 DEF StartReconcile, LockFree, NoLostUpdate, HoldingPcs, QueuePcs,
              outside, clearing
<1>6. ASSUME NEW s \in Sources, BuildPlans(s) \/ ProviderFails(s)
      PROVE  NoLostUpdate'
  BY <1>6 DEF BuildPlans, ProviderFails, NoLostUpdate, outside, queue, clearing
<1>7. CASE StartScan
  BY <1>7 DEF StartScan, NoLostUpdate, HoldingPcs, QueuePcs, outside, clearing
<1>8. ASSUME NEW k \in Keys,
             KeepPlan(k) \/ DropPlan(k) \/ ReplacePlan(k) \/ AddPlan(k)
      PROVE  NoLostUpdate'
  <2>1. /\ pc = "scanning" /\ pc' \in HoldingPcs \ {"revoking"}
        /\ UNCHANGED <<disk, file, lock, cpc, cfile>>
    BY <1>8 DEF KeepPlan, DropPlan, ReplacePlan, AddPlan, Scanning, queue,
                outside, clearing, HoldingPcs, QueuePcs
  <2>2. QED BY <2>1 DEF NoLostUpdate, HoldingPcs, QueuePcs
<1>9. CASE SaveRemoval \/ SaveReplacement \/ SaveAddition \/ RecordDelivery
  <2>1. /\ pc \in HoldingPcs \ {"revoking"} /\ pc' \in HoldingPcs \ {"revoking"}
        /\ UNCHANGED <<lock, cpc, cfile>>
        /\ file' = disk' \/ UNCHANGED <<file, disk>>
    BY <1>9 DEF SaveRemoval, SaveReplacement, SaveAddition, RecordDelivery,
                clearing, HoldingPcs, QueuePcs
  <2>2. QED BY <2>1 DEF NoLostUpdate
<1>10. CASE StartRevocation
  <2>1. /\ LockFree /\ UNCHANGED <<disk, cpc, cfile>>
        /\ \/ EndRound
           \/ /\ lock' = "queue" /\ pc' = "revoking"
              /\ \A k \in Keys : file'[k] \in {disk[k], NoPlan}
    BY <1>10 DEF StartRevocation, clearing
  <2>2. CASE EndRound
    BY <1>3, <2>1, <2>2
  <2>3. CASE ~EndRound
    BY <2>1, <2>3 DEF NoLostUpdate, LockFree, HoldingPcs, QueuePcs
  <2>4. QED BY <2>2, <2>3
<1>11. CASE StartClear
  <2>1. /\ LockFree /\ lock' = "clear" /\ cpc' = "saving"
        /\ UNCHANGED <<pc, disk, file>>
        /\ \A k \in Keys : cfile'[k] \in {disk[k], NoPlan}
    BY <1>11 DEF StartClear, queue, locals
  <2>2. QED BY <2>1 DEF NoLostUpdate, LockFree
<1>12. CASE EndClear
  BY <1>12 DEF EndClear, NoLostUpdate, queue, locals, HoldingPcs, QueuePcs
<1>13. CASE FailToLoadForClear
  BY <1>13 DEF FailToLoadForClear, NoLostUpdate, LockFree, outside, queue, locals
<1>14. CASE UNCHANGED vars
  BY <1>14 DEF vars, outside, queue, locals, clearing, NoLostUpdate
<1>15. QED
  BY <1>1, <1>2, <1>4, <1>5, <1>6, <1>7, <1>8, <1>9, <1>10, <1>11, <1>12,
     <1>13, <1>14
     DEF Next, QueueStep, ScanStep, ClearStep, Environment

\* Queue and clearing never overwrite each other's record: who writes the plan
\* file holds the lock and starts from what the file holds.
THEOREM LockProtectsFile == Spec => []NoLostUpdate
<1>1. TypeInv /\ NoLostUpdate /\ [Next]_vars => NoLostUpdate'
  BY NextKeepsLock
<1>2. QED BY <1>1, InitLock, TypeInvHolds, PTL DEF Spec

----------------------------------------------------------------------------
\* The plan file and the notifications of the operating system.

\* An id on file belongs to the key and the payload it is filed under.
FileTellsTruth ==
  \A n \in os, k \in Keys :
    Names(k, n) => n.key = k /\ disk[k].payload = n.payload

\* The notification of a pending save is the only one with its id and is held
\* until it is due; a replacement has an old record to replace.
NewIsFresh ==
  /\ pc \notin {"replacing", "adding"} => newId = NoId
  /\ pc \in {"replacing", "adding"} =>
       /\ \A n \in os : n.id = newId => n.key = key /\ n.payload = desired[key]
       /\ \A k \in Keys : disk[k] # NoPlan => disk[k].id # newId
       /\ (\E n \in os : n.id = newId) \/ At[desired[key]] <= now
  /\ pc = "replacing" => disk[key] # NoPlan

TodoIsRecorded ==
  /\ pc \in HoldingPcs \ {"revoking"} => \A k \in todo : disk[k] # NoPlan
  /\ pc = "removing" => key \notin todo

SavedIsHeld ==
  pc = "recording" =>
    /\ disk[key] # NoPlan
    /\ Live(disk[key].id) \/ At[disk[key].payload] <= now

PlanInv == TypeInv /\ NoLostUpdate /\ FileTellsTruth /\ NewIsFresh
             /\ TodoIsRecorded /\ SavedIsHeld

\* Forgetting records and notifications keeps the file truthful.
LEMMA ForgettingKeepsTruth ==
  ASSUME FileTellsTruth, os' \subseteq os,
         \A k \in Keys : disk'[k] \in {disk[k], NoPlan}
  PROVE  FileTellsTruth'
BY DEF FileTellsTruth, Names

\* In a waiting state nothing is in flight.
LEMMA WaitingInv ==
  ASSUME pc' \in WaitingPcs, newId' = NoId
  PROVE  NewIsFresh' /\ TodoIsRecorded' /\ SavedIsHeld'
BY DEF WaitingPcs, NewIsFresh, TodoIsRecorded, SavedIsHeld, HoldingPcs, QueuePcs

LEMMA InitPlanInv == Init => PlanInv
<1> SUFFICES ASSUME Init PROVE PlanInv
  OBVIOUS
<1>1. TypeInv /\ NoLostUpdate
  BY InitTypes, InitLock
<1>2. pc = "idle" /\ newId = NoId /\ os = {}
  BY DEF Init
<1>3. QED BY <1>1, <1>2 DEF PlanInv, FileTellsTruth, NewIsFresh, TodoIsRecorded,
                            SavedIsHeld, HoldingPcs, QueuePcs

LEMMA EnvironmentKeepsPlanInv ==
  ASSUME PlanInv, Environment \/ Periodic \/ RefreshTimer
  PROVE  FileTellsTruth' /\ NewIsFresh' /\ TodoIsRecorded' /\ SavedIsHeld'
<1> USE DEF PlanInv
<1>t. TypeInv /\ TypeOK
  BY DEF TypeInv
<1>1. CASE Restart
  BY <1>1, RestartEffect, ForgettingKeepsTruth, WaitingInv DEF outside
<1>2. CASE ~Restart
  <2>1. /\ UNCHANGED <<disk, lock>> /\ UNCHANGED locals
        /\ pc' = pc \/ (pc \in WaitingPcs /\ pc' \in WaitingPcs)
        /\ os' \subseteq os /\ now' >= now
        /\ \A n \in os \ os' : At[n.payload] <= now'
    BY <1>2, <1>t, EnvironmentEffect
  <2>2. FileTellsTruth'
    BY <2>1, ForgettingKeepsTruth
  <2>3. CASE pc \in WaitingPcs /\ pc' \in WaitingPcs
    <3>1. newId' = NoId
      BY <2>1, <2>3 DEF NewIsFresh, WaitingPcs, locals
    <3>2. QED BY <2>2, <2>3, <3>1, WaitingInv
  <2>4. CASE pc' = pc
    <3>1. now \in Nat /\ now' \in Nat
      BY <1>2, <1>t, EnvironmentKeepsTypes DEF TypeInv, TypeOK
    <3>2. ASSUME NEW p \in Payloads, At[p] <= now
          PROVE  At[p] <= now'
      BY <2>1, <3>1, <3>2, ConstantsAssumption
    <3>3. ASSUME pc \in {"replacing", "adding"}
          PROVE  (\E n \in os' : n.id = newId) \/ At[desired[key]] <= now'
      <4>1. desired[key] \in Payloads
        BY <1>t, <3>3 DEF TypeInv, InFlight
      <4>2. CASE At[desired[key]] <= now
        BY <3>2, <4>1, <4>2
      <4>3. ASSUME NEW n \in os, n.id = newId
            PROVE  n \in os' \/ At[desired[key]] <= now'
        BY <2>1, <3>3, <4>3 DEF NewIsFresh
      <4>4. QED BY <3>3, <4>2, <4>3 DEF NewIsFresh
    <3>4. NewIsFresh'
      BY <2>1, <2>4, <3>3 DEF NewIsFresh, locals
    <3>5. ASSUME pc = "recording"
          PROVE  Live(disk[key].id)' \/ At[disk[key].payload] <= now'
      <4>1. key \in Keys /\ disk[key] # NoPlan /\ disk[key].payload \in Payloads
        BY <1>t, <3>5 DEF TypeInv, TypeOK, InFlight, SavedIsHeld, PlanFiles, Plans
      <4>2. CASE At[disk[key].payload] <= now
        BY <3>2, <4>1, <4>2
      <4>3. ASSUME NEW n \in os, n.id = disk[key].id
            PROVE  n \in os' \/ At[disk[key].payload] <= now'
        BY <2>1, <4>1, <4>3 DEF FileTellsTruth, Names
      <4>4. QED BY <2>1, <3>5, <4>2, <4>3 DEF SavedIsHeld, Live, locals
    <3>6. TodoIsRecorded' /\ SavedIsHeld'
      BY <2>1, <2>4, <3>5 DEF TodoIsRecorded, SavedIsHeld, locals
    <3>7. QED BY <2>2, <3>4, <3>6
  <2>5. QED BY <2>1, <2>3, <2>4
<1>3. QED BY <1>1, <1>2

LEMMA ReadingKeepsPlanInv ==
  ASSUME PlanInv,
         \/ StartReconcile \/ FailToLoad \/ StartScan
         \/ \E s \in Sources : BuildPlans(s) \/ ProviderFails(s)
  PROVE  FileTellsTruth' /\ NewIsFresh' /\ TodoIsRecorded' /\ SavedIsHeld'
<1> USE DEF PlanInv
<1>t. TypeInv /\ TypeOK
  BY DEF TypeInv
<1>1. UNCHANGED outside
  BY DEF StartReconcile, FailToLoad, StartScan, BuildPlans, ProviderFails
<1>2. FileTellsTruth'
  BY <1>1, ForgettingKeepsTruth DEF outside
<1>3. CASE FailToLoad
  BY <1>2, <1>3, <1>t, EndRoundEffect, WaitingInv DEF FailToLoad
<1>4. CASE StartReconcile
  <2>1. /\ pc = "lockReconcile" /\ pc' \in {"building", "scanning"}
        /\ newId' = newId /\ todo' = {k \in Keys : disk[k] # NoPlan}
    BY <1>4 DEF StartReconcile
  <2>2. QED BY <1>1, <1>2, <2>1
            DEF NewIsFresh, TodoIsRecorded, SavedIsHeld, outside
<1>5. CASE StartScan \/ \E s \in Sources : BuildPlans(s) \/ ProviderFails(s)
  <2>1. /\ pc = "building" /\ pc' \in {"building", "scanning"}
        /\ newId' = newId /\ todo' = todo
    BY <1>5 DEF StartScan, BuildPlans, ProviderFails, queue
  <2>2. QED BY <1>1, <1>2, <2>1
            DEF NewIsFresh, TodoIsRecorded, SavedIsHeld, outside, HoldingPcs,
                QueuePcs
<1>6. QED BY <1>3, <1>4, <1>5

\* A registration puts a fresh notification beside the others.
LEMMA RegisteringKeepsPlanInv ==
  ASSUME PlanInv, NEW k \in Keys, pc = "scanning", FreshIds # {},
         desired[k] # NoPayload,
         newId' = FreshId, os' = HeldAfter(k, desired[k], FreshId),
         key' = k, UNCHANGED <<disk, now, desired>>,
         \/ pc' = "replacing" /\ disk[k] # NoPlan
         \/ pc' = "adding",
         todo' \subseteq todo
  PROVE  FileTellsTruth' /\ NewIsFresh' /\ TodoIsRecorded' /\ SavedIsHeld'
<1>t. TypeOK
  BY DEF PlanInv, TypeInv
<1>1. FreshId \in Ids /\ FreshId \notin UsedIds
  BY FreshIdIsAnId
<1>2. /\ \A n \in os : n.id # FreshId
      /\ \A j \in Keys : disk[j] # NoPlan => disk[j].id # FreshId
  BY <1>1 DEF UsedIds
<1>3. /\ \A n \in os' : n \in os \/ n = [id |-> FreshId, key |-> k, payload |-> desired[k]]
      /\ (\E n \in os' : n.id = FreshId) \/ At[desired[k]] <= now
  <2>1. At[desired[k]] \in Nat /\ now \in Nat
    BY <1>t, ConstantsAssumption DEF TypeOK, Desires
  <2> DEFINE new == [id |-> FreshId, key |-> k, payload |-> desired[k]]
  <2>2. CASE At[desired[k]] > now
    <3>1. os' = os \cup {new} /\ new.id = FreshId
      BY <2>2 DEF HeldAfter
    <3>2. QED BY <3>1
  <2>3. CASE ~(At[desired[k]] > now)
    <3>1. os' = os /\ At[desired[k]] <= now
      BY <2>1, <2>3 DEF HeldAfter
    <3>2. QED BY <3>1
  <2>4. QED BY <2>2, <2>3
<1>4. FileTellsTruth'
  BY <1>2, <1>3 DEF PlanInv, FileTellsTruth, Names
<1>5. NewIsFresh'
  BY <1>2, <1>3 DEF NewIsFresh
<1>6. TodoIsRecorded' /\ SavedIsHeld'
  BY DEF PlanInv, TodoIsRecorded, SavedIsHeld, HoldingPcs, QueuePcs
<1>7. QED BY <1>4, <1>5, <1>6

LEMMA ScanningKeepsPlanInv ==
  ASSUME PlanInv, ScanStep \/ FailToSchedule \/ FinishReconcile
  PROVE  FileTellsTruth' /\ NewIsFresh' /\ TodoIsRecorded' /\ SavedIsHeld'
<1>t. TypeInv /\ TypeOK
  BY DEF PlanInv, TypeInv
<1>1. CASE FailToSchedule \/ FinishReconcile
  <2>1. EndRound /\ UNCHANGED outside
    BY <1>1 DEF FailToSchedule, FinishReconcile
  <2>2. QED BY <2>1, <1>t, EndRoundEffect, WaitingInv, ForgettingKeepsTruth
            DEF PlanInv, outside
<1>2. ASSUME NEW k \in Keys, KeepPlan(k) \/ DropPlan(k)
      PROVE  FileTellsTruth' /\ NewIsFresh' /\ TodoIsRecorded' /\ SavedIsHeld'
  <2>1. /\ pc = "scanning" /\ newId' = newId /\ UNCHANGED <<disk, now>>
        /\ todo' = todo \ {k} /\ os' \subseteq os
        /\ \/ pc' = "scanning"
           \/ pc' = "removing" /\ key' = k
    BY <1>2 DEF KeepPlan, DropPlan, Scanning, Without, outside, queue
  <2>2. FileTellsTruth'
    BY <2>1, ForgettingKeepsTruth DEF PlanInv
  <2>3. NewIsFresh' /\ SavedIsHeld'
    BY <2>1 DEF PlanInv, NewIsFresh, SavedIsHeld
  <2>4. TodoIsRecorded'
    BY <2>1 DEF PlanInv, TodoIsRecorded, HoldingPcs, QueuePcs
  <2>5. QED BY <2>2, <2>3, <2>4
<1>3. ASSUME NEW k \in Keys, ReplacePlan(k)
      PROVE  FileTellsTruth' /\ NewIsFresh' /\ TodoIsRecorded' /\ SavedIsHeld'
  <2>1. /\ pc = "scanning" /\ FreshIds # {} /\ k \in todo
        /\ desired[k] # NoPayload
        /\ newId' = FreshId /\ os' = HeldAfter(k, desired[k], FreshId)
        /\ key' = k /\ UNCHANGED <<disk, now, desired>>
        /\ pc' = "replacing" /\ todo' \subseteq todo
    BY <1>3 DEF ReplacePlan, Scanning, Unwanted
  <2>2. disk[k] # NoPlan
    BY <2>1 DEF PlanInv, TodoIsRecorded, HoldingPcs, QueuePcs
  <2>3. QED BY <2>1, <2>2, RegisteringKeepsPlanInv
<1>4. ASSUME NEW k \in Keys, AddPlan(k)
      PROVE  FileTellsTruth' /\ NewIsFresh' /\ TodoIsRecorded' /\ SavedIsHeld'
  <2>1. /\ pc = "scanning" /\ FreshIds # {}
        /\ desired[k] # NoPayload
        /\ newId' = FreshId /\ os' = HeldAfter(k, desired[k], FreshId)
        /\ key' = k /\ UNCHANGED <<disk, now, desired>>
        /\ pc' = "adding" /\ todo' \subseteq todo
    BY <1>4 DEF AddPlan
  <2>2. QED BY <2>1, RegisteringKeepsPlanInv
<1>5. QED BY <1>1, <1>2, <1>3, <1>4 DEF ScanStep

\* What a landed save of a new record makes of the file.
LEMMA NextFileRecord ==
  ASSUME PlanInv, pc \in {"replacing", "adding"}
  PROVE  /\ key \in Keys
         /\ NextFile[key] = [id |-> newId, payload |-> desired[key]]
         /\ NextFile[key] # NoPlan
         /\ \A k \in Keys \ {key} : NextFile[k] = disk[k]
<1>1. /\ key \in Keys /\ newId \in Ids /\ desired[key] \in Payloads
      /\ file = disk /\ disk \in PlanFiles
  BY DEF PlanInv, TypeInv, TypeOK, InFlight, NoLostUpdate, HoldingPcs, QueuePcs
<1>2. NextFile = [disk EXCEPT ![key] = [id |-> newId, payload |-> desired[key]]]
  BY <1>1 DEF NextFile
<1>3. [id |-> newId, payload |-> desired[key]] # NoPlan
  BY <1>1, NullsAssumption DEF Plans
<1>4. QED BY <1>1, <1>2, <1>3 DEF PlanFiles

LEMMA NextFileForgets ==
  ASSUME PlanInv, pc \in {"removing", "revoking"}
  PROVE  \A k \in Keys : NextFile[k] \in {disk[k], NoPlan}
<1>1. disk \in PlanFiles /\ file \in PlanFiles
  BY DEF PlanInv, TypeInv, TypeOK
<1>2. CASE pc = "removing"
  <2>1. file = disk /\ NextFile = [file EXCEPT ![key] = NoPlan]
    BY <1>2 DEF PlanInv, NoLostUpdate, HoldingPcs, QueuePcs, NextFile
  <2>2. QED BY <1>1, <2>1 DEF PlanFiles
<1>3. CASE pc = "revoking"
  BY <1>3 DEF PlanInv, NoLostUpdate, NextFile
<1>4. QED BY <1>2, <1>3

\* Landing or not, a save keeps the file truthful.
LEMMA LandingKeepsTruth ==
  ASSUME PlanInv, os' \subseteq os,
         disk' = disk \/ disk' = NextFile,
         pc \in {"removing", "replacing", "adding", "revoking"}
  PROVE  FileTellsTruth'
<1>1. CASE disk' = disk \/ pc \in {"removing", "revoking"}
  BY <1>1, NextFileForgets, ForgettingKeepsTruth DEF PlanInv
<1>2. CASE disk' = NextFile /\ pc \in {"replacing", "adding"}
  BY <1>2, NextFileRecord DEF PlanInv, FileTellsTruth, NewIsFresh, Names
<1>3. QED BY <1>1, <1>2

LEMMA SavingKeepsPlanInv ==
  ASSUME PlanInv,
         \/ SaveRemoval \/ SaveReplacement \/ SaveAddition \/ RecordDelivery
         \/ FailToSave
  PROVE  FileTellsTruth' /\ NewIsFresh' /\ TodoIsRecorded' /\ SavedIsHeld'
<1>t. TypeInv /\ TypeOK
  BY DEF PlanInv, TypeInv
<1>1. CASE SaveRemoval
  <2>1. /\ pc = "removing" /\ pc' = "scanning" /\ disk' = NextFile
        /\ UNCHANGED <<os, newId, todo>>
    BY <1>1 DEF SaveRemoval
  <2>2. FileTellsTruth'
    BY <2>1, LandingKeepsTruth
  <2>3. \A k \in Keys \ {key} : NextFile[k] = disk[k]
    BY <2>1, <1>t DEF PlanInv, NoLostUpdate, NextFile, HoldingPcs, QueuePcs,
                      TypeOK, PlanFiles
  <2>4. todo \subseteq Keys \ {key} /\ \A k \in todo : disk[k] # NoPlan
    BY <2>1, <1>t DEF PlanInv, TodoIsRecorded, TypeOK, HoldingPcs, QueuePcs
  <2>5. QED BY <2>1, <2>2, <2>3, <2>4
            DEF PlanInv, NewIsFresh, TodoIsRecorded, SavedIsHeld
<1>2. CASE SaveReplacement \/ SaveAddition
  <2>1. /\ pc \in {"replacing", "adding"} /\ disk' = NextFile
        /\ newId' = NoId /\ todo' = todo /\ os' \subseteq os /\ now' = now
        /\ \/ pc' = "scanning"
           \/ pc = "adding" /\ pc' = "recording" /\ key' = key /\ os' = os
    BY <1>2 DEF SaveReplacement, SaveAddition, Without
  <2>2. FileTellsTruth'
    BY <2>1, LandingKeepsTruth
  <2>3. \A k \in todo : disk'[k] # NoPlan
    BY <2>1, <1>t, NextFileRecord
       DEF PlanInv, TodoIsRecorded, TypeOK, HoldingPcs, QueuePcs
  <2>4. SavedIsHeld'
    BY <2>1, NextFileRecord DEF PlanInv, NewIsFresh, SavedIsHeld, Live
  <2>5. QED BY <2>1, <2>2, <2>3, <2>4 DEF NewIsFresh, TodoIsRecorded
<1>3. CASE RecordDelivery
  <2>1. /\ pc = "recording" /\ pc' = "scanning"
        /\ UNCHANGED <<disk, os, newId, todo>>
    BY <1>3 DEF RecordDelivery
  <2>2. QED BY <2>1, ForgettingKeepsTruth
            DEF PlanInv, NewIsFresh, TodoIsRecorded, SavedIsHeld, HoldingPcs,
                QueuePcs
<1>4. CASE FailToSave
  <2>1. /\ pc \in {"removing", "replacing", "adding", "revoking"}
        /\ disk' = disk \/ disk' = NextFile
        /\ os' \subseteq os /\ EndRound
    BY <1>4 DEF FailToSave, Without
  <2>2. QED BY <2>1, <1>t, LandingKeepsTruth, EndRoundEffect, WaitingInv
<1>5. QED BY <1>1, <1>2, <1>3, <1>4

LEMMA CancellingKeepsPlanInv ==
  ASSUME PlanInv, StartRevocation \/ SaveRevocation \/ ClearStep
  PROVE  FileTellsTruth' /\ NewIsFresh' /\ TodoIsRecorded' /\ SavedIsHeld'
<1>t. TypeInv /\ TypeOK
  BY DEF PlanInv, TypeInv
<1>1. CASE StartRevocation
  <2>1. /\ pc = "lockRevoke" /\ disk' = disk /\ os' \subseteq os
        /\ EndRound \/ (pc' = "revoking" /\ newId' = newId)
    BY <1>1 DEF StartRevocation, Without
  <2>2. FileTellsTruth'
    BY <2>1, ForgettingKeepsTruth DEF PlanInv
  <2>3. CASE EndRound
    BY <2>2, <2>3, <1>t, EndRoundEffect, WaitingInv
  <2>4. CASE pc' = "revoking" /\ newId' = newId
    BY <2>1, <2>2, <2>4 DEF PlanInv, NewIsFresh, TodoIsRecorded, SavedIsHeld
  <2>5. QED BY <2>1, <2>3, <2>4
<1>2. CASE SaveRevocation
  <2>1. pc = "revoking" /\ disk' = NextFile /\ os' = os /\ EndRound
    BY <1>2 DEF SaveRevocation
  <2>2. QED BY <2>1, <1>t, LandingKeepsTruth, EndRoundEffect, WaitingInv
<1>3. CASE ClearStep
  <2>1. /\ UNCHANGED <<pc, locals, now>> /\ os' \subseteq os
        /\ \A k \in Keys : disk'[k] \in {disk[k], NoPlan}
        /\ LockFree \/ cpc = "saving"
    BY <1>3 DEF ClearStep, StartClear, EndClear, FailToLoadForClear, Without,
                PlanInv, NoLostUpdate, queue, outside
  <2>2. pc \notin HoldingPcs
    BY <2>1 DEF PlanInv, NoLostUpdate, LockFree
  <2>3. FileTellsTruth'
    BY <2>1, ForgettingKeepsTruth DEF PlanInv
  <2>4. QED BY <2>1, <2>2, <2>3
            DEF PlanInv, NewIsFresh, TodoIsRecorded, SavedIsHeld, HoldingPcs,
                QueuePcs, locals
<1>4. QED BY <1>1, <1>2, <1>3

LEMMA NextKeepsPlanInv == PlanInv /\ [Next]_vars => PlanInv'
<1> SUFFICES ASSUME PlanInv, [Next]_vars PROVE PlanInv'
  OBVIOUS
<1>1. TypeInv' /\ NoLostUpdate'
  BY NextKeepsTypes, NextKeepsLock DEF PlanInv
<1>2. FileTellsTruth' /\ NewIsFresh' /\ TodoIsRecorded' /\ SavedIsHeld'
  <2>1. CASE UNCHANGED vars
    BY <2>1 DEF vars, outside, queue, locals, PlanInv, FileTellsTruth,
                NewIsFresh, TodoIsRecorded, SavedIsHeld, Names, Live
  <2>2. CASE Next
    BY <2>2, EnvironmentKeepsPlanInv, ReadingKeepsPlanInv, ScanningKeepsPlanInv,
       SavingKeepsPlanInv, CancellingKeepsPlanInv DEF Next, QueueStep
  <2>3. QED BY <2>1, <2>2
<1>3. QED BY <1>1, <1>2 DEF PlanInv

LEMMA PlanInvHolds == Spec => []PlanInv
<1>1. QED BY InitPlanInv, NextKeepsPlanInv, PTL DEF Spec

----------------------------------------------------------------------------
\* What no step does.

LEMMA ReplacementTakesAwayLast ==
  ASSUME PlanInv, Next
  PROVE  TakesAwayLast
<1> SUFFICES ASSUME NEW n \in os \ os', At[n.payload] > now',
                    "replacing" \in {pc, pc'}, n.id # newId
             PROVE  /\ disk'[n.key] # NoPlan /\ disk'[n.key].id = newId
                    /\ \/ \E m \in os' : m.id = newId
                       \/ At[disk'[n.key].payload] <= now'
  BY DEF TakesAwayLast
<1>t. /\ TypeInv /\ TypeOK /\ NoLostUpdate
      /\ At[n.payload] \in Nat /\ now' \in Nat
  <2>1. TypeInv'
    BY NextKeepsTypes DEF PlanInv
  <2>2. QED BY <2>1, ConstantsAssumption
            DEF PlanInv, TypeInv, TypeOK, Notifications
<1>r. \/ pc = "replacing" /\ lock = "queue"
      \/ pc # "replacing" /\ pc' = "replacing"
  BY <1>t DEF NoLostUpdate, HoldingPcs, QueuePcs
<1>1. CASE Environment \/ Periodic \/ RefreshTimer
  <2>1. CASE Restart
    BY <2>1, RestartEffect DEF outside
  <2>2. CASE ~Restart
    <3>1. At[n.payload] <= now'
      BY <1>1, <2>2, <1>t, EnvironmentEffect
    <3>2. QED BY <3>1, <1>t
  <2>3. QED BY <2>1, <2>2
<1>2. ASSUME pc # "replacing", pc' = "replacing", QueueStep \/ ClearStep
      PROVE  FALSE
  <2>1. \A k \in Keys : ReplacePlan(k) => os \subseteq os'
    BY DEF ReplacePlan, HeldAfter
  <2>2. \E k \in Keys : ReplacePlan(k)
    <3>1. CASE QueueStep
      <4>1. ASSUME EndRound PROVE FALSE
        BY <1>2, <1>t, <4>1, EndRoundType
      <4>2. QED
        BY <1>2, <3>1, <4>1
           DEF QueueStep, ScanStep, StartReconcile, FailToLoad, BuildPlans,
               ProviderFails, StartScan, KeepPlan, DropPlan, AddPlan, queue,
               FailToSchedule, SaveRemoval, SaveReplacement, SaveAddition,
               RecordDelivery, FailToSave, FinishReconcile, StartRevocation,
               SaveRevocation
    <3>2. CASE ClearStep
      BY <1>2, <3>2 DEF ClearStep, StartClear, EndClear, FailToLoadForClear, queue
    <3>3. QED BY <1>2, <3>1, <3>2
  <2>3. QED BY <2>1, <2>2
<1>3. CASE pc = "replacing" /\ lock = "queue" /\ QueueStep
  <2>1. SaveReplacement \/ FailToSave
    BY <1>3 DEF QueueStep, ScanStep, StartReconcile, FailToLoad, BuildPlans,
                ProviderFails, StartScan, KeepPlan, DropPlan, ReplacePlan,
                AddPlan, Scanning, FailToSchedule, SaveRemoval, SaveAddition,
                RecordDelivery, FinishReconcile, StartRevocation, SaveRevocation
  <2>2. CASE FailToSave
    BY <2>2 DEF FailToSave, Without
  <2>3. CASE SaveReplacement
    <3>1. /\ disk' = NextFile /\ now' = now
          /\ \A m \in os \ os' : m.id = file[key].id
      BY <2>3 DEF SaveReplacement, Without
    <3>2. file = disk /\ disk[key] # NoPlan /\ key \in Keys
      BY <1>3, <1>t DEF PlanInv, NoLostUpdate, NewIsFresh, TypeInv, InFlight,
                        HoldingPcs, QueuePcs
    <3>3. n.key = key
      BY <3>1, <3>2 DEF PlanInv, FileTellsTruth, Names
    <3>4. disk'[key].id = newId /\ disk'[key] # NoPlan
          /\ disk'[key].payload = desired[key]
      BY <1>3, <3>1, NextFileRecord
    <3>5. disk[key].id # newId
      BY <1>3, <3>2 DEF PlanInv, NewIsFresh
    <3>6. \A m \in os : m.id = newId => m \in os'
      BY <3>1, <3>2, <3>5
    <3>7. QED BY <1>3, <3>1, <3>3, <3>4, <3>6 DEF PlanInv, NewIsFresh
  <2>4. QED BY <2>1, <2>2, <2>3
<1>4. CASE pc = "replacing" /\ lock = "queue" /\ ClearStep
  BY <1>4, <1>t DEF ClearStep, StartClear, EndClear, FailToLoadForClear, LockFree,
                    NoLostUpdate
<1>5. QED BY <1>r, <1>1, <1>2, <1>3, <1>4 DEF Next

\* Whatever fails, also with the process killed at any await: a replacement
\* takes the old notification away last.
THEOREM OldPlanKeptUntilReplaced == Spec => ReplaceBeforeCancel
<1>1. PlanInv /\ [Next]_vars => [TakesAwayLast]_vars
  BY ReplacementTakesAwayLast
<1>2. QED BY <1>1, PlanInvHolds, PTL DEF Spec, ReplaceBeforeCancel

LEMMA RecordingFollowsSave ==
  ASSUME PlanInv, Next
  PROVE  RecordsOnlySaved
<1>t. TypeInv
  BY DEF PlanInv
<1>1. CASE RecordDelivery
  <2>1. pc = "recording" /\ recorded' \subseteq recorded \cup {key}
    BY <1>1 DEF RecordDelivery
  <2>2. QED BY <2>1 DEF RecordsOnlySaved, PlanInv, SavedIsHeld
<1>2. CASE Environment \/ Periodic \/ RefreshTimer
  BY <1>2, <1>t, EnvironmentEffect, RestartEffect DEF RecordsOnlySaved, outside
<1>3. CASE QueueStep /\ ~RecordDelivery
  <2>1. recorded' = recorded
    BY <1>3 DEF QueueStep, ScanStep, StartReconcile, FailToLoad, BuildPlans,
                ProviderFails, StartScan, KeepPlan, DropPlan, ReplacePlan,
                AddPlan, FailToSchedule, SaveRemoval, SaveReplacement,
                SaveAddition, FailToSave, FinishReconcile, StartRevocation,
                SaveRevocation, outside
  <2>2. QED BY <2>1 DEF RecordsOnlySaved
<1>4. CASE ClearStep
  BY <1>4 DEF ClearStep, StartClear, EndClear, FailToLoadForClear, outside,
              RecordsOnlySaved
<1>5. QED BY <1>1, <1>2, <1>3, <1>4 DEF Next

\* The history calls a reminder scheduled only after its plan is on file and
\* its notification held or shown.
THEOREM HistoryFollowsPlan == Spec => RecordedAfterSaved
<1>1. PlanInv /\ [Next]_vars => [RecordsOnlySaved]_vars
  BY RecordingFollowsSave
<1>2. QED BY <1>1, PlanInvHolds, PTL DEF Spec, RecordedAfterSaved

----------------------------------------------------------------------------
\* A failed provider.

RoundPcs == HoldingPcs \ {"building", "revoking"}

\* What a round wants belongs to providers that have answered, and what it is
\* saving belongs to no failed source.
FailedIsLeftOut ==
  /\ pc \in WaitingPcs => desired = NothingDesired /\ failed = {} /\ unread = {}
  /\ unread \cap failed = {}
  /\ \A k \in Keys : desired[k] # NoPayload => SourceOf[k] \notin unread \cup failed
  /\ pc \in {"removing", "replacing", "adding"} => SourceOf[key] \notin failed

LEMMA NothingIsDesired ==
  \A k \in Keys : NothingDesired[k] = NoPayload
BY DEF NothingDesired

LEMMA InitLeftOut == Init => FailedIsLeftOut
BY NothingIsDesired DEF Init, FailedIsLeftOut

LEMMA ForgottenIsLeftOut ==
  ASSUME ForgetLocals, pc' \in WaitingPcs
  PROVE  FailedIsLeftOut'
BY NothingIsDesired DEF ForgetLocals, FailedIsLeftOut, WaitingPcs

LEMMA NextKeepsLeftOut ==
  ASSUME PlanInv, FailedIsLeftOut, [Next]_vars
  PROVE  FailedIsLeftOut'
<1>t. TypeInv /\ TypeOK
  BY DEF PlanInv, TypeInv
<1>1. CASE (Environment \/ Periodic \/ RefreshTimer) /\ ~Restart
  BY <1>1, <1>t, EnvironmentEffect DEF FailedIsLeftOut, locals, WaitingPcs
<1>2. CASE Restart
  BY <1>2, RestartEffect, ForgottenIsLeftOut DEF Restart
<1>3. CASE EndRound
  BY <1>3, <1>t, EndRoundEffect, ForgottenIsLeftOut DEF EndRound
<1>4. CASE StartReconcile
  BY <1>4, NothingIsDesired DEF StartReconcile, FailedIsLeftOut, WaitingPcs
<1>5. ASSUME NEW s \in Sources, BuildPlans(s)
      PROVE  FailedIsLeftOut'
  <2>1. /\ pc = "building" /\ pc' = pc /\ s \in unread
        /\ unread' = unread \ {s} /\ failed' = failed
        /\ \A k \in Keys : desired'[k] = desired[k] \/ SourceOf[k] = s
    BY <1>5 DEF BuildPlans, queue
  <2>2. QED BY <2>1 DEF FailedIsLeftOut, WaitingPcs
<1>6. ASSUME NEW s \in Sources, ProviderFails(s)
      PROVE  FailedIsLeftOut'
  BY <1>6 DEF ProviderFails, queue, FailedIsLeftOut, WaitingPcs
<1>7. CASE StartScan
  BY <1>7 DEF StartScan, FailedIsLeftOut, WaitingPcs
<1>8. ASSUME NEW k \in Keys, KeepPlan(k) \/ DropPlan(k)
      PROVE  FailedIsLeftOut'
  <2>1. /\ pc = "scanning" /\ UNCHANGED <<unread, failed>>
        /\ desired' = desired \/ desired' = [desired EXCEPT ![k] = NoPayload]
        /\ \/ pc' = "scanning"
           \/ pc' = "removing" /\ key' = k /\ SourceOf[k] \notin failed
    BY <1>8 DEF KeepPlan, DropPlan, Scanning, LeftAlone, queue
  <2>2. desired \in Desires
    BY <1>t DEF TypeOK
  <2>3. QED BY <2>1, <2>2 DEF FailedIsLeftOut, WaitingPcs, Desires
<1>9. ASSUME NEW k \in Keys, ReplacePlan(k) \/ AddPlan(k)
      PROVE  FailedIsLeftOut'
  <2>1. /\ pc = "scanning" /\ UNCHANGED <<unread, failed, desired>>
        /\ pc' \in {"replacing", "adding"} /\ key' = k /\ desired[k] # NoPayload
    BY <1>9 DEF ReplacePlan, AddPlan, Scanning, Unwanted
  <2>2. QED BY <2>1 DEF FailedIsLeftOut, WaitingPcs
<1>10. CASE SaveRemoval \/ RecordDelivery
  BY <1>10 DEF SaveRemoval, RecordDelivery, FailedIsLeftOut, WaitingPcs
<1>11. CASE SaveReplacement \/ SaveAddition
  <2>1. /\ UNCHANGED <<unread, failed>> /\ pc' \in {"scanning", "recording"}
        /\ desired' = [desired EXCEPT ![key] = NoPayload]
    BY <1>11 DEF SaveReplacement, SaveAddition
  <2>2. desired \in Desires
    BY <1>t DEF TypeOK
  <2>3. QED BY <2>1, <2>2 DEF FailedIsLeftOut, WaitingPcs, Desires
<1>12. CASE StartRevocation /\ ~EndRound
  <2>1. /\ pc = "lockRevoke" /\ pc' = "revoking"
        /\ UNCHANGED <<unread, failed, desired>>
    BY <1>12 DEF StartRevocation
  <2>2. QED BY <2>1 DEF FailedIsLeftOut, WaitingPcs
<1>13. CASE ClearStep
  <2>1. UNCHANGED <<pc, locals>>
    BY <1>13 DEF ClearStep, StartClear, EndClear, FailToLoadForClear, queue
  <2>2. QED BY <2>1 DEF FailedIsLeftOut, locals
<1>14. CASE UNCHANGED vars
  BY <1>14 DEF vars, queue, locals, FailedIsLeftOut
<1>15. CASE QueueStep
  <2>1. FailToLoad \/ FailToSchedule \/ FinishReconcile \/ FailToSave
          \/ SaveRevocation => EndRound
    BY DEF FailToLoad, FailToSchedule, FinishReconcile, FailToSave, SaveRevocation
  <2>2. QED
    BY <1>3, <1>4, <1>5, <1>6, <1>7, <1>8, <1>9, <1>10, <1>11, <1>12, <1>15, <2>1
       DEF QueueStep, ScanStep
<1>16. QED BY <1>1, <1>2, <1>13, <1>14, <1>15 DEF Next, Environment

LEMMA FailedSourceStep ==
  ASSUME PlanInv, FailedIsLeftOut, Next
  PROVE  LeavesFailedAlone
<1> SUFFICES ASSUME NEW k \in Keys, pc \in RoundPcs, SourceOf[k] \in failed
             PROVE  /\ disk'[k] = disk[k]
                    /\ \A n \in os \ os' : n.key = k => At[n.payload] <= now'
  BY DEF LeavesFailedAlone, RoundPcs
<1>t. /\ TypeInv /\ TypeOK
      /\ lock = "queue" /\ file = disk /\ disk \in PlanFiles
      /\ \A n \in os : n.id # NoId
  BY NullsAssumption DEF PlanInv, TypeInv, TypeOK, NoLostUpdate, RoundPcs, Notifications
<1>1. CASE Environment \/ Periodic \/ RefreshTimer
  BY <1>1, <1>t, EnvironmentEffect, RestartEffect DEF outside
<1>2. ASSUME NEW j \in Keys,
             KeepPlan(j) \/ DropPlan(j) \/ ReplacePlan(j) \/ AddPlan(j)
      PROVE  /\ disk'[k] = disk[k]
             /\ \A n \in os \ os' : n.key # k
  <2>1. disk' = disk
    BY <1>2 DEF KeepPlan, DropPlan, ReplacePlan, AddPlan, outside
  <2>2. os \subseteq os' \/ DropPlan(j)
    BY <1>2 DEF KeepPlan, ReplacePlan, AddPlan, HeldAfter, outside
  <2>3. ASSUME DropPlan(j), NEW n \in os \ os'
        PROVE  n.key # k
    <3>1. /\ j \in todo /\ SourceOf[j] \notin failed /\ n.id = disk[j].id
      BY <2>3, <1>t DEF DropPlan, Scanning, LeftAlone, Without
    <3>2. disk[j] # NoPlan
      BY <3>1 DEF PlanInv, TodoIsRecorded, RoundPcs
    <3>3. n.key = j
      BY <3>1, <3>2 DEF PlanInv, FileTellsTruth, Names
    <3>4. QED BY <3>1, <3>3
  <2>4. QED BY <2>1, <2>2, <2>3
<1>3. CASE SaveRemoval \/ SaveReplacement \/ SaveAddition \/ FailToSave
  <2>1. /\ pc \in {"removing", "replacing", "adding"}
        /\ disk' = disk \/ disk' = NextFile
        /\ \A n \in os \ os' :
             n.id = newId \/ (pc = "replacing" /\ n.id = disk[key].id)
    BY <1>3, <1>t DEF SaveRemoval, SaveReplacement, SaveAddition, FailToSave,
                      Without, RoundPcs
  <2>2. k # key
    BY <2>1 DEF FailedIsLeftOut
  <2>3. NextFile[k] = disk[k]
    <3>1. CASE pc = "removing"
      BY <3>1, <2>2, <1>t DEF NextFile, PlanFiles
    <3>2. CASE pc \in {"replacing", "adding"}
      BY <3>2, <2>2, NextFileRecord
    <3>3. QED BY <2>1, <3>1, <3>2
  <2>4. ASSUME NEW n \in os \ os'
        PROVE  n.key # k
    <3>1. CASE n.id = newId
      BY <2>2, <3>1, <1>t DEF PlanInv, NewIsFresh
    <3>2. CASE pc = "replacing" /\ n.id = disk[key].id
      BY <2>2, <3>2, <1>t
         DEF PlanInv, NewIsFresh, FileTellsTruth, Names, TypeInv, InFlight
    <3>3. QED BY <2>1, <3>1, <3>2
  <2>5. QED BY <2>1, <2>3, <2>4
<1>4. CASE RecordDelivery \/ FailToSchedule \/ FinishReconcile
  BY <1>4 DEF RecordDelivery, FailToSchedule, FinishReconcile, outside
<1>5. ~ClearStep /\ ~StartReconcile /\ ~FailToLoad /\ ~StartScan
      /\ ~StartRevocation /\ ~SaveRevocation
      /\ \A s \in Sources : ~BuildPlans(s) /\ ~ProviderFails(s)
  BY <1>t DEF ClearStep, StartClear, EndClear, FailToLoadForClear, LockFree,
              StartReconcile, FailToLoad, StartScan, StartRevocation,
              SaveRevocation, BuildPlans, ProviderFails, RoundPcs, PlanInv,
              NoLostUpdate
<1>6. QED BY <1>1, <1>2, <1>3, <1>4, <1>5 DEF Next, QueueStep, ScanStep

\* Whatever else fails in the round: the plans of a source whose provider
\* failed, and the notifications behind them, are left as they are.
THEOREM FailedProviderIsHarmless == Spec => FailedSourceUntouched
<1>1. PlanInv /\ FailedIsLeftOut /\ [Next]_vars => FailedIsLeftOut'
  BY NextKeepsLeftOut
<1>2. PlanInv /\ FailedIsLeftOut /\ [Next]_vars => [LeavesFailedAlone]_vars
  BY FailedSourceStep
<1>3. QED BY <1>1, <1>2, InitLeftOut, PlanInvHolds, PTL
          DEF Spec, FailedSourceUntouched

----------------------------------------------------------------------------
\* Nothing leaks, unless cancelling fails, a written file cannot be read back
\* or the process is killed: those three are what a duplicate needs.

NoLeak == Faults \cap {"cancel", "verify", "crash"} = {}

\* A plan to be registered has no record; a record about to be removed, and
\* every record about to be given up at once, has lost its notification.
LeakInv ==
  /\ Listed
  /\ pc = "removing" => \A n \in os : n.key # key
  /\ pc = "revoking" \/ cpc = "saving" => os = {}
  /\ pc = "adding" => todo = {}
  /\ pc = "building" => \A k \in Keys \ todo : disk[k] = NoPlan
  /\ pc \in RoundPcs =>
       \A k \in Keys \ todo : desired[k] # NoPayload =>
          disk[k] = NoPlan \/ (pc \in {"removing", "replacing"} /\ k = key)

LEMMA InitLeak == Init => LeakInv
BY DEF Init, LeakInv, Listed, RoundPcs, HoldingPcs, QueuePcs

\* With nothing in flight every notification is on file.
LEMMA AllNamed ==
  ASSUME PlanInv, Listed, pc \notin {"replacing", "adding"}
  PROVE  \A n \in os : n.key \in Keys /\ Names(n.key, n)
BY NullsAssumption
   DEF PlanInv, TypeInv, TypeOK, Notifications, NewIsFresh, Listed

\* The end of a round, of a revocation or of a clearing.
LEMMA WaitingLeakInv ==
  ASSUME pc' \in WaitingPcs, cpc' # "saving", \A n \in os' : Names(n.key, n)'
  PROVE  LeakInv'
BY DEF LeakInv, Listed, Names, RoundPcs, WaitingPcs, HoldingPcs, QueuePcs

LEMMA EndRoundKeepsLeakInv ==
  ASSUME PlanInv, LeakInv, NoLeak, EndRound,
         \/ FailToLoad \/ FailToSchedule \/ FinishReconcile \/ FailToSave
         \/ SaveRevocation
  PROVE  LeakInv'
<1>t. TypeInv /\ TypeOK /\ (\A n \in os : n.key \in Keys)
  BY DEF PlanInv, TypeInv, TypeOK, Notifications
<1>0. pc' \in WaitingPcs
  BY <1>t, EndRoundEffect
<1>1. cpc' # "saving"
  <2>1. cpc' = cpc /\ (pc \in HoldingPcs \/ LockFree)
    BY DEF FailToLoad, FailToSchedule, FinishReconcile, FailToSave,
           SaveRevocation, clearing, HoldingPcs, QueuePcs
  <2>2. QED BY <2>1 DEF PlanInv, NoLostUpdate, LockFree
<1>2. CASE FailToLoad \/ FailToSchedule \/ FinishReconcile
  <2>1. pc \notin {"replacing", "adding"} /\ os' = os /\ disk' = disk
    BY <1>2 DEF FailToLoad, FailToSchedule, FinishReconcile, outside
  <2>2. \A n \in os' : Names(n.key, n)'
    BY <2>1, AllNamed DEF LeakInv, Names
  <2>3. QED BY <1>0, <1>1, <2>2, WaitingLeakInv
<1>3. CASE FailToSave
  <2>1. disk' = disk /\ os' = {n \in os : n.id # newId}
    BY <1>3 DEF FailToSave, Fault, NoLeak, Without
  <2>2. \A n \in os' : Names(n.key, n)'
    BY <2>1 DEF LeakInv, Listed, Names
  <2>3. QED BY <1>0, <1>1, <2>2, WaitingLeakInv
<1>4. CASE SaveRevocation
  <2>1. os' = {}
    BY <1>4 DEF SaveRevocation, LeakInv
  <2>2. QED BY <1>0, <1>1, <2>1, WaitingLeakInv
<1>5. QED BY <1>2, <1>3, <1>4

LEMMA ScanningKeepsLeakInv ==
  ASSUME PlanInv, LeakInv, NoLeak, NEW k \in Keys,
         KeepPlan(k) \/ DropPlan(k) \/ ReplacePlan(k) \/ AddPlan(k)
  PROVE  LeakInv'
<1>t. /\ TypeInv /\ TypeOK /\ desired \in Desires
      /\ \A n \in os : n.key \in Keys /\ n.id \in Ids
  BY DEF PlanInv, TypeInv, TypeOK, Notifications
<1>0. /\ pc = "scanning" /\ UNCHANGED <<disk, cpc>>
      /\ pc' \in {"scanning", "removing", "replacing", "adding"}
      /\ cpc # "saving" /\ file = disk
  <2>1. /\ pc = "scanning" /\ UNCHANGED <<disk, cpc>>
        /\ pc' \in {"scanning", "removing", "replacing", "adding"}
    BY DEF KeepPlan, DropPlan, ReplacePlan, AddPlan, Scanning, outside, queue,
           clearing
  <2>2. QED BY <2>1 DEF PlanInv, NoLostUpdate, HoldingPcs, QueuePcs
<1>n. \A n \in os : Names(n.key, n)
  BY <1>0, AllNamed DEF LeakInv
<1>d. \A j \in Keys \ todo : desired[j] # NoPayload => disk[j] = NoPlan
  BY <1>0 DEF LeakInv, RoundPcs, HoldingPcs, QueuePcs
<1>1. CASE KeepPlan(k)
  <2>1. /\ pc' = pc /\ os' = os /\ newId' = newId /\ todo' = todo \ {k}
        /\ desired' = [desired EXCEPT ![k] = NoPayload]
    BY <1>1 DEF KeepPlan, outside, queue
  <2>2. \A j \in Keys \ todo' : desired'[j] # NoPayload => disk'[j] = NoPlan
    BY <1>0, <1>d, <1>t, <2>1 DEF Desires
  <2>3. QED BY <1>0, <1>n, <2>1, <2>2 DEF LeakInv, Listed, Names
<1>2. CASE DropPlan(k)
  <2>1. /\ todo' = todo \ {k} /\ desired' = desired /\ newId' = newId
        /\ pc' = "removing" /\ key' = k
        /\ os' = {n \in os : n.id # disk[k].id}
    BY <1>0, <1>2 DEF DropPlan, Fault, NoLeak, Without
  <2>2. \A n \in os' : n.key # k
    BY <1>n, <2>1 DEF Names
  <2>3. QED BY <1>0, <1>n, <1>d, <2>1, <2>2 DEF LeakInv, Listed, Names
<1>3. CASE ReplacePlan(k)
  <2>1. /\ todo' = todo \ {k} /\ desired' = desired /\ newId' = FreshId
        /\ pc' = "replacing" /\ key' = k
        /\ os' = HeldAfter(k, desired[k], FreshId)
    BY <1>3 DEF ReplacePlan
  <2>2. \A n \in os' : n \in os \/ (n.id = newId' /\ n.key = key')
    BY <2>1 DEF HeldAfter
  <2>3. QED BY <1>0, <1>n, <1>d, <2>1, <2>2 DEF LeakInv, Listed, Names
<1>4. CASE AddPlan(k)
  <2>1. /\ todo' = todo /\ todo = {} /\ desired' = desired /\ newId' = FreshId
        /\ pc' = "adding" /\ key' = k
        /\ os' = HeldAfter(k, desired[k], FreshId)
    BY <1>4 DEF AddPlan
  <2>2. \A n \in os' : n \in os \/ (n.id = newId' /\ n.key = key')
    BY <2>1 DEF HeldAfter
  <2>3. QED BY <1>0, <1>n, <1>d, <2>1, <2>2 DEF LeakInv, Listed, Names
<1>5. QED BY <1>1, <1>2, <1>3, <1>4

LEMMA SavingKeepsLeakInv ==
  ASSUME PlanInv, LeakInv, NoLeak,
         SaveRemoval \/ SaveReplacement \/ SaveAddition \/ RecordDelivery
  PROVE  LeakInv'
<1>t. /\ TypeInv /\ TypeOK /\ desired \in Desires /\ disk \in PlanFiles
      /\ \A n \in os : n.key \in Keys /\ n.id \in Ids
      /\ key \in Keys /\ file = disk /\ cpc # "saving" /\ cpc' = cpc
  <2>1. pc \in RoundPcs /\ cpc' = cpc
    BY DEF SaveRemoval, SaveReplacement, SaveAddition, RecordDelivery, clearing,
           RoundPcs, HoldingPcs, QueuePcs
  <2>2. pc \in {"removing", "replacing", "adding", "recording"}
    BY DEF SaveRemoval, SaveReplacement, SaveAddition, RecordDelivery
  <2>3. QED BY <2>1, <2>2
            DEF PlanInv, TypeInv, TypeOK, InFlight, Notifications, NoLostUpdate,
                RoundPcs
<1>d. pc \in RoundPcs =>
        \A j \in Keys \ todo : desired[j] # NoPayload =>
          disk[j] = NoPlan \/ (pc \in {"removing", "replacing"} /\ j = key)
  BY DEF LeakInv
<1>1. CASE SaveRemoval
  <2>1. /\ pc = "removing" /\ pc' = "scanning"
        /\ disk' = [disk EXCEPT ![key] = NoPlan]
        /\ UNCHANGED <<os, newId, todo, desired>>
    BY <1>1, <1>t DEF SaveRemoval, NextFile
  <2>2. \A n \in os : n.key # key /\ Names(n.key, n)
    BY <2>1, AllNamed DEF LeakInv
  <2>3. \A n \in os' : Names(n.key, n)'
    BY <1>t, <2>1, <2>2 DEF Names, PlanFiles
  <2>4. \A j \in Keys \ todo' : desired'[j] # NoPayload => disk'[j] = NoPlan
    BY <1>d, <1>t, <2>1 DEF PlanFiles, RoundPcs, HoldingPcs, QueuePcs
  <2>5. QED BY <1>t, <2>1, <2>3, <2>4 DEF LeakInv, Listed
<1>2. CASE SaveReplacement \/ SaveAddition
  <2>1. /\ pc \in {"replacing", "adding"} /\ pc' \in {"scanning", "recording"}
        /\ disk' = NextFile /\ newId' = NoId /\ todo' = todo
        /\ desired' = [desired EXCEPT ![key] = NoPayload]
        /\ os' \subseteq os
        /\ pc = "replacing" => \A n \in os' : n.id # disk[key].id
    BY <1>2, <1>t DEF SaveReplacement, SaveAddition, Fault, NoLeak, Without
  <2>2. /\ NextFile[key] # NoPlan /\ NextFile[key].id = newId
        /\ \A j \in Keys \ {key} : NextFile[j] = disk[j]
    BY <2>1, NextFileRecord
  <2>3. pc = "adding" => disk[key] = NoPlan
    <3>1. pc = "adding" => todo = {} /\ desired[key] # NoPayload
      BY <2>1, NullsAssumption DEF LeakInv, PlanInv, TypeInv, InFlight
    <3>2. QED BY <1>d, <1>t, <2>1, <3>1 DEF RoundPcs, HoldingPcs, QueuePcs
  <2>4. \A n \in os' : Names(n.key, n)'
    <3>1. TAKE n \in os'
    <3>2. Names(n.key, n) \/ (n.id = newId /\ n.key = key)
      BY <2>1 DEF LeakInv, Listed
    <3>3. CASE n.id = newId /\ n.key = key
      BY <2>1, <2>2, <3>3 DEF Names
    <3>4. CASE Names(n.key, n) /\ n.key = key
      BY <2>1, <2>3, <3>4 DEF Names
    <3>5. CASE Names(n.key, n) /\ n.key # key
      BY <1>t, <2>1, <2>2, <3>5 DEF Names
    <3>6. QED BY <3>2, <3>3, <3>4, <3>5
  <2>5. \A j \in Keys \ todo' : desired'[j] # NoPayload => disk'[j] = NoPlan
    BY <1>d, <1>t, <2>1, <2>2 DEF Desires, RoundPcs, HoldingPcs, QueuePcs
  <2>6. QED BY <1>t, <2>1, <2>4, <2>5 DEF LeakInv, Listed
<1>3. CASE RecordDelivery
  <2>1. /\ pc = "recording" /\ pc' = "scanning"
        /\ UNCHANGED <<disk, os, newId, todo, desired>>
    BY <1>3 DEF RecordDelivery
  <2>2. \A n \in os : Names(n.key, n)
    BY <2>1, AllNamed DEF LeakInv
  <2>3. QED BY <1>d, <1>t, <2>1, <2>2
            DEF LeakInv, Listed, Names, RoundPcs, HoldingPcs, QueuePcs
<1>4. QED BY <1>1, <1>2, <1>3

LEMMA NextKeepsLeakInv ==
  ASSUME PlanInv, LeakInv, NoLeak, [Next]_vars
  PROVE  LeakInv'
<1>t. TypeInv /\ TypeOK
  BY DEF PlanInv, TypeInv
<1>n. ASSUME pc \notin {"replacing", "adding"}
      PROVE  \A n \in os : Names(n.key, n)
  BY <1>n, AllNamed DEF LeakInv
<1>1. CASE Environment \/ Periodic \/ RefreshTimer
  <2>1. ~Restart
    BY DEF Restart, Fault, NoLeak
  <2>2. /\ UNCHANGED disk /\ UNCHANGED locals
        /\ pc' = pc \/ (pc \in WaitingPcs /\ pc' \in WaitingPcs)
        /\ cpc' = cpc \/ (cpc = "idle" /\ cpc' = "lock")
        /\ os' \subseteq os
    BY <1>1, <1>t, <2>1, EnvironmentEffect
  <2>3. CASE pc' = pc
    <3>1. UNCHANGED <<newId, key, todo, desired>>
      BY <2>2 DEF locals
    <3>2. Listed'
      BY <2>2, <3>1 DEF LeakInv, Listed, Names
    <3>3. QED BY <2>2, <2>3, <3>1, <3>2 DEF LeakInv
  <2>4. CASE pc \in WaitingPcs /\ pc' \in WaitingPcs
    <3>1. \A n \in os' : Names(n.key, n)'
      BY <1>n, <2>2, <2>4 DEF Names, WaitingPcs
    <3>2. CASE cpc' # "saving"
      BY <2>4, <3>1, <3>2, WaitingLeakInv
    <3>3. CASE cpc' = "saving"
      <4>1. os' = {}
        BY <2>2, <3>3 DEF LeakInv
      <4>2. QED
        BY <2>4, <4>1 DEF LeakInv, Listed, WaitingPcs, RoundPcs, HoldingPcs,
                          QueuePcs
    <3>4. QED BY <3>2, <3>3
  <2>5. QED BY <2>2, <2>3, <2>4
<1>2. CASE StartReconcile
  <2>1. /\ pc = "lockReconcile" /\ pc' \in {"building", "scanning"}
        /\ UNCHANGED <<disk, os, newId, desired, cpc>>
        /\ todo' = {k \in Keys : disk[k] # NoPlan} /\ lock = "free"
    BY <1>2 DEF StartReconcile, LockFree, outside, clearing
  <2>2. cpc' # "saving"
    BY <2>1 DEF PlanInv, NoLostUpdate
  <2>3. \A n \in os' : Names(n.key, n)'
    BY <1>n, <2>1 DEF Names
  <2>4. QED BY <2>1, <2>2, <2>3 DEF LeakInv, Listed
<1>3. ASSUME NEW s \in Sources, BuildPlans(s) \/ ProviderFails(s)
      PROVE  LeakInv'
  <2>1. /\ pc = "building" /\ pc' = pc
        /\ UNCHANGED <<disk, os, newId, key, todo, cpc>>
    BY <1>3 DEF BuildPlans, ProviderFails, outside, queue, clearing
  <2>2. Listed'
    BY <2>1 DEF LeakInv, Listed, Names
  <2>3. QED BY <2>1, <2>2 DEF LeakInv, RoundPcs
<1>4. CASE StartScan
  <2>1. /\ pc = "building" /\ pc' = "scanning"
        /\ UNCHANGED <<disk, os, newId, key, todo, desired, cpc>>
    BY <1>4 DEF StartScan, outside, clearing
  <2>2. Listed'
    BY <2>1 DEF LeakInv, Listed, Names
  <2>3. QED BY <2>1, <2>2 DEF LeakInv
<1>5. CASE FailToLoad \/ FailToSchedule \/ FinishReconcile \/ FailToSave
           \/ SaveRevocation
  <2>1. EndRound
    BY <1>5 DEF FailToLoad, FailToSchedule, FinishReconcile, FailToSave,
                SaveRevocation
  <2>2. QED BY <1>5, <2>1, EndRoundKeepsLeakInv
<1>6. CASE ScanStep
  BY <1>6, ScanningKeepsLeakInv DEF ScanStep
<1>7. CASE SaveRemoval \/ SaveReplacement \/ SaveAddition \/ RecordDelivery
  BY <1>7, SavingKeepsLeakInv
<1>8. ASSUME os' = Without({disk[k].id : k \in Recorded}),
             pc \in {"lockRevoke", "idle", "lockReconcile"}
      PROVE  os' = {}
  <2>1. \A n \in os : n.key \in Keys /\ Names(n.key, n)
    BY <1>8, AllNamed DEF LeakInv
  <2>2. QED BY <1>8, <2>1 DEF Without, Recorded, Names
<1>9. CASE StartRevocation
  <2>1. /\ pc = "lockRevoke" /\ lock = "free" /\ UNCHANGED <<disk, cpc>>
        /\ os' = Without({disk[k].id : k \in Recorded})
        /\ EndRound \/ (pc' = "revoking" /\ UNCHANGED <<desired, todo, key, newId>>)
    BY <1>9 DEF StartRevocation, Fault, NoLeak, LockFree, clearing
  <2>2. os' = {}
    BY <1>8, <2>1
  <2>3. cpc' # "saving"
    BY <2>1 DEF PlanInv, NoLostUpdate
  <2>4. CASE EndRound
    BY <1>t, <2>2, <2>3, <2>4, EndRoundEffect, WaitingLeakInv
  <2>5. CASE pc' = "revoking"
    BY <2>2, <2>3, <2>5 DEF LeakInv, Listed, RoundPcs
  <2>6. QED BY <2>1, <2>4, <2>5
<1>10. CASE StartClear
  <2>1. /\ lock = "free" /\ UNCHANGED <<disk, pc, newId, key, todo, desired>>
        /\ os' = Without({disk[k].id : k \in Recorded})
    BY <1>10 DEF StartClear, Fault, NoLeak, LockFree, queue, locals
  <2>2. pc \in {"lockRevoke", "idle", "lockReconcile"}
    BY <1>t, <2>1 DEF PlanInv, NoLostUpdate, TypeOK, HoldingPcs
  <2>3. os' = {}
    BY <1>8, <2>1, <2>2
  <2>4. QED BY <2>1, <2>2, <2>3
            DEF LeakInv, Listed, RoundPcs, HoldingPcs, QueuePcs
<1>11. CASE EndClear
  <2>1. /\ cpc = "saving" /\ cpc' = "idle" /\ lock = "clear"
        /\ UNCHANGED <<os, pc, newId, key, todo, desired>>
    BY <1>11 DEF EndClear, PlanInv, NoLostUpdate, queue, locals
  <2>2. pc \in {"lockRevoke", "idle", "lockReconcile"}
    BY <1>t, <2>1 DEF PlanInv, NoLostUpdate, TypeOK, HoldingPcs
  <2>3. os' = {}
    BY <2>1 DEF LeakInv
  <2>4. QED BY <2>1, <2>2, <2>3
            DEF LeakInv, Listed, RoundPcs, HoldingPcs, QueuePcs
<1>12. CASE FailToLoadForClear
  <2>1. /\ cpc' = "idle" /\ UNCHANGED <<os, disk, pc, newId, key, todo, desired>>
    BY <1>12 DEF FailToLoadForClear, outside, queue, locals
  <2>2. Listed'
    BY <2>1 DEF LeakInv, Listed, Names
  <2>3. QED BY <2>1, <2>2 DEF LeakInv
<1>13. CASE UNCHANGED vars
  <2>1. UNCHANGED <<os, disk, pc, newId, key, todo, desired, cpc>>
    BY <1>13 DEF vars, outside, queue, locals, clearing
  <2>2. Listed'
    BY <2>1 DEF LeakInv, Listed, Names
  <2>3. QED BY <2>1, <2>2 DEF LeakInv
<1>14. QED
  BY <1>1, <1>2, <1>3, <1>4, <1>5, <1>6, <1>7, <1>9, <1>10, <1>11, <1>12, <1>13
     DEF Next, QueueStep, ClearStep

\* Unless cancelling or reading back fails or the process is killed, every
\* notification of the operating system stays within the application's reach.
THEOREM NothingLeaks == ASSUME NoLeak PROVE Spec => []Accounted
<1>1. PlanInv /\ LeakInv /\ [Next]_vars => LeakInv'
  BY NoLeak, NextKeepsLeakInv
<1>2. LeakInv => Accounted
  BY DEF LeakInv, Accounted
<1>3. QED BY <1>1, <1>2, InitLeak, PlanInvHolds, PTL DEF Spec

=============================================================================

-------------------------- MODULE HomepageMcpProofs --------------------------
(***************************************************************************)
(* Proofs about HomepageMcp for every set of capabilities, calls and       *)
(* confirmation ids and every bound: types, what the controller knows of   *)
(* the host, that a write is wanted, approved and sees the state it was    *)
(* approved for, and that the service implements WriteApprovals.           *)
(***************************************************************************)
EXTENDS HomepageMcp, FiniteSetTheorems, TLAPS

----------------------------------------------------------------------------
\* Numbers.

LEMMA BoundsAreNumbers ==
  /\ Ttl \in Nat /\ MaxRequests \in Nat /\ MaxQueue \in Nat /\ MaxTime \in Nat
  /\ MaxEdits \in Nat /\ MaxFaults \in Nat /\ MaxRestarts \in Nat
BY McpAssumption

\* There is always a revision nobody holds: fewer are held than there are
\* numbers to choose from.
LEMMA FreshRevision ==
  ASSUME queue \in Seq(Ops)
  PROVE  /\ NextRevision \in Nat /\ NextRevision # access.revision
         /\ \A i \in DOMAIN queue : queue[i].rev # NextRevision
<1> DEFINE L == Len(queue)
           Choices == 1 .. (L + 2)
           Held(r) == r = access.revision \/ \E i \in 1 .. L : queue[i].rev = r
           holder == [r \in Choices |-> IF r = access.revision THEN 0
                                        ELSE CHOOSE i \in 1 .. L : queue[i].rev = r]
<1>1. L \in Nat /\ DOMAIN queue = 1 .. L
  OBVIOUS
<1>2. \E r \in Choices : ~Held(r)
  <2> SUFFICES ASSUME \A r \in Choices : Held(r) PROVE FALSE
    OBVIOUS
  <2>1. \A r \in Choices : r # access.revision =>
          holder[r] \in 1 .. L /\ queue[holder[r]].rev = r
    OBVIOUS
  <2>2. \A r \in Choices : r = access.revision => holder[r] = 0
    OBVIOUS
  <2>3. holder \in [Choices -> 0 .. L]
    <3>1. \A r \in Choices : holder[r] \in 0 .. L
      BY <1>1, <2>1, <2>2
    <3>2. QED BY <3>1
  <2> HIDE DEF holder
  <2>4. /\ IsFiniteSet(Choices) /\ Cardinality(Choices) = L + 2
        /\ IsFiniteSet(0 .. L) /\ Cardinality(0 .. L) = L + 1
    BY <1>1, FS_Interval
  <2>5. \E x, y \in Choices : x # y /\ holder[x] = holder[y]
    <3> HIDE DEF Choices
    <3>1. Cardinality(0 .. L) < Cardinality(Choices)
      BY <1>1, <2>4
    <3>2. QED BY <2>3, <2>4, <3>1, FS_PigeonHole
  <2>6. PICK x \in Choices, y \in Choices : x # y /\ holder[x] = holder[y]
    BY <2>5
  <2>7. holder[x] # 0 /\ holder[y] # 0
    BY <1>1, <2>1, <2>2, <2>6
  <2>8. QED BY <2>1, <2>2, <2>6, <2>7
<1>3. NextRevision \in Choices /\ ~Held(NextRevision)
  BY <1>1, <1>2 DEF NextRevision
<1>4. QED BY <1>1, <1>3

----------------------------------------------------------------------------
\* Types.

Fields == [enabled : BOOLEAN, entitled : BOOLEAN, ready : BOOLEAN, closing : BOOLEAN,
           timer : BOOLEAN, names : SUBSET Names, records : SUBSET Names,
           status : {"disabled", "enabled", "locked", "error", "initializing"}]
Accesses == [allowed : BOOLEAN, requests : SUBSET Requests, revision : Nat]

LEMMA OpType ==
  ASSUME NEW kind \in {"initialize", "enable", "disable", "switch", "list", "decide",
                       "reconcile", "shutdown", "write"}
  PROVE  Op(kind) \in Ops /\ Op(kind).kind = kind
BY DEF Op, Ops

LEMMA VoidedType == ASSUME ledger \in [Ids -> Grants] PROVE Voided \in [Ids -> Grants]
BY DEF Voided, Grants

LEMMA RevokedType ==
  ASSUME TypeOK
  PROVE  Revoked \in Accesses /\ Revoked.requests = {} /\ Revoked.allowed = FALSE
BY FreshRevision DEF TypeOK, Accesses, Revoked

LEMMA WritesType ==
  ASSUME TypeOK, KeepWrites \/ RevokeWrites
  PROVE  access' \in Accesses /\ ledger' \in [Ids -> Grants] /\ wanted' \in BOOLEAN
BY VoidedType, RevokedType DEF TypeOK, Accesses, KeepWrites, RevokeWrites

LEMMA TimedType == ASSUME NEW c \in Fields PROVE Timed(c) \in Fields
BY DEF Timed, Fields

LEMMA ReadEntitlementType ==
  ASSUME TypeOK, NEW c \in Fields, ReadEntitlement(c)
  PROVE  ctl' \in Fields /\ (KeepWrites \/ RevokeWrites)
BY DEF ReadEntitlement, Fields

LEMMA UnregisterType ==
  ASSUME TypeOK, NEW kept, Unregister(kept)
  PROVE  /\ host' \in [Names -> {"none", "read", "write"}] /\ faults' \in Nat
         /\ Keeping(kept) \in Fields /\ Keeping(kept).names = kept
<1>1. host' \in [Names -> {"none", "read", "write"}] /\ kept \subseteq Names
  BY DEF TypeOK, Unregister
<1>2. faults' \in Nat
  BY DEF TypeOK, Unregister, Fails
<1>3. Keeping(kept) \in Fields /\ Keeping(kept).names = kept
  BY <1>1 DEF TypeOK, Keeping, Fields
<1>4. QED BY <1>1, <1>2, <1>3

LEMMA RegisterType ==
  ASSUME TypeOK, NEW kept \in SUBSET Names, NEW records \in SUBSET kept,
         RegisterAll(kept, records)
  PROVE  /\ host' \in [Names -> {"none", "read", "write"}] /\ faults' \in Nat
         /\ Holding(kept, records) \in Fields
<1>1. Registered \in [Names -> {"none", "read", "write"}]
  BY DEF Registered
<1>2. host' \in [Names -> {"none", "read", "write"}]
  BY <1>1 DEF RegisterAll, RegisterFails, TypeOK
<1>3. faults' \in Nat
  BY DEF RegisterAll, RegisterFails, TypeOK
<1>4. Holding(kept, records) \in Fields
  BY DEF TypeOK, Holding, Fields
<1>5. QED BY <1>2, <1>3, <1>4

LEMMA QueueType ==
  ASSUME TypeOK
  PROVE  /\ queue # <<>> => Tail(queue) \in Seq(Ops) /\ Head(queue) \in Ops
         /\ \A op \in Ops : Append(queue, op) \in Seq(Ops)
         /\ queue # <<>> => \A op \in Ops : Append(Tail(queue), op) \in Seq(Ops)
BY DEF TypeOK

\* TypeOK in parts, each of which few actions touch.
Steps == {"start", "unregister", "register", "registering", "save", "lock", "sweep",
          "undo", "restore", "restoring", "prepare", "commit", "execute"}
Locals == [write : BOOLEAN, state : Nat]
Hosts == [Names -> {"none", "read", "write"}]
ControllerTyped == ctl \in Fields
QueueTyped == queue \in Seq(Ops) /\ step \in Steps
WritesTyped == access \in Accesses /\ ledger \in [Ids -> Grants] /\ wanted \in BOOLEAN
WorldTyped ==
  /\ local \in Locals /\ host \in Hosts
  /\ file \in BOOLEAN /\ member \in BOOLEAN /\ reading \in BOOLEAN
  /\ data \in Nat /\ now \in Nat /\ faults \in Nat /\ restarts \in Nat

\* A write call knows what it is to write.
WritesHaveCalls == \A i \in DOMAIN queue : queue[i].kind = "write" => queue[i].call \in Calls
TypeInv == TypeOK /\ WritesHaveCalls

LEMMA TypeParts == TypeOK <=> ControllerTyped /\ QueueTyped /\ WritesTyped /\ WorldTyped
BY DEF TypeOK, ControllerTyped, QueueTyped, WritesTyped, WorldTyped, Fields, Accesses,
       Steps, Locals, Hosts

LEMMA TypePartsNext ==
  ControllerTyped' /\ QueueTyped' /\ WritesTyped' /\ WorldTyped' => TypeOK'
BY DEF TypeOK, ControllerTyped, QueueTyped, WritesTyped, WorldTyped, Fields, Accesses,
       Steps, Locals, Hosts

LEMMA ReadsTyped ==
  ASSUME TypeOK, NEW c \in Fields, ReadEntitlement(c)
  PROVE  ControllerTyped' /\ WritesTyped'
BY ReadEntitlementType, WritesType DEF ControllerTyped, WritesTyped

LEMMA GoesOn ==
  ASSUME TypeOK, queue # <<>>, Finish \/ \E where \in Steps : GoTo(where)
  PROVE  QueueTyped'
BY QueueType DEF TypeOK, QueueTyped, Steps, Finish, GoTo

LEMMA InitialisingKeepsType ==
  ASSUME TypeOK, NEW readable \in BOOLEAN, Initialize(readable)
  PROVE  TypeOK'
<1>1. queue # <<>>
  BY DEF Initialize, At
<1>2. ControllerTyped' /\ WritesTyped'
  <2>1. CASE ~readable
    <3>1. ctl' = [ctl EXCEPT !.status = "error", !.ready = TRUE] /\ KeepWrites
      BY <2>1 DEF Initialize
    <3>2. ctl' \in Fields
      BY <3>1 DEF TypeOK, Fields
    <3>3. QED BY <3>1, <3>2, WritesType DEF ControllerTyped, WritesTyped
  <2>2. CASE readable
    <3> DEFINE c == [ctl EXCEPT !.enabled = file, !.entitled = member,
               !.ready = ~file \/ ~member, !.timer = file /\ ~member,
               !.status = IF ~file THEN "disabled" ELSE IF ~member THEN "locked" ELSE @]
    <3>1. c \in Fields
      BY DEF TypeOK, Fields
    <3>2. ReadEntitlement(c)
      BY <2>2 DEF Initialize
    <3>3. QED BY <3>1, <3>2, ReadsTyped
  <2>3. QED BY <2>1, <2>2
<1>3. QueueTyped'
  BY <1>1, GoesOn DEF Initialize, Steps
<1>4. WorldTyped'
  BY DEF Initialize, Fails, WorldTyped, TypeOK, Locals, Hosts, env
<1>5. QED BY <1>2, <1>3, <1>4, TypePartsNext

LEMMA RegisteringKeepsType ==
  ASSUME TypeOK, NEW kept \in SUBSET Names, NEW records \in SUBSET kept,
         Registers(kept, records)
  PROVE  TypeOK'
<1> DEFINE c == Holding(kept, records)
<1>1. queue # <<>> /\ RegisterAll(kept, records)
  BY DEF Registers, Initialized, EnableRegisters, Restore, SwitchRegisters,
         ReconcileRegisters, At, Running
<1>2. c \in Fields
  BY <1>1, RegisterType
<1>3. ControllerTyped'
  <2>1. \A d \in Fields : Timed(d) \in Fields
    BY TimedType
  <2>2. /\ [c EXCEPT !.ready = TRUE, !.status = "enabled"] \in Fields
        /\ [c EXCEPT !.ready = TRUE, !.status = "error"] \in Fields
        /\ [c EXCEPT !.status = "enabled"] \in Fields
        /\ [c EXCEPT !.status = "error"] \in Fields
    BY <1>2 DEF Fields
  <2> HIDE DEF c
  <2>3. ctl' \in {c, Timed(c), Timed([c EXCEPT !.ready = TRUE, !.status = "enabled"]),
                  Timed([c EXCEPT !.ready = TRUE, !.status = "error"]),
                  Timed([c EXCEPT !.status = "enabled"]), Timed([c EXCEPT !.status = "error"])}
    BY DEF Registers, Initialized, EnableRegisters, Restore, SwitchRegisters,
           ReconcileRegisters, c
  <2>4. QED BY <1>2, <2>1, <2>2, <2>3 DEF ControllerTyped
<1>4. WritesTyped'
  BY WritesType DEF Registers, Initialized, EnableRegisters, Restore, SwitchRegisters,
     ReconcileRegisters, WritesTyped
<1>5. QueueTyped'
  BY <1>1, GoesOn DEF Registers, Initialized, EnableRegisters, Restore, SwitchRegisters,
     ReconcileRegisters, Steps
<1>6. WorldTyped'
  BY <1>1, RegisterType DEF Registers, Initialized, EnableRegisters, Restore,
     SwitchRegisters, ReconcileRegisters, WorldTyped, TypeOK, Locals, Hosts, env
<1>7. QED BY <1>3, <1>4, <1>5, <1>6, TypePartsNext

LEMMA UnregisteringKeepsType ==
  ASSUME TypeOK, NEW kept, Unregisters(kept)
  PROVE  TypeOK'
<1> DEFINE c == Keeping(kept)
<1>1. queue # <<>> /\ Unregister(kept)
  BY DEF Unregisters, Lock, Sweep, Clear, EnableUndone, SwitchUndone, At, Running
<1>2. c \in Fields
  BY <1>1, UnregisterType
<1>3. /\ \A status \in {"disabled", "locked", "error"} : [c EXCEPT !.status = status] \in Fields
      /\ \A d \in Fields : Timed(d) \in Fields
  BY <1>2, TimedType DEF Fields
<1> HIDE DEF c
<1>4. ControllerTyped' /\ WritesTyped'
  <2>1. CASE Lock(kept) \/ Sweep(kept)
    BY <1>3, <2>1, WritesType DEF Lock, Sweep, ControllerTyped, WritesTyped, c
  <2>2. CASE Clear(kept)
    BY <1>2, <1>3, <2>2, WritesType DEF Clear, ControllerTyped, WritesTyped, c
  <2>3. CASE EnableUndone(kept)
    BY <1>3, <2>3, WritesType DEF EnableUndone, ControllerTyped, WritesTyped, c
  <2>4. CASE SwitchUndone(kept)
    BY <1>3, <2>4, WritesType, ReadsTyped DEF SwitchUndone, ControllerTyped, WritesTyped, c
  <2>5. QED BY <2>1, <2>2, <2>3, <2>4 DEF Unregisters
<1>5. QueueTyped'
  BY <1>1, GoesOn DEF Unregisters, Lock, Sweep, Clear, EnableUndone, SwitchUndone, Steps
<1>6. WorldTyped'
  BY <1>1, UnregisterType DEF Unregisters, Lock, Sweep, Clear, EnableUndone, SwitchUndone,
     WorldTyped, TypeOK, Locals, Hosts, env
<1>7. QED BY <1>4, <1>5, <1>6, TypePartsNext

LEMMA SwitchingKeepsType ==
  ASSUME TypeOK, StartEnable \/ StartDisable \/ StartSwitch
  PROVE  TypeOK'
<1>1. queue # <<>>
  BY DEF StartEnable, StartDisable, StartSwitch, At
<1>2. ctl \in Fields /\ Head(queue) \in Ops
  BY <1>1, QueueType DEF TypeOK, Fields
<1>3. ControllerTyped' /\ WritesTyped'
  <2>1. CASE StartEnable
    <3> DEFINE c == [ctl EXCEPT !.entitled = member,
                                !.status = IF member THEN "initializing" ELSE @]
    <3>1. c \in Fields
      BY <1>2 DEF Fields, TypeOK
    <3>2. ReadEntitlement(c)
      BY <2>1 DEF StartEnable
    <3>3. QED BY <3>1, <3>2, ReadsTyped
  <2>2. CASE StartDisable
    <3>1. ctl' = [ctl EXCEPT !.status = "initializing"] /\ KeepWrites
      BY <2>2 DEF StartDisable
    <3>2. ctl' \in Fields
      BY <1>2, <3>1 DEF Fields
    <3>3. QED BY <3>1, <3>2, WritesType DEF ControllerTyped, WritesTyped
  <2>3. CASE StartSwitch
    <3>1. CASE ReadEntitlement(ctl)
      BY <1>2, <3>1, ReadsTyped
    <3>2. CASE (KeepWrites \/ RevokeWrites) /\ UNCHANGED ctl
      BY <1>2, <3>2, WritesType DEF ControllerTyped, WritesTyped
    <3>3. CASE /\ access' = [access EXCEPT !.allowed = Head(queue).yes]
               /\ UNCHANGED <<wanted, ledger>>
               /\ ctl' = [ctl EXCEPT !.status = "initializing"]
      <4>1. ctl' \in Fields
        BY <1>2, <3>3 DEF Fields
      <4>2. Head(queue).yes \in BOOLEAN
        BY <1>2 DEF Ops
      <4>3. access' \in Accesses
        BY <3>3, <4>2 DEF TypeOK, Accesses
      <4>4. QED BY <3>3, <4>1, <4>3 DEF ControllerTyped, WritesTyped, TypeOK
    <3>4. QED BY <2>3, <3>1, <3>2, <3>3 DEF StartSwitch
  <2>4. QED BY <2>1, <2>2, <2>3
<1>4. QueueTyped'
  BY <1>1, GoesOn DEF StartEnable, StartDisable, StartSwitch, Steps
<1>5. WorldTyped'
  BY DEF StartEnable, StartDisable, StartSwitch, WorldTyped, TypeOK, Locals, Hosts, env
<1>6. QED BY <1>3, <1>4, <1>5, TypePartsNext

LEMMA SavingKeepsType ==
  ASSUME TypeOK, NEW ok \in BOOLEAN, NEW landed \in BOOLEAN,
         EnableSaves(ok, landed) \/ DisableSaves(ok, landed)
  PROVE  TypeOK'
<1>1. queue # <<>>
  BY DEF EnableSaves, DisableSaves, At
<1>2. ControllerTyped'
  <2>1. ctl \in Fields
    BY DEF TypeOK, Fields
  <2>2. /\ [ctl EXCEPT !.enabled = TRUE, !.status = "enabled"] \in Fields
        /\ [ctl EXCEPT !.enabled = FALSE, !.status = "disabled", !.timer = FALSE] \in Fields
        /\ [ctl EXCEPT !.status = "error"] \in Fields
    BY <2>1 DEF Fields
  <2>3. Timed([ctl EXCEPT !.enabled = TRUE, !.status = "enabled"]) \in Fields
    BY <2>2, TimedType
  <2>4. QED BY <2>1, <2>2, <2>3 DEF EnableSaves, DisableSaves, ControllerTyped
<1>3. WritesTyped'
  BY WritesType DEF EnableSaves, DisableSaves, WritesTyped
<1>4. QueueTyped'
  BY <1>1, GoesOn DEF EnableSaves, DisableSaves, Steps
<1>5. WorldTyped'
  <2>1. faults' \in Nat
    BY DEF EnableSaves, DisableSaves, Fails, TypeOK
  <2>2. file' \in BOOLEAN
    BY DEF EnableSaves, DisableSaves, TypeOK
  <2>3. QED BY <2>1, <2>2 DEF EnableSaves, DisableSaves, WorldTyped, TypeOK, Locals, Hosts, env
<1>6. QED BY <1>2, <1>3, <1>4, <1>5, TypePartsNext

\* Steps of the head of the queue that leave the fields or only the status.
LEMMA RestKeepsType ==
  ASSUME TypeOK, Refuse \/ BuildPolicies \/ BuildPoliciesAgain \/ StartReconcile \/ StartShutdown
  PROVE  TypeOK'
<1>1. queue # <<>>
  BY DEF Refuse, BuildPolicies, BuildPoliciesAgain, StartRegistering, StartReconcile,
         StartShutdown, At, Running
<1>2. ctl \in Fields
  BY DEF TypeOK, Fields
<1>3. ControllerTyped' /\ WritesTyped'
  <2>1. CASE Refuse \/ BuildPolicies \/ BuildPoliciesAgain
    BY <1>2, <2>1, WritesType DEF Refuse, BuildPolicies, BuildPoliciesAgain,
       StartRegistering, ControllerTyped, WritesTyped
  <2>2. CASE StartShutdown
    <3>1. ctl' = [ctl EXCEPT !.closing = TRUE, !.timer = FALSE] /\ KeepWrites
      BY <2>2 DEF StartShutdown
    <3>2. ctl' \in Fields
      BY <1>2, <3>1 DEF Fields
    <3>3. QED BY <3>1, <3>2, WritesType DEF ControllerTyped, WritesTyped
  <2>3. CASE StartReconcile
    <3> DEFINE c == [ctl EXCEPT !.timer = FALSE, !.entitled = member]
    <3>1. c \in Fields /\ [c EXCEPT !.status = "enabled"] \in Fields
      BY <1>2 DEF Fields, TypeOK
    <3>2. Timed([c EXCEPT !.status = "enabled"]) \in Fields
      BY <3>1, TimedType
    <3>3. ReadEntitlement(c) \/ ReadEntitlement(Timed([c EXCEPT !.status = "enabled"]))
      BY <2>3 DEF StartReconcile
    <3>4. QED BY <3>1, <3>2, <3>3, ReadsTyped
  <2>4. QED BY <2>1, <2>2, <2>3
<1>4. QueueTyped'
  BY <1>1, GoesOn DEF Refuse, BuildPolicies, BuildPoliciesAgain, StartRegistering,
     StartReconcile, StartShutdown, Steps
<1>5. WorldTyped'
  <2>1. local' \in Locals
    <3>1. Advertised \in BOOLEAN
      BY DEF Advertised, TypeOK
    <3>2. QED BY <3>1 DEF Refuse, BuildPolicies, BuildPoliciesAgain, StartRegistering,
          StartReconcile, StartShutdown, TypeOK, Locals
  <2>2. QED BY <2>1 DEF Refuse, BuildPolicies, BuildPoliciesAgain, StartRegistering,
        StartReconcile, StartShutdown, WorldTyped, TypeOK, Hosts, env
<1>6. QED BY <1>3, <1>4, <1>5, TypePartsNext

\* The steps of a write call, the list of requests and a decision.
LEMMA StageType ==
  ASSUME ledger \in [Ids -> Grants], NEW id,
         NEW stage \in {"new", "asked", "approved", "denied", "void", "used"}
  PROVE  [ledger EXCEPT ![id].stage = stage] \in [Ids -> Grants]
BY DEF Grants

LEMMA FewerRequests ==
  /\ Pruned(access.requests) \subseteq access.requests
  /\ \A id : Without(access.requests, id) \subseteq access.requests
  /\ \A id : Without(Pruned(access.requests), id) \subseteq access.requests
BY DEF Pruned, Without

LEMMA EndCallType ==
  ASSUME TypeOK, queue # <<>>, NEW requests \in SUBSET access.requests, EndCall(requests)
  PROVE  ControllerTyped' /\ WritesTyped' /\ QueueTyped'
<1>1. access' \in Accesses
  BY DEF EndCall, TypeOK, Accesses
<1>2. QueueTyped'
  BY GoesOn DEF EndCall
<1>3. QED BY <1>1, <1>2 DEF EndCall, TypeOK, ControllerTyped, WritesTyped, Fields

LEMMA LosingMembershipType ==
  ASSUME TypeOK, queue # <<>>, LosesMembership
  PROVE  ControllerTyped' /\ WritesTyped' /\ QueueTyped'
<1>1. ctl' \in Fields
  BY DEF LosesMembership, TypeOK, Fields
<1>2. WritesTyped'
  BY WritesType DEF LosesMembership, WritesTyped
<1>3. QueueTyped'
  BY QueueType, OpType DEF LosesMembership, QueueTyped, Steps
<1>4. QED BY <1>1, <1>2, <1>3 DEF ControllerTyped

\* A write call goes on to its next step.
LEMMA GoingOnType ==
  ASSUME TypeOK, queue # <<>>, UNCHANGED ctl, KeepWrites, NEW where \in Steps, GoTo(where)
  PROVE  ControllerTyped' /\ WritesTyped' /\ QueueTyped'
<1>1. QueueTyped'
  BY GoesOn
<1>2. QED BY <1>1, WritesType DEF ControllerTyped, WritesTyped, TypeOK, Fields

LEMMA ListingKeepsType ==
  ASSUME TypeOK, ListWrites
  PROVE  TypeOK'
<1>1. queue # <<>> /\ ctl \in Fields
  BY DEF ListWrites, At, TypeOK, Fields
<1>2. ControllerTyped' /\ WritesTyped'
  <2>1. CASE ReadEntitlement(ctl)
    BY <1>1, <2>1, ReadsTyped
  <2>2. CASE /\ access' = IF IsWriteActive THEN [access EXCEPT !.requests = Pruned(@)] ELSE access
             /\ UNCHANGED <<ctl, wanted, ledger>>
    <3>1. access' \in Accesses
      BY <2>2, FewerRequests DEF TypeOK, Accesses
    <3>2. QED BY <1>1, <2>2, <3>1 DEF ControllerTyped, WritesTyped, TypeOK
  <2>3. QED BY <2>1, <2>2 DEF ListWrites
<1>3. QueueTyped'
  BY <1>1, GoesOn DEF ListWrites
<1>4. WorldTyped'
  BY DEF ListWrites, WorldTyped, TypeOK, Locals, Hosts, env
<1>5. QED BY <1>2, <1>3, <1>4, TypePartsNext

LEMMA DecidingKeepsType ==
  ASSUME TypeOK, DecideWrite
  PROVE  TypeOK'
<1> DEFINE op == Head(queue)
           live == Pruned(access.requests)
           answered == IF op.yes THEN {[r EXCEPT !.approved = TRUE] : r \in WithId(live, op.id)} ELSE {}
<1>1. queue # <<>> /\ ctl \in Fields
  BY DEF DecideWrite, At, TypeOK, Fields
<1>2. ControllerTyped' /\ WritesTyped'
  <2>1. CASE ReadEntitlement(ctl)
    BY <1>1, <2>1, ReadsTyped
  <2>2. CASE member /\ IsWriteActive
    <3>1. /\ access' = [access EXCEPT !.requests =
               IF Decidable(op) THEN Without(live, op.id) \cup answered ELSE live]
          /\ ledger' = IF Decidable(op)
                       THEN [ledger EXCEPT ![op.id].stage = IF op.yes THEN "approved" ELSE "denied"]
                       ELSE ledger
          /\ UNCHANGED <<ctl, wanted>>
      BY <2>2 DEF DecideWrite
    <3>2. live \subseteq Requests /\ Without(live, op.id) \subseteq Requests
      BY FewerRequests DEF TypeOK
    <3>3. answered \subseteq Requests
      BY <3>2 DEF WithId, Requests
    <3>4. access' \in Accesses
      BY <3>1, <3>2, <3>3 DEF TypeOK, Accesses
    <3>5. ledger' \in [Ids -> Grants]
      BY <3>1, StageType DEF TypeOK
    <3>6. QED BY <1>1, <3>1, <3>4, <3>5 DEF ControllerTyped, WritesTyped, TypeOK
  <2>3. QED BY <2>1, <2>2 DEF DecideWrite
<1>3. QueueTyped'
  BY <1>1, GoesOn DEF DecideWrite
<1>4. WorldTyped'
  BY DEF DecideWrite, WorldTyped, TypeOK, Locals, Hosts, env
<1>5. QED BY <1>2, <1>3, <1>4, TypePartsNext

LEMMA StartingWriteKeepsType ==
  ASSUME TypeOK, StartWrite
  PROVE  TypeOK'
<1>1. queue # <<>>
  BY DEF StartWrite, At
<1>2. \/ \E requests \in SUBSET access.requests : EndCall(requests)
      \/ LosesMembership
      \/ UNCHANGED ctl /\ KeepWrites /\ GoTo("prepare")
  BY FewerRequests DEF StartWrite
<1>3. ControllerTyped' /\ WritesTyped' /\ QueueTyped'
  BY <1>1, <1>2, EndCallType, LosingMembershipType, GoingOnType DEF Steps
<1>4. WorldTyped'
  BY DEF StartWrite, WorldTyped, TypeOK, Locals, Hosts, env
<1>5. QED BY <1>3, <1>4, TypePartsNext

LEMMA PreparingKeepsType ==
  ASSUME TypeOK, NEW outcome \in {"invalid", "error", "read"}, PrepareWrite(outcome)
  PROVE  TypeOK'
<1>1. queue # <<>>
  BY DEF PrepareWrite, At
<1>2. \/ \E requests \in SUBSET access.requests : EndCall(requests)
      \/ LosesMembership
      \/ UNCHANGED ctl /\ KeepWrites /\ GoTo("commit")
  BY FewerRequests DEF PrepareWrite
<1>3. ControllerTyped' /\ WritesTyped' /\ QueueTyped'
  BY <1>1, <1>2, EndCallType, LosingMembershipType, GoingOnType DEF Steps
<1>4. local' \in Locals
  BY DEF PrepareWrite, TypeOK, Locals
<1>5. WorldTyped'
  BY <1>4 DEF PrepareWrite, WorldTyped, TypeOK, Hosts, env
<1>6. QED BY <1>3, <1>5, TypePartsNext

LEMMA CommittingKeepsType ==
  ASSUME TypeOK, WritesHaveCalls, CommitWrite
  PROVE  TypeOK'
<1> DEFINE op == Head(queue)
           live == Pruned(access.requests)
<1>1. queue # <<>> /\ op \in Ops /\ op.call \in Calls
  BY QueueType DEF CommitWrite, At, WritesHaveCalls, TypeOK
<1>2. ControllerTyped' /\ WritesTyped' /\ QueueTyped'
  <2>1. CASE LosesMembership \/ \E requests \in SUBSET access.requests : EndCall(requests)
    BY <1>1, <2>1, EndCallType, LosingMembershipType
  <2>2. ASSUME op.id = NoId, Ask(op, live) PROVE ControllerTyped' /\ WritesTyped' /\ QueueTyped'
    <3>1. CASE EndCall(live)
      BY <1>1, <3>1, FewerRequests, EndCallType
    <3>2. ASSUME NEW id \in Ids,
                 access' = [access EXCEPT !.requests = live \cup
                   {[id |-> id, call |-> op.call, state |-> local.state, due |-> now + Ttl,
                     approved |-> FALSE]}],
                 ledger' = [ledger EXCEPT ![id] = [stage |-> "asked", call |-> op.call,
                              state |-> local.state, due |-> now + Ttl]],
                 op.call \in Calls,
                 UNCHANGED <<ctl, wanted>>, Finish
          PROVE  ControllerTyped' /\ WritesTyped' /\ QueueTyped'
      <4>1. now + Ttl \in Nat /\ local.state \in Nat
        BY BoundsAreNumbers DEF TypeOK
      <4>2. [id |-> id, call |-> op.call, state |-> local.state, due |-> now + Ttl,
             approved |-> FALSE] \in Requests
        BY <3>2, <4>1 DEF Requests
      <4>3. access' \in Accesses
        BY <3>2, <4>2, FewerRequests DEF TypeOK, Accesses
      <4>4. [stage |-> "asked", call |-> op.call, state |-> local.state, due |-> now + Ttl]
              \in Grants
        BY <3>2, <4>1 DEF Grants
      <4>5. ledger' \in [Ids -> Grants]
        BY <3>2, <4>4 DEF TypeOK
      <4>6. QueueTyped'
        BY <1>1, <3>2, GoesOn
      <4>7. QED BY <3>2, <4>3, <4>5, <4>6 DEF ControllerTyped, WritesTyped, TypeOK, Fields
    <3>3. QED BY <1>1, <2>2, <3>1, <3>2 DEF Ask
  <2>3. ASSUME Consume(op, live) PROVE ControllerTyped' /\ WritesTyped' /\ QueueTyped'
    <3>1. CASE \E requests \in SUBSET access.requests : EndCall(requests)
      BY <1>1, <3>1, EndCallType
    <3>2. ASSUME access' = [access EXCEPT !.requests = LeftAfter(live, op)],
                 ledger' = [ledger EXCEPT ![op.id].stage = "used"],
                 UNCHANGED <<ctl, wanted>>, GoTo("execute")
          PROVE  ControllerTyped' /\ WritesTyped' /\ QueueTyped'
      <4>1. access' \in Accesses
        BY <3>2, FewerRequests DEF LeftAfter, TypeOK, Accesses
      <4>2. ledger' \in [Ids -> Grants]
        BY <3>2, StageType DEF TypeOK
      <4>3. QueueTyped'
        BY <1>1, <3>2, GoesOn DEF Steps
      <4>4. QED BY <3>2, <4>1, <4>2, <4>3 DEF ControllerTyped, WritesTyped, TypeOK, Fields
    <3>3. QED BY <2>3, <3>1, <3>2, FewerRequests DEF Consume
  <2>4. QED BY <2>1, <2>2, <2>3 DEF CommitWrite
<1>3. WorldTyped'
  BY DEF CommitWrite, WorldTyped, TypeOK, Locals, Hosts, env
<1>4. QED BY <1>2, <1>3, TypePartsNext

LEMMA ExecutingKeepsType ==
  ASSUME TypeOK, NEW written \in BOOLEAN, ExecuteWrite(written)
  PROVE  TypeOK'
<1>1. queue # <<>>
  BY DEF ExecuteWrite, At
<1>2. QueueTyped' /\ WritesTyped'
  BY <1>1, GoesOn, WritesType DEF ExecuteWrite, WritesTyped
<1>3. data' \in Nat
  BY DEF ExecuteWrite, TypeOK
<1>4. WorldTyped' /\ ControllerTyped'
  BY <1>3 DEF ExecuteWrite, WorldTyped, ControllerTyped, TypeOK, Fields, Locals, Hosts
<1>5. QED BY <1>2, <1>4, TypePartsNext

\* The callers append an operation; what a write call appends has a call.
Appends(op) ==
  /\ op \in Ops /\ Enqueue(op) /\ UNCHANGED step
  /\ op.kind = "write" => op.call \in Calls
  /\ op.kind = "switch" => /\ op.rev = access'.revision /\ op.yes = wanted'
                           /\ op.was = access.allowed
  /\ op.kind = "disable" => RevokeWrites
  /\ op.kind # "initialize"

LEMMA AppendsType == ASSUME TypeOK, NEW op, Appends(op) PROVE QueueTyped'
BY QueueType DEF Appends, Enqueue, QueueTyped, TypeOK, Steps

LEMMA CallersAppend ==
  ASSUME TypeOK, Someone, ~CallRead
  PROVE  (\E op : Appends(op)) /\ WritesTyped' /\ UNCHANGED ctl
<1>1. ASSUME NEW yes \in BOOLEAN, CallSetEnabled(yes)
      PROVE  (\E op : Appends(op)) /\ WritesTyped' /\ UNCHANGED ctl
  <2>1. Appends(Op(IF yes THEN "enable" ELSE "disable"))
    BY <1>1, OpType DEF CallSetEnabled, Called, Appends
  <2>2. QED BY <1>1, <2>1, WritesType DEF CallSetEnabled, Called, WritesTyped
<1>2. ASSUME NEW yes \in BOOLEAN, CallSetWriteEnabled(yes)
      PROVE  (\E op : Appends(op)) /\ WritesTyped' /\ UNCHANGED ctl
  <2> DEFINE op == [Op("switch") EXCEPT !.yes = yes, !.was = access.allowed, !.rev = NextRevision]
  <2>1. NextRevision \in Nat /\ access.allowed \in BOOLEAN
    BY FreshRevision DEF TypeOK
  <2>2. /\ op \in Ops /\ op.kind = "switch" /\ op.rev = NextRevision /\ op.yes = yes
        /\ op.was = access.allowed
    BY <2>1, OpType DEF Ops, Op
  <2>3. access' \in Accesses /\ access'.revision = NextRevision
    BY <1>2, <2>1, RevokedType DEF CallSetWriteEnabled, Revoked, TypeOK, Accesses
  <2>4. ledger' \in [Ids -> Grants] /\ wanted' = yes
    BY <1>2, VoidedType DEF CallSetWriteEnabled, TypeOK
  <2>5. Enqueue(op) /\ UNCHANGED <<step, ctl>>
    BY <1>2 DEF CallSetWriteEnabled, Called
  <2>6. Appends(op)
    BY <2>2, <2>3, <2>4, <2>5 DEF Appends
  <2>7. QED BY <2>3, <2>4, <2>5, <2>6 DEF WritesTyped
<1>3. CASE CallPendingWrites \/ CallReconcile \/ CallShutdown
  <2>1. Appends(Op("list")) \/ Appends(Op("reconcile")) \/ Appends(Op("shutdown"))
    BY <1>3, OpType DEF CallPendingWrites, CallReconcile, CallShutdown, Called, Appends
  <2>2. QED BY <1>3, <2>1, WritesType DEF CallPendingWrites, CallReconcile, CallShutdown,
            Called, WritesTyped
<1>4. ASSUME NEW id \in Ids, NEW yes \in BOOLEAN, CallDecideWrite(id, yes)
      PROVE  (\E op : Appends(op)) /\ WritesTyped' /\ UNCHANGED ctl
  <2>1. [Op("decide") EXCEPT !.id = id, !.yes = yes] \in Ops
        /\ [Op("decide") EXCEPT !.id = id, !.yes = yes].kind = "decide"
    BY DEF Op, Ops
  <2>2. Appends([Op("decide") EXCEPT !.id = id, !.yes = yes])
    BY <1>4, <2>1 DEF CallDecideWrite, Called, Appends
  <2>3. QED BY <1>4, <2>2, WritesType DEF CallDecideWrite, Called, WritesTyped
<1>5. ASSUME NEW call \in Calls, NEW id \in Ids \cup {NoId}, CallWrite(call, id)
      PROVE  (\E op : Appends(op)) /\ WritesTyped' /\ UNCHANGED ctl
  <2> DEFINE op == [Op("write") EXCEPT !.call = call, !.id = id]
  <2>1. op \in Ops /\ op.kind = "write" /\ op.call = call
    BY DEF Op, Ops
  <2>2. Enqueue(op) /\ UNCHANGED <<step, ctl>> /\ KeepWrites
    BY <1>5 DEF CallWrite, Called
  <2>3. Appends(op)
    BY <2>1, <2>2 DEF Appends
  <2>4. QED BY <2>2, <2>3, WritesType DEF WritesTyped
<1>6. QED BY <1>1, <1>2, <1>3, <1>4, <1>5 DEF Someone

LEMMA CallersKeepType ==
  ASSUME TypeOK, Someone
  PROVE  TypeOK'
<1>1. CASE CallRead
  <2>1. WritesTyped'
    BY <1>1, WritesType DEF CallRead, WritesTyped
  <2>2. QED BY <1>1, <2>1, TypePartsNext DEF CallRead, TypeOK, ControllerTyped, QueueTyped,
            WorldTyped, Fields, Steps, Locals, Hosts, env
<1>2. CASE ~CallRead
  <2>1. QueueTyped' /\ WritesTyped' /\ UNCHANGED ctl
    BY <1>2, CallersAppend, AppendsType
  <2>2. Called
    BY <1>2 DEF Someone, CallSetEnabled, CallSetWriteEnabled, CallPendingWrites,
       CallReconcile, CallShutdown, CallDecideWrite, CallWrite
  <2>3. WorldTyped' /\ ControllerTyped'
    BY <2>2 DEF Called, WorldTyped, ControllerTyped, TypeOK, Fields, Locals, Hosts, env
  <2>4. QED BY <2>1, <2>3, TypePartsNext
<1>3. QED BY <1>1, <1>2

LEMMA OthersKeepType ==
  ASSUME TypeOK, ReadIsAnswered \/ TimerFires \/ World
  PROVE  TypeOK'
<1>0. ctl \in Fields
  BY DEF TypeOK, Fields
<1>1. CASE ReadIsAnswered
  <2>1. WritesTyped'
    BY <1>1, WritesType DEF ReadIsAnswered, WritesTyped
  <2>2. ctl' \in Fields
    BY <1>0, <1>1 DEF ReadIsAnswered, Fields
  <2>3. QueueTyped'
    BY <1>1, QueueType, OpType, SMTT(20) DEF ReadIsAnswered, Enqueue, QueueTyped, TypeOK, Steps
  <2>4. WorldTyped'
    BY <1>1 DEF ReadIsAnswered, WorldTyped, TypeOK, Locals, Hosts, env
  <2>5. QED BY <2>1, <2>2, <2>3, <2>4, TypePartsNext DEF ControllerTyped
<1>2. CASE TimerFires
  <2>1. WritesTyped'
    BY <1>2, WritesType DEF TimerFires, WritesTyped
  <2>2. ctl' \in Fields
    BY <1>0, <1>2 DEF TimerFires, Fields
  <2>3. QueueTyped'
    BY <1>2, QueueType, OpType DEF TimerFires, Enqueue, QueueTyped, TypeOK, Steps
  <2>4. WorldTyped'
    BY <1>2 DEF TimerFires, WorldTyped, TypeOK, Locals, Hosts, env
  <2>5. QED BY <2>1, <2>2, <2>3, <2>4, TypePartsNext DEF ControllerTyped
<1>3. CASE Restart
  <2>1. AtStart \in Fields /\ NoAccess \in Accesses /\ Fresh \in Locals /\ Bare \in Hosts
    BY DEF AtStart, Fields, NoAccess, Accesses, Fresh, Locals, Bare, Hosts
  <2>2. ledger' \in [Ids -> Grants]
    BY <1>3, VoidedType DEF Restart, TypeOK
  <2>3. <<Op("initialize")>> \in Seq(Ops)
    BY OpType
  <2>4. ControllerTyped' /\ WritesTyped' /\ QueueTyped'
    BY <1>3, <2>1, <2>2, <2>3 DEF Restart, ControllerTyped, WritesTyped, QueueTyped, Steps
  <2>5. WorldTyped'
    <3>1. restarts' \in Nat
      BY <1>3 DEF Restart, TypeOK
    <3>2. QED BY <1>3, <2>1, <3>1 DEF Restart, WorldTyped, TypeOK
  <2>6. QED BY <2>4, <2>5, TypePartsNext
<1>4. CASE Membership \/ Edit \/ Tick
  <2>1. WritesTyped'
    BY <1>4, WritesType DEF Membership, Edit, Tick, WritesTyped
  <2>2. ControllerTyped' /\ QueueTyped'
    BY <1>4 DEF Membership, Edit, Tick, ControllerTyped, QueueTyped, TypeOK, Fields, Steps
  <2>3. data' \in Nat /\ now' \in Nat /\ faults' \in Nat /\ restarts' \in Nat
    BY <1>4 DEF Membership, Edit, Tick, TypeOK, env
  <2>4. WorldTyped'
    BY <1>4, <2>3 DEF Membership, Edit, Tick, WorldTyped, TypeOK, Locals, Hosts
  <2>5. QED BY <2>1, <2>2, <2>4, TypePartsNext
<1>5. QED BY <1>1, <1>2, <1>3, <1>4 DEF World

LEMMA ProceedingKeepsType ==
  ASSUME TypeInv, Proceeds
  PROVE  TypeOK'
BY InitialisingKeepsType, RestKeepsType, SwitchingKeepsType, UnregisteringKeepsType,
   RegisteringKeepsType, SavingKeepsType, ListingKeepsType, DecidingKeepsType,
   StartingWriteKeepsType, CommittingKeepsType, PreparingKeepsType, ExecutingKeepsType
   DEF Proceeds, TypeInv

----------------------------------------------------------------------------
\* How a step changes the queue: the head goes, somebody appends an operation,
\* or the kernel restarts.
Drops == queue # <<>> /\ queue' = Tail(queue)
Replaces == queue # <<>> /\ queue' = Append(Tail(queue), Op("reconcile"))

LEMMA HeadMoves ==
  ASSUME Proceeds
  PROVE  queue # <<>> /\ (UNCHANGED queue \/ ((Drops \/ Replaces) /\ step' = "start"))
<1>1. queue # <<>>
  BY DEF Proceeds, Initialize, Refuse, StartEnable, StartDisable, StartSwitch, StartReconcile,
         StartShutdown, Unregisters, Lock, Sweep, Clear, EnableUndone, SwitchUndone, Registers,
         Initialized, EnableRegisters, Restore, SwitchRegisters, ReconcileRegisters,
         BuildPolicies, BuildPoliciesAgain, StartRegistering, EnableSaves, DisableSaves,
         ListWrites, DecideWrite, StartWrite, CommitWrite, PrepareWrite, ExecuteWrite,
         At, Running
<1>2. UNCHANGED queue \/ Finish \/ LosesMembership
  <2>1. ASSUME NEW requests, EndCall(requests) PROVE Finish
    BY <2>1 DEF EndCall
  <2>2. ASSUME NEW op, NEW live, Ask(op, live) PROVE Finish
    BY <2>1, <2>2 DEF Ask
  <2>3. ASSUME NEW op, NEW live, Consume(op, live) PROVE Finish \/ UNCHANGED queue
    BY <2>1, <2>3 DEF Consume, GoTo
  <2>4. CASE StartWrite \/ CommitWrite \/ \E outcome \in {"invalid", "error", "read"} : PrepareWrite(outcome)
    BY <2>1, <2>2, <2>3, <2>4 DEF StartWrite, CommitWrite, PrepareWrite, GoTo
  <2>5. CASE \E kept \in SUBSET Names :
               Unregisters(kept) \/ \E records \in SUBSET kept : Registers(kept, records)
    BY <2>5 DEF Unregisters, Lock, Sweep, Clear, EnableUndone, SwitchUndone, Registers,
         Initialized, EnableRegisters, Restore, SwitchRegisters, ReconcileRegisters, GoTo
  <2>6. CASE \/ \E readable \in BOOLEAN : Initialize(readable)
             \/ Refuse \/ StartEnable \/ StartDisable \/ StartSwitch \/ StartReconcile
             \/ StartShutdown
    BY <2>6 DEF Initialize, Refuse, StartEnable, StartDisable, StartSwitch, StartReconcile,
       StartShutdown, GoTo
  <2>7. QED BY <2>4, <2>5, <2>6 DEF Proceeds, BuildPolicies, BuildPoliciesAgain,
            StartRegistering, EnableSaves, DisableSaves, ListWrites, DecideWrite,
            ExecuteWrite, GoTo
<1>3. QED BY <1>1, <1>2 DEF Finish, LosesMembership, Drops, Replaces

LEMMA QueueMoves ==
  ASSUME TypeOK, Next
  PROVE  \/ Proceeds /\ queue # <<>> /\ (UNCHANGED queue \/ ((Drops \/ Replaces) /\ step' = "start"))
         \/ UNCHANGED <<queue, step>>
         \/ \E op : Appends(op)
         \/ Restart
<1>1. CASE Proceeds
  BY <1>1, HeadMoves
<1>2. CASE Someone
  BY <1>2, CallersAppend DEF CallRead
<1>3. CASE ReadIsAnswered \/ TimerFires
  <2>1. Appends(Op("reconcile")) \/ UNCHANGED <<queue, step>>
    BY <1>3, OpType DEF ReadIsAnswered, TimerFires, Appends
  <2>2. QED BY <2>1
<1>4. CASE World
  BY <1>4 DEF World, Membership, Edit, Tick
<1>5. QED BY <1>1, <1>2, <1>3, <1>4 DEF Next

\* What the queue holds after a step: its operations moved up, and at most one
\* more behind them.
LEMMA QueueContents ==
  ASSUME TypeOK, Next
  PROVE  \A i \in DOMAIN queue' :
           \/ i \in DOMAIN queue /\ queue'[i] = queue[i] /\ (UNCHANGED queue \/ \E op : Appends(op))
           \/ i + 1 \in DOMAIN queue /\ queue'[i] = queue[i + 1]
           \/ queue'[i] \in {Op("reconcile"), Op("initialize")} /\ (queue'[i] = Op("initialize") => Restart)
           \/ Appends(queue'[i])
<1>0. queue \in Seq(Ops)
  BY DEF TypeOK
<1>1. CASE UNCHANGED queue
  BY <1>1
<1>2. CASE Drops
  <2>1. \A i \in DOMAIN queue' : i + 1 \in DOMAIN queue /\ queue'[i] = queue[i + 1]
    BY <1>0, <1>2 DEF Drops
  <2>2. QED BY <2>1
<1>3. CASE Replaces
  <2>1. Op("reconcile") \in Ops /\ Op("reconcile") # Op("initialize")
    BY OpType
  <2>2. Tail(queue) \in Seq(Ops) /\ Len(Tail(queue)) = Len(queue) - 1 /\ Len(queue) \in Nat
    BY <1>0, <1>3 DEF Replaces
  <2>3. \A i \in DOMAIN queue' :
           \/ i + 1 \in DOMAIN queue /\ queue'[i] = queue[i + 1]
           \/ queue'[i] = Op("reconcile")
    BY <1>0, <1>3, <2>1, <2>2 DEF Replaces
  <2>4. QED BY <2>1, <2>3
<1>4. ASSUME NEW op, Appends(op)
      PROVE  \A i \in DOMAIN queue' :
               \/ i \in DOMAIN queue /\ queue'[i] = queue[i]
               \/ Appends(queue'[i])
  <2>1. op \in Ops /\ queue' = Append(queue, op)
    BY <1>4 DEF Appends, Enqueue
  <2>2. \A i \in DOMAIN queue' : (i \in DOMAIN queue /\ queue'[i] = queue[i]) \/ queue'[i] = op
    BY <1>0, <2>1
  <2>3. QED BY <1>4, <2>2
<1>5. CASE Restart
  <2>1. queue' = <<Op("initialize")>>
    BY <1>5 DEF Restart
  <2>2. QED BY <1>5, <2>1
<1>6. QED BY <1>1, <1>2, <1>3, <1>4, <1>5, QueueMoves

----------------------------------------------------------------------------
\* The type invariant.

LEMMA InitTyped == Init => TypeInv
<1> SUFFICES ASSUME Init PROVE TypeInv
  OBVIOUS
<1>1. AtStart \in Fields /\ NoAccess \in Accesses /\ Fresh \in Locals /\ Bare \in Hosts
  BY DEF AtStart, Fields, NoAccess, Accesses, Fresh, Locals, Bare, Hosts
<1>2. queue \in Seq(Ops) /\ step \in Steps
  BY OpType DEF Init, Steps
<1>3. [stage |-> "new", call |-> NoCall, state |-> 0, due |-> 0] \in Grants
  BY DEF Grants
<1>4. ledger \in [Ids -> Grants]
  BY <1>3 DEF Init
<1>5. TypeOK
  BY <1>1, <1>2, <1>4, TypeParts DEF Init, ControllerTyped, QueueTyped, WritesTyped, WorldTyped
<1>6. WritesHaveCalls
  BY OpType DEF Init, WritesHaveCalls
<1>7. QED BY <1>5, <1>6 DEF TypeInv

LEMMA NextTyped == TypeInv /\ [Next]_vars => TypeInv'
<1> SUFFICES ASSUME TypeInv, [Next]_vars PROVE TypeInv'
  OBVIOUS
<1>1. CASE UNCHANGED vars
  BY <1>1 DEF TypeInv, TypeOK, WritesHaveCalls, vars, env
<1>2. CASE Next
  <2>1. TypeOK'
    BY <1>2, ProceedingKeepsType, CallersKeepType, OthersKeepType DEF Next, TypeInv
  <2>2. WritesHaveCalls'
    <3> SUFFICES ASSUME NEW i \in DOMAIN queue', queue'[i].kind = "write"
                 PROVE  queue'[i].call \in Calls
      BY DEF WritesHaveCalls
    <3>1. Op("reconcile").kind # "write" /\ Op("initialize").kind # "write"
      BY OpType
    <3>2. QED BY <1>2, <3>1, QueueContents DEF TypeInv, WritesHaveCalls, Appends
  <2>3. QED BY <2>1, <2>2 DEF TypeInv
<1>3. QED BY <1>1, <1>2

LEMMA AlwaysTyped == Spec => []TypeInv
BY InitTyped, NextTyped, PTL DEF Spec

\* Every variable of the service keeps its type, whatever fails and whoever calls.
THEOREM McpTypeCorrect == Spec => []TypeOK
<1>1. TypeInv => TypeOK
  BY DEF TypeInv
<1>2. QED BY <1>1, AlwaysTyped, PTL

----------------------------------------------------------------------------
\* What the controller knows of the host.

\* Before capabilities are registered there are none.
NothingBefore ==
  /\ step \in {"register", "registering", "restore", "restoring"} => ctl.names = {}
  /\ At("disable", "save") => ctl.names = {}
  /\ queue = <<>> => step = "start"
  /\ \A i \in DOMAIN queue : queue[i].kind = "initialize" => i = 1 /\ ctl.names = {}
HostInv == HostAccounted /\ NothingBefore

LEMMA UnregisterAccounted ==
  ASSUME TypeOK, HostAccounted, NEW kept, Unregister(kept), ctl'.names = kept
  PROVE  HostAccounted'
BY DEF TypeOK, HostAccounted, Unregister

LEMMA RegisterAccounted ==
  ASSUME TypeOK, HostAccounted, ctl.names = {},
         NEW kept \in SUBSET Names, NEW records \in SUBSET kept,
         RegisterAll(kept, records), ctl'.names = kept
  PROVE  HostAccounted'
BY DEF TypeOK, HostAccounted, RegisterAll, RegisterFails, RolledBack, Registered

LEMMA TimedNames == ASSUME NEW c \in Fields PROVE Timed(c).names = c.names
BY DEF Timed, Fields

LEMMA UnregistersNames ==
  ASSUME TypeOK, NEW kept \in SUBSET Names, Unregisters(kept)
  PROVE  Unregister(kept) /\ ctl'.names = kept
<1>1. Unregister(kept)
  BY DEF Unregisters, Lock, Sweep, Clear, EnableUndone, SwitchUndone
<1> DEFINE c == Keeping(kept)
<1>2. c \in Fields /\ c.names = kept
  BY <1>1, UnregisterType
<1>3. \A status \in {"locked", "disabled", "error"} :
        [c EXCEPT !.status = status] \in Fields /\ [c EXCEPT !.status = status].names = kept
  BY <1>2 DEF Fields
<1>4. \A d \in Fields : Timed(d) \in Fields /\ Timed(d).names = d.names
  BY TimedType, TimedNames
<1>5. ASSUME NEW d \in Fields, ReadEntitlement(d) PROVE ctl'.names = d.names
  BY <1>5 DEF ReadEntitlement, Fields
<1> HIDE DEF c
<1>6. ctl'.names = kept
  BY <1>2, <1>3, <1>4, <1>5 DEF Unregisters, Lock, Sweep, Clear, EnableUndone, SwitchUndone, c
<1>7. QED BY <1>1, <1>6

LEMMA RegistersNames ==
  ASSUME TypeOK, NEW kept \in SUBSET Names, NEW records \in SUBSET kept,
         Registers(kept, records)
  PROVE  /\ RegisterAll(kept, records) /\ ctl'.names = kept
         /\ step \in {"registering", "restoring"} /\ step' \in {"start", "save", "undo"}
         /\ step' = "save" => Head(queue).kind = "enable" /\ UNCHANGED queue
<1>1. RegisterAll(kept, records)
  BY DEF Registers, Initialized, EnableRegisters, Restore, SwitchRegisters, ReconcileRegisters
<1> DEFINE c == Holding(kept, records)
<1>2. c \in Fields /\ c.names = kept
  BY <1>1, RegisterType DEF Holding, TypeOK, Fields
<1>3. /\ \A status \in {"enabled", "error"} :
           [c EXCEPT !.status = status] \in Fields /\ [c EXCEPT !.status = status].names = kept
      /\ \A status \in {"enabled", "error"} :
           /\ [c EXCEPT !.ready = TRUE, !.status = status] \in Fields
           /\ [c EXCEPT !.ready = TRUE, !.status = status].names = kept
  BY <1>2 DEF Fields
<1>4. \A d \in Fields : Timed(d) \in Fields /\ Timed(d).names = d.names
  BY TimedType, TimedNames
<1> HIDE DEF c
<1>5. ctl'.names = kept
  BY <1>2, <1>3, <1>4 DEF Registers, Initialized, EnableRegisters, Restore, SwitchRegisters,
     ReconcileRegisters, c
<1>6. step \in {"registering", "restoring"} /\ step' \in {"start", "save", "undo"}
  BY DEF Registers, Initialized, EnableRegisters, Restore, SwitchRegisters,
     ReconcileRegisters, At, Running, Finish, GoTo
<1>7. step' = "save" => Head(queue).kind = "enable" /\ UNCHANGED queue
  BY DEF Registers, Initialized, EnableRegisters, Restore, SwitchRegisters,
     ReconcileRegisters, At, Running, Finish, GoTo
<1>8. QED BY <1>1, <1>5, <1>6, <1>7

\* Everything else leaves the host and the names alone, but for a restart.
Registering ==
  \E kept \in SUBSET Names :
    Unregisters(kept) \/ \E records \in SUBSET kept : Registers(kept, records)

LEMMA WritingKeepsNames ==
  ASSUME TypeOK,
         \/ ListWrites \/ DecideWrite \/ StartWrite \/ CommitWrite
         \/ \E outcome \in {"invalid", "error", "read"} : PrepareWrite(outcome)
         \/ \E written \in BOOLEAN : ExecuteWrite(written)
  PROVE  /\ ctl'.names = ctl.names /\ host' = host
         /\ \/ Finish \/ LosesMembership
            \/ UNCHANGED queue /\ step' \in {"prepare", "commit", "execute"}
<1>0. ctl \in Fields
  BY DEF TypeOK, Fields
<1>1. ASSUME NEW requests, EndCall(requests) PROVE Finish /\ UNCHANGED ctl
  BY <1>1 DEF EndCall
<1>2. ASSUME NEW op, NEW live, Ask(op, live) PROVE Finish /\ UNCHANGED ctl
  BY <1>1, <1>2 DEF Ask
<1>3. ASSUME NEW op, NEW live, Consume(op, live)
      PROVE  (Finish \/ GoTo("execute")) /\ UNCHANGED ctl
  BY <1>1, <1>3 DEF Consume
<1>4. ASSUME ReadEntitlement(ctl) PROVE ctl'.names = ctl.names
  BY <1>0, <1>4 DEF ReadEntitlement, Fields
<1>5. ASSUME LosesMembership PROVE ctl'.names = ctl.names
  BY <1>0, <1>5 DEF LosesMembership, Fields
<1>6. CASE ListWrites \/ DecideWrite
  BY <1>4, <1>6 DEF ListWrites, DecideWrite
<1>7. CASE \/ StartWrite \/ CommitWrite
           \/ \E outcome \in {"invalid", "error", "read"} : PrepareWrite(outcome)
  BY <1>1, <1>2, <1>3, <1>5, <1>7 DEF StartWrite, CommitWrite, PrepareWrite, GoTo
<1>8. CASE \E written \in BOOLEAN : ExecuteWrite(written)
  BY <1>8 DEF ExecuteWrite
<1>9. QED BY <1>6, <1>7, <1>8

LEMMA OperatingKeepsNames ==
  ASSUME TypeOK,
         \/ \E readable \in BOOLEAN : Initialize(readable)
         \/ Refuse \/ StartEnable \/ StartDisable \/ StartSwitch \/ StartReconcile
         \/ StartShutdown \/ BuildPolicies \/ BuildPoliciesAgain
         \/ \E ok, landed \in BOOLEAN : EnableSaves(ok, landed) \/ DisableSaves(ok, landed)
  PROVE  ctl'.names = ctl.names /\ host' = host
<1>0. ctl \in Fields /\ member \in BOOLEAN /\ file \in BOOLEAN
  BY DEF TypeOK, Fields
<1>1. ASSUME NEW d \in Fields, ReadEntitlement(d) PROVE ctl'.names = d.names
  BY <1>1 DEF ReadEntitlement, Fields
<1>2. \A d \in Fields : Timed(d) \in Fields /\ Timed(d).names = d.names
  BY TimedType, TimedNames
<1>3. ASSUME NEW readable \in BOOLEAN, Initialize(readable) PROVE ctl'.names = ctl.names
  <2> DEFINE c == [ctl EXCEPT !.enabled = file, !.entitled = member,
               !.ready = ~file \/ ~member, !.timer = file /\ ~member,
               !.status = IF ~file THEN "disabled" ELSE IF ~member THEN "locked" ELSE @]
  <2>1. c \in Fields /\ c.names = ctl.names
    BY <1>0 DEF Fields
  <2>2. [ctl EXCEPT !.status = "error", !.ready = TRUE].names = ctl.names
    BY <1>0 DEF Fields
  <2>3. ReadEntitlement(c) \/ ctl' = [ctl EXCEPT !.status = "error", !.ready = TRUE]
    BY <1>3 DEF Initialize
  <2>4. QED BY <1>1, <2>1, <2>2, <2>3
<1>4. ASSUME StartEnable PROVE ctl'.names = ctl.names
  <2> DEFINE c == [ctl EXCEPT !.entitled = member,
                              !.status = IF member THEN "initializing" ELSE @]
  <2>1. c \in Fields /\ c.names = ctl.names
    BY <1>0 DEF Fields
  <2>2. ReadEntitlement(c)
    BY <1>4 DEF StartEnable
  <2>3. QED BY <1>1, <2>1, <2>2
<1>5. ASSUME StartReconcile PROVE ctl'.names = ctl.names
  <2> DEFINE c == [ctl EXCEPT !.timer = FALSE, !.entitled = member]
  <2>1. c \in Fields /\ c.names = ctl.names
    BY <1>0 DEF Fields
  <2>2. [c EXCEPT !.status = "enabled"] \in Fields
        /\ [c EXCEPT !.status = "enabled"].names = ctl.names
    BY <2>1 DEF Fields
  <2>3. ReadEntitlement(c) \/ ReadEntitlement(Timed([c EXCEPT !.status = "enabled"]))
    BY <1>5 DEF StartReconcile
  <2>4. QED BY <1>1, <1>2, <2>1, <2>2, <2>3
<1>6. ASSUME StartDisable \/ StartSwitch \/ StartShutdown PROVE ctl'.names = ctl.names
  <2>1. /\ [ctl EXCEPT !.status = "initializing"].names = ctl.names
        /\ [ctl EXCEPT !.closing = TRUE, !.timer = FALSE].names = ctl.names
    BY <1>0 DEF Fields
  <2>2. QED BY <1>0, <1>1, <1>6, <2>1 DEF StartDisable, StartSwitch, StartShutdown
<1>7. ASSUME Refuse \/ BuildPolicies \/ BuildPoliciesAgain PROVE ctl'.names = ctl.names
  BY <1>7 DEF Refuse, BuildPolicies, BuildPoliciesAgain, StartRegistering
<1>8. ASSUME NEW ok, NEW landed, EnableSaves(ok, landed) \/ DisableSaves(ok, landed)
      PROVE  ctl'.names = ctl.names
  <2>1. [ctl EXCEPT !.enabled = TRUE, !.status = "enabled"] \in Fields
    BY <1>0 DEF Fields
  <2>2. /\ Timed([ctl EXCEPT !.enabled = TRUE, !.status = "enabled"]).names = ctl.names
        /\ [ctl EXCEPT !.enabled = FALSE, !.status = "disabled", !.timer = FALSE].names = ctl.names
        /\ [ctl EXCEPT !.status = "error"].names = ctl.names
    BY <1>0, <1>2, <2>1 DEF Fields
  <2>3. QED BY <1>8, <2>2 DEF EnableSaves, DisableSaves
<1>9. host' = host
  BY DEF Initialize, Refuse, StartEnable, StartDisable, StartSwitch, StartReconcile,
     StartShutdown, BuildPolicies, BuildPoliciesAgain, StartRegistering, EnableSaves, DisableSaves
<1>10. QED BY <1>3, <1>4, <1>5, <1>6, <1>7, <1>8, <1>9

LEMMA OutsideKeepsNames ==
  ASSUME TypeOK, Someone \/ ReadIsAnswered \/ TimerFires \/ Membership \/ Edit \/ Tick
  PROVE  ctl'.names = ctl.names /\ host' = host
<1>0. ctl \in Fields
  BY DEF TypeOK, Fields
<1>1. CASE Someone
  BY <1>1 DEF Someone, CallSetEnabled, CallSetWriteEnabled, CallPendingWrites, CallReconcile,
     CallShutdown, CallDecideWrite, CallWrite, CallRead, Called
<1>2. CASE ReadIsAnswered \/ TimerFires
  BY <1>0, <1>2 DEF ReadIsAnswered, TimerFires, Fields
<1>3. CASE Membership \/ Edit \/ Tick
  BY <1>3 DEF Membership, Edit, Tick
<1>4. QED BY <1>1, <1>2, <1>3

LEMMA InitHost == Init => HostInv
<1> SUFFICES ASSUME Init PROVE HostInv
  OBVIOUS
<1>1. ctl.names = {} /\ host = Bare /\ step = "start" /\ queue = <<Op("initialize")>>
  BY DEF Init, AtStart
<1>2. HostAccounted
  BY <1>1 DEF HostAccounted, Bare
<1>3. NothingBefore
  BY <1>1 DEF NothingBefore, At
<1>4. QED BY <1>2, <1>3 DEF HostInv

\* The host and the names change together.
LEMMA NextAccounted ==
  ASSUME TypeInv, HostInv, Next
  PROVE  HostAccounted'
<1>1. CASE Registering
  <2>1. ASSUME NEW kept \in SUBSET Names, Unregisters(kept) PROVE HostAccounted'
    BY <2>1, UnregistersNames, UnregisterAccounted DEF TypeInv, HostInv
  <2>2. ASSUME NEW kept \in SUBSET Names, NEW records \in SUBSET kept, Registers(kept, records)
        PROVE  HostAccounted'
    <3>1. /\ RegisterAll(kept, records) /\ ctl'.names = kept
          /\ step \in {"registering", "restoring"}
      BY <2>2, RegistersNames DEF TypeInv
    <3>2. ctl.names = {}
      BY <3>1 DEF HostInv, NothingBefore
    <3>3. QED BY <3>1, <3>2, RegisterAccounted DEF TypeInv, HostInv
  <2>3. QED BY <1>1, <2>1, <2>2 DEF Registering
<1>2. CASE Restart
  BY <1>2 DEF Restart, HostAccounted, Bare
<1>3. CASE Next /\ ~Registering /\ ~Restart
  <2>1. ctl'.names = ctl.names /\ host' = host
    BY <1>3, WritingKeepsNames, OperatingKeepsNames, OutsideKeepsNames
       DEF Next, Proceeds, Registering, World, TypeInv
  <2>2. QED BY <2>1 DEF HostInv, HostAccounted
<1>4. QED BY <1>1, <1>2, <1>3

LEMMA HeadIsFirst ==
  ASSUME TypeOK, queue # <<>>
  PROVE  1 \in DOMAIN queue /\ Head(queue) = queue[1]
BY DEF TypeOK

LEMMA HeadOfAppended ==
  ASSUME NEW q \in Seq(Ops), NEW op \in Ops
  PROVE  Append(q, op) # <<>> /\ (q # <<>> => Head(Append(q, op)) = Head(q))
<1>1. Len(Append(q, op)) = Len(q) + 1 /\ Len(q) \in Nat /\ Append(q, op) \in Seq(Ops)
  OBVIOUS
<1>2. q # <<>> => Append(q, op)[1] = q[1]
  OBVIOUS
<1>3. Append(q, op) # <<>>
  BY <1>1
<1>4. QED BY <1>2, <1>3

\* Until it is done an initialize operation stays where it is.
LEMMA InitialisingGoesOn ==
  ASSUME TypeInv, HostInv, Next, ~Restart,
         NEW i \in DOMAIN queue', queue'[i].kind = "initialize"
  PROVE  /\ i \in DOMAIN queue /\ queue'[i] = queue[i]
         /\ UNCHANGED queue \/ \E op : Appends(op)
<1>1. queue'[i] # Op("reconcile") /\ ~Appends(queue'[i])
  BY OpType DEF Appends
<1>2. ~(i + 1 \in DOMAIN queue /\ queue'[i] = queue[i + 1])
  <2> SUFFICES ASSUME i + 1 \in DOMAIN queue, queue'[i] = queue[i + 1] PROVE FALSE
    OBVIOUS
  <2>1. i + 1 = 1
    BY DEF HostInv, NothingBefore
  <2>2. TypeOK'
    BY NextTyped DEF TypeInv
  <2>3. i \in Nat \ {0}
    BY <2>2 DEF TypeOK
  <2>4. QED BY <2>1, <2>3
<1>3. QED BY <1>1, <1>2, QueueContents DEF TypeInv

\* An initialize operation is the first one, before anything is registered.
LEMMA NextInitialises ==
  ASSUME TypeInv, HostInv, Next, NEW i \in DOMAIN queue', queue'[i].kind = "initialize"
  PROVE  i = 1 /\ ctl'.names = {}
<1>1. CASE Restart
  <2>1. queue' = <<Op("initialize")>> /\ ctl'.names = {}
    BY <1>1 DEF Restart, AtStart
  <2>2. QED BY <2>1
<1>2. CASE ~Restart
  <2>1. /\ i \in DOMAIN queue /\ queue'[i] = queue[i]
        /\ UNCHANGED queue \/ \E op : Appends(op)
    BY <1>2, InitialisingGoesOn
  <2>2. i = 1 /\ ctl.names = {} /\ Head(queue).kind = "initialize" /\ queue # <<>>
    BY <2>1, HeadIsFirst DEF HostInv, NothingBefore, TypeInv, TypeOK
  <2>3. ctl'.names = {}
    <3>1. ASSUME NEW kept \in SUBSET Names, Unregisters(kept) PROVE FALSE
      BY <2>2, <3>1 DEF Unregisters, Lock, Sweep, Clear, EnableUndone, SwitchUndone, At, Running
    <3>2. ASSUME NEW kept \in SUBSET Names, NEW records \in SUBSET kept, Registers(kept, records)
          PROVE  FALSE
      <4>1. Initialized(kept, records)
        BY <2>2, <3>2 DEF Registers, EnableRegisters, Restore, SwitchRegisters,
           ReconcileRegisters, At, Running
      <4>2. queue' = Tail(queue) /\ queue \in Seq(Ops)
        BY <4>1 DEF Initialized, Finish, TypeInv, TypeOK
      <4>3. Len(queue') # Len(queue)
        BY <2>2, <4>2
      <4>4. \A op \in Ops : Len(Append(queue, op)) # Len(queue') 
        BY <2>2, <4>2
      <4>5. QED BY <2>1, <4>3, <4>4 DEF Appends, Enqueue
    <3>3. QED
      BY <1>2, <2>2, <3>1, <3>2, WritingKeepsNames, OperatingKeepsNames, OutsideKeepsNames
         DEF Next, Proceeds, World, TypeInv
  <2>4. QED BY <2>2, <2>3
<1>3. QED BY <1>1, <1>2

LEMMA NextNothingBefore ==
  ASSUME TypeInv, HostInv, Next
  PROVE  NothingBefore'
<1> DEFINE Bares == {"register", "registering", "restore", "restoring"}
<1>t. TypeOK /\ TypeOK'
  BY NextTyped DEF TypeInv
<1>1. step' \in Bares => ctl'.names = {}
  <2> SUFFICES ASSUME step' \in Bares PROVE ctl'.names = {}
    OBVIOUS
  <2>1. ASSUME NEW kept \in SUBSET Names, Unregisters(kept) PROVE ctl'.names = {}
    <3>1. ctl'.names = kept
      BY <1>t, <2>1, UnregistersNames
    <3>2. kept = {}
      BY <2>1 DEF Unregisters, Lock, Sweep, Clear, EnableUndone, SwitchUndone, Finish, GoTo
    <3>3. QED BY <3>1, <3>2
  <2>2. ASSUME NEW kept \in SUBSET Names, NEW records \in SUBSET kept, Registers(kept, records)
        PROVE  FALSE
    BY <1>t, <2>2, RegistersNames
  <2>3. ASSUME NEW readable \in BOOLEAN, Initialize(readable) PROVE ctl.names = {}
    BY <1>t, <2>3, HeadIsFirst DEF Initialize, At, HostInv, NothingBefore
  <2>4. ASSUME StartEnable \/ StartReconcile PROVE ctl.names = {}
    BY <2>4 DEF StartEnable, StartReconcile, GoTo, Finish
  <2>5. ASSUME Refuse \/ StartDisable \/ StartSwitch \/ StartShutdown PROVE FALSE
    BY <2>5 DEF Refuse, StartDisable, StartSwitch, StartShutdown, GoTo, Finish
  <2>6. ASSUME BuildPolicies \/ BuildPoliciesAgain PROVE ctl.names = {}
    BY <2>6 DEF BuildPolicies, BuildPoliciesAgain, StartRegistering, HostInv, NothingBefore
  <2>7. ASSUME NEW ok, NEW landed, EnableSaves(ok, landed) \/ DisableSaves(ok, landed)
        PROVE  ctl.names = {}
    BY <2>7 DEF EnableSaves, DisableSaves, GoTo, Finish, HostInv, NothingBefore
  <2>8. CASE \/ ListWrites \/ DecideWrite \/ StartWrite \/ CommitWrite
             \/ \E outcome \in {"invalid", "error", "read"} : PrepareWrite(outcome)
             \/ \E written \in BOOLEAN : ExecuteWrite(written)
    BY <1>t, <2>8, WritingKeepsNames DEF Finish, LosesMembership
  <2>9. ASSUME Someone \/ ReadIsAnswered \/ TimerFires \/ Membership \/ Edit \/ Tick
        PROVE  ctl'.names = {}
    <3>1. ctl'.names = ctl.names
      BY <1>t, <2>9, OutsideKeepsNames
    <3>2. UNCHANGED step
      BY <2>9 DEF Someone, CallSetEnabled, CallSetWriteEnabled, CallPendingWrites, CallReconcile,
         CallShutdown, CallDecideWrite, CallWrite, CallRead, Called, ReadIsAnswered, TimerFires,
         Membership, Edit, Tick
    <3>3. QED BY <3>1, <3>2 DEF HostInv, NothingBefore
  <2>10. CASE Restart
    BY <2>10 DEF Restart
  <2>11. CASE \/ \E readable \in BOOLEAN : Initialize(readable)
              \/ Refuse \/ StartEnable \/ StartDisable \/ StartSwitch \/ StartReconcile
              \/ StartShutdown \/ BuildPolicies \/ BuildPoliciesAgain
              \/ \E ok, landed \in BOOLEAN : EnableSaves(ok, landed) \/ DisableSaves(ok, landed)
    BY <1>t, <2>3, <2>4, <2>5, <2>6, <2>7, <2>11, OperatingKeepsNames
  <2>12. QED BY <2>1, <2>2, <2>8, <2>9, <2>10, <2>11 DEF Next, Proceeds, World
<1>2. At("disable", "save")' => ctl'.names = {}
  <2> SUFFICES ASSUME queue' # <<>>, Head(queue').kind = "disable", step' = "save"
               PROVE  ctl'.names = {}
    BY DEF At
  <2>1. ASSUME NEW kept \in SUBSET Names, Unregisters(kept) PROVE ctl'.names = {}
    <3>1. ctl'.names = kept
      BY <1>t, <2>1, UnregistersNames
    <3>2. kept = {}
      BY <2>1 DEF Unregisters, Lock, Sweep, Clear, EnableUndone, SwitchUndone, Finish, GoTo
    <3>3. QED BY <3>1, <3>2
  <2>2. ASSUME NEW kept \in SUBSET Names, NEW records \in SUBSET kept, Registers(kept, records)
        PROVE  FALSE
    BY <1>t, <2>2, RegistersNames
  <2>3. ASSUME \/ \E readable \in BOOLEAN : Initialize(readable)
               \/ Refuse \/ StartEnable \/ StartDisable \/ StartSwitch \/ StartReconcile
               \/ StartShutdown \/ BuildPolicies \/ BuildPoliciesAgain
               \/ \E ok, landed \in BOOLEAN : EnableSaves(ok, landed) \/ DisableSaves(ok, landed)
        PROVE  FALSE
    <3>1. CASE StartEnable
      BY <3>1 DEF StartEnable, At, GoTo
    <3>2. CASE \/ \E readable \in BOOLEAN : Initialize(readable)
               \/ Refuse \/ StartDisable \/ StartSwitch \/ StartReconcile \/ StartShutdown
      BY <3>2 DEF Initialize, Refuse, StartDisable, StartSwitch, StartReconcile, StartShutdown,
         GoTo, Finish
    <3>3. CASE \/ BuildPolicies \/ BuildPoliciesAgain
               \/ \E ok, landed \in BOOLEAN : EnableSaves(ok, landed) \/ DisableSaves(ok, landed)
      BY <3>3 DEF BuildPolicies, BuildPoliciesAgain, StartRegistering, EnableSaves, DisableSaves,
         GoTo, Finish
    <3>4. QED BY <2>3, <3>1, <3>2, <3>3
  <2>4. CASE \/ ListWrites \/ DecideWrite \/ StartWrite \/ CommitWrite
             \/ \E outcome \in {"invalid", "error", "read"} : PrepareWrite(outcome)
             \/ \E written \in BOOLEAN : ExecuteWrite(written)
    BY <1>t, <2>4, WritingKeepsNames DEF Finish, LosesMembership
  <2>5. ASSUME Someone \/ ReadIsAnswered \/ TimerFires \/ Membership \/ Edit \/ Tick
        PROVE  ctl'.names = {}
    <3>1. ctl'.names = ctl.names
      BY <1>t, <2>5, OutsideKeepsNames
    <3>2. UNCHANGED step /\ (UNCHANGED queue \/ \E op \in Ops : queue' = Append(queue, op))
      <4>1. CASE Someone
        BY <1>t, <4>1, CallersAppend DEF CallRead, Appends, Enqueue
      <4>2. CASE ReadIsAnswered \/ TimerFires
        BY <4>2, OpType DEF ReadIsAnswered, TimerFires, Enqueue
      <4>3. CASE Membership \/ Edit \/ Tick
        BY <4>3 DEF Membership, Edit, Tick
      <4>4. QED BY <2>5, <4>1, <4>2, <4>3
    <3>3. queue # <<>>
      BY <3>2 DEF HostInv, NothingBefore
    <3>4. Head(queue) = Head(queue')
      BY <1>t, <3>2, <3>3, HeadOfAppended DEF TypeOK
    <3>5. QED BY <3>1, <3>2, <3>3, <3>4 DEF HostInv, NothingBefore, At
  <2>6. CASE Restart
    BY <2>6 DEF Restart
  <2>7. QED BY <2>1, <2>2, <2>3, <2>4, <2>5, <2>6 DEF Next, Proceeds, World
<1>3. queue' = <<>> => step' = "start"
  <2>1. \A op \in Ops : Append(queue, op) # <<>>
    BY <1>t, HeadOfAppended DEF TypeOK
  <2>2. <<Op("initialize")>> # <<>>
    OBVIOUS
  <2>3. QED BY <1>t, <2>1, <2>2, QueueMoves DEF HostInv, NothingBefore, Appends, Enqueue, Restart
<1>4. \A i \in DOMAIN queue' : queue'[i].kind = "initialize" => i = 1 /\ ctl'.names = {}
  BY NextInitialises
<1>5. QED BY <1>1, <1>2, <1>3, <1>4 DEF NothingBefore

LEMMA NextHost == TypeInv /\ HostInv /\ [Next]_vars => HostInv'
<1>1. CASE UNCHANGED vars
  BY <1>1 DEF HostInv, HostAccounted, NothingBefore, At, vars, env
<1>2. CASE Next
  BY <1>2, NextAccounted, NextNothingBefore DEF HostInv
<1>3. QED BY <1>1, <1>2

\* Whatever the host holds of the service, the controller knows: registrations
\* whose answer was lost are rolled back, and what cannot be removed is kept.
THEOREM HostIsAccountedFor == Spec => []HostAccounted
<1>1. HostInv => HostAccounted
  BY DEF HostInv
<1>2. QED BY <1>1, InitHost, NextHost, AlwaysTyped, PTL DEF Spec

----------------------------------------------------------------------------
\* How a step changes the permission, the requests and what the user knows.

Live == Pruned(access.requests)
With(requests) == access' = [access EXCEPT !.requests = requests]
Lapses == (\E requests \in SUBSET access.requests : With(requests)) /\ UNCHANGED <<ledger, wanted>>
Denies ==
  \E id \in Ids :
    /\ WithId(Live, id) # {} /\ With(Without(Live, id))
    /\ ledger' = [ledger EXCEPT ![id].stage = "denied"] /\ UNCHANGED wanted
Approves ==
  \E id \in Ids :
    /\ access.allowed /\ \E r \in WithId(Live, id) : ~r.approved
    /\ With(Without(Live, id) \cup {[r EXCEPT !.approved = TRUE] : r \in WithId(Live, id)})
    /\ ledger' = [ledger EXCEPT ![id].stage = "approved"] /\ UNCHANGED wanted
Asks ==
  \E id \in Ids, call \in Calls, state \in Nat, due \in Nat :
    /\ access.allowed /\ ledger[id].stage = "new"
    /\ With(Live \cup {[id |-> id, call |-> call, state |-> state, due |-> due,
                        approved |-> FALSE]})
    /\ ledger' = [ledger EXCEPT ![id] = [stage |-> "asked", call |-> call,
                                         state |-> state, due |-> due]]
    /\ UNCHANGED wanted
Uses ==
  LET op == Head(queue) IN
    /\ At("write", "commit") /\ member /\ access.allowed /\ op.id \in Ids
    /\ Approved(Permits(Live, op)) # {} /\ \A r \in Permits(Live, op) : r.state = local.state
    /\ With(Without(Live, op.id))
    /\ ledger' = [ledger EXCEPT ![op.id].stage = "used"]
    /\ UNCHANGED <<queue, wanted>> /\ step' = "execute"
Switches ==
  /\ At("switch", "start") /\ ~Outdated(Head(queue))
  /\ Head(queue).yes => ctl.enabled
  /\ access' = [access EXCEPT !.allowed = Head(queue).yes] /\ UNCHANGED <<wanted, ledger>>

LEMMA EndingCallLapses ==
  ASSUME NEW requests \in SUBSET access.requests, EndCall(requests)
  PROVE  Lapses
BY DEF EndCall, Lapses, With

\* Only a commit that finds its request approved goes on to write.
LEMMA CommitMoves ==
  ASSUME TypeInv, CommitWrite
  PROVE  \/ (RevokeWrites \/ Lapses \/ Asks) /\ step' = "start"
         \/ Uses
<1>t. TypeOK
  BY DEF TypeInv
<1> DEFINE op == Head(queue)
<1>0. /\ queue # <<>> /\ op \in Ops /\ op.call \in Calls /\ At("write", "commit")
      /\ op.id = NoId \/ op.id \in Ids
  BY <1>t, QueueType DEF CommitWrite, At, WritesHaveCalls, TypeInv, TypeOK, Ops
<1>1. CASE LosesMembership
  BY <1>1 DEF LosesMembership
<1>2. CASE \E requests \in SUBSET access.requests : EndCall(requests)
  BY <1>2, EndingCallLapses DEF EndCall, Finish
<1>3. ASSUME member, IsWriteActive, op.id = NoId, Ask(op, Live), ~EndCall(Live)
      PROVE  Asks /\ step' = "start"
  <2>1. now + Ttl \in Nat /\ local.state \in Nat /\ access.allowed
    BY <1>t, <1>3, BoundsAreNumbers DEF TypeOK, IsWriteActive
  <2>2. PICK id \in Ids :
          /\ ledger[id].stage = "new"
          /\ With(Live \cup {[id |-> id, call |-> op.call, state |-> local.state,
                              due |-> now + Ttl, approved |-> FALSE]})
          /\ ledger' = [ledger EXCEPT ![id] = [stage |-> "asked", call |-> op.call,
                                 state |-> local.state, due |-> now + Ttl]]
          /\ UNCHANGED wanted /\ Finish
    BY <1>3 DEF Ask, With
  <2>3. QED BY <1>0, <2>1, <2>2 DEF Asks, Finish
<1>4. ASSUME member, IsWriteActive, op.id # NoId, Consume(op, Live),
             \A requests \in SUBSET access.requests : ~EndCall(requests)
      PROVE  Uses
  <2>1. /\ Approved(Permits(Live, op)) # {}
        /\ \A r \in Permits(Live, op) : SameState(r)
        /\ access' = [access EXCEPT !.requests = LeftAfter(Live, op)]
        /\ ledger' = [ledger EXCEPT ![op.id].stage = "used"]
        /\ UNCHANGED <<ctl, wanted>> /\ GoTo("execute")
    BY <1>4, FewerRequests DEF Consume, Live
  <2>2. QED BY <1>0, <1>4, <2>1 DEF Uses, With, LeftAfter, SameState, GoTo, IsWriteActive
<1>5. QED
  <2>1. Live \in SUBSET access.requests
    BY FewerRequests DEF Live
  <2>2. \/ LosesMembership \/ EndCall(access.requests)
        \/ member /\ IsWriteActive /\ op.id = NoId /\ Ask(op, Live)
        \/ member /\ IsWriteActive /\ op.id # NoId /\ Consume(op, Live)
    BY DEF CommitWrite, Live
  <2>3. QED BY <1>1, <1>2, <1>3, <1>4, <2>1, <2>2

LEMMA WritesMove ==
  ASSUME TypeInv, Next
  PROVE  \/ KeepWrites \/ RevokeWrites \/ Switches \/ Lapses \/ Denies \/ Approves \/ Asks
         \/ Uses \/ Restart \/ \E yes \in BOOLEAN : CallSetWriteEnabled(yes)
<1>t. TypeOK
  BY DEF TypeInv
<1>0. \A c : ReadEntitlement(c) => KeepWrites \/ RevokeWrites
  BY DEF ReadEntitlement
<1>1. CASE Registering
  BY <1>0, <1>1 DEF Registering, Unregisters, Lock, Sweep, Clear, EnableUndone, SwitchUndone,
     Registers, Initialized, EnableRegisters, Restore, SwitchRegisters, ReconcileRegisters
<1>2. CASE \/ \E readable \in BOOLEAN : Initialize(readable)
           \/ Refuse \/ StartEnable \/ StartDisable \/ StartReconcile
           \/ StartShutdown \/ BuildPolicies \/ BuildPoliciesAgain
           \/ \E ok, landed \in BOOLEAN : EnableSaves(ok, landed) \/ DisableSaves(ok, landed)
           \/ \E written \in BOOLEAN : ExecuteWrite(written)
  BY <1>0, <1>2 DEF Initialize, Refuse, StartEnable, StartDisable, StartReconcile, StartShutdown,
     BuildPolicies, BuildPoliciesAgain, StartRegistering, EnableSaves, DisableSaves, ExecuteWrite
<1>3. CASE StartSwitch
  BY <1>0, <1>3 DEF StartSwitch, Switches, IsActive
<1>4. CASE ListWrites
  <2>1. CASE ReadEntitlement(ctl)
    BY <1>0, <2>1
  <2>2. CASE /\ access' = IF IsWriteActive THEN [access EXCEPT !.requests = Pruned(@)] ELSE access
             /\ UNCHANGED <<ctl, wanted, ledger>>
    <3>1. [access EXCEPT !.requests = Pruned(@)] = [access EXCEPT !.requests = Live]
      BY <1>t DEF TypeOK, Live
    <3>2. CASE IsWriteActive
      BY <2>2, <3>1, <3>2, FewerRequests DEF Lapses, With, Live
    <3>3. CASE ~IsWriteActive
      BY <2>2, <3>3 DEF KeepWrites
    <3>4. QED BY <3>2, <3>3
  <2>3. QED BY <1>4, <2>1, <2>2 DEF ListWrites
<1>5. CASE DecideWrite
  <2> DEFINE op == Head(queue)
             answered == IF op.yes THEN {[r EXCEPT !.approved = TRUE] : r \in WithId(Live, op.id)}
                         ELSE {}
  <2>1. CASE ReadEntitlement(ctl)
    BY <1>0, <2>1
  <2>2. CASE member /\ IsWriteActive
    <3>1. /\ With(IF Decidable(op) THEN Without(Live, op.id) \cup answered ELSE Live)
          /\ ledger' = IF Decidable(op)
                       THEN [ledger EXCEPT ![op.id].stage = IF op.yes THEN "approved" ELSE "denied"]
                       ELSE ledger
          /\ UNCHANGED wanted
      BY <1>5, <2>2 DEF DecideWrite, With, Live
    <3>2. CASE ~Decidable(op)
      BY <3>1, <3>2, FewerRequests DEF Lapses, Live
    <3>3. ASSUME Decidable(op) PROVE op.id \in Ids
      <4>1. PICK r \in WithId(Live, op.id) : op.yes => ~r.approved
        BY <3>3 DEF Decidable, Live
      <4>2. r \in Requests /\ r.id = op.id
        BY <1>t, <4>1, FewerRequests DEF WithId, Live, TypeOK
      <4>3. QED BY <4>2 DEF Requests
    <3>4. CASE Decidable(op) /\ op.yes
      <4>1. access.allowed
        BY <2>2 DEF IsWriteActive
      <4>2. \E r \in WithId(Live, op.id) : ~r.approved
        BY <3>4 DEF Decidable, Live
      <4>3. With(Without(Live, op.id) \cup {[r EXCEPT !.approved = TRUE] : r \in WithId(Live, op.id)})
        BY <3>1, <3>4
      <4>4. ledger' = [ledger EXCEPT ![op.id].stage = "approved"]
        BY <3>1, <3>4
      <4>5. Approves
        BY <3>1, <3>3, <3>4, <4>1, <4>2, <4>3, <4>4 DEF Approves
      <4>6. QED BY <4>5
    <3>5. CASE Decidable(op) /\ ~op.yes
      <4>1. With(Without(Live, op.id))
        <5>1. Without(Live, op.id) \cup answered = Without(Live, op.id)
          BY <3>5
        <5>2. QED BY <3>1, <3>5, <5>1
      <4>2. ledger' = [ledger EXCEPT ![op.id].stage = "denied"]
        BY <3>1, <3>5
      <4>3. WithId(Live, op.id) # {}
        BY <3>5 DEF Decidable, Live
      <4>4. QED BY <3>1, <3>3, <3>5, <4>1, <4>2, <4>3 DEF Denies
    <3>6. QED BY <3>2, <3>4, <3>5
  <2>3. QED BY <1>5, <2>1, <2>2 DEF DecideWrite
<1>6. CASE StartWrite \/ \E outcome \in {"invalid", "error", "read"} : PrepareWrite(outcome)
  <2>1. \/ \E requests \in SUBSET access.requests : EndCall(requests)
        \/ RevokeWrites \/ KeepWrites
    BY <1>6, FewerRequests DEF StartWrite, PrepareWrite, LosesMembership
  <2>2. QED BY <2>1, EndingCallLapses
<1>7. CASE CommitWrite
  BY <1>7, CommitMoves
<1>8. CASE Someone
  BY <1>8 DEF Someone, CallSetEnabled, CallPendingWrites, CallReconcile,
     CallShutdown, CallDecideWrite, CallWrite, CallRead
<1>9. CASE ReadIsAnswered \/ TimerFires \/ World
  BY <1>9 DEF ReadIsAnswered, TimerFires, World, Membership, Edit, Tick
<1>10. QED
  BY <1>1, <1>2, <1>3, <1>4, <1>5, <1>6, <1>7, <1>8, <1>9 DEF Next, Proceeds, Registering

----------------------------------------------------------------------------
\* The permission follows the user's last word.

\* What the queue holds of the newest revision is that word.
LastWord ==
  \A i \in DOMAIN queue :
    queue[i].kind = "switch" /\ queue[i].rev = access.revision => queue[i].yes = wanted
PermissionInv == PermissionIsWanted /\ LastWord

\* Every other change leaves the permission alone.
LEMMA RequestsMoveAlone ==
  ASSUME TypeInv, Lapses \/ Denies \/ Approves \/ Asks \/ Uses
  PROVE  /\ access'.allowed = access.allowed /\ access'.revision = access.revision
         /\ wanted' = wanted /\ access' = [access EXCEPT !.requests = access'.requests]
<1>1. PICK requests : With(requests)
  BY DEF Lapses, Denies, Approves, Asks, Uses
<1>2. wanted' = wanted
  BY DEF Lapses, Denies, Approves, Asks, Uses
<1>3. access \in Accesses
  BY DEF TypeInv, TypeOK, Accesses
<1>4. QED BY <1>1, <1>2, <1>3 DEF With, Accesses

\* A new revision is one that nothing in the queue carries.
LEMMA RevisionMoves ==
  ASSUME TypeInv, Next, ~Restart
  PROVE  \/ /\ access'.revision = access.revision /\ wanted' = wanted
            /\ access'.allowed = access.allowed \/ Switches
         \/ /\ \A i \in DOMAIN queue : queue[i].rev # access'.revision
            /\ access'.allowed => access.allowed /\ wanted'
<1>0. access \in Accesses /\ queue \in Seq(Ops)
  BY DEF TypeInv, TypeOK, Accesses
<1>1. \A i \in DOMAIN queue : queue[i].rev # NextRevision
  BY <1>0, FreshRevision
<1>2. Revoked.revision = NextRevision /\ Revoked.allowed = FALSE
  BY <1>0 DEF Revoked, Accesses
<1>3. CASE KeepWrites \/ Switches
  BY <1>0, <1>3 DEF KeepWrites, Switches, Accesses
<1>4. CASE RevokeWrites
  BY <1>1, <1>2, <1>4 DEF RevokeWrites
<1>5. ASSUME NEW yes \in BOOLEAN, CallSetWriteEnabled(yes)
      PROVE  /\ \A i \in DOMAIN queue : queue[i].rev # access'.revision
             /\ access'.allowed => access.allowed /\ wanted'
  <2>1. wanted' = yes
    BY <1>5 DEF CallSetWriteEnabled
  <2>2. CASE yes
    <3>1. access' = [access EXCEPT !.revision = NextRevision]
      BY <1>5, <2>2 DEF CallSetWriteEnabled
    <3>2. access'.revision = NextRevision /\ access'.allowed = access.allowed
      BY <1>0, <3>1 DEF Accesses
    <3>3. QED BY <1>1, <2>1, <2>2, <3>2
  <2>3. CASE ~yes
    <3>1. access' = Revoked
      BY <1>5, <2>3 DEF CallSetWriteEnabled
    <3>2. QED BY <1>1, <1>2, <3>1
  <2>4. QED BY <2>2, <2>3
<1>6. CASE Lapses \/ Denies \/ Approves \/ Asks \/ Uses
  BY <1>6, RequestsMoveAlone
<1>7. QED BY <1>3, <1>4, <1>5, <1>6, WritesMove

LEMMA InitPermission == Init => PermissionInv
<1> SUFFICES ASSUME Init PROVE PermissionInv
  OBVIOUS
<1>1. PermissionIsWanted
  BY DEF Init, NoAccess, PermissionIsWanted
<1>2. LastWord
  BY OpType DEF Init, LastWord
<1>3. QED BY <1>1, <1>2 DEF PermissionInv

LEMMA NextPermission == TypeInv /\ PermissionInv /\ [Next]_vars => PermissionInv'
<1> SUFFICES ASSUME TypeInv, PermissionInv, [Next]_vars PROVE PermissionInv'
  OBVIOUS
<1>1. CASE UNCHANGED vars
  BY <1>1 DEF PermissionInv, PermissionIsWanted, LastWord, vars
<1>2. CASE Restart
  <2>1. access'.allowed = FALSE /\ queue' = <<Op("initialize")>>
    BY <1>2 DEF Restart, NoAccess
  <2>2. \A i \in DOMAIN queue' : queue'[i].kind # "switch"
    BY <2>1, OpType
  <2>3. QED BY <2>1, <2>2 DEF PermissionInv, PermissionIsWanted, LastWord
<1>3. CASE Next /\ ~Restart
  <2>0. TypeOK
    BY DEF TypeInv
  <2>1. PermissionIsWanted'
    <3>1. CASE Switches
      <4>1. /\ queue # <<>> /\ Head(queue).kind = "switch" /\ Head(queue).rev = access.revision
            /\ wanted' = wanted
        BY <3>1 DEF Switches, At, Outdated
      <4>2. access'.allowed = Head(queue).yes
        BY <2>0, <3>1 DEF Switches, TypeOK
      <4>3. Head(queue).yes = wanted
        BY <2>0, <4>1, HeadIsFirst DEF PermissionInv, LastWord
      <4>4. QED BY <4>1, <4>2, <4>3 DEF PermissionIsWanted
    <3>2. QED BY <1>3, <3>1, RevisionMoves DEF PermissionInv, PermissionIsWanted
  <2>2. LastWord'
    <3> SUFFICES ASSUME NEW i \in DOMAIN queue', queue'[i].kind = "switch",
                        queue'[i].rev = access'.revision
                 PROVE  queue'[i].yes = wanted'
      BY DEF LastWord
    <3>1. CASE Appends(queue'[i])
      BY <3>1 DEF Appends
    <3>2. ASSUME NEW j \in DOMAIN queue, queue'[i] = queue[j] PROVE queue'[i].yes = wanted'
      BY <1>3, <3>2, RevisionMoves DEF PermissionInv, LastWord
    <3>3. queue'[i] \notin {Op("reconcile"), Op("initialize")}
      BY OpType
    <3>4. QED BY <1>3, <2>0, <3>1, <3>2, <3>3, QueueContents
  <2>3. QED BY <2>1, <2>2 DEF PermissionInv
<1>4. QED BY <1>1, <1>2, <1>3

LEMMA AlwaysPermission == Spec => []PermissionInv
BY InitPermission, NextPermission, AlwaysTyped, PTL DEF Spec

\* Writes are permitted only while the user's last word was yes and nothing has
\* withdrawn it since, whatever was still queued when it was withdrawn.
THEOREM PermissionFollowsTheUser == Spec => []PermissionIsWanted
<1>1. PermissionInv => PermissionIsWanted
  BY DEF PermissionInv
<1>2. QED BY <1>1, AlwaysPermission, PTL

----------------------------------------------------------------------------
\* A write is the one that was approved.

\* Every request the service holds is as the user last saw it: asked with these
\* contents, and approved if it was; an id belongs to one request.
GrantFor(r) == [stage |-> IF r.approved THEN "approved" ELSE "asked", call |-> r.call,
                state |-> r.state, due |-> r.due]
RequestsAgree == \A r \in access.requests : ledger[r.id] = GrantFor(r)

LEMMA InitAgree == Init => RequestsAgree
BY DEF Init, NoAccess, RequestsAgree

LEMMA NextAgree == TypeInv /\ RequestsAgree /\ [Next]_vars => RequestsAgree'
<1> SUFFICES ASSUME TypeInv, RequestsAgree, [Next]_vars, NEW r \in access'.requests
             PROVE  ledger'[r.id] = GrantFor(r)
  BY DEF RequestsAgree, GrantFor
<1>0. /\ access \in Accesses /\ access.requests \subseteq Requests
      /\ ledger \in [Ids -> Grants] /\ Live \subseteq access.requests
  BY FewerRequests DEF TypeInv, TypeOK, Accesses, Live
<1>1. \A requests : With(requests) => access'.requests = requests
  BY <1>0 DEF With, Accesses
<1>2. \A id : \A q \in Without(Live, id) : q \in access.requests /\ q.id # id
  BY <1>0 DEF Without, WithId
<1>3. CASE UNCHANGED vars
  BY <1>3 DEF RequestsAgree, vars
<1>4. CASE Restart \/ RevokeWrites
  <2>1. access'.requests = {}
    BY <1>4, RevokedType DEF Restart, NoAccess, RevokeWrites, TypeInv
  <2>2. QED BY <2>1
<1>5. CASE KeepWrites \/ Switches
  BY <1>0, <1>5 DEF KeepWrites, Switches, RequestsAgree, Accesses
<1>6. ASSUME NEW yes \in BOOLEAN, CallSetWriteEnabled(yes)
      PROVE  ledger'[r.id] = GrantFor(r)
  BY <1>0, <1>6 DEF CallSetWriteEnabled, Revoked, RequestsAgree, Accesses
<1>7. CASE Lapses
  BY <1>1, <1>7 DEF Lapses, RequestsAgree
<1>8. CASE Denies \/ Uses
  <2>1. PICK id \in Ids, stage \in {"denied", "used"} :
          With(Without(Live, id)) /\ ledger' = [ledger EXCEPT ![id].stage = stage]
    BY <1>8 DEF Denies, Uses
  <2>2. r \in access.requests /\ r.id # id
    BY <1>1, <1>2, <2>1
  <2>3. ledger'[r.id] = ledger[r.id]
    BY <1>0, <2>1, <2>2 DEF Requests
  <2>4. QED BY <2>2, <2>3 DEF RequestsAgree
<1>9. CASE Approves
  <2>1. PICK id \in Ids :
          /\ With(Without(Live, id) \cup {[q EXCEPT !.approved = TRUE] : q \in WithId(Live, id)})
          /\ ledger' = [ledger EXCEPT ![id].stage = "approved"]
    BY <1>9 DEF Approves
  <2>2. CASE r \in Without(Live, id)
    <3>1. r \in access.requests /\ r.id # id
      BY <1>2, <2>2
    <3>2. ledger'[r.id] = ledger[r.id]
      BY <1>0, <2>1, <3>1 DEF Requests
    <3>3. QED BY <3>1, <3>2 DEF RequestsAgree
  <2>3. ASSUME NEW q \in WithId(Live, id), r = [q EXCEPT !.approved = TRUE]
        PROVE  ledger'[r.id] = GrantFor(r)
    <3>1. q \in access.requests /\ q \in Requests /\ q.id = id
      BY <1>0, <2>3 DEF WithId
    <3>2. ledger[id] = GrantFor(q)
      BY <3>1 DEF RequestsAgree
    <3>3. ledger'[id] = [ledger[id] EXCEPT !.stage = "approved"]
      BY <1>0, <2>1
    <3>4. r.id = id /\ r.call = q.call /\ r.state = q.state /\ r.due = q.due /\ r.approved
      BY <2>3, <3>1 DEF Requests
    <3>5. QED BY <3>2, <3>3, <3>4 DEF GrantFor
  <2>4. QED BY <1>1, <2>1, <2>2, <2>3
<1>10. CASE Asks
  <2>1. PICK id \in Ids, call \in Calls, state \in Nat, due \in Nat :
          /\ access.allowed /\ ledger[id].stage = "new"
          /\ With(Live \cup {[id |-> id, call |-> call, state |-> state, due |-> due,
                              approved |-> FALSE]})
          /\ ledger' = [ledger EXCEPT ![id] = [stage |-> "asked", call |-> call,
                                               state |-> state, due |-> due]]
          /\ UNCHANGED wanted
    BY <1>10 DEF Asks
  <2>2. CASE r \in Live
    <3>1. r \in access.requests /\ r \in Requests
      BY <1>0, <2>2
    <3>2. ledger[r.id] = GrantFor(r) /\ GrantFor(r).stage # "new"
      BY <3>1 DEF RequestsAgree, GrantFor
    <3>3. r.id # id
      BY <2>1, <3>2
    <3>4. QED BY <1>0, <2>1, <3>1, <3>2, <3>3 DEF Requests
  <2>3. CASE r = [id |-> id, call |-> call, state |-> state, due |-> due, approved |-> FALSE]
    BY <1>0, <2>1, <2>3 DEF GrantFor
  <2>4. QED BY <1>1, <2>1, <2>2, <2>3
<1>11. QED BY <1>3, <1>4, <1>5, <1>6, <1>7, <1>8, <1>9, <1>10, WritesMove

LEMMA AlwaysAgree == Spec => []RequestsAgree
BY InitAgree, NextAgree, AlwaysTyped, PTL DEF Spec

\* Where the head of the queue stands, and which step can take it there.
LEMMA WhereItStands ==
  ASSUME Proceeds
  PROVE  /\ step = "commit" => CommitWrite
         /\ step = "execute" => \E written \in BOOLEAN : ExecuteWrite(written)
         /\ step' = "execute" => step = "commit"
<1>1. CASE \E readable \in BOOLEAN : Initialize(readable)
  BY <1>1 DEF Initialize, At, GoTo, Finish
<1>2. CASE Refuse \/ StartEnable \/ StartDisable \/ StartSwitch \/ StartReconcile \/ StartShutdown
  BY <1>2 DEF Refuse, StartEnable, StartDisable, StartSwitch, StartReconcile, StartShutdown,
     Running, At, GoTo, Finish
<1>3. CASE \E kept \in SUBSET Names : Unregisters(kept)
  BY <1>3 DEF Unregisters, Lock, Sweep, Clear, EnableUndone, SwitchUndone, Running, At, GoTo, Finish
<1>4. CASE \E kept, records \in SUBSET Names : Registers(kept, records)
  BY <1>4 DEF Registers, Initialized, EnableRegisters, Restore, SwitchRegisters,
     ReconcileRegisters, Running, At, GoTo, Finish
<1>5. CASE BuildPolicies \/ BuildPoliciesAgain
  BY <1>5 DEF BuildPolicies, BuildPoliciesAgain, StartRegistering, GoTo
<1>6. CASE \E ok, landed \in BOOLEAN : EnableSaves(ok, landed) \/ DisableSaves(ok, landed)
  BY <1>6 DEF EnableSaves, DisableSaves, At, GoTo, Finish
<1>7. CASE ListWrites \/ DecideWrite
  BY <1>7 DEF ListWrites, DecideWrite, At, Finish
<1>8. CASE StartWrite \/ \E outcome \in {"invalid", "error", "read"} : PrepareWrite(outcome)
  <2>1. step \in {"start", "prepare"}
    BY <1>8 DEF StartWrite, PrepareWrite, At
  <2>2. step' \in {"start", "prepare", "commit"}
    BY <1>8 DEF StartWrite, PrepareWrite, EndCall, LosesMembership, GoTo, Finish
  <2>3. QED BY <2>1, <2>2
<1>9. CASE CommitWrite
  BY <1>9 DEF CommitWrite, At
<1>10. CASE \E written \in BOOLEAN : ExecuteWrite(written)
  BY <1>10 DEF ExecuteWrite, At, Finish
<1>11. QED
  <2>1. ASSUME NEW kept \in SUBSET Names, NEW records \in SUBSET kept, Registers(kept, records)
        PROVE  \E k, r \in SUBSET Names : Registers(k, r)
    BY <2>1
  <2>2. QED BY <1>1, <1>2, <1>3, <1>4, <1>5, <1>6, <1>7, <1>8, <1>9, <1>10, <2>1 DEF Proceeds

LEMMA WritingIsUsing ==
  ASSUME TypeInv, Next, Writes
  PROVE  Uses
<1>1. Proceeds
  BY QueueMoves DEF TypeInv, Writes, Appends, Restart
<1>2. QED BY <1>1, WhereItStands, CommitMoves DEF Writes

\* What a write uses is a request that is still alive, approved, for this call
\* and for the data just read.
LEMMA UsedIsGranted ==
  ASSUME TypeInv, RequestsAgree, Uses
  PROVE  /\ Granted.stage = "approved" /\ Granted.call = Head(queue).call
         /\ Granted.due > now /\ Granted.state = local.state
<1> DEFINE op == Head(queue)
<1>1. PICK r \in Permits(Live, op) : r.approved
  BY DEF Uses, Approved
<1>2. r \in access.requests /\ r.due > now /\ r.id = op.id /\ r.call = op.call
  BY <1>1 DEF Permits, WithId, Live, Pruned
<1>3. r.state = local.state
  BY <1>1 DEF Uses
<1>4. ledger[op.id] = GrantFor(r)
  BY <1>2 DEF RequestsAgree
<1>5. QED BY <1>1, <1>2, <1>3, <1>4 DEF GrantFor, Granted

\* A tool writes only for a member who wants writes, on an approval of this
\* very call that is neither withdrawn, outlived nor used.
THEOREM WritesAreAuthorised == Spec => WriteIsAuthorised
<1>1. ASSUME TypeInv, PermissionInv, RequestsAgree, [Next]_vars
      PROVE  [Writes => /\ member /\ wanted
                        /\ Granted.stage = "approved" /\ Granted.call = Head(queue).call
                        /\ Granted.due > now]_vars
  <2>1. CASE UNCHANGED vars
    BY <2>1
  <2>2. CASE Next /\ Writes
    <3>1. Uses
      BY <1>1, <2>2, WritingIsUsing
    <3>2. member /\ wanted
      BY <1>1, <3>1 DEF Uses, PermissionInv, PermissionIsWanted
    <3>3. QED BY <1>1, <3>1, <3>2, UsedIsGranted
  <2>3. QED BY <1>1, <2>1, <2>2
<1>2. QED BY <1>1, AlwaysTyped, AlwaysPermission, AlwaysAgree, PTL DEF Spec, WriteIsAuthorised

\* A tool writes over the data its approval was given for, as it was read last.
THEOREM WritesSeeApprovedState == Spec => WriteSeesApprovedState
<1>1. ASSUME TypeInv, RequestsAgree, [Next]_vars
      PROVE  [Writes => Granted.state = local.state]_vars
  BY <1>1, WritingIsUsing, UsedIsGranted
<1>2. QED BY <1>1, AlwaysTyped, AlwaysAgree, PTL DEF Spec, WriteSeesApprovedState

----------------------------------------------------------------------------
\* The service implements WriteApprovals.

\* GrantOf for any requests and what the user knows of them.
StateOf(requests, known, id) ==
  IF known[id].stage = "new" THEN [stage |-> "new", call |-> NoCall]
  ELSE IF WithId(requests, id) = {} THEN [stage |-> "gone", call |-> NoCall]
  ELSE LET r == CHOOSE q \in WithId(requests, id) : TRUE
       IN [stage |-> IF r.approved THEN "approved" ELSE "asked", call |-> r.call]
Agree(requests, known) ==
  requests \in SUBSET Requests /\ \A r \in requests : known[r.id] = GrantFor(r)
Lapsed(known, requests) == {id \in Ids : known[id].stage # "new" /\ WithId(requests, id) = {}}

LEMMA GrantsAreStates ==
  /\ [id \in Ids |-> GrantOf(id)] = [id \in Ids |-> StateOf(access.requests, ledger, id)]
  /\ [id \in Ids |-> GrantOf(id)]' = [id \in Ids |-> StateOf(access'.requests, ledger', id)]
BY DEF GrantOf, StateOf

LEMMA StateOfRequest ==
  ASSUME NEW requests, NEW known, Agree(requests, known), NEW r \in requests
  PROVE  StateOf(requests, known, r.id)
           = [stage |-> IF r.approved THEN "approved" ELSE "asked", call |-> r.call]
<1>1. known[r.id] = GrantFor(r) /\ known[r.id].stage # "new"
  BY DEF Agree, GrantFor
<1>2. ASSUME NEW q \in WithId(requests, r.id) PROVE q = r
  <2>1. q \in Requests /\ r \in Requests /\ q.id = r.id /\ GrantFor(q) = GrantFor(r)
    BY <1>1, <1>2 DEF WithId, Agree
  <2>2. q.call = r.call /\ q.state = r.state /\ q.due = r.due /\ q.approved = r.approved
    BY <2>1 DEF GrantFor, Requests
  <2>3. QED BY <2>1, <2>2 DEF Requests
<1>3. r \in WithId(requests, r.id)
  BY DEF WithId
<1>4. (CHOOSE q \in WithId(requests, r.id) : TRUE) = r
  BY <1>2, <1>3
<1>5. QED BY <1>1, <1>3, <1>4 DEF StateOf

LEMMA StateOfUnused ==
  ASSUME NEW requests, NEW known, NEW id
  PROVE  /\ StateOf(requests, known, id) = Promise!Unused <=> known[id].stage = "new"
         /\ known[id].stage # "new" /\ WithId(requests, id) = {}
              => StateOf(requests, known, id) = Promise!Gone
BY DEF StateOf, Promise!Unused, Promise!Gone

\* An id whose request was not touched keeps its state, or has lapsed.
LEMMA StateMoves ==
  ASSUME NEW requests, NEW known, Agree(requests, known),
         NEW left, NEW later, Agree(left, later),
         NEW id \in Ids, known[id].stage = "new" <=> later[id].stage = "new",
         WithId(left, id) \subseteq requests
  PROVE  StateOf(left, later, id) = IF id \in Lapsed(known, left) THEN Promise!Gone
                                    ELSE StateOf(requests, known, id)
<1>1. CASE known[id].stage = "new"
  BY <1>1 DEF StateOf, Lapsed
<1>2. CASE known[id].stage # "new" /\ WithId(left, id) = {}
  BY <1>2 DEF StateOf, Lapsed, Promise!Gone
<1>3. CASE WithId(left, id) # {}
  <2>1. PICK r \in WithId(left, id) : TRUE
    BY <1>3
  <2>2. r \in left /\ r \in requests /\ r.id = id
    BY <2>1 DEF WithId
  <2> DEFINE state == [stage |-> IF r.approved THEN "approved" ELSE "asked", call |-> r.call]
  <2>3. StateOf(left, later, id) = StateOf(requests, known, id)
    <3>1. StateOf(left, later, r.id) = state
      BY <2>2, StateOfRequest
    <3>2. StateOf(requests, known, r.id) = state
      BY <2>2, StateOfRequest
    <3>3. QED BY <2>2, <3>1, <3>2
  <2>4. QED BY <1>3, <2>3 DEF Lapsed
<1>4. QED BY <1>1, <1>2, <1>3

\* A write begins with Uses and ends with ExecuteWrite or a restart.
LEMMA WritingMoves ==
  ASSUME TypeInv, HostInv, Next, ~Restart, ~Uses
  PROVE  WriteOf' = WriteOf \/ \E written \in BOOLEAN : ExecuteWrite(written)
<1>0. queue \in Seq(Ops) /\ (queue = <<>> => step = "start")
  BY DEF TypeInv, TypeOK, HostInv, NothingBefore
<1>1. CASE Proceeds
  <2>1. step = "execute" => \E written \in BOOLEAN : ExecuteWrite(written)
    BY <1>1, WhereItStands
  <2>2. step' # "execute"
    BY <1>1, WhereItStands, CommitMoves
  <2>3. QED BY <2>1, <2>2 DEF WriteOf
<1>2. CASE UNCHANGED <<queue, step>>
  BY <1>2 DEF WriteOf
<1>3. ASSUME NEW op, Appends(op) PROVE WriteOf' = WriteOf
  <2>1. step' = step /\ queue' = Append(queue, op) /\ op \in Ops
    BY <1>3 DEF Appends, Enqueue
  <2>2. step = "execute" => Head(queue') = Head(queue)
    BY <1>0, <2>1, HeadOfAppended
  <2>3. QED BY <2>1, <2>2 DEF WriteOf
<1>4. QED BY <1>1, <1>2, <1>3, QueueMoves DEF TypeInv

\* The facts about requests, before and after a step, that the cases share.
Known == TypeInv /\ RequestsAgree
LEMMA KnownRequests ==
  ASSUME Known, Known'
  PROVE  /\ access \in Accesses /\ ledger \in [Ids -> Grants]
         /\ Agree(access.requests, ledger) /\ Agree(access'.requests, ledger')
BY DEF Known, TypeInv, TypeOK, RequestsAgree, Agree, Accesses

LEMMA LapsingLapses ==
  ASSUME Known, Known', access'.requests \subseteq access.requests,
         \A id \in Ids : ledger[id].stage = "new" <=> ledger'[id].stage = "new",
         access'.allowed = access.allowed, WriteOf' = WriteOf
  PROVE  Promise!Lapse(Lapsed(ledger, access'.requests))
<1> DEFINE ids == Lapsed(ledger, access'.requests)
<1>k. Agree(access.requests, ledger) /\ Agree(access'.requests, ledger')
  BY KnownRequests
<1>1. \A id \in ids : id \in Ids /\ StateOf(access.requests, ledger, id) # Promise!Unused
  BY StateOfUnused DEF Lapsed
<1>2. ASSUME NEW id \in Ids
      PROVE  StateOf(access'.requests, ledger', id)
               = IF id \in ids THEN Promise!Gone ELSE StateOf(access.requests, ledger, id)
  <2>1. WithId(access'.requests, id) \subseteq access.requests
    BY DEF WithId
  <2>2. ledger[id].stage = "new" <=> ledger'[id].stage = "new"
    OBVIOUS
  <2> HIDE DEF ids
  <2>3. StateOf(access'.requests, ledger', id)
          = IF id \in Lapsed(ledger, access'.requests) THEN Promise!Gone
            ELSE StateOf(access.requests, ledger, id)
    BY <2>1, <2>2, <1>k, StateMoves
  <2>4. QED BY <2>3 DEF ids
<1> HIDE DEF ids
<1>3. QED BY <1>1, <1>2, GrantsAreStates DEF Promise!Lapse, ids

LEMMA MovingMoves ==
  ASSUME Known, Known', NEW id \in Ids,
         \A other \in Ids \ {id} :
           /\ WithId(access'.requests, other) \subseteq access.requests
           /\ ledger[other].stage = "new" <=> ledger'[other].stage = "new",
         access.allowed, access'.allowed = access.allowed
  PROVE  Promise!Moves(id, Lapsed(ledger, access'.requests) \ {id},
                       StateOf(access'.requests, ledger', id))
<1> DEFINE ids == Lapsed(ledger, access'.requests) \ {id}
<1>k. Agree(access.requests, ledger) /\ Agree(access'.requests, ledger')
  BY KnownRequests
<1>1. \A other \in ids : other \in Ids /\ StateOf(access.requests, ledger, other) # Promise!Unused
  BY StateOfUnused DEF Lapsed
<1>2. ASSUME NEW other \in Ids, other # id
      PROVE  StateOf(access'.requests, ledger', other)
               = IF other \in ids THEN Promise!Gone ELSE StateOf(access.requests, ledger, other)
  <2>1. StateOf(access'.requests, ledger', other)
          = IF other \in Lapsed(ledger, access'.requests) THEN Promise!Gone
            ELSE StateOf(access.requests, ledger, other)
    BY <1>2, <1>k, StateMoves
  <2>2. QED BY <1>2, <2>1
<1>3. id \notin ids /\ access'.allowed = access.allowed
  OBVIOUS
<1> HIDE DEF ids
<1>4. QED BY <1>1, <1>2, <1>3, GrantsAreStates DEF Promise!Moves, ids

LEMMA RevokingRevokes ==
  ASSUME Known, Known', access'.requests = {}, access'.allowed = FALSE, ledger' = Voided
  PROVE  /\ access'.allowed = FALSE
         /\ [id \in Ids |-> GrantOf(id)]'
              = [id \in Ids |-> IF [i \in Ids |-> GrantOf(i)][id] = Promise!Unused
                                THEN Promise!Unused ELSE Promise!Gone]
<1>1. ASSUME NEW id \in Ids
      PROVE  StateOf(access'.requests, ledger', id)
               = IF StateOf(access.requests, ledger, id) = Promise!Unused
                 THEN Promise!Unused ELSE Promise!Gone
  <2>1. ledger'[id].stage = "new" <=> ledger[id].stage = "new"
    BY KnownRequests DEF Voided, Grants
  <2>2. WithId(access'.requests, id) = {}
    BY DEF WithId
  <2>3. QED BY <2>1, <2>2, StateOfUnused
<1>2. QED BY <1>1, GrantsAreStates

\* Every change of the requests is one that the promise names.
LEMMA LapsesIsLapse ==
  ASSUME Known, Known', Lapses \/ Denies, WriteOf' = WriteOf
  PROVE  \E ids \in SUBSET Ids : Promise!Lapse(ids)
<1>1. access.requests \subseteq Requests /\ ledger \in [Ids -> Grants] /\ access \in Accesses
  BY DEF Known, TypeInv, TypeOK, Accesses
<1>2. access'.requests \subseteq access.requests /\ access'.allowed = access.allowed
  <2>1. Live \subseteq access.requests
    BY FewerRequests DEF Live, Known, TypeInv
  <2>2. PICK requests \in SUBSET access.requests : With(requests)
    BY <2>1 DEF Lapses, Denies, Without
  <2>3. QED BY <1>1, <2>2 DEF With, Accesses
<1>3. \A id \in Ids : ledger[id].stage = "new" <=> ledger'[id].stage = "new"
  <2>1. CASE Lapses
    BY <2>1 DEF Lapses
  <2>2. CASE Denies
    <3>1. PICK id \in Ids : WithId(Live, id) # {} /\ ledger' = [ledger EXCEPT ![id].stage = "denied"]
      BY <2>2 DEF Denies
    <3>2. PICK r \in WithId(Live, id) : TRUE
      BY <3>1
    <3>3. r \in access.requests /\ r.id = id
      BY <3>2 DEF WithId, Live, Pruned
    <3>4. ledger[id].stage # "new"
      <4>1. ledger[id] = GrantFor(r)
        BY <3>3 DEF Known, RequestsAgree
      <4>2. QED BY <4>1 DEF GrantFor
    <3>5. ledger'[id].stage = "denied" /\ \A other \in Ids : other # id => ledger'[other] = ledger[other]
      BY <1>1, <3>1 DEF Grants
    <3>6. QED BY <3>4, <3>5
  <2>3. QED BY <2>1, <2>2
<1>4. Promise!Lapse(Lapsed(ledger, access'.requests))
  BY <1>2, <1>3, LapsingLapses
<1>5. QED BY <1>4 DEF Lapsed

LEMMA ApprovesIsApprove ==
  ASSUME Known, Known', Approves, WriteOf' = WriteOf
  PROVE  \E ids \in SUBSET Ids, id \in Ids, call \in Calls : Promise!Approve(id, call, ids)
<1>1. /\ access.requests \subseteq Requests /\ ledger \in [Ids -> Grants] /\ access \in Accesses
      /\ Live \subseteq access.requests
  BY FewerRequests DEF Known, TypeInv, TypeOK, Accesses, Live
<1>2. PICK id \in Ids :
        /\ access.allowed /\ \E r \in WithId(Live, id) : ~r.approved
        /\ With(Without(Live, id) \cup {[r EXCEPT !.approved = TRUE] : r \in WithId(Live, id)})
        /\ ledger' = [ledger EXCEPT ![id].stage = "approved"] /\ UNCHANGED wanted
  BY DEF Approves
<1>3. PICK r \in WithId(Live, id) : ~r.approved
  BY <1>2
<1> DEFINE after == Without(Live, id) \cup {[q EXCEPT !.approved = TRUE] : q \in WithId(Live, id)}
           new == [r EXCEPT !.approved = TRUE]
           ids == Lapsed(ledger, access'.requests) \ {id}
<1>4. access'.requests = after /\ access'.allowed = access.allowed
  BY <1>1, <1>2 DEF With, Accesses
<1>5. r \in access.requests /\ r \in Requests /\ r.id = id /\ r.call \in Calls
  BY <1>1, <1>3 DEF WithId, Requests
<1>6. /\ new \in access'.requests /\ new.id = id /\ new.call = r.call /\ new.approved
  BY <1>3, <1>4, <1>5 DEF Requests
<1>7. ASSUME NEW other \in Ids \ {id}
      PROVE  /\ WithId(access'.requests, other) \subseteq access.requests
             /\ ledger[other].stage = "new" <=> ledger'[other].stage = "new"
  <2>1. \A q \in WithId(Live, id) : [q EXCEPT !.approved = TRUE].id = id
    BY <1>1 DEF WithId, Requests
  <2>2. \A q \in WithId(after, other) : q \in Without(Live, id)
    BY <2>1 DEF WithId
  <2>3. WithId(access'.requests, other) \subseteq access.requests
    BY <1>1, <1>4, <2>2 DEF Without
  <2>4. ledger'[other] = ledger[other]
    BY <1>1, <1>2
  <2>5. QED BY <2>3, <2>4
<1> HIDE DEF new, after
<1>8. Promise!Moves(id, ids, StateOf(access'.requests, ledger', id))
  BY <1>2, <1>4, <1>7, MovingMoves
<1>9. /\ StateOf(access.requests, ledger, id) = Promise!Asked(r.call)
      /\ StateOf(access'.requests, ledger', id) = Promise!Approved(r.call)
  BY <1>3, <1>5, <1>6, KnownRequests, StateOfRequest DEF Promise!Asked, Promise!Approved
<1>10. Promise!Approve(id, r.call, ids)
  BY <1>8, <1>9, GrantsAreStates DEF Promise!Approve
<1>11. ids \in SUBSET Ids
  BY DEF Lapsed
<1>12. QED BY <1>5, <1>10, <1>11

LEMMA AsksIsAsk ==
  ASSUME Known, Known', Asks, WriteOf' = WriteOf
  PROVE  \E ids \in SUBSET Ids, id \in Ids, call \in Calls : Promise!Ask(id, call, ids)
<1>1. /\ access.requests \subseteq Requests /\ ledger \in [Ids -> Grants] /\ access \in Accesses
      /\ Live \subseteq access.requests
  BY FewerRequests DEF Known, TypeInv, TypeOK, Accesses, Live
<1>2. PICK id \in Ids, call \in Calls, state \in Nat, due \in Nat :
        /\ access.allowed /\ ledger[id].stage = "new"
        /\ With(Live \cup {[id |-> id, call |-> call, state |-> state, due |-> due,
                            approved |-> FALSE]})
        /\ ledger' = [ledger EXCEPT ![id] = [stage |-> "asked", call |-> call,
                                             state |-> state, due |-> due]]
        /\ UNCHANGED wanted
  BY DEF Asks
<1> DEFINE new == [id |-> id, call |-> call, state |-> state, due |-> due, approved |-> FALSE]
           ids == Lapsed(ledger, access'.requests) \ {id}
<1>3. access'.requests = Live \cup {new} /\ access'.allowed = access.allowed
  BY <1>1, <1>2 DEF With, Accesses
<1>4. new \in access'.requests /\ new.id = id /\ new.call = call /\ ~new.approved
  BY <1>3
<1>5. ASSUME NEW other \in Ids \ {id}
      PROVE  /\ WithId(access'.requests, other) \subseteq access.requests
             /\ ledger[other].stage = "new" <=> ledger'[other].stage = "new"
  <2>1. WithId(access'.requests, other) \subseteq access.requests
    BY <1>1, <1>3 DEF WithId
  <2>2. ledger'[other] = ledger[other]
    BY <1>1, <1>2
  <2>3. QED BY <2>1, <2>2
<1> HIDE DEF new
<1>6. Promise!Moves(id, ids, StateOf(access'.requests, ledger', id))
  BY <1>2, <1>3, <1>5, MovingMoves
<1>7. StateOf(access'.requests, ledger', id) = Promise!Asked(call)
  BY <1>4, KnownRequests, StateOfRequest DEF Promise!Asked
<1>8. StateOf(access.requests, ledger, id) = Promise!Unused
  BY <1>2, StateOfUnused
<1>9. Promise!Ask(id, call, ids)
  BY <1>6, <1>7, <1>8, GrantsAreStates DEF Promise!Ask
<1>10. ids \in SUBSET Ids
  BY DEF Lapsed
<1>11. QED BY <1>9, <1>10

LEMMA UsesIsWrite ==
  ASSUME Known, Known', Uses
  PROVE  \E ids \in SUBSET Ids, id \in Ids, call \in Calls : Promise!Write(id, call, ids)
<1> DEFINE op == Head(queue)
           ids == Lapsed(ledger, access'.requests) \ {op.id}
<1>1. /\ access.requests \subseteq Requests /\ ledger \in [Ids -> Grants] /\ access \in Accesses
      /\ Live \subseteq access.requests /\ op.id \in Ids /\ access.allowed
  BY FewerRequests DEF Known, TypeInv, TypeOK, Accesses, Live, Uses
<1>2. /\ access'.requests = Without(Live, op.id) /\ access'.allowed = access.allowed
      /\ ledger' = [ledger EXCEPT ![op.id].stage = "used"]
  BY <1>1 DEF Uses, With, Accesses
<1>3. PICK r \in Permits(Live, op) : r.approved
  BY DEF Uses, Approved
<1>4. r \in access.requests /\ r.id = op.id /\ r.call = op.call /\ r.call \in Calls
  BY <1>1, <1>3 DEF Permits, WithId, Requests
<1>5. ASSUME NEW other \in Ids \ {op.id}
      PROVE  /\ WithId(access'.requests, other) \subseteq access.requests
             /\ ledger[other].stage = "new" <=> ledger'[other].stage = "new"
  <2>1. WithId(access'.requests, other) \subseteq access.requests
    BY <1>1, <1>2 DEF WithId, Without
  <2>2. ledger'[other] = ledger[other]
    BY <1>1, <1>2
  <2>3. QED BY <2>1, <2>2
<1>6. Promise!Moves(op.id, ids, StateOf(access'.requests, ledger', op.id))
  BY <1>1, <1>2, <1>5, MovingMoves
<1>7. StateOf(access.requests, ledger, op.id) = Promise!Approved(op.call)
  BY <1>3, <1>4, KnownRequests, StateOfRequest DEF Promise!Approved
<1>8. StateOf(access'.requests, ledger', op.id) = Promise!Gone
  <2>1. ledger'[op.id].stage # "new"
    BY <1>1, <1>2 DEF Grants
  <2>2. WithId(access'.requests, op.id) = {}
    BY <1>2 DEF WithId, Without
  <2>3. QED BY <2>1, <2>2, StateOfUnused
<1>9. WriteOf = NoCall /\ WriteOf' = op.call
  BY DEF Uses, At, WriteOf
<1>10. Promise!Write(op.id, op.call, ids)
  BY <1>1, <1>6, <1>7, <1>8, <1>9, GrantsAreStates DEF Promise!Write
<1>11. ids \in SUBSET Ids
  BY DEF Lapsed
<1>12. QED BY <1>1, <1>4, <1>10, <1>11

\* The permission itself: it is withdrawn with every request, or given on a yes.
LEMMA PermissionKeepsPromise ==
  ASSUME Known, Known', PermissionInv, Next, WriteOf' = WriteOf,
         KeepWrites \/ RevokeWrites \/ Switches \/ \E yes \in BOOLEAN : CallSetWriteEnabled(yes)
  PROVE  Promise!Permit \/ Promise!Revoke \/ UNCHANGED Promise!vars
<1>1. access \in Accesses /\ TypeOK
  BY DEF Known, TypeInv, TypeOK, Accesses
<1>2. ASSUME access'.requests = access.requests, ledger' = ledger
      PROVE  [id \in Ids |-> GrantOf(id)]' = [id \in Ids |-> GrantOf(id)]
  BY <1>2, GrantsAreStates
<1>3. CASE KeepWrites
  BY <1>2, <1>3 DEF KeepWrites, Promise!vars
<1>4. CASE access' = Revoked /\ ledger' = Voided
  BY <1>1, <1>4, RevokedType, RevokingRevokes DEF Promise!Revoke
<1>5. ASSUME CallSetWriteEnabled(TRUE) PROVE UNCHANGED Promise!vars
  <2>1. access' = [access EXCEPT !.revision = NextRevision] /\ ledger' = ledger
    BY <1>5 DEF CallSetWriteEnabled
  <2>2. access'.requests = access.requests /\ access'.allowed = access.allowed
    BY <1>1, <2>1 DEF Accesses
  <2>3. QED BY <1>2, <2>1, <2>2 DEF Promise!vars
<1>6. CASE Switches
  <2>1. /\ access' = [access EXCEPT !.allowed = Head(queue).yes] /\ ledger' = ledger
        /\ queue # <<>> /\ Head(queue).kind = "switch" /\ Head(queue).rev = access.revision
    BY <1>6 DEF Switches, At, Outdated
  <2>2. /\ access'.requests = access.requests /\ access'.allowed = Head(queue).yes
        /\ Head(queue).yes \in BOOLEAN /\ access.allowed \in BOOLEAN
    BY <1>1, <2>1, QueueType DEF Accesses, Ops
  <2>3. Head(queue).yes = wanted
    BY <1>1, <2>1, HeadIsFirst DEF PermissionInv, LastWord
  <2>4. CASE wanted
    BY <1>2, <2>1, <2>2, <2>3, <2>4 DEF Promise!Permit
  <2>5. CASE ~wanted
    <3>1. ~access.allowed
      BY <2>5 DEF PermissionInv, PermissionIsWanted
    <3>2. access'.allowed = access.allowed
      BY <2>2, <2>3, <2>5, <3>1
    <3>3. QED BY <1>2, <2>1, <2>2, <3>2 DEF Promise!vars
  <2>6. QED BY <2>4, <2>5
<1>7. QED
  <2>1. CallSetWriteEnabled(FALSE) => access' = Revoked /\ ledger' = Voided
    BY DEF CallSetWriteEnabled
  <2>2. RevokeWrites => access' = Revoked /\ ledger' = Voided
    BY DEF RevokeWrites
  <2>3. QED BY <1>3, <1>4, <1>5, <1>6, <2>1, <2>2

LEMMA RestartIsStop == ASSUME Known, Known', Restart PROVE Promise!Stop
<1>1. access'.requests = {} /\ access'.allowed = FALSE /\ ledger' = Voided
  BY DEF Restart, NoAccess
<1>2. WriteOf' = NoCall
  BY DEF Restart, WriteOf
<1>3. QED BY <1>1, <1>2, RevokingRevokes DEF Promise!Stop

LEMMA ExecutingIsEndWrite ==
  ASSUME Known, Known', NEW written \in BOOLEAN, ExecuteWrite(written)
  PROVE  Promise!EndWrite
<1>1. WriteOf' = NoCall
  BY DEF ExecuteWrite, Finish, WriteOf
<1>2. access' = access /\ ledger' = ledger
  BY DEF ExecuteWrite, KeepWrites
<1>3. QED BY <1>1, <1>2, GrantsAreStates DEF Promise!EndWrite

LEMMA InitPromise == Init => Promise!Init
<1> SUFFICES ASSUME Init PROVE Promise!Init
  OBVIOUS
<1>1. \A id \in Ids : GrantOf(id) = Promise!Unused
  BY DEF Init, GrantOf, Promise!Unused
<1>2. access.allowed = FALSE /\ WriteOf = NoCall
  BY DEF Init, NoAccess, WriteOf
<1>3. QED BY <1>1, <1>2 DEF Promise!Init

LEMMA NextPromise ==
  ASSUME Known, Known', HostInv, PermissionInv, [Next]_vars
  PROVE  [Promise!Next]_(Promise!vars)
<1>1. CASE UNCHANGED vars
  <2>1. access' = access /\ ledger' = ledger /\ queue' = queue /\ step' = step
    BY <1>1 DEF vars
  <2>2. WriteOf' = WriteOf /\ access'.allowed = access.allowed
    BY <2>1 DEF WriteOf
  <2>3. [id \in Ids |-> GrantOf(id)]' = [id \in Ids |-> GrantOf(id)]
    BY <2>1, GrantsAreStates
  <2>4. QED BY <2>2, <2>3 DEF Promise!vars
<1>2. CASE Next /\ Restart
  BY <1>2, RestartIsStop DEF Promise!Next
<1>3. CASE Next /\ Uses
  BY <1>3, UsesIsWrite DEF Promise!Next
<1>4. ASSUME NEW written \in BOOLEAN, ExecuteWrite(written)
      PROVE  Promise!Next
  BY <1>4, ExecutingIsEndWrite DEF Promise!Next
<1>5. CASE Next /\ ~Restart /\ ~Uses /\ WriteOf' = WriteOf
  <2>1. CASE Lapses \/ Denies
    BY <1>5, <2>1, LapsesIsLapse DEF Promise!Next
  <2>2. CASE Approves
    BY <1>5, <2>2, ApprovesIsApprove DEF Promise!Next
  <2>3. CASE Asks
    BY <1>5, <2>3, AsksIsAsk DEF Promise!Next
  <2>4. CASE KeepWrites \/ RevokeWrites \/ Switches
               \/ \E yes \in BOOLEAN : CallSetWriteEnabled(yes)
    BY <1>5, <2>4, PermissionKeepsPromise DEF Promise!Next
  <2>5. QED BY <1>5, <2>1, <2>2, <2>3, <2>4, WritesMove DEF Known
<1>6. QED BY <1>1, <1>2, <1>3, <1>4, <1>5, WritingMoves DEF Known

\* The service implements the promise of WriteApprovals: every step of it,
\* failing, expiring or restarting, is one the promise allows.
THEOREM PromiseIsKept == Spec => KeepsPromise
<1>1. TypeInv /\ RequestsAgree <=> Known
  BY DEF Known
<1>2. QED
  BY <1>1, InitPromise, NextPromise, InitHost, NextHost, AlwaysTyped, AlwaysPermission,
     AlwaysAgree, PTL DEF Spec, KeepsPromise, Promise!Spec


----------------------------------------------------------------------------
\* The status shown at rest is the truth about the host.

Rebuilding == {"unregister", "register", "registering", "save", "undo", "restore", "restoring"}

\* What the status says of the names and the records holds between operations
\* and within them; an operation that rebuilds the service has taken "enabled" down.
Off == ctl.status \in {"disabled", "locked"} => ctl.names = {}
On == ctl.status = "enabled" => ctl.enabled /\ ctl.names = Names /\ ctl.records = Names
Underway ==
  /\ step \in Rebuilding =>
       /\ ctl.status # "enabled"
       /\ Running({"enable", "disable", "switch"}, step) => ctl.status \notin {"disabled", "locked"}
  /\ At("enable", "save") => ctl.names = Names /\ ctl.records = Names
  /\ step \in Rebuilding \ {"save", "undo"} =>
       (Running({"initialize", "switch", "reconcile"}, step) => ctl.enabled)
StatusShown == Off /\ On /\ Underway

\* What the host has been told of the capabilities the controller has records
\* of: a permission that was granted is not in the policies until they are
\* registered again.
Hosted == \A n \in ctl.records : host[n] # "none"
Told == access.allowed => At("switch", "unregister") \/ \A n \in ctl.records : host[n] = "write"
Policies == step \in {"registering", "restoring"} /\ access.allowed => local.write
HostTold == Hosted /\ Told /\ Policies

\* A permission, and a switch that still counts, belong to an enabled service
\* that nobody has asked to end since.
NoDisable == \A j \in DOMAIN queue : queue[j].kind # "disable"
Counting == {i \in DOMAIN queue : queue[i].kind = "switch" /\ queue[i].rev = access.revision}
NoneAfter == \A i \in Counting : \A j \in DOMAIN queue : i < j => queue[j].kind # "disable"
WithdrawalsFit == \A i \in Counting : ~queue[i].yes /\ queue[i].was => ctl.enabled /\ NoDisable
GrantsFit == (access.allowed => ctl.enabled /\ NoDisable) /\ NoneAfter /\ WithdrawalsFit

\* Until the service is initialised nobody can ask anything of it.
Quiet == /\ ~ctl.ready /\ ~access.allowed /\ ctl.status = "initializing"
         /\ \A j \in DOMAIN queue : queue[j].kind # "switch"
InitialisesAlone == \A i \in DOMAIN queue : queue[i].kind = "initialize" => Quiet

StatusInv == StatusShown /\ HostTold /\ GrantsFit /\ InitialisesAlone

\* The fields of the controller that these are about.
Becomes(c) ==
  /\ ctl'.enabled = c.enabled /\ ctl'.ready = c.ready /\ ctl'.status = c.status
  /\ ctl'.names = c.names /\ ctl'.records = c.records
Withholds == access'.allowed => access.allowed

LEMMA BecomesItself == ASSUME NEW c, ctl' = c PROVE Becomes(c)
BY DEF Becomes

LEMMA TimedBecomes == ASSUME NEW c \in Fields, ctl' = Timed(c) PROVE Becomes(c)
BY DEF Timed, Fields, Becomes

LEMMA WritesWithheld ==
  /\ KeepWrites => Withholds
  /\ TypeOK /\ RevokeWrites => ~access'.allowed
BY DEF KeepWrites, Withholds, RevokeWrites, Revoked, TypeOK

LEMMA ReadBecomes ==
  ASSUME TypeOK, NEW c \in Fields, ReadEntitlement(c)
  PROVE  Becomes(c) /\ Withholds /\ (KeepWrites \/ RevokeWrites)
BY WritesWithheld DEF ReadEntitlement, Fields, Becomes, Withholds

\* Removing capabilities leaves what is said of the others true.
LEMMA UnregisteringTells ==
  ASSUME TypeOK, HostTold, NEW kept, Unregister(kept), ctl'.records = ctl.records \cap kept
  PROVE  Hosted' /\ \A n \in ctl'.records : n \in ctl.records /\ host'[n] = host[n]
BY DEF TypeOK, HostTold, Hosted, Unregister

\* Registering makes it true of every one that has a record afterwards.
LEMMA RegisteringTells ==
  ASSUME TypeOK, NEW kept \in SUBSET Names, NEW records \in SUBSET kept,
         RegisterAll(kept, records), ctl'.records = records, UNCHANGED local,
         HostTold, Withholds, step \in {"registering", "restoring"}
  PROVE  /\ Hosted' /\ Told' /\ kept \subseteq Names
         /\ records = Names => kept = Names
<1>1. \A n \in records : host'[n] = Registered[n]
  BY DEF TypeOK, RegisterAll, RegisterFails, RolledBack, Registered
<1>2. access'.allowed => local.write
  BY DEF HostTold, Policies, Withholds
<1>3. records \subseteq Names /\ (records = Names => kept = Names)
  OBVIOUS
<1>4. QED BY <1>1, <1>2, <1>3 DEF Hosted, Told, Registered

LEMMA UnregisteringShows ==
  ASSUME TypeInv, HostInv, StatusInv, NEW kept \in SUBSET Names, Unregisters(kept)
  PROVE  StatusShown' /\ HostTold' /\ ctl'.enabled = ctl.enabled
<1>t. TypeOK /\ ctl \in Fields
  BY DEF TypeInv, TypeOK, Fields
<1> DEFINE c == Keeping(kept)
<1>1. Unregister(kept)
  BY <1>t, UnregistersNames
<1>2. /\ c \in Fields /\ c.names = kept /\ c.records = ctl.records \cap kept
      /\ c.enabled = ctl.enabled /\ c.ready = ctl.ready /\ c.status = ctl.status
  BY <1>t, <1>1, UnregisterType DEF Keeping, Fields
<1>3. \A status \in {"locked", "disabled", "error"} :
        LET d == [c EXCEPT !.status = status] IN
          /\ d \in Fields /\ d.status = status /\ d.names = kept /\ d.records = c.records
          /\ d.enabled = ctl.enabled /\ d.ready = ctl.ready
  BY <1>2 DEF Fields
<1> HIDE DEF c
<1>4. UNCHANGED local
  BY DEF Unregisters, Lock, Sweep, Clear, EnableUndone, SwitchUndone
<1> DEFINE Result(status) ==
      /\ ctl'.enabled = ctl.enabled /\ ctl'.names = kept
      /\ ctl'.records = ctl.records \cap kept /\ ctl'.status = status
<1>5. ASSUME Lock(kept)
      PROVE  Result(IF kept = {} THEN "locked" ELSE "error") /\ step' = "start" /\ Withholds
  BY <1>2, <1>3, <1>5, TimedBecomes, WritesWithheld DEF Lock, Becomes, Finish, c
<1>6. ASSUME Sweep(kept)
      PROVE  Result(IF kept = {} THEN "disabled" ELSE "error") /\ step' = "start" /\ Withholds
  BY <1>2, <1>3, <1>6, WritesWithheld DEF Sweep, Finish, c
<1>7. ASSUME EnableUndone(kept)
      PROVE  Result("error") /\ step' = "start" /\ Withholds
  BY <1>2, <1>3, <1>7, TimedBecomes, WritesWithheld DEF EnableUndone, Becomes, Finish, c
<1>8. ASSUME SwitchUndone(kept)
      PROVE  /\ Result("error") /\ Withholds
             /\ step' = "start" \/ (GoTo("restore") /\ ctl.enabled)
  <2> DEFINE d == [c EXCEPT !.status = "error"]
  <2>1. ctl' = d \/ ctl' = Timed(d) \/ ReadEntitlement(Timed(d))
    BY <1>8 DEF SwitchUndone, c
  <2>2. d \in Fields /\ Timed(d) \in Fields
    BY <1>3, TimedType
  <2>3. Becomes(d)
    <3>1. CASE ctl' = d
      BY <3>1, BecomesItself
    <3>2. CASE ctl' = Timed(d)
      BY <3>2, <2>2, TimedBecomes
    <3>3. CASE ReadEntitlement(Timed(d))
      BY <1>t, <2>2, <3>3, ReadBecomes DEF Becomes, Timed, Fields
    <3>4. QED BY <2>1, <3>1, <3>2, <3>3
  <2>4. Withholds
    BY <1>t, <1>8, <2>2, ReadBecomes, WritesWithheld DEF SwitchUndone, c
  <2>5. step' = "start" \/ (GoTo("restore") /\ ctl.enabled)
    BY <1>8 DEF SwitchUndone, Finish
  <2>6. QED BY <1>3, <2>3, <2>4, <2>5, <1>2 DEF Becomes
<1>9. ASSUME Clear(kept)
      PROVE  /\ ctl'.enabled = ctl.enabled /\ ctl'.names = kept
             /\ ctl'.records = ctl.records \cap kept
             /\ \/ kept = {} /\ ctl'.status = ctl.status /\ Withholds
                   /\ GoTo(IF Head(queue).kind = "disable" THEN "save" ELSE "register")
                \/ /\ Head(queue).kind \in {"enable", "switch"}
                   /\ ctl'.status = ctl.status /\ ~access'.allowed /\ GoTo("undo")
                \/ /\ Head(queue).kind \in {"disable", "reconcile"}
                   /\ ctl'.status = "error" /\ Withholds /\ step' = "start"
  <2>1. CASE kept = {} /\ ctl' = c /\ KeepWrites
             /\ GoTo(IF Head(queue).kind = "disable" THEN "save" ELSE "register")
    BY <1>2, <2>1, WritesWithheld
  <2>2. CASE kept # {} /\ Head(queue).kind \in {"enable", "switch"}
             /\ ctl' = c /\ RevokeWrites /\ GoTo("undo")
    BY <1>t, <1>2, <2>2, WritesWithheld
  <2>3. CASE kept # {} /\ Head(queue).kind = "disable"
             /\ ctl' = [c EXCEPT !.status = "error"] /\ KeepWrites /\ Finish
    BY <1>2, <1>3, <2>3, WritesWithheld DEF Finish
  <2>4. CASE kept # {} /\ Head(queue).kind = "reconcile"
             /\ ctl' = Timed([c EXCEPT !.status = "error"]) /\ KeepWrites /\ Finish
    BY <1>2, <1>3, <2>4, TimedBecomes, WritesWithheld DEF Finish, Becomes
  <2>5. QED BY <1>9, <2>1, <2>2, <2>3, <2>4 DEF Clear, c
<1>10. Hosted' /\ \A n \in ctl'.records : n \in ctl.records /\ host'[n] = host[n]
  BY <1>t, <1>1, <1>5, <1>6, <1>7, <1>8, <1>9, UnregisteringTells DEF Unregisters, StatusInv
<1>11. StatusShown'
  <2>1. CASE Lock(kept) \/ Sweep(kept) \/ EnableUndone(kept)
    BY <1>5, <1>6, <1>7, <2>1 DEF StatusShown, Off, On, Underway, Rebuilding, At
  <2>2. CASE SwitchUndone(kept)
    BY <1>8, <2>2 DEF StatusShown, Off, On, Underway, Rebuilding, At, GoTo
  <2>3. CASE Clear(kept)
    <3>1. /\ ctl.status # "enabled"
          /\ Running({"enable", "disable", "switch"}, step) => ctl.status \notin {"disabled", "locked"}
          /\ Running({"initialize", "switch", "reconcile"}, step) => ctl.enabled
          /\ queue # <<>> /\ Running({"enable", "disable", "switch", "reconcile"}, "unregister")
      BY <2>3 DEF Clear, StatusInv, StatusShown, Underway, Rebuilding, Running, At
    <3>2. Off' /\ On'
      BY <1>9, <2>3, <3>1 DEF Off, On, Running, At, GoTo
    <3>3. Underway'
      BY <1>9, <2>3, <3>1 DEF Underway, Rebuilding, Running, At, GoTo
    <3>4. QED BY <3>2, <3>3 DEF StatusShown
  <2>4. QED BY <2>1, <2>2, <2>3 DEF Unregisters
<1>12. Told'
  <2>1. CASE Clear(kept) /\ Head(queue).kind = "switch"
    <3>1. ~access'.allowed \/ ctl'.records = {}
      BY <1>9, <2>1
    <3>2. QED BY <3>1 DEF Told
  <2>2. CASE ~(Clear(kept) /\ Head(queue).kind = "switch")
    <3>1. Withholds /\ ~At("switch", "unregister")
      BY <1>5, <1>6, <1>7, <1>8, <1>9, <2>2, WritesWithheld
         DEF Unregisters, Lock, Sweep, EnableUndone, SwitchUndone, Withholds, At, Running
    <3>2. QED BY <1>10, <3>1 DEF StatusInv, HostTold, Told, Withholds
  <2>3. QED BY <2>1, <2>2
<1>13. Policies'
  BY <1>5, <1>6, <1>7, <1>8, <1>9 DEF Unregisters, Policies, GoTo
<1>14. ctl'.enabled = ctl.enabled
  BY <1>5, <1>6, <1>7, <1>8, <1>9 DEF Unregisters
<1>15. QED BY <1>10, <1>11, <1>12, <1>13, <1>14 DEF HostTold

LEMMA RegisteringShows ==
  ASSUME TypeInv, HostInv, StatusInv, NEW kept \in SUBSET Names,
         NEW records \in SUBSET kept, Registers(kept, records)
  PROVE  StatusShown' /\ HostTold' /\ ctl'.enabled = ctl.enabled
<1>t. TypeOK /\ ctl \in Fields
  BY DEF TypeInv, TypeOK, Fields
<1> DEFINE c == Holding(kept, records)
<1>1. /\ RegisterAll(kept, records) /\ step \in {"registering", "restoring"}
      /\ step' \in {"start", "save", "undo"} /\ step \in Rebuilding
      /\ step' = "save" => Head(queue).kind = "enable" /\ UNCHANGED queue
  BY <1>t, RegistersNames DEF Rebuilding
<1>2. /\ c \in Fields /\ c.names = kept /\ c.records = records
      /\ c.enabled = ctl.enabled /\ c.ready = ctl.ready /\ c.status = ctl.status
  BY <1>t, <1>1, RegisterType DEF Holding, Fields
<1>3. \A status \in {"enabled", "error"} :
        LET d == [c EXCEPT !.status = status] IN
          /\ d \in Fields /\ d.status = status /\ d.names = kept /\ d.records = records
          /\ d.enabled = ctl.enabled
  BY <1>2 DEF Fields
<1>4. \A status \in {"enabled", "error"} :
        LET d == [c EXCEPT !.ready = TRUE, !.status = status] IN
          /\ d \in Fields /\ d.status = status /\ d.names = kept /\ d.records = records
          /\ d.enabled = ctl.enabled
  BY <1>2 DEF Fields
<1> HIDE DEF c
<1>5. UNCHANGED local
  BY DEF Registers, Initialized, EnableRegisters, Restore, SwitchRegisters, ReconcileRegisters
<1>6. Withholds
  BY <1>t, WritesWithheld DEF Withholds, Registers, Initialized, EnableRegisters, Restore,
     SwitchRegisters, ReconcileRegisters
<1> DEFINE Result(status) ==
      /\ ctl'.enabled = ctl.enabled /\ ctl'.names = kept
      /\ ctl'.records = records /\ ctl'.status = status
           All == records = Names
<1>7. ASSUME Initialized(kept, records)
      PROVE  Result(IF All THEN "enabled" ELSE "error") /\ step' = "start" /\ ctl.enabled
  <2>1. Result(IF All THEN "enabled" ELSE "error")
    BY <1>4, <1>7, TimedBecomes DEF Initialized, Becomes, c
  <2>2. step' = "start" /\ ctl.enabled
    BY <1>7 DEF Initialized, Finish, StatusInv, StatusShown, Underway, Rebuilding, Running, At
  <2>3. QED BY <2>1, <2>2
<1>8. ASSUME ReconcileRegisters(kept, records)
      PROVE  Result(IF All THEN "enabled" ELSE "error") /\ step' = "start" /\ ctl.enabled
  <2>1. Result(IF All THEN "enabled" ELSE "error")
    BY <1>3, <1>8, TimedBecomes DEF ReconcileRegisters, Becomes, c
  <2>2. step' = "start" /\ ctl.enabled
    BY <1>8 DEF ReconcileRegisters, Finish, StatusInv, StatusShown, Underway, Rebuilding, Running, At
  <2>3. QED BY <2>1, <2>2
<1>9. ASSUME EnableRegisters(kept, records)
      PROVE  /\ Result(ctl.status) /\ ctl.status \notin {"enabled", "disabled", "locked"}
             /\ step' = "save" => All
  <2>1. Result(ctl.status) /\ (step' = "save" => All)
    BY <1>2, <1>9 DEF EnableRegisters, c, GoTo
  <2>2. ctl.status \notin {"enabled", "disabled", "locked"}
    BY <1>9 DEF EnableRegisters, StatusInv, StatusShown, Underway, Rebuilding, Running, At
  <2>3. QED BY <2>1, <2>2
<1>10. ASSUME SwitchRegisters(kept, records)
       PROVE  /\ ctl.status \notin {"enabled", "disabled", "locked"} /\ ctl.enabled
              /\ step' # "save"
              /\ \/ Result("enabled") /\ All /\ step' = "start"
                 \/ Result(ctl.status)
  <2>1. \/ Result("enabled") /\ All /\ step' = "start"
        \/ Result(ctl.status) /\ step' = "undo"
    <3>1. \/ All /\ ctl' = Timed([c EXCEPT !.status = "enabled"]) /\ Finish
          \/ ctl' = c /\ GoTo("undo")
      BY <1>10 DEF SwitchRegisters, c
    <3>2. CASE All /\ ctl' = Timed([c EXCEPT !.status = "enabled"]) /\ Finish
      <4> DEFINE d == [c EXCEPT !.status = "enabled"]
      <4>1. /\ d \in Fields /\ d.status = "enabled" /\ d.names = kept /\ d.records = records
            /\ d.enabled = ctl.enabled
        BY <1>3
      <4> HIDE DEF d
      <4>2. Becomes(d)
        BY <3>2, <4>1, TimedBecomes DEF d
      <4>3. QED BY <3>2, <4>1, <4>2 DEF Becomes, Finish
    <3>3. CASE ctl' = c /\ GoTo("undo")
      BY <1>2, <3>3 DEF GoTo
    <3>4. QED BY <3>1, <3>2, <3>3
  <2>2. ctl.status \notin {"enabled", "disabled", "locked"} /\ ctl.enabled
    BY <1>10 DEF SwitchRegisters, StatusInv, StatusShown, Underway, Rebuilding, Running, At
  <2>3. QED BY <2>1, <2>2
<1>11. ASSUME Restore(kept, records)
       PROVE  /\ ctl.status \notin {"enabled", "disabled", "locked"} /\ step' = "start"
              /\ Result(ctl.status) \/ (Result("enabled") /\ All /\ ctl.enabled)
  <2>1. ctl.status \notin {"enabled", "disabled", "locked"} /\ step' = "start"
    BY <1>11 DEF Restore, Finish, StatusInv, StatusShown, Underway, Rebuilding, Running, At
  <2>2. CASE At("disable", "restoring")
    BY <1>2, <1>11, <2>1, <2>2 DEF Restore, c
  <2>3. CASE ~At("disable", "restoring")
    <3>1. ctl.enabled
      BY <1>11, <2>3 DEF Restore, StatusInv, StatusShown, Underway, Rebuilding, Running, At
    <3>2. Becomes(IF All THEN [c EXCEPT !.status = "enabled"] ELSE c)
      BY <1>2, <1>3, <1>11, <2>3, TimedBecomes DEF Restore, c
    <3>3. QED BY <1>2, <1>3, <2>1, <3>1, <3>2 DEF Becomes
  <2>4. QED BY <2>2, <2>3
<1>12. ctl'.records = records
  BY <1>7, <1>8, <1>9, <1>10, <1>11 DEF Registers
<1>13. Hosted' /\ Told' /\ kept \subseteq Names /\ (All => kept = Names)
  BY <1>t, <1>1, <1>5, <1>6, <1>12, RegisteringTells DEF StatusInv
<1>14. StatusShown'
  <2>1. CASE Initialized(kept, records) \/ ReconcileRegisters(kept, records)
    BY <1>7, <1>8, <1>13, <2>1 DEF StatusShown, Off, On, Underway, Rebuilding, At
  <2>2. CASE EnableRegisters(kept, records)
    <3>1. UNCHANGED queue /\ At("enable", "registering")
      BY <2>2 DEF EnableRegisters, GoTo
    <3>2. QED BY <1>1, <1>9, <1>13, <2>2, <3>1
              DEF StatusShown, Off, On, Underway, Rebuilding, At, Running
  <2>3. CASE SwitchRegisters(kept, records)
    <3>1. step' \in {"start", "undo"}
      BY <1>1, <1>10, <2>3
    <3>2. QED BY <1>10, <1>13, <2>3, <3>1
              DEF StatusShown, Off, On, Underway, Rebuilding, At, Running
  <2>4. CASE Restore(kept, records)
    BY <1>11, <1>13, <2>4 DEF StatusShown, Off, On, Underway, Rebuilding, At, Running
  <2>5. QED BY <2>1, <2>2, <2>3, <2>4 DEF Registers
<1>15. Policies'
  BY <1>1 DEF Policies
<1>16. ctl'.enabled = ctl.enabled
  BY <1>7, <1>8, <1>9, <1>10, <1>11 DEF Registers
<1>17. QED BY <1>13, <1>14, <1>15, <1>16 DEF HostTold

\* A step that leaves the host and the records alone, grants nothing, and does
\* not end the registering of new policies by a switch.
LEMMA HostStaysTold ==
  ASSUME StatusInv, ctl'.records = ctl.records, UNCHANGED host, Withholds,
         step' \notin {"registering", "restoring"},
         At("switch", "unregister") => At("switch", "unregister")'
  PROVE  HostTold'
BY DEF StatusInv, HostTold, Hosted, Told, Policies, Withholds

LEMMA InitialisingShows ==
  ASSUME TypeInv, HostInv, StatusInv, NEW readable \in BOOLEAN, Initialize(readable)
  PROVE  StatusShown' /\ HostTold'
<1>t. TypeOK /\ ctl \in Fields /\ member \in BOOLEAN /\ file \in BOOLEAN
  BY DEF TypeInv, TypeOK, Fields
<1>1. ctl.names = {} /\ ctl.status = "initializing" /\ At("initialize", "start")
  BY <1>t, HeadIsFirst DEF Initialize, At, HostInv, NothingBefore, StatusInv, InitialisesAlone,
     Quiet
<1> DEFINE c == [ctl EXCEPT !.enabled = file, !.entitled = member,
               !.ready = ~file \/ ~member, !.timer = file /\ ~member,
               !.status = IF ~file THEN "disabled" ELSE IF ~member THEN "locked" ELSE @]
<1>2. /\ c \in Fields /\ c.names = {} /\ c.records = ctl.records /\ c.enabled = file
      /\ c.status = IF ~file THEN "disabled" ELSE IF ~member THEN "locked" ELSE "initializing"
  BY <1>t, <1>1 DEF Fields
<1>3. /\ [ctl EXCEPT !.status = "error", !.ready = TRUE].names = {}
      /\ [ctl EXCEPT !.status = "error", !.ready = TRUE].records = ctl.records
      /\ [ctl EXCEPT !.status = "error", !.ready = TRUE].status = "error"
  BY <1>t, <1>1 DEF Fields
<1>4. UNCHANGED host
  BY DEF Initialize
<1>5. CASE readable
  <2>1. ReadEntitlement(c) /\ IF file /\ member THEN GoTo("register") ELSE Finish
    BY <1>5 DEF Initialize
  <2> HIDE DEF c
  <2>2. Becomes(c) /\ Withholds
    BY <1>t, <1>2, <2>1, ReadBecomes
  <2>3. step' \in {"start", "register"} /\ (step' = "register" => file /\ member)
    BY <2>1 DEF GoTo, Finish
  <2>4. StatusShown'
    BY <1>2, <2>2, <2>3 DEF Becomes, StatusShown, Off, On, Underway, Rebuilding, At, Running
  <2>5. HostTold'
    BY <1>1, <1>2, <1>4, <2>2, <2>3, HostStaysTold DEF Becomes, At
  <2>6. QED BY <2>4, <2>5
<1>6. CASE ~readable
  <2>1. /\ ctl' = [ctl EXCEPT !.status = "error", !.ready = TRUE] /\ KeepWrites
        /\ step' = "start"
    BY <1>6 DEF Initialize, Finish
  <2>2. StatusShown'
    BY <1>3, <2>1 DEF StatusShown, Off, On, Underway, Rebuilding, At, Running
  <2>3. HostTold'
    BY <1>1, <1>3, <1>4, <2>1, WritesWithheld, HostStaysTold DEF At
  <2>4. QED BY <2>2, <2>3
<1>7. QED BY <1>5, <1>6

LEMMA EnablingShows ==
  ASSUME TypeInv, HostInv, StatusInv, StartEnable
  PROVE  StatusShown' /\ HostTold' /\ ctl'.enabled = ctl.enabled
<1>t. TypeOK /\ ctl \in Fields /\ member \in BOOLEAN
  BY DEF TypeInv, TypeOK, Fields
<1> DEFINE c == [ctl EXCEPT !.entitled = member,
                            !.status = IF member THEN "initializing" ELSE @]
<1>1. /\ c \in Fields /\ c.names = ctl.names /\ c.records = ctl.records
      /\ c.enabled = ctl.enabled /\ c.status = IF member THEN "initializing" ELSE ctl.status
  BY <1>t DEF Fields
<1>2. ReadEntitlement(c)
  BY DEF StartEnable
<1> HIDE DEF c
<1>3. Becomes(c) /\ Withholds
  BY <1>t, <1>1, <1>2, ReadBecomes
<1>4. /\ step' \in {"lock", "save", "unregister", "register"} /\ UNCHANGED <<queue, host>>
      /\ At("enable", "start") /\ (step' # "lock" => member)
      /\ step' = "save" => IsActive(ctl')
  BY DEF StartEnable, GoTo
<1>5. step' = "save" => ctl'.names = Names /\ ctl'.records = Names
  BY <1>4 DEF IsActive
<1>6. StatusShown'
  BY <1>1, <1>3, <1>4, <1>5
     DEF Becomes, StatusInv, StatusShown, Off, On, Underway, Rebuilding, At, Running
<1>7. HostTold'
  BY <1>1, <1>3, <1>4, HostStaysTold DEF Becomes, At
<1>8. QED BY <1>1, <1>3, <1>6, <1>7 DEF Becomes

LEMMA ReconcilingShows ==
  ASSUME TypeInv, HostInv, StatusInv, StartReconcile
  PROVE  StatusShown' /\ HostTold' /\ ctl'.enabled = ctl.enabled
<1>t. TypeOK /\ ctl \in Fields /\ member \in BOOLEAN
  BY DEF TypeInv, TypeOK, Fields
<1> DEFINE c == [ctl EXCEPT !.timer = FALSE, !.entitled = member]
           d == [c EXCEPT !.status = "enabled"]
           fine == ctl.enabled /\ member /\ IsActive(c)
<1>1. /\ c \in Fields /\ c.names = ctl.names /\ c.records = ctl.records
      /\ c.enabled = ctl.enabled /\ c.status = ctl.status /\ c.closing = ctl.closing
      /\ c.entitled = member
  BY <1>t DEF Fields
<1>2. /\ d \in Fields /\ d.names = ctl.names /\ d.records = ctl.records
      /\ d.enabled = ctl.enabled /\ d.status = "enabled"
  BY <1>1 DEF Fields
<1>3. /\ ReadEntitlement(IF fine THEN Timed(d) ELSE c)
      /\ IF fine THEN Finish
         ELSE GoTo(IF ~ctl.enabled THEN "sweep" ELSE IF ~member THEN "lock"
                   ELSE IF ctl.names # {} THEN "unregister" ELSE "register")
      /\ UNCHANGED host /\ At("reconcile", "start") /\ ~ctl.closing
  BY DEF StartReconcile
<1> HIDE DEF c, d
<1>4. CASE fine
  <2>1. Becomes(Timed(d)) /\ Withholds
    BY <1>t, <1>2, <1>3, <1>4, TimedType, ReadBecomes
  <2>2. Becomes(d)
    BY <1>2, <2>1 DEF Becomes, Timed, Fields
  <2>3. ctl.names = Names /\ ctl.records = Names /\ ctl.enabled
    BY <1>1, <1>4 DEF IsActive
  <2>4. step' = "start"
    BY <1>3, <1>4 DEF Finish
  <2>5. StatusShown'
    BY <1>2, <2>2, <2>3, <2>4 DEF Becomes, StatusShown, Off, On, Underway, Rebuilding, At, Running
  <2>6. HostTold'
    BY <1>2, <1>3, <2>1, <2>2, <2>4, HostStaysTold DEF Becomes, At
  <2>7. QED BY <1>2, <2>2, <2>5, <2>6 DEF Becomes
<1>5. CASE ~fine
  <2>1. Becomes(c) /\ Withholds
    BY <1>t, <1>1, <1>3, <1>5, ReadBecomes
  <2>2. /\ step' \in {"sweep", "lock", "unregister", "register"} /\ UNCHANGED queue
        /\ step' \in {"unregister", "register"} => ctl.enabled /\ member
    BY <1>3, <1>5 DEF GoTo
  <2>3. step' \in {"unregister", "register"} => ctl.status # "enabled"
    BY <1>1, <1>3, <1>5, <2>2 DEF IsActive, StatusInv, StatusShown, On
  <2>4. StatusShown'
    BY <1>1, <1>3, <2>1, <2>2, <2>3
       DEF Becomes, StatusInv, StatusShown, Off, On, Underway, Rebuilding, At, Running
  <2>5. HostTold'
    BY <1>1, <1>3, <2>1, <2>2, HostStaysTold DEF Becomes, At
  <2>6. QED BY <1>1, <2>1, <2>4, <2>5 DEF Becomes
<1>6. QED BY <1>4, <1>5

LEMMA SwitchingShows ==
  ASSUME TypeInv, HostInv, StatusInv, StartSwitch
  PROVE  StatusShown' /\ HostTold' /\ ctl'.enabled = ctl.enabled
<1>t. TypeOK /\ ctl \in Fields /\ queue \in Seq(Ops)
  BY DEF TypeInv, TypeOK, Fields
<1> DEFINE op == Head(queue)
<1>1. UNCHANGED <<host, local>> /\ At("switch", "start")
  BY DEF StartSwitch
<1>2. CASE \/ ReadEntitlement(ctl) /\ Finish
           \/ (RevokeWrites \/ KeepWrites) /\ UNCHANGED ctl /\ Finish
  <2>1. Becomes(ctl) /\ Withholds /\ step' = "start"
    BY <1>t, <1>2, ReadBecomes, WritesWithheld DEF Becomes, Finish, Withholds
  <2>2. StatusShown'
    BY <2>1 DEF Becomes, StatusInv, StatusShown, Off, On, Underway, Rebuilding, At, Running
  <2>3. HostTold'
    BY <1>1, <2>1, HostStaysTold DEF Becomes, At
  <2>4. QED BY <2>1, <2>2, <2>3 DEF Becomes
<1>3. CASE /\ ~Outdated(op) /\ (op.yes => IsActive(ctl)) /\ op.yes # op.was
           /\ access' = [access EXCEPT !.allowed = op.yes]
           /\ ctl' = [ctl EXCEPT !.status = "initializing"] /\ GoTo("unregister")
  <2>1. /\ ctl'.status = "initializing" /\ ctl'.names = ctl.names /\ ctl'.records = ctl.records
        /\ ctl'.enabled = ctl.enabled
    BY <1>t, <1>3 DEF Fields
  <2>2. ctl.enabled
    <3>1. CASE op.yes
      BY <1>3, <3>1 DEF IsActive
    <3>2. CASE ~op.yes
      <4>1. 1 \in DOMAIN queue /\ op = queue[1] /\ op.kind = "switch" /\ op.was \in BOOLEAN /\ op.yes \in BOOLEAN
        BY <1>t, <1>1, HeadIsFirst, QueueType DEF At, Ops
      <4>2. 1 \in Counting
        BY <1>3, <4>1 DEF Counting, Outdated
      <4>3. queue[1].was /\ ~queue[1].yes
        <5>1. op.was
          BY <1>3, <3>2, <4>1
        <5>2. QED BY <3>2, <4>1, <5>1
      <4>4. QED BY <4>2, <4>3 DEF StatusInv, GrantsFit, WithdrawalsFit
    <3>3. QED BY <3>1, <3>2
  <2>3. StatusShown'
    BY <1>3, <2>1, <2>2 DEF StatusShown, Off, On, Underway, Rebuilding, At, Running, GoTo
  <2>4. At("switch", "unregister")' /\ step' = "unregister"
    BY <1>1, <1>3 DEF At, GoTo
  <2>5. QED BY <1>1, <2>1, <2>3, <2>4 DEF StatusInv, HostTold, Hosted, Told, Policies
<1>4. QED
  BY <1>2, <1>3 DEF StartSwitch

LEMMA SavingShows ==
  ASSUME TypeInv, HostInv, StatusInv, NEW ok \in BOOLEAN, NEW landed \in BOOLEAN,
         EnableSaves(ok, landed) \/ DisableSaves(ok, landed)
  PROVE  StatusShown' /\ HostTold' /\ (ctl.enabled => ctl'.enabled \/ At("disable", "save"))
<1>t. TypeOK /\ ctl \in Fields
  BY DEF TypeInv, TypeOK, Fields
<1>0. /\ step = "save" /\ UNCHANGED <<host, local>> /\ Withholds
      /\ ~At("switch", "unregister") /\ queue # <<>>
  BY <1>t, WritesWithheld DEF EnableSaves, DisableSaves, At, Withholds
<1>1. CASE EnableSaves(ok, landed)
  <2>1. ctl.names = Names /\ ctl.records = Names /\ ctl.status \notin {"disabled", "locked", "enabled"}
    BY <1>1 DEF EnableSaves, StatusInv, StatusShown, Underway, Rebuilding, At, Running
  <2> DEFINE c == [ctl EXCEPT !.enabled = TRUE, !.status = "enabled"]
  <2>2. /\ c \in Fields /\ c.enabled = TRUE /\ c.status = "enabled" /\ c.names = ctl.names
        /\ c.records = ctl.records
    BY <1>t DEF Fields
  <2>3. \/ ctl' = Timed(c) /\ Finish
        \/ UNCHANGED ctl /\ GoTo("undo")
    BY <1>1 DEF EnableSaves
  <2> HIDE DEF c
  <2>4. CASE ctl' = Timed(c) /\ Finish
    <3>1. Becomes(c) /\ step' = "start"
      BY <2>2, <2>4, TimedBecomes DEF Finish
    <3>2. StatusShown'
      BY <2>1, <2>2, <3>1 DEF Becomes, StatusShown, Off, On, Underway, Rebuilding, At, Running
    <3>3. HostTold'
      BY <1>0, <2>2, <3>1, HostStaysTold DEF Becomes
    <3>4. QED BY <2>2, <3>1, <3>2, <3>3 DEF Becomes
  <2>5. CASE UNCHANGED ctl /\ GoTo("undo")
    <3>1. StatusShown'
      BY <2>1, <2>5 DEF StatusShown, Off, On, Underway, Rebuilding, At, Running, GoTo
    <3>2. HostTold'
      BY <1>0, <2>5, HostStaysTold DEF GoTo
    <3>3. QED BY <2>5, <3>1, <3>2
  <2>6. QED BY <2>3, <2>4, <2>5
<1>2. CASE DisableSaves(ok, landed)
  <2>1. ctl.names = {} /\ At("disable", "save")
    BY <1>2 DEF DisableSaves, HostInv, NothingBefore
  <2>2. /\ ctl'.names = {} /\ ctl'.records = ctl.records /\ ctl'.status \in {"disabled", "error"}
        /\ step' \in {"start", "restore"} /\ (step' = "restore" => ctl'.status = "error" /\ UNCHANGED queue)
    BY <1>t, <1>2, <2>1 DEF DisableSaves, Fields, GoTo, Finish
  <2>3. StatusShown'
    BY <2>1, <2>2 DEF StatusShown, Off, On, Underway, Rebuilding, At, Running
  <2>4. HostTold'
    BY <1>0, <2>2, HostStaysTold
  <2>5. QED BY <2>1, <2>3, <2>4
<1>3. QED BY <1>1, <1>2

LEMMA PoliciesShow ==
  ASSUME TypeInv, StatusInv, BuildPolicies \/ BuildPoliciesAgain
  PROVE  StatusShown' /\ HostTold' /\ ctl'.enabled = ctl.enabled
<1>t. TypeOK
  BY DEF TypeInv
<1>1. /\ UNCHANGED <<ctl, host, access, queue>>
      /\ local' = [local EXCEPT !.write = access.allowed]
      /\ step \in {"register", "restore"} /\ step' \in {"registering", "restoring"}
  BY DEF BuildPolicies, BuildPoliciesAgain, StartRegistering, KeepWrites, GoTo, Advertised
<1>2. local'.write = access.allowed
  BY <1>t, <1>1 DEF TypeOK
<1>3. StatusShown'
  BY <1>1 DEF StatusInv, StatusShown, Off, On, Underway, Rebuilding, At, Running
<1>4. HostTold'
  BY <1>1, <1>2 DEF StatusInv, HostTold, Hosted, Told, Policies, At
<1>5. QED BY <1>1, <1>3, <1>4

LEMMA PlainShows ==
  ASSUME TypeInv, StatusInv, Refuse \/ StartDisable \/ StartShutdown
  PROVE  StatusShown' /\ HostTold' /\ ctl'.enabled = ctl.enabled
<1>t. TypeOK /\ ctl \in Fields
  BY DEF TypeInv, TypeOK, Fields
<1>1. /\ ctl'.names = ctl.names /\ ctl'.records = ctl.records /\ ctl'.enabled = ctl.enabled
      /\ UNCHANGED host /\ Withholds /\ step = "start"
      /\ \/ step' \in {"start", "sweep"} /\ ctl'.status = ctl.status
         \/ At("disable", "unregister")' /\ ctl'.status = "initializing"
  BY <1>t, WritesWithheld DEF Refuse, StartDisable, StartShutdown, Fields, GoTo, Finish, At, Running
<1>2. StatusShown'
  BY <1>1 DEF StatusInv, StatusShown, Off, On, Underway, Rebuilding, At, Running
<1>3. HostTold'
  BY <1>1, HostStaysTold DEF At
<1>4. QED BY <1>1, <1>2, <1>3

LEMMA WritingShows ==
  ASSUME TypeInv, StatusInv,
         \/ ListWrites \/ DecideWrite \/ StartWrite \/ CommitWrite
         \/ \E outcome \in {"invalid", "error", "read"} : PrepareWrite(outcome)
         \/ \E written \in BOOLEAN : ExecuteWrite(written)
  PROVE  StatusShown' /\ HostTold' /\ ctl'.enabled = ctl.enabled
<1>t. TypeOK /\ ctl \in Fields
  BY DEF TypeInv, TypeOK, Fields
<1>1. ASSUME NEW requests, EndCall(requests) PROVE Becomes(ctl) /\ Withholds
  BY <1>t, <1>1 DEF EndCall, Becomes, Withholds, TypeOK
<1>2. ASSUME NEW op, NEW live, Ask(op, live) PROVE Becomes(ctl) /\ Withholds
  BY <1>t, <1>1, <1>2 DEF Ask, Becomes, Withholds, TypeOK
<1>3. ASSUME NEW op, NEW live, Consume(op, live) PROVE Becomes(ctl) /\ Withholds
  BY <1>t, <1>1, <1>3 DEF Consume, Becomes, Withholds, TypeOK
<1>4. ASSUME LosesMembership PROVE Becomes(ctl) /\ Withholds
  BY <1>t, <1>4, WritesWithheld DEF LosesMembership, Becomes, Withholds, Fields
<1>5. Becomes(ctl) /\ Withholds
  <2>1. ASSUME KeepWrites, UNCHANGED ctl PROVE Becomes(ctl) /\ Withholds
    BY <2>1, WritesWithheld DEF Becomes
  <2>2. CASE ListWrites \/ DecideWrite
    <3>1. ASSUME NEW requests, access' = [access EXCEPT !.requests = requests], UNCHANGED ctl
          PROVE  Becomes(ctl) /\ Withholds
      BY <1>t, <3>1 DEF Becomes, Withholds, TypeOK
    <3>2. QED BY <1>t, <2>2, <3>1, ReadBecomes DEF ListWrites, DecideWrite, Becomes, Withholds
  <2>3. CASE \/ StartWrite \/ CommitWrite
             \/ \E outcome \in {"invalid", "error", "read"} : PrepareWrite(outcome)
    BY <1>1, <1>2, <1>3, <1>4, <2>1, <2>3 DEF StartWrite, CommitWrite, PrepareWrite
  <2>4. CASE \E written \in BOOLEAN : ExecuteWrite(written)
    BY <2>1, <2>4 DEF ExecuteWrite
  <2>5. QED BY <2>2, <2>3, <2>4
<1>6. host' = host /\ step' \in {"start", "prepare", "commit", "execute"}
  BY <1>t, WritingKeepsNames DEF Finish, LosesMembership
<1>7. step # "unregister"
  BY DEF ListWrites, DecideWrite, StartWrite, CommitWrite, PrepareWrite, ExecuteWrite, At
<1>8. StatusShown'
  BY <1>5, <1>6 DEF Becomes, StatusInv, StatusShown, Off, On, Underway, Rebuilding, At, Running
<1>9. HostTold'
  BY <1>5, <1>6, <1>7, HostStaysTold DEF Becomes, At
<1>10. QED BY <1>5, <1>8, <1>9 DEF Becomes

\* Whoever calls, and whatever happens outside, an operation under way goes on.
LEMMA OutsideShows ==
  ASSUME TypeInv, HostInv, StatusInv,
         Someone \/ ReadIsAnswered \/ TimerFires \/ Membership \/ Edit \/ Tick
  PROVE  StatusShown' /\ HostTold' /\ Becomes(ctl) /\ Withholds
<1>t. TypeOK /\ ctl \in Fields
  BY DEF TypeInv, TypeOK, Fields
<1>1. Becomes(ctl)
  <2>1. CASE Someone
    BY <2>1 DEF Someone, CallSetEnabled, CallSetWriteEnabled, CallPendingWrites, CallReconcile,
       CallShutdown, CallDecideWrite, CallWrite, CallRead, Called, Becomes
  <2>2. CASE ReadIsAnswered \/ TimerFires
    BY <1>t, <2>2 DEF ReadIsAnswered, TimerFires, Fields, Becomes
  <2>3. CASE Membership \/ Edit \/ Tick
    BY <2>3 DEF Membership, Edit, Tick, Becomes
  <2>4. QED BY <2>1, <2>2, <2>3
<1>2. Withholds
  <2>1. ASSUME NEW yes \in BOOLEAN, CallSetWriteEnabled(yes) PROVE Withholds
    BY <1>t, <2>1 DEF CallSetWriteEnabled, Withholds, Revoked, TypeOK
  <2>2. QED
    BY <1>t, <2>1, WritesWithheld DEF Someone, CallSetEnabled, CallPendingWrites, CallReconcile,
       CallShutdown, CallDecideWrite, CallWrite, CallRead, ReadIsAnswered, TimerFires,
       Membership, Edit, Tick, Withholds
<1>3. /\ UNCHANGED <<step, local, host>>
      /\ UNCHANGED queue \/ \E op \in Ops : queue' = Append(queue, op)
  <2>1. CASE Someone
    BY <1>t, <2>1, CallersAppend DEF CallRead, Appends, Enqueue, Someone, CallSetEnabled,
       CallSetWriteEnabled, CallPendingWrites, CallReconcile, CallShutdown, CallDecideWrite,
       CallWrite, Called
  <2>2. CASE ReadIsAnswered \/ TimerFires
    BY <2>2, OpType DEF ReadIsAnswered, TimerFires, Enqueue
  <2>3. CASE Membership \/ Edit \/ Tick
    BY <2>3 DEF Membership, Edit, Tick
  <2>4. QED BY <2>1, <2>2, <2>3
<1>4. step # "start" => queue # <<>> /\ queue' # <<>> /\ Head(queue') = Head(queue)
  BY <1>t, <1>3, HeadOfAppended DEF HostInv, NothingBefore, TypeOK
<1>5. \A kind, where : where # "start" => At(kind, where)' = At(kind, where)
  BY <1>3, <1>4 DEF At
<1>6. StatusShown'
  BY <1>1, <1>3, <1>5 DEF Becomes, StatusInv, StatusShown, Off, On, Underway, Rebuilding, Running
<1>7. HostTold'
  BY <1>1, <1>2, <1>3, <1>5
     DEF Becomes, Withholds, StatusInv, HostTold, Hosted, Told, Policies
<1>8. QED BY <1>1, <1>2, <1>6, <1>7

\* Only turning the service off, or reading the setting at the start, clears
\* the enabled flag.
LEMMA NextShows ==
  ASSUME TypeInv, HostInv, StatusInv, Next, ~Restart
  PROVE  /\ StatusShown' /\ HostTold'
         /\ ctl.enabled /\ ~At("disable", "save") /\ ~At("initialize", "start") => ctl'.enabled
<1>1. CASE Proceeds
  <2>1. CASE \E readable \in BOOLEAN : Initialize(readable)
    BY <2>1, InitialisingShows DEF Initialize
  <2>2. CASE \E kept \in SUBSET Names :
               Unregisters(kept) \/ \E records \in SUBSET kept : Registers(kept, records)
    BY <2>2, UnregisteringShows, RegisteringShows
  <2>3. CASE \E ok, landed \in BOOLEAN : EnableSaves(ok, landed) \/ DisableSaves(ok, landed)
    BY <2>3, SavingShows
  <2>4. CASE StartEnable \/ StartSwitch \/ StartReconcile
    BY <2>4, EnablingShows, SwitchingShows, ReconcilingShows
  <2>5. CASE Refuse \/ StartDisable \/ StartShutdown \/ BuildPolicies \/ BuildPoliciesAgain
    BY <2>5, PlainShows, PoliciesShow
  <2>6. CASE \/ ListWrites \/ DecideWrite \/ StartWrite \/ CommitWrite
             \/ \E outcome \in {"invalid", "error", "read"} : PrepareWrite(outcome)
             \/ \E written \in BOOLEAN : ExecuteWrite(written)
    BY <2>6, WritingShows
  <2>7. QED BY <1>1, <2>1, <2>2, <2>3, <2>4, <2>5, <2>6 DEF Proceeds
<1>2. CASE ~Proceeds
  BY <1>2, OutsideShows DEF Next, World, Becomes
<1>3. QED BY <1>1, <1>2

\* The operations move up by at most one place, and what is added goes behind them.
LEMMA QueueShifts ==
  ASSUME TypeOK, Next, ~Restart
  PROVE  \E k \in {0, 1} : \A i \in DOMAIN queue' :
           \/ i + k \in DOMAIN queue /\ queue'[i] = queue[i + k]
           \/ /\ \A j \in DOMAIN queue' : j <= i
              /\ queue'[i] = Op("reconcile") \/ Appends(queue'[i])
<1>0. queue \in Seq(Ops)
  BY DEF TypeOK
<1>1. CASE UNCHANGED queue
  BY <1>0, <1>1
<1>2. CASE Drops
  <2>1. \A i \in DOMAIN queue' : i + 1 \in DOMAIN queue /\ queue'[i] = queue[i + 1]
    BY <1>0, <1>2 DEF Drops
  <2>2. QED BY <2>1
<1>3. CASE Replaces
  <2>1. Op("reconcile") \in Ops
    BY OpType
  <2>2. Tail(queue) \in Seq(Ops) /\ Len(Tail(queue)) = Len(queue) - 1 /\ Len(queue) \in Nat
    BY <1>0, <1>3 DEF Replaces
  <2>3. \A i \in DOMAIN queue' :
           \/ i + 1 \in DOMAIN queue /\ queue'[i] = queue[i + 1]
           \/ (\A j \in DOMAIN queue' : j <= i) /\ queue'[i] = Op("reconcile")
    BY <1>0, <1>3, <2>1, <2>2 DEF Replaces
  <2>4. QED BY <2>3
<1>4. ASSUME NEW op, Appends(op)
      PROVE  \A i \in DOMAIN queue' :
               \/ i + 0 \in DOMAIN queue /\ queue'[i] = queue[i + 0]
               \/ (\A j \in DOMAIN queue' : j <= i) /\ Appends(queue'[i])
  <2>1. op \in Ops /\ queue' = Append(queue, op)
    BY <1>4 DEF Appends, Enqueue
  <2>2. \A i \in DOMAIN queue' :
          \/ i + 0 \in DOMAIN queue /\ queue'[i] = queue[i + 0]
          \/ (\A j \in DOMAIN queue' : j <= i) /\ queue'[i] = op
    BY <1>0, <2>1
  <2>3. QED BY <1>4, <2>2
<1>5. QED BY <1>1, <1>2, <1>3, <1>4, QueueMoves

\* A step that keeps the revision asks for no end of the service.
LEMMA NoDisableStays ==
  ASSUME TypeInv, Next, ~Restart, NoDisable, access'.revision = access.revision
  PROVE  NoDisable'
<1>t. TypeOK
  BY DEF TypeInv
<1>1. ~RevokeWrites
  BY <1>t, FreshRevision DEF RevokeWrites, Revoked, TypeOK
<1>2. \A op : Appends(op) => op.kind # "disable"
  BY <1>1 DEF Appends
<1>3. Op("reconcile").kind # "disable"
  BY OpType
<1>4. QED BY <1>t, <1>2, <1>3, QueueShifts DEF NoDisable

LEMMA NextGrantsFit ==
  ASSUME TypeInv, HostInv, StatusInv, Next, ~Restart
  PROVE  GrantsFit'
<1>t. TypeOK /\ TypeOK'
  BY NextTyped DEF TypeInv
<1> DEFINE Serving == ctl.enabled /\ NoDisable
           Same == access'.revision = access.revision
\* An enabled service that nobody ends stays enabled.
<1>1. ASSUME Serving, ~At("initialize", "start") PROVE ctl'.enabled
  <2>1. ~At("disable", "save")
    BY <1>t, <1>1, HeadIsFirst DEF NoDisable, At
  <2>2. QED BY <1>1, <2>1, NextShows
<1>2. access.allowed => Serving /\ ~At("initialize", "start")
  <2>1. access.allowed => Serving
    BY DEF StatusInv, GrantsFit
  <2>2. access.allowed => ~At("initialize", "start")
    BY <1>t, HeadIsFirst DEF StatusInv, InitialisesAlone, Quiet, At
  <2>3. QED BY <2>1, <2>2
<1>3. ASSUME ~Same PROVE /\ \A i \in DOMAIN queue : queue[i].rev # access'.revision
                         /\ access'.allowed => access.allowed /\ wanted'
  BY <1>3, RevisionMoves
<1>4. access'.allowed => ctl'.enabled /\ NoDisable'
  <2> SUFFICES ASSUME access'.allowed PROVE ctl'.enabled /\ NoDisable'
    OBVIOUS
  <2>1. CASE access.allowed /\ Same
    BY <1>1, <1>2, <2>1, NoDisableStays
  <2>2. CASE access.allowed /\ ~Same
    <3>1. ~RevokeWrites
      BY <1>t, WritesWithheld
    <3>2. \A op : Appends(op) => op.kind # "disable"
      BY <3>1 DEF Appends
    <3>3. Op("reconcile").kind # "disable"
      BY OpType
    <3>4. NoDisable'
      BY <1>t, <1>2, <2>2, <3>2, <3>3, QueueShifts DEF NoDisable
    <3>5. QED BY <1>1, <1>2, <2>2, <3>4
  <2>3. CASE ~access.allowed
    <3>1. Switches /\ Same
      <4>1. Switches
        BY <2>3, RevisionMoves
      <4>2. QED BY <1>t, <4>1 DEF Switches, TypeOK
    <3>2. /\ At("switch", "start") /\ Head(queue) = queue[1] /\ 1 \in DOMAIN queue
          /\ queue[1].yes /\ ctl.enabled /\ queue[1].rev = access.revision
      <4>1. At("switch", "start") /\ Head(queue) = queue[1] /\ 1 \in DOMAIN queue
        BY <1>t, <3>1, HeadIsFirst DEF Switches, At
      <4>2. access'.allowed = Head(queue).yes
        BY <1>t, <3>1 DEF Switches, TypeOK
      <4>3. QED BY <3>1, <4>1, <4>2 DEF Switches, Outdated
    <3>3. NoDisable
      <4>1. 1 \in Counting
        BY <3>2 DEF Counting, At
      <4>2. \A j \in DOMAIN queue : 1 < j => queue[j].kind # "disable"
        BY <4>1 DEF StatusInv, GrantsFit, NoneAfter
      <4>3. \A j \in DOMAIN queue : j = 1 \/ 1 < j
        BY <1>t DEF TypeOK
      <4>4. QED BY <3>2, <4>2, <4>3 DEF NoDisable, At
    <3>4. ~At("initialize", "start")
      BY <3>2 DEF At
    <3>5. QED BY <1>1, <3>1, <3>2, <3>3, <3>4, NoDisableStays
  <2>4. QED BY <2>1, <2>2, <2>3
<1>5. PICK k \in {0, 1} : \A i \in DOMAIN queue' :
           \/ i + k \in DOMAIN queue /\ queue'[i] = queue[i + k]
           \/ /\ \A j \in DOMAIN queue' : j <= i
              /\ queue'[i] = Op("reconcile") \/ Appends(queue'[i])
  BY <1>t, QueueShifts
<1>6. DOMAIN queue \subseteq Nat /\ DOMAIN queue' \subseteq Nat
  BY <1>t DEF TypeOK
<1>7. ASSUME NEW i \in Counting'
      PROVE  \/ i + k \in Counting /\ queue'[i] = queue[i + k] /\ Same
             \/ (\A j \in DOMAIN queue' : j <= i) /\ Appends(queue'[i])
  <2>1. i \in DOMAIN queue' /\ queue'[i].kind = "switch" /\ queue'[i].rev = access'.revision
    BY <1>7 DEF Counting
  <2>2. queue'[i] # Op("reconcile")
    BY <2>1, OpType
  <2>3. CASE i + k \in DOMAIN queue /\ queue'[i] = queue[i + k]
    BY <1>3, <2>1, <2>3 DEF Counting
  <2>4. QED BY <1>5, <2>1, <2>2, <2>3
<1>8. NoneAfter'
  <2> SUFFICES ASSUME NEW i \in Counting', NEW j \in DOMAIN queue', i < j
               PROVE  queue'[j].kind # "disable"
    BY DEF NoneAfter
  <2>0. i \in Nat /\ j \in Nat /\ i \in DOMAIN queue'
    BY <1>6 DEF Counting
  <2>1. i + k \in Counting /\ queue'[i] = queue[i + k] /\ Same
    BY <1>7, <2>0
  <2>2. CASE j + k \in DOMAIN queue /\ queue'[j] = queue[j + k]
    BY <2>0, <2>1, <2>2 DEF StatusInv, GrantsFit, NoneAfter
  <2>3. CASE queue'[j] = Op("reconcile") \/ Appends(queue'[j])
    <3>1. ~RevokeWrites
      BY <1>t, <2>1, FreshRevision DEF RevokeWrites, Revoked, TypeOK
    <3>2. QED BY <2>3, <3>1, OpType DEF Appends
  <2>4. QED BY <1>5, <2>2, <2>3
<1>9. WithdrawalsFit'
  <2> SUFFICES ASSUME NEW i \in Counting', ~queue'[i].yes, queue'[i].was
               PROVE  ctl'.enabled /\ NoDisable'
    BY DEF WithdrawalsFit
  <2>1. CASE i + k \in Counting /\ queue'[i] = queue[i + k] /\ Same
    <3>1. Serving
      BY <2>1 DEF StatusInv, GrantsFit, WithdrawalsFit
    <3>2. ~At("initialize", "start")
      <4>1. i + k \in DOMAIN queue /\ queue[i + k].kind = "switch"
        BY <2>1 DEF Counting
      <4>2. QED BY <1>t, <4>1, HeadIsFirst DEF StatusInv, InitialisesAlone, Quiet, At
    <3>3. QED BY <1>1, <2>1, <3>1, <3>2, NoDisableStays
  <2>2. CASE (\A j \in DOMAIN queue' : j <= i) /\ Appends(queue'[i])
    <3>1. access.allowed /\ queue'[i].kind = "switch" /\ queue'[i].kind # "disable"
      BY <2>2 DEF Appends, Counting
    <3>2. ctl'.enabled
      BY <1>1, <1>2, <3>1
    <3>3. \A j \in DOMAIN queue' :
             \/ \E m \in DOMAIN queue : queue'[j] = queue[m]
             \/ queue'[j] = queue'[i]
      <4>1. queue' = Append(queue, queue'[i]) /\ queue'[i] \in Ops
        BY <2>2 DEF Appends, Enqueue
      <4> DEFINE op == queue'[i]
      <4>2. queue \in Seq(Ops) /\ op \in Ops /\ queue' = Append(queue, op)
        BY <1>t, <4>1 DEF TypeOK
      <4> HIDE DEF op
      <4>3. \A j \in DOMAIN queue' : (j \in DOMAIN queue /\ queue'[j] = queue[j]) \/ queue'[j] = op
        BY <4>2
      <4>4. QED BY <4>3 DEF op
    <3>4. NoDisable'
      BY <1>2, <3>1, <3>3 DEF NoDisable
    <3>5. QED BY <3>2, <3>4
  <2>3. QED BY <1>7, <2>1, <2>2
<1>10. QED BY <1>4, <1>8, <1>9 DEF GrantsFit

\* An initialize operation is the head until it is done, and nobody calls before.
LEMMA NextQuiet ==
  ASSUME TypeInv, HostInv, StatusInv, Next, ~Restart,
         NEW i \in DOMAIN queue', queue'[i].kind = "initialize"
  PROVE  Quiet'
<1>t. TypeOK /\ ctl \in Fields
  BY DEF TypeInv, TypeOK, Fields
<1>1. /\ i \in DOMAIN queue /\ queue[i].kind = "initialize"
      /\ UNCHANGED queue \/ \E op : Appends(op)
  BY InitialisingGoesOn
<1>2. Quiet /\ Head(queue).kind = "initialize" /\ queue # <<>>
  BY <1>t, <1>1, HeadIsFirst DEF HostInv, NothingBefore, StatusInv, InitialisesAlone
<1>3. ~Drops
  <2> SUFFICES ASSUME Drops PROVE FALSE
    OBVIOUS
  <2>1. queue \in Seq(Ops) /\ queue' = Tail(queue)
    BY <1>t DEF Drops, TypeOK
  <2>2. Len(queue') # Len(queue)
    BY <1>2, <2>1
  <2>3. \A op \in Ops : Len(Append(queue, op)) # Len(queue')
    BY <1>2, <2>1
  <2>4. QED BY <1>1, <2>2, <2>3 DEF Appends, Enqueue
<1>4. CASE Proceeds
  <2>1. \/ \E readable \in BOOLEAN : Initialize(readable) /\ ~Finish
        \/ BuildPolicies \/ BuildPoliciesAgain
    <3>1. ASSUME Finish PROVE FALSE
      BY <1>2, <1>3, <3>1 DEF Finish, Drops
    <3>2. ASSUME NEW kept \in SUBSET Names, Unregisters(kept) PROVE FALSE
      BY <1>2, <3>2 DEF Unregisters, Lock, Sweep, Clear, EnableUndone, SwitchUndone, At, Running
    <3>3. ASSUME NEW kept \in SUBSET Names, NEW records \in SUBSET kept, Registers(kept, records)
          PROVE  FALSE
      BY <1>2, <3>1, <3>3 DEF Registers, Initialized, EnableRegisters, Restore, SwitchRegisters,
         ReconcileRegisters, At, Running
    <3>4. QED
      BY <1>2, <1>4, <3>1, <3>2, <3>3
         DEF Proceeds, Refuse, StartEnable, StartDisable, StartSwitch, StartReconcile,
             StartShutdown, EnableSaves, DisableSaves, ListWrites, DecideWrite, StartWrite,
             CommitWrite, PrepareWrite, ExecuteWrite, At, Running
  <2>2. CASE \E readable \in BOOLEAN : Initialize(readable) /\ ~Finish
    <3> DEFINE c == [ctl EXCEPT !.enabled = file, !.entitled = member,
               !.ready = ~file \/ ~member, !.timer = file /\ ~member,
               !.status = IF ~file THEN "disabled" ELSE IF ~member THEN "locked" ELSE @]
    <3>1. ReadEntitlement(c) /\ file /\ member /\ UNCHANGED queue
      BY <2>2 DEF Initialize, GoTo
    <3>2. c \in Fields /\ c.ready = FALSE /\ c.status = ctl.status
      BY <1>t, <3>1 DEF Fields, TypeOK
    <3> HIDE DEF c
    <3>3. Becomes(c) /\ Withholds
      BY <1>t, <3>1, <3>2, ReadBecomes
    <3>4. QED BY <1>2, <3>1, <3>2, <3>3 DEF Becomes, Withholds, Quiet
  <2>3. CASE BuildPolicies \/ BuildPoliciesAgain
    BY <1>2, <2>3 DEF BuildPolicies, BuildPoliciesAgain, StartRegistering, GoTo, KeepWrites, Quiet
  <2>4. QED BY <2>1, <2>2, <2>3
<1>5. CASE ~Proceeds
  <2>1. Becomes(ctl) /\ Withholds
    BY <1>5, OutsideShows DEF Next, World
  <2>2. UNCHANGED queue \/ queue' = Append(queue, Op("reconcile"))
    BY <1>2, <1>5 DEF Next, World, Someone, CallSetEnabled, CallSetWriteEnabled,
       CallPendingWrites, CallReconcile, CallShutdown, CallDecideWrite, CallWrite, CallRead,
       Room, Quiet, ReadIsAnswered, TimerFires, Membership, Edit, Tick, Enqueue
  <2>3. \A j \in DOMAIN queue' :
          (j \in DOMAIN queue /\ queue'[j] = queue[j]) \/ queue'[j] = Op("reconcile")
    <3>1. queue \in Seq(Ops) /\ Op("reconcile") \in Ops
      BY <1>t, OpType DEF TypeOK
    <3>2. CASE queue' = Append(queue, Op("reconcile"))
      <4> DEFINE op == Op("reconcile")
      <4> HIDE DEF op
      <4>1. op \in Ops /\ queue' = Append(queue, op)
        BY <3>1, <3>2 DEF op
      <4>2. \A j \in DOMAIN queue' : (j \in DOMAIN queue /\ queue'[j] = queue[j]) \/ queue'[j] = op
        BY <3>1, <4>1
      <4>3. QED BY <4>2 DEF op
    <3>3. QED BY <2>2, <3>2
  <2>4. \A j \in DOMAIN queue' : queue'[j].kind # "switch"
    BY <1>2, <2>3, OpType DEF Quiet
  <2>5. QED BY <1>2, <2>1, <2>4 DEF Becomes, Withholds, Quiet
<1>6. QED BY <1>4, <1>5

LEMMA StartsShown ==
  ASSUME ctl = AtStart, queue = <<Op("initialize")>>, step = "start", local = Fresh,
         access = NoAccess, host = Bare
  PROVE  StatusInv
<1>1. /\ ctl.names = {} /\ ctl.records = {} /\ ctl.status = "initializing"
      /\ ctl.ready = FALSE /\ access.allowed = FALSE
  BY DEF AtStart, NoAccess
<1>2. \A j \in DOMAIN queue : j = 1 /\ queue[j].kind = "initialize"
  BY OpType
<1>3. StatusShown
  BY <1>1 DEF StatusShown, Off, On, Underway, Rebuilding, At
<1>4. HostTold
  BY <1>1 DEF HostTold, Hosted, Told, Policies
<1>5. GrantsFit
  BY <1>1, <1>2 DEF GrantsFit, NoneAfter, WithdrawalsFit, Counting
<1>6. InitialisesAlone
  BY <1>1, <1>2 DEF InitialisesAlone, Quiet
<1>7. QED BY <1>3, <1>4, <1>5, <1>6 DEF StatusInv

LEMMA NextStatus == TypeInv /\ HostInv /\ StatusInv /\ [Next]_vars => StatusInv'
<1> SUFFICES ASSUME TypeInv, HostInv, StatusInv, [Next]_vars PROVE StatusInv'
  OBVIOUS
<1>1. CASE UNCHANGED vars
  BY <1>1 DEF StatusInv, StatusShown, Off, On, Underway, HostTold, Hosted, Told, Policies,
     GrantsFit, NoDisable, NoneAfter, WithdrawalsFit, Counting, InitialisesAlone, Quiet,
     Running, At, vars
<1>2. CASE Restart
  <2>1. /\ ctl' = AtStart /\ queue' = <<Op("initialize")>> /\ step' = "start" /\ local' = Fresh
        /\ access' = NoAccess /\ host' = Bare
    BY <1>2 DEF Restart
  <2>2. /\ ctl'.names = {} /\ ctl'.records = {} /\ ctl'.status = "initializing"
        /\ ctl'.ready = FALSE /\ access'.allowed = FALSE
    BY <2>1 DEF AtStart, NoAccess
  <2>3. \A j \in DOMAIN queue' : j = 1 /\ queue'[j].kind = "initialize"
    BY <2>1, OpType
  <2>4. StatusShown' /\ HostTold'
    BY <2>1, <2>2 DEF StatusShown, Off, On, Underway, Rebuilding, At, HostTold, Hosted, Told, Policies
  <2>5. GrantsFit' /\ InitialisesAlone'
    BY <2>2, <2>3 DEF GrantsFit, NoneAfter, WithdrawalsFit, Counting, InitialisesAlone, Quiet
  <2>6. QED BY <2>4, <2>5 DEF StatusInv
<1>3. CASE Next /\ ~Restart
  BY <1>3, NextShows, NextGrantsFit, NextQuiet DEF StatusInv, InitialisesAlone
<1>4. QED BY <1>1, <1>2, <1>3

LEMMA StatusIsTruthful ==
  ASSUME TypeInv, HostInv, StatusInv
  PROVE  StatusTruthful
<1> SUFFICES ASSUME queue = <<>> PROVE
      /\ ctl.status \in {"disabled", "locked"} => host = Bare
      /\ ctl.status = "enabled" => ctl.enabled /\ \A n \in Names : host[n] # "none"
      /\ IsWriteActive => \A n \in Names : host[n] = "write"
  BY DEF StatusTruthful, AtRest
<1>1. ASSUME ctl.names = {} PROVE host = Bare
  BY <1>1 DEF HostInv, HostAccounted, TypeInv, TypeOK, Bare
<1>2. ~At("switch", "unregister")
  BY DEF At
<1>3. QED
  BY <1>1, <1>2 DEF StatusInv, StatusShown, Off, On, HostTold, Hosted, Told, IsWriteActive, IsActive

\* At rest the status shown is the truth about the host, whatever failed, whoever
\* called meanwhile and however far the permission was withdrawn under way.
THEOREM StatusTellsTheTruth == Spec => []StatusTruthful
<1>1. Init => StatusInv
  BY StartsShown DEF Init
<1>2. QED BY <1>1, InitHost, NextHost, NextStatus, StatusIsTruthful, AlwaysTyped, PTL DEF Spec
=============================================================================

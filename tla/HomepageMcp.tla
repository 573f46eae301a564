----------------------------- MODULE HomepageMcp -----------------------------
(***************************************************************************)
(* The MCP service the plugin offers to other programs                     *)
(* (homepage-mcp-runtime-controller.ts, register-homepage-mcp-             *)
(* capabilities.ts, homepage-mcp-write-access.ts): the controller          *)
(* registers the capabilities with the host, and a write needs a           *)
(* permission that lives in memory and the user's approval of that write.  *)
(*                                                                         *)
(* Everything the controller does goes through one promise queue, write    *)
(* calls included, so operations do not overlap; but each of them awaits,  *)
(* and permission is withdrawn at once, between two steps of an operation: *)
(* by a call of the user, or by a read call that finds membership gone.    *)
(***************************************************************************)
EXTENDS Naturals, Sequences, FiniteSets

CONSTANTS
  Names,         \* the capabilities, HOMEPAGE_MCP_CAPABILITY_NAMES
  Calls,         \* write calls: a tool, an action and arguments
  Ids,           \* confirmation ids; NoId: a call without one
  NoCall, NoId,
  Ttl,           \* CONFIRMATION_TTL_MS
  MaxRequests,   \* MAX_REQUESTS
  MaxQueue,      \* bound: nobody calls while so many operations wait
  MaxTime,       \* bound of the clock
  MaxEdits,      \* bound: changes of the data from outside
  MaxFaults,     \* bound: failing calls of the host or the storage
  MaxRestarts    \* bound: restarts of the kernel

ASSUME McpAssumption ==
  /\ NoId \notin Ids /\ NoCall \notin Calls
  /\ {Ttl, MaxRequests, MaxQueue, MaxTime, MaxEdits, MaxFaults, MaxRestarts} \subseteq Nat

VARIABLES
  \* the controller
  ctl,      \* its fields
  queue,    \* operationQueue; the head is the one that runs
  step,     \* where the head stands
  local,    \* its locals: what it advertises, the data it read
  access,   \* HomepageMcpWriteAccess, and writeRevision
  \* around it
  host,     \* how the host has each capability
  file,     \* the stored setting
  member,   \* what isEntitlementAvailable answers
  reading,  \* a read call awaits that answer
  data, now, faults, restarts,
  \* what the user knows (history): wants writes, and has approved what
  wanted, ledger

env == <<data, now, restarts>>
vars == <<ctl, queue, step, local, access, host, file, member, reading, faults, env,
          wanted, ledger>>

Ops == [kind : {"initialize", "enable", "disable", "switch", "list", "decide",
                "reconcile", "shutdown", "write"},
        yes : BOOLEAN, was : BOOLEAN, rev : Nat,
        call : Calls \cup {NoCall}, id : Ids \cup {NoId}]
Op(kind) == [kind |-> kind, yes |-> FALSE, was |-> FALSE, rev |-> 0,
             call |-> NoCall, id |-> NoId]
Requests == [id : Ids, call : Calls, state : Nat, due : Nat, approved : BOOLEAN]
Grants == [stage : {"new", "asked", "approved", "denied", "void", "used"},
           call : Calls \cup {NoCall}, state : Nat, due : Nat]

\* Every variable holds a value of its kind.
TypeOK ==
  /\ ctl \in [enabled : BOOLEAN, entitled : BOOLEAN, ready : BOOLEAN, closing : BOOLEAN,
              timer : BOOLEAN, names : SUBSET Names, records : SUBSET Names,
              status : {"disabled", "enabled", "locked", "error", "initializing"}]
  /\ queue \in Seq(Ops)
  /\ step \in {"start", "unregister", "register", "registering", "save", "lock", "sweep",
               "undo", "restore", "restoring", "prepare", "commit", "execute"}
  /\ local \in [write : BOOLEAN, state : Nat]
  /\ access \in [allowed : BOOLEAN, requests : SUBSET Requests, revision : Nat]
  /\ host \in [Names -> {"none", "read", "write"}]
  /\ file \in BOOLEAN /\ member \in BOOLEAN /\ reading \in BOOLEAN /\ wanted \in BOOLEAN
  /\ {data, now, faults, restarts} \subseteq Nat
  /\ ledger \in [Ids -> Grants]

----------------------------------------------------------------------------
\* HomepageMcpWriteAccess

Pruned(requests) == {r \in requests : r.due > now}
WithId(requests, id) == {r \in requests : r.id = id}
Without(requests, id) == requests \ WithId(requests, id)

\* A number no queued operation holds: revisions are only compared with theirs.
NextRevision == CHOOSE r \in 1 .. (Len(queue) + 2) :
                  r # access.revision /\ \A i \in DOMAIN queue : queue[i].rev # r

\* revoke and revokeWrites: the permission and every request go at once.
\* Faulty variant: approvals outlive it.
RevokedKeepingRequests == [access EXCEPT !.allowed = FALSE, !.revision = NextRevision]
Revoked == [access EXCEPT !.allowed = FALSE, !.requests = {}, !.revision = NextRevision]

\* For the user, too, every approval is void.
Voided == [id \in Ids |-> IF ledger[id].stage \in {"asked", "approved"}
                          THEN [ledger[id] EXCEPT !.stage = "void"] ELSE ledger[id]]
RevokeWrites == access' = Revoked /\ ledger' = Voided /\ wanted' = FALSE
KeepWrites == UNCHANGED <<access, ledger, wanted>>

\* readEntitlement within an operation; c: the other changes of the fields.
ReadEntitlement(c) ==
  \/ member /\ ctl' = c /\ KeepWrites
  \/ ~member /\ ctl' = [c EXCEPT !.entitled = FALSE] /\ RevokeWrites

\* isActive, isWriteActive.  A name kept by a failed rollback may lack its record.
\* Faulty variant: the records are not looked at.
IsActiveByName(c) == ~c.closing /\ c.enabled /\ c.entitled /\ c.names = Names
IsActive(c) == ~c.closing /\ c.enabled /\ c.entitled /\ c.names = Names /\ c.records = Names
IsWriteActive == access.allowed /\ IsActive(ctl) /\ ctl.status = "enabled"

\* scheduleReconcile, at the end of an operation
\* Faulty variant: only while the service is up.
TimedIfActive(c) == [c EXCEPT !.timer = c.enabled /\ ~c.closing /\ c.status = "enabled"]
Timed(c) == [c EXCEPT !.timer = c.enabled /\ ~c.closing]

----------------------------------------------------------------------------
\* The queue: an operation runs to its end before the next one starts.

At(kind, where) == queue # <<>> /\ Head(queue).kind = kind /\ step = where
Running(kinds, where) == \E kind \in kinds : At(kind, where)
GoTo(where) == step' = where /\ UNCHANGED queue
Finish == queue' = Tail(queue) /\ step' = "start"
Enqueue(op) == queue' = Append(queue, op)

Fails(failed) == faults' = IF failed THEN faults + 1 ELSE faults
MayFail(failed) == failed => faults < MaxFaults

\* unregisterHomepageMcpCapabilities: those whose removal fails are kept.
Unregister(kept) ==
  /\ kept \subseteq ctl.names /\ MayFail(kept # {}) /\ Fails(kept # {})
  /\ host' = [n \in Names |-> IF n \in ctl.names \ kept THEN "none" ELSE host[n]]
Keeping(kept) == [ctl EXCEPT !.names = kept, !.records = @ \cap kept]

\* registerHomepageMcpCapabilities.  One that fails may have been accepted by
\* the host all the same, so it is rolled back with those before it.
\* Faulty variant: only those that succeeded are rolled back.
RolledBackKnown(done, last) == done
RolledBack(done, last) == done \cup {last}
Registered == [n \in Names |-> IF local.write THEN "write" ELSE "read"]
RegisterFails(kept, records) ==
  /\ faults < MaxFaults /\ faults' = faults + 1
  /\ \E done \in SUBSET Names, last \in Names, accepted \in BOOLEAN :
       LET tried == done \cup {last}
           left == kept \cup (tried \ RolledBack(done, last))
       IN /\ last \notin done /\ kept \subseteq RolledBack(done, last)
          /\ records = kept \ {last}
          /\ host' = [n \in Names |-> IF n \in left /\ (n = last => accepted)
                                      THEN Registered[n] ELSE host[n]]

\* kept, records: what the controller is left with, all of it on success.
RegisterAll(kept, records) ==
  IF records = Names THEN kept = Names /\ host' = Registered /\ UNCHANGED faults
                     ELSE RegisterFails(kept, records)
Holding(kept, records) == [ctl EXCEPT !.names = kept, !.records = records]

\* The policies are built from the permission as it is now.
Advertised == access.allowed
StartRegistering(from, to) ==
  /\ queue # <<>> /\ step = from
  /\ local' = [local EXCEPT !.write = Advertised]
  /\ GoTo(to)
  /\ UNCHANGED <<ctl, host, file, member, reading, faults, env>> /\ KeepWrites
BuildPolicies == StartRegistering("register", "registering")
BuildPoliciesAgain == StartRegistering("restore", "restoring")

----------------------------------------------------------------------------
\* initialize: the only operation before the calls of the user are bound.

Initialize(readable) ==
  /\ At("initialize", "start") /\ MayFail(~readable) /\ Fails(~readable)
  /\ IF ~readable
     THEN ctl' = [ctl EXCEPT !.status = "error", !.ready = TRUE] /\ KeepWrites /\ Finish
     ELSE /\ ReadEntitlement([ctl EXCEPT !.enabled = file, !.entitled = member,
               !.ready = ~file \/ ~member, !.timer = file /\ ~member,
               !.status = IF ~file THEN "disabled" ELSE IF ~member THEN "locked" ELSE @])
          /\ IF file /\ member THEN GoTo("register") ELSE Finish
  /\ UNCHANGED <<local, host, file, member, reading, env>>

Initialized(kept, records) ==
  /\ At("initialize", "registering") /\ RegisterAll(kept, records)
  /\ ctl' = Timed([Holding(kept, records) EXCEPT !.ready = TRUE,
                     !.status = IF records = Names THEN "enabled" ELSE "error"])
  /\ Finish /\ KeepWrites
  /\ UNCHANGED <<local, file, member, reading, env>>

----------------------------------------------------------------------------
\* Steps several operations share.

\* An operation that is refused: the kernel is not ready, or is closing.
Refuse ==
  /\ Running({"enable", "disable", "switch", "reconcile"}, "start") \/ At("shutdown", "start")
  /\ IF At("shutdown", "start") THEN ctl.closing ELSE ~ctl.ready \/ ctl.closing
  /\ Finish /\ KeepWrites
  /\ UNCHANGED <<ctl, local, host, file, member, reading, faults, env>>

\* The capabilities go because membership has: setEnabled(true), reconcile.
Lock(kept) ==
  /\ Running({"enable", "reconcile"}, "lock")
  /\ Unregister(kept)
  /\ ctl' = Timed([Keeping(kept) EXCEPT !.status = IF kept = {} THEN "locked" ELSE "error"])
  /\ Finish /\ KeepWrites
  /\ UNCHANGED <<local, file, member, reading, env>>

\* The capabilities go for good: reconcile of a disabled service, shutdown.
Sweep(kept) ==
  /\ Running({"reconcile", "shutdown"}, "sweep")
  /\ Unregister(kept)
  /\ ctl' = [Keeping(kept) EXCEPT !.status = IF kept = {} THEN "disabled" ELSE "error"]
  /\ Finish /\ KeepWrites
  /\ UNCHANGED <<local, file, member, reading, env>>

\* Old capabilities go before new ones are registered, or for the service to end.
Clear(kept) ==
  /\ Running({"enable", "disable", "switch", "reconcile"}, "unregister")
  /\ Unregister(kept)
  /\ LET c == Keeping(kept) IN
       \/ /\ kept = {} /\ ctl' = c /\ KeepWrites
          /\ GoTo(IF Head(queue).kind = "disable" THEN "save" ELSE "register")
       \/ /\ kept # {} /\ Head(queue).kind \in {"enable", "switch"}
          /\ ctl' = c /\ RevokeWrites /\ GoTo("undo")
       \/ /\ kept # {} /\ Head(queue).kind = "disable"
          /\ ctl' = [c EXCEPT !.status = "error"] /\ KeepWrites /\ Finish
       \/ /\ kept # {} /\ Head(queue).kind = "reconcile"
          /\ ctl' = Timed([c EXCEPT !.status = "error"]) /\ KeepWrites /\ Finish
  /\ UNCHANGED <<local, file, member, reading, env>>

----------------------------------------------------------------------------
\* setEnabled

StartEnable ==
  /\ At("enable", "start") /\ ctl.ready /\ ~ctl.closing
  /\ ReadEntitlement([ctl EXCEPT !.entitled = member,
                                 !.status = IF member THEN "initializing" ELSE @])
  /\ GoTo(IF ~member THEN "lock"
          ELSE IF IsActive(ctl') THEN "save"
          ELSE IF ctl.names # {} THEN "unregister" ELSE "register")
  /\ UNCHANGED <<local, host, file, member, reading, faults, env>>

EnableRegisters(kept, records) ==
  /\ At("enable", "registering") /\ RegisterAll(kept, records)
  /\ IF records = Names THEN KeepWrites /\ GoTo("save") ELSE RevokeWrites /\ GoTo("undo")
  /\ ctl' = Holding(kept, records)
  /\ UNCHANGED <<local, file, member, reading, env>>

\* saveSettingsAndVerify: what was written may not be what is read back.
EnableSaves(ok, landed) ==
  /\ At("enable", "save") /\ MayFail(~ok) /\ Fails(~ok) /\ (ok => landed)
  /\ file' = (file \/ landed)
  /\ IF ok THEN /\ ctl' = Timed([ctl EXCEPT !.enabled = TRUE, !.status = "enabled"])
                /\ KeepWrites /\ Finish
           ELSE UNCHANGED ctl /\ RevokeWrites /\ GoTo("undo")
  /\ UNCHANGED <<local, host, member, reading, env>>

EnableUndone(kept) ==
  /\ At("enable", "undo")
  /\ Unregister(kept)
  /\ LET c == [Keeping(kept) EXCEPT !.status = "error"] IN
       ctl' = IF c.enabled THEN Timed(c) ELSE c
  /\ Finish /\ KeepWrites
  /\ UNCHANGED <<local, file, member, reading, env>>

StartDisable ==
  /\ At("disable", "start") /\ ctl.ready /\ ~ctl.closing
  /\ ctl' = [ctl EXCEPT !.status = "initializing"]
  /\ GoTo("unregister") /\ KeepWrites
  /\ UNCHANGED <<local, host, file, member, reading, faults, env>>

\* A setting that could not be saved puts the capabilities back.
DisableSaves(ok, landed) ==
  /\ At("disable", "save") /\ MayFail(~ok) /\ Fails(~ok) /\ (ok => landed)
  /\ file' = (file /\ ~landed)
  /\ IF ok THEN /\ ctl' = [ctl EXCEPT !.enabled = FALSE, !.status = "disabled", !.timer = FALSE]
                /\ Finish
           ELSE /\ ctl' = [ctl EXCEPT !.status = "error"]
                /\ IF ctl.enabled /\ ctl.entitled THEN GoTo("restore") ELSE Finish
  /\ KeepWrites
  /\ UNCHANGED <<local, host, member, reading, env>>

\* The capabilities come back after a failure: disable, setWriteEnabled.
Restore(kept, records) ==
  /\ Running({"disable", "switch"}, "restoring") /\ RegisterAll(kept, records)
  /\ LET c == Holding(kept, records) IN
       ctl' = IF At("disable", "restoring") THEN c
              ELSE Timed(IF records = Names THEN [c EXCEPT !.status = "enabled"] ELSE c)
  /\ Finish /\ KeepWrites
  /\ UNCHANGED <<local, file, member, reading, env>>

----------------------------------------------------------------------------
\* setWriteEnabled

\* Faulty variant: a later call does not outdate this one.
OutdatedNever(op) == FALSE
Outdated(op) == op.rev # access.revision

StartSwitch ==
  /\ At("switch", "start") /\ ctl.ready /\ ~ctl.closing
  /\ LET op == Head(queue)
         early == ~member \/ Outdated(op)
         unfit == op.yes /\ (~IsActive(ctl) \/ ctl.status # "enabled")
         settled == op.yes = op.was
     IN \/ early /\ ReadEntitlement(ctl) /\ Finish
        \/ ~early /\ unfit /\ RevokeWrites /\ UNCHANGED ctl /\ Finish
        \/ ~early /\ ~unfit /\ settled /\ KeepWrites /\ UNCHANGED ctl /\ Finish
        \/ /\ ~early /\ ~unfit /\ ~settled
           /\ access' = [access EXCEPT !.allowed = op.yes] /\ UNCHANGED <<wanted, ledger>>
           /\ ctl' = [ctl EXCEPT !.status = "initializing"]
           /\ GoTo("unregister")
  /\ UNCHANGED <<local, host, file, member, reading, faults, env>>

\* The permission may be gone since the policies were built.
SwitchRegisters(kept, records) ==
  /\ At("switch", "registering") /\ RegisterAll(kept, records)
  /\ LET op == Head(queue)
         gone == op.yes /\ (Outdated(op) \/ ~access.allowed)
         c == Holding(kept, records)
     IN IF records = Names /\ ~gone
        THEN ctl' = Timed([c EXCEPT !.status = "enabled"]) /\ KeepWrites /\ Finish
        ELSE ctl' = c /\ RevokeWrites /\ GoTo("undo")
  /\ UNCHANGED <<local, file, member, reading, env>>

\* Read-only service is restored if it can be.
SwitchUndone(kept) ==
  /\ At("switch", "undo")
  /\ Unregister(kept)
  /\ LET c == [Keeping(kept) EXCEPT !.status = "error"]
         asks == kept = {} /\ ctl.enabled
     IN IF asks /\ member THEN ctl' = c /\ KeepWrites /\ GoTo("restore")
        ELSE /\ IF asks THEN ReadEntitlement(Timed(c)) ELSE ctl' = Timed(c) /\ KeepWrites
             /\ Finish
  /\ UNCHANGED <<local, file, member, reading, env>>

----------------------------------------------------------------------------
\* getPendingWrites, decideWrite

ListWrites ==
  /\ At("list", "start")
  /\ IF ~member THEN ReadEntitlement(ctl)
     ELSE /\ access' = IF IsWriteActive THEN [access EXCEPT !.requests = Pruned(@)] ELSE access
          /\ UNCHANGED <<ctl, wanted, ledger>>
  /\ Finish
  /\ UNCHANGED <<local, host, file, member, reading, faults, env>>

\* decide: an approval is given once, a refusal takes the request away.
Decidable(op) == \E r \in WithId(Pruned(access.requests), op.id) : op.yes => ~r.approved
DecideWrite ==
  /\ At("decide", "start")
  /\ LET op == Head(queue)
         live == Pruned(access.requests)
         answered == IF op.yes THEN {[r EXCEPT !.approved = TRUE] : r \in WithId(live, op.id)} ELSE {}
     IN IF member /\ IsWriteActive
        THEN /\ access' = [access EXCEPT !.requests =
                  IF Decidable(op) THEN Without(live, op.id) \cup answered ELSE live]
             /\ ledger' = IF Decidable(op)
                          THEN [ledger EXCEPT ![op.id].stage = IF op.yes THEN "approved" ELSE "denied"]
                          ELSE ledger
             /\ UNCHANGED <<ctl, wanted>>
        ELSE ReadEntitlement(ctl)
  /\ Finish
  /\ UNCHANGED <<local, host, file, member, reading, faults, env>>

----------------------------------------------------------------------------
\* reconcile, shutdown

StartReconcile ==
  /\ At("reconcile", "start") /\ ctl.ready /\ ~ctl.closing
  /\ LET c == [ctl EXCEPT !.timer = FALSE, !.entitled = member]
         fine == ctl.enabled /\ member /\ IsActive(c)
     IN /\ ReadEntitlement(IF fine THEN Timed([c EXCEPT !.status = "enabled"]) ELSE c)
        /\ IF fine THEN Finish
           ELSE GoTo(IF ~ctl.enabled THEN "sweep" ELSE IF ~member THEN "lock"
                     ELSE IF ctl.names # {} THEN "unregister" ELSE "register")
  /\ UNCHANGED <<local, host, file, member, reading, faults, env>>

ReconcileRegisters(kept, records) ==
  /\ At("reconcile", "registering") /\ RegisterAll(kept, records)
  /\ ctl' = Timed([Holding(kept, records) EXCEPT
                     !.status = IF records = Names THEN "enabled" ELSE "error"])
  /\ Finish /\ KeepWrites
  /\ UNCHANGED <<local, file, member, reading, env>>

StartShutdown ==
  /\ At("shutdown", "start") /\ ~ctl.closing
  /\ ctl' = [ctl EXCEPT !.closing = TRUE, !.timer = FALSE]
  /\ GoTo("sweep") /\ KeepWrites
  /\ UNCHANGED <<local, host, file, member, reading, faults, env>>

----------------------------------------------------------------------------
\* A write call, the handler of createCapabilityHandler.

\* check: the request is there, is for this call, and is approved.
Permits(requests, op) == {r \in WithId(requests, op.id) : r.call = op.call}
Approved(requests) == {r \in requests : r.approved}

\* Membership is gone: writes are revoked, and the capabilities will be.
LosesMembership ==
  /\ ctl' = [ctl EXCEPT !.entitled = FALSE] /\ RevokeWrites
  /\ queue' = Append(Tail(queue), Op("reconcile")) /\ step' = "start"

\* A call that ends here may take its request with it.
EndCall(requests) ==
  /\ access' = [access EXCEPT !.requests = requests]
  /\ UNCHANGED <<ctl, wanted, ledger>> /\ Finish

StartWrite ==
  /\ At("write", "start")
  /\ LET op == Head(queue)
         live == Pruned(access.requests)
         known == Permits(live, op)
     IN IF ~IsActive(ctl) THEN EndCall(access.requests)
        ELSE IF ~member THEN LosesMembership
        ELSE IF ~IsWriteActive THEN EndCall(access.requests)
        ELSE IF op.id = NoId THEN UNCHANGED ctl /\ KeepWrites /\ GoTo("prepare")
        ELSE IF known = {} THEN EndCall(Without(live, op.id))
        ELSE IF Approved(known) = {} THEN EndCall(live)
        ELSE UNCHANGED ctl /\ KeepWrites /\ GoTo("prepare")
  /\ UNCHANGED <<local, host, file, member, reading, faults, env>>

\* The arguments are validated and the data read, or one of them fails.
PrepareWrite(outcome) ==
  /\ At("write", "prepare")
  /\ CASE outcome = "invalid" -> EndCall(access.requests) /\ UNCHANGED local
       [] outcome = "error" -> EndCall(Without(access.requests, Head(queue).id)) /\ UNCHANGED local
       [] outcome = "read" ->
            IF ~member THEN LosesMembership /\ UNCHANGED local
            ELSE IF ~IsWriteActive THEN EndCall(access.requests) /\ UNCHANGED local
            ELSE /\ local' = [local EXCEPT !.state = data]
                 /\ UNCHANGED ctl /\ KeepWrites /\ GoTo("commit")
  /\ UNCHANGED <<host, file, member, reading, faults, env>>

\* create
Ask(op, live) ==
  IF Cardinality(live) < MaxRequests /\ \E id \in Ids : ledger[id].stage = "new"
  THEN \E id \in Ids :
         /\ ledger[id].stage = "new"
         /\ access' = [access EXCEPT !.requests = live \cup
              {[id |-> id, call |-> op.call, state |-> local.state, due |-> now + Ttl,
                approved |-> FALSE]}]
         /\ ledger' = [ledger EXCEPT ![id] = [stage |-> "asked", call |-> op.call,
                                              state |-> local.state, due |-> now + Ttl]]
         /\ UNCHANGED <<ctl, wanted>> /\ Finish
  ELSE EndCall(live)

\* consume, and the call of the tool that follows with no await between.
\* Faulty variants: the approval stays; another state of the data will do.
LeftForAgain(live, op) == live
LeftAfter(live, op) == Without(live, op.id)
AnyState(r) == TRUE
SameState(r) == r.state = local.state
Consume(op, live) ==
  LET known == Permits(live, op) IN
  IF known = {} THEN EndCall(Without(live, op.id))
  ELSE IF Approved(known) = {} THEN EndCall(live)
  ELSE IF \E r \in known : ~SameState(r) THEN EndCall(Without(live, op.id))
  ELSE /\ access' = [access EXCEPT !.requests = LeftAfter(live, op)]
       /\ ledger' = [ledger EXCEPT ![op.id].stage = "used"]
       /\ UNCHANGED <<ctl, wanted>> /\ GoTo("execute")

\* Membership and permission are looked at once more after the data was read.
CommitWrite ==
  /\ At("write", "commit")
  /\ LET op == Head(queue)
         live == Pruned(access.requests)
     IN IF ~member THEN LosesMembership
        ELSE IF ~IsWriteActive THEN EndCall(access.requests)
        ELSE IF op.id = NoId THEN Ask(op, live) ELSE Consume(op, live)
  /\ UNCHANGED <<local, host, file, member, reading, faults, env>>

\* The tool writes, or fails with or without having written.
ExecuteWrite(written) ==
  /\ At("write", "execute") /\ (written => data < MaxEdits)
  /\ data' = IF written THEN data + 1 ELSE data
  /\ Finish /\ KeepWrites
  /\ UNCHANGED <<ctl, local, host, file, member, reading, faults, now, restarts>>

----------------------------------------------------------------------------
\* The callers: the settings page, the host's clients, the kernel's end.

Room == ctl.ready /\ Len(queue) < MaxQueue
Called == UNCHANGED <<ctl, step, local, host, file, member, reading, faults, env>>

\* Permission goes when the service is turned off, before the queue gets to it.
CallSetEnabled(yes) ==
  /\ Room /\ Enqueue(Op(IF yes THEN "enable" ELSE "disable"))
  /\ IF yes THEN KeepWrites ELSE RevokeWrites
  /\ Called

CallSetWriteEnabled(yes) ==
  /\ Room
  /\ Enqueue([Op("switch") EXCEPT !.yes = yes, !.was = access.allowed, !.rev = NextRevision])
  /\ access' = IF yes THEN [access EXCEPT !.revision = NextRevision] ELSE Revoked
  /\ wanted' = yes /\ ledger' = IF yes THEN ledger ELSE Voided
  /\ Called

CallPendingWrites == Room /\ Enqueue(Op("list")) /\ KeepWrites /\ Called
CallReconcile == Room /\ Enqueue(Op("reconcile")) /\ KeepWrites /\ Called

CallDecideWrite(id, approved) ==
  /\ Room /\ ledger[id].stage # "new"
  /\ Enqueue([Op("decide") EXCEPT !.id = id, !.yes = approved])
  /\ KeepWrites /\ Called

CallShutdown == Room /\ Enqueue(Op("shutdown")) /\ RevokeWrites /\ Called

\* A client writes through a capability the host has, with an id it was given.
CallWrite(call, id) ==
  /\ Room /\ \E n \in Names : host[n] # "none"
  /\ id # NoId => ledger[id].stage # "new"
  /\ Enqueue([Op("write") EXCEPT !.call = call, !.id = id])
  /\ KeepWrites /\ Called

\* A client reads, outside the queue.
CallRead ==
  /\ ~reading /\ Len(queue) < MaxQueue /\ IsActive(ctl)
  /\ \E n \in Names : host[n] # "none"
  /\ reading' = TRUE /\ KeepWrites
  /\ UNCHANGED <<ctl, queue, step, local, host, file, member, faults, env>>

ReadIsAnswered ==
  /\ reading /\ reading' = FALSE
  /\ IF member THEN KeepWrites /\ UNCHANGED <<ctl, queue>>
     ELSE ctl' = [ctl EXCEPT !.entitled = FALSE] /\ RevokeWrites /\ Enqueue(Op("reconcile"))
  /\ UNCHANGED <<step, local, host, file, member, faults, env>>

\* The timer of scheduleReconcile
TimerFires ==
  /\ ctl.timer /\ ctl' = [ctl EXCEPT !.timer = FALSE]
  /\ Enqueue(Op("reconcile")) /\ KeepWrites
  /\ UNCHANGED <<step, local, host, file, member, reading, faults, env>>

----------------------------------------------------------------------------
\* Around it

AtStart == [enabled |-> FALSE, entitled |-> FALSE, ready |-> FALSE, closing |-> FALSE,
            timer |-> FALSE, names |-> {}, records |-> {}, status |-> "initializing"]
\* Faulty variant: a field is forgotten.
FreshLacking == [write |-> FALSE]
Fresh == [write |-> FALSE, state |-> 0]
NoAccess == [allowed |-> FALSE, requests |-> {}, revision |-> 1]
Bare == [n \in Names |-> "none"]

\* The kernel restarts: only the stored setting outlives it.
Restart ==
  /\ restarts < MaxRestarts /\ restarts' = restarts + 1
  /\ ctl' = AtStart /\ queue' = <<Op("initialize")>> /\ step' = "start" /\ local' = Fresh
  /\ access' = NoAccess /\ host' = Bare /\ reading' = FALSE
  /\ wanted' = FALSE /\ ledger' = Voided
  /\ UNCHANGED <<file, member, faults, data, now>>

Membership ==
  /\ member' = ~member /\ KeepWrites
  /\ UNCHANGED <<ctl, queue, step, local, host, file, reading, faults, env>>
Edit ==
  /\ data < MaxEdits /\ data' = data + 1 /\ KeepWrites
  /\ UNCHANGED <<ctl, queue, step, local, host, file, member, reading, faults, now, restarts>>
Tick ==
  /\ now < MaxTime /\ now' = now + 1 /\ KeepWrites
  /\ UNCHANGED <<ctl, queue, step, local, host, file, member, reading, faults, data, restarts>>

Init ==
  /\ ctl = AtStart /\ queue = <<Op("initialize")>> /\ step = "start" /\ local = Fresh
  /\ access = NoAccess /\ host = Bare /\ file \in BOOLEAN /\ member \in BOOLEAN
  /\ reading = FALSE /\ data = 0 /\ now = 0 /\ faults = 0 /\ restarts = 0
  /\ wanted = FALSE
  /\ ledger = [id \in Ids |-> [stage |-> "new", call |-> NoCall, state |-> 0, due |-> 0]]

\* The operation at the head of the queue takes a step.
Registers(kept, records) ==
  \/ Initialized(kept, records) \/ EnableRegisters(kept, records) \/ Restore(kept, records)
  \/ SwitchRegisters(kept, records) \/ ReconcileRegisters(kept, records)
Unregisters(kept) ==
  Lock(kept) \/ Sweep(kept) \/ Clear(kept) \/ EnableUndone(kept) \/ SwitchUndone(kept)
Proceeds ==
  \/ \E readable \in BOOLEAN : Initialize(readable)
  \/ Refuse
  \/ StartEnable \/ StartDisable \/ StartSwitch \/ StartReconcile \/ StartShutdown
  \/ \E kept \in SUBSET Names :
       Unregisters(kept) \/ \E records \in SUBSET kept : Registers(kept, records)
  \/ BuildPolicies \/ BuildPoliciesAgain
  \/ \E ok, landed \in BOOLEAN : EnableSaves(ok, landed) \/ DisableSaves(ok, landed)
  \/ ListWrites \/ DecideWrite
  \/ StartWrite \/ CommitWrite
  \/ \E outcome \in {"invalid", "error", "read"} : PrepareWrite(outcome)
  \/ \E written \in BOOLEAN : ExecuteWrite(written)

Someone ==
  \/ \E yes \in BOOLEAN : CallSetEnabled(yes) \/ CallSetWriteEnabled(yes)
  \/ CallPendingWrites \/ CallReconcile \/ CallShutdown \/ CallRead
  \/ \E id \in Ids, yes \in BOOLEAN : CallDecideWrite(id, yes)
  \/ \E call \in Calls, id \in Ids \cup {NoId} : CallWrite(call, id)
World == Restart \/ Membership \/ Edit \/ Tick

Next == Proceeds \/ ReadIsAnswered \/ TimerFires \/ Someone \/ World

Spec == Init /\ [][Next]_vars

\* The event loop runs promises and timers; callers and the world owe nothing.
FairSpec == Spec /\ WF_vars(Proceeds) /\ WF_vars(ReadIsAnswered) /\ WF_vars(TimerFires)

----------------------------------------------------------------------------
\* Correctness

\* What the host has of the service, the controller knows: a capability it has
\* forgotten could be taken from the host by nobody (docs/agent/agent-runtime.md,
\* line 89: roll back, keep what fails).
HostAccounted == \A n \in Names : host[n] # "none" => n \in ctl.names

\* At rest the status shown is the truth about the host: off or locked means
\* that it has nothing, enabled that it has everything; and when writes are on,
\* the host has been told that the capabilities write.
AtRest == queue = <<>>
StatusTruthful ==
  AtRest =>
    /\ ctl.status \in {"disabled", "locked"} => host = Bare
    /\ ctl.status = "enabled" => ctl.enabled /\ \A n \in Names : host[n] # "none"
    /\ IsWriteActive => \A n \in Names : host[n] = "write"

\* Writes are permitted only while the user's last word on them was yes, and
\* no failure, loss of membership, end of service or restart came after it.
PermissionIsWanted == access.allowed => wanted

Writes == step = "commit" /\ step' = "execute"
Granted == ledger[Head(queue).id]

\* A tool writes only for a member who wants writes, on an approval of this
\* very call that has not been withdrawn, outlived or used before.
WriteIsAuthorised ==
  [][Writes => /\ member /\ wanted
               /\ Granted.stage = "approved" /\ Granted.call = Head(queue).call
               /\ Granted.due > now]_vars

\* The data the call has just read is what the approval was given for.
WriteSeesApprovedState == [][Writes => Granted.state = local.state]_vars

\* The service keeps the promise of WriteApprovals: its requests are the grants,
\* and a write is under way while an operation executes.
GrantOf(id) ==
  IF ledger[id].stage = "new" THEN [stage |-> "new", call |-> NoCall]
  ELSE IF WithId(access.requests, id) = {} THEN [stage |-> "gone", call |-> NoCall]
  ELSE LET r == CHOOSE q \in WithId(access.requests, id) : TRUE
       IN [stage |-> IF r.approved THEN "approved" ELSE "asked", call |-> r.call]
WriteOf == IF step = "execute" THEN Head(queue).call ELSE NoCall
Promise == INSTANCE WriteApprovals WITH
  permitted <- access.allowed, grants <- [id \in Ids |-> GrantOf(id)], writing <- WriteOf

\* Every step of the service is one the promise allows.
KeepsPromise == Promise!Spec

\* Once membership is gone for good the host has nothing of an enabled service;
\* once it is back for good the service is back, time and again if the user
\* switches it over.  After a failure only the retry timer sees to it.
Serves == ctl.enabled /\ ~ctl.closing
HostFollowsMembership ==
  /\ <>[](Serves /\ ~member) => <>[](host = Bare)
  /\ <>[](Serves /\ member) => []<>IsActive(ctl)
=============================================================================

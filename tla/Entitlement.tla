----------------------------- MODULE Entitlement -----------------------------
(***************************************************************************)
(* Membership (index.ts, features/entitlement, components/tools/advanced.ts) *)
(* as the plugin keeps it: a signed license in a file, a snapshot that says *)
(* whether the premium features are granted, and the runtimes that follow   *)
(* it.  A check reads the account and the license and, on mobile, recovers  *)
(* a license from the service; a synchronisation asks the service about the *)
(* license; the settings page redeems, recovers, refreshes, looks at and    *)
(* removes one.  Checks and synchronisations exist once at a time, and so   *)
(* do the operations of the page; every write of the file goes through one  *)
(* queue.                                                                   *)
(*                                                                         *)
(* An answer and the code that runs on it up to the next await are one     *)
(* step; between two awaits anything may happen.                           *)
(***************************************************************************)
EXTENDS Naturals, Sequences, SequencesExt

CONSTANTS
  Users, Licenses,
  Owner,        \* the account a license is signed for
  None,         \* no account, no license
  Whatever,     \* a write with no expectation about the file
  MaxEdits,     \* bound: changes of account, file and service, and of the user
  MaxFaults     \* bound: reads, writes and requests that fail or time out, reloads of the window

ASSUME EntitlementAssumption ==
  /\ Owner \in [Licenses -> Users]
  /\ None \notin Users \cup Licenses /\ Whatever \notin Licenses \cup {None}
  /\ {MaxEdits, MaxFaults} \subseteq Nat

VARIABLES
  account,      \* what getCloudUser answers
  file,         \* the license in license.syhomepage
  expired,      \* the licenses whose last day is over
  revoked,      \* the licenses the service has withdrawn
  offer,        \* the license the service holds for each account
  mobile,       \* isMobileFrontend
  grace,        \* just started, or SiYuan is synchronising
  face,         \* the snapshot and who follows it
  timer,        \* homepageEntitlementCheckTimer
  refresh,      \* homepageEntitlementExternalRefreshTimer
  withdrawn,    \* homepageServerRevokedLicense
  due,          \* the last synchronisation is half an hour ago
  cooling,      \* homepageEntitlementRecoveryCooldownByUser
  check,        \* homepageEntitlementVerification and its locals
  sync,         \* homepageServerSyncInFlight and its locals
  user,         \* what the settings page waits for
  jobs,         \* the tasks behind licenseMutationTail
  answer,       \* what each of the three has been answered by its task
  touched,      \* a file from another device came while a task was writing
  edits, faults

world == <<account, expired, revoked, offer, mobile, edits>>
store == <<file, touched>>
plugin == <<face, timer, refresh, withdrawn, due, cooling, grace>>
queue == <<jobs, answer>>
vars == <<world, store, plugin, check, sync, user, queue, faults>>

Parties == {"check", "sync", "user"}
Answers == {"none", "ok", "changed", "missing", "foreign", "failed"}
Snapshots ==
  [status : {"pending", "denied", "error"}, license : {None}]
    \cup [status : {"granted"}, license : Licenses]
\* What runs for members: the notification centre, which is stopped last, and the
\* rest.  A centre is lost when a stop ends after the next start.
Faces == [snapshot : Snapshots, told : BOOLEAN, starts : SUBSET {"waiting", "due"},
          running : BOOLEAN, centre : {"off", "on", "lost"}, stops : Nat]
CheckSteps == {"idle", "identity", "license", "saved", "expired", "ask", "live", "current",
               "again", "saving", "confirm", "cleaning"}
SyncSteps == {"idle", "read", "ask", "identity", "again", "saving", "confirm", "cleaning", "deleting"}
\* What the settings page waits for, from the click to the end of the operation.
Clickable == {"redeem", "recover", "refresh", "open"}
Requests == Clickable \cup {"sync", "issued", "active", "cleared", "reading", "rereading", "confirm"}
PageSteps == Requests \cup {"idle", "saving", "clearing", "verifying", "purging", "rechecking", "deleting"}
MaybeLicense == Licenses \cup {None}
Jobs == [by : Parties, awaited : BOOLEAN, op : {"save", "delete", "verify"}, license : MaybeLicense,
         expects : MaybeLicense \cup {Whatever}, stage : {"queued", "writing"}]

TypeOK ==
  /\ account \in Users \cup {None} /\ file \in MaybeLicense
  /\ expired \subseteq Licenses /\ revoked \subseteq Licenses
  /\ offer \in [Users -> MaybeLicense] /\ mobile \in BOOLEAN /\ grace \in BOOLEAN
  /\ face \in Faces /\ timer \in BOOLEAN /\ refresh \in BOOLEAN
  /\ withdrawn \in MaybeLicense /\ due \in BOOLEAN /\ cooling \subseteq Users
  /\ check \in [step : CheckSteps, account : Users \cup {None}, syncs : BOOLEAN,
                license : MaybeLicense, expects : MaybeLicense]
  /\ sync \in [step : SyncSteps, account : Users \cup {None}, expects : MaybeLicense,
               reply : {"none", "same", "changed", "keep", "clear"}, license : MaybeLicense]
  /\ user \in [step : PageSteps, account : Users \cup {None}, had : MaybeLicense,
               license : MaybeLicense]
  /\ jobs \in Seq(Jobs) /\ answer \in [Parties -> Answers] /\ touched \in BOOLEAN
  /\ edits \in 0 .. MaxEdits /\ faults \in 0 .. MaxFaults

-----------------------------------------------------------------------------
\* The snapshot

Snapshot(status) == [status |-> status, license |-> None]
Holds(snapshot) == snapshot.status = "granted" /\ snapshot.license \notin expired
Granted == Holds(face.snapshot)

\* handleHomepageAdvancedReady: a start waits for the check that is under way.
Ready(f) ==
  [f EXCEPT !.told = TRUE, !.starts = @ \cup {IF check.step = "idle" THEN "due" ELSE "waiting"}]

\* handleHomepageAdvancedUnavailable: everything stops but the centre, which
\* waits for the end of the robot client.  There is none on mobile.
Unavailable(f) ==
  [f EXCEPT !.told = FALSE, !.running = FALSE, !.stops = IF mobile THEN @ ELSE @ + 1]

\* publish: a grant that has run out by itself has ended before anybody is told.
Published(f, next) ==
  LET seen == IF next.status = "granted" /\ ~Holds(next) THEN Snapshot("denied") ELSE next
      now == [f EXCEPT !.snapshot = seen]
  IN IF Holds(f.snapshot) = Holds(seen) THEN now
     ELSE IF Holds(seen) THEN Ready(now) ELSE Unavailable(now)

Pending(f) == IF Holds(f.snapshot) THEN f ELSE Published(f, Snapshot("pending"))
Failed(f) == IF Holds(f.snapshot) THEN f ELSE Published(f, Snapshot("error"))
\* Mutant: a refusal that keeps the license of the grant before it.
DeniedWithLicense(f) == Published(f, [f.snapshot EXCEPT !.status = "denied"])
Denied(f) == Published(f, Snapshot("denied"))
GrantedBy(f, l) == Published(f, [status |-> "granted", license |-> l])

\* invalidateHomepageEntitlementForIdentityChange, but for the synchronisation
Without(f, u) ==
  IF Granted /\ Owner[face.snapshot.license] = u THEN Published(f, Snapshot("pending")) ELSE f
Forget == withdrawn' = None /\ due' = TRUE

NoCheck == [step |-> "idle", account |-> None, syncs |-> FALSE, license |-> None, expects |-> None]
NewCheck(syncs) == [NoCheck EXCEPT !.step = "identity", !.syncs = syncs]
NoSync == [step |-> "idle", account |-> None, expects |-> None, reply |-> "none", license |-> None]
NoUser == [step |-> "idle", account |-> None, had |-> None, license |-> None]

\* verifyLicense joins the check under way or starts one.
Verify(f, syncs) ==
  IF check.step = "idle" THEN check' = NewCheck(syncs) /\ face' = Pending(f)
  ELSE UNCHANGED check /\ face' = f

Valid(l, u) == l # None /\ Owner[l] = u /\ l \notin expired
Known(u) == u # None

Hurt == faults < MaxFaults /\ faults' = faults + 1

-----------------------------------------------------------------------------
\* The license file: one queue for every write

Enqueue(by, op, l, expects) ==
  /\ jobs' = Append(jobs, [by |-> by, awaited |-> TRUE, op |-> op, license |-> l,
                           expects |-> expects, stage |-> "queued"])
  /\ answer' = [answer EXCEPT ![by] = "none"]

Heard(by) == answer[by] # "none" /\ answer' = [answer EXCEPT ![by] = "none"] /\ UNCHANGED jobs

\* Mutant: a time-out lets the next task go.
TurnOfLast(i) == \A k \in 1 .. i - 1 : ~jobs[k].awaited
\* A task that nobody waits for any more still has its turn (runLicenseMutation).
Turn(i) == i = 1
Leaves(i, a) ==
  /\ jobs' = RemoveAt(jobs, i)
  /\ answer' = IF jobs[i].awaited THEN [answer EXCEPT ![jobs[i].by] = a] ELSE answer
Elsewhere == UNCHANGED <<world, plugin, check, sync, user>>

\* What the file must hold for a task to go on.
Expected(j) == j.expects = Whatever \/ file = j.expects

Reads(i) == Turn(i) /\ jobs[i].stage = "queued" /\ jobs[i].op # "verify"

TaskReads(i) ==
  /\ Reads(i) /\ Expected(jobs[i]) /\ ~(jobs[i].op = "delete" /\ file = None)
  /\ jobs' = [jobs EXCEPT ![i].stage = "writing"] /\ touched' = FALSE
  /\ UNCHANGED <<file, answer, faults>> /\ Elsewhere

TaskIsLate(i) ==
  /\ Reads(i) /\ ~Expected(jobs[i]) /\ ~(jobs[i].op = "delete" /\ file = None)
  /\ Leaves(i, "changed")
  /\ UNCHANGED <<file, touched, faults>> /\ Elsewhere

\* Whether a missing file reads as an error or as empty data is SiYuan's choice.
TaskFindsNothing(i) ==
  /\ Reads(i) /\ jobs[i].op = "delete" /\ file = None
  /\ \E a \in {"missing", "failed"} : Leaves(i, a)
  /\ UNCHANGED <<file, touched, faults>> /\ Elsewhere

\* verifyLicense writes a valid license back with what is shown beside it.  Whose
\* account it is about no longer matters when nobody waits.
TaskVerifies(i) ==
  /\ Turn(i) /\ jobs[i].stage = "queued" /\ jobs[i].op = "verify"
  /\ \/ /\ Valid(file, user.account) \/ (~jobs[i].awaited /\ file # None)
        /\ jobs' = [jobs EXCEPT ![i].stage = "writing", ![i].license = file, ![i].expects = file]
        /\ touched' = FALSE /\ user' = IF jobs[i].awaited THEN [user EXCEPT !.license = file] ELSE user
        /\ UNCHANGED answer
     \/ /\ ~Valid(file, user.account)
        /\ Leaves(i, IF file # None /\ Owner[file] # user.account THEN "foreign" ELSE "missing")
        /\ UNCHANGED <<touched, user>>
  /\ UNCHANGED <<file, faults, world, plugin, check, sync>>

TaskWrites(i) ==
  /\ Turn(i) /\ jobs[i].stage = "writing"
  /\ file' = jobs[i].license /\ touched' = FALSE /\ Leaves(i, "ok")
  /\ UNCHANGED faults /\ Elsewhere

\* A valid license stays valid though it cannot be written back.
TaskFails(i) ==
  /\ Turn(i) /\ Hurt
  /\ Leaves(i, IF jobs[i].op = "verify" /\ jobs[i].stage = "writing" THEN "ok" ELSE "failed")
  /\ touched' = FALSE /\ UNCHANGED file /\ Elsewhere

\* The caller stops waiting; the task does not stop.
TaskTimesOut(i) ==
  /\ Hurt /\ jobs[i].awaited
  /\ jobs' = [jobs EXCEPT ![i].awaited = FALSE]
  /\ answer' = [answer EXCEPT ![jobs[i].by] = "failed"]
  /\ UNCHANGED <<file, touched>> /\ Elsewhere

Task == \E i \in DOMAIN jobs : TaskReads(i) \/ TaskIsLate(i) \/ TaskFindsNothing(i) \/ TaskVerifies(i) \/ TaskWrites(i)

-----------------------------------------------------------------------------
\* The synchronisation with the service

\* syncHomepageServerLicense
StartSync(u, isDue) ==
  IF sync.step = "idle" /\ isDue THEN sync' = [NoSync EXCEPT !.step = "read", !.account = u] /\ due' = FALSE
  ELSE UNCHANGED sync /\ due' = isDue

Serves(u) == offer[u] # None /\ offer[u] \notin revoked \cup expired
Reply(l, u) ==
  IF l \in revoked THEN {"keep", "clear"}
  ELSE IF Owner[l] = u /\ Serves(u) /\ offer[u] # l THEN {"changed"} ELSE {"same"}

SyncStep(from) == sync.step = from /\ UNCHANGED <<world, store, refresh, cooling, grace, user>>
SyncEnds == sync' = NoSync
SyncLeaves == UNCHANGED <<face, timer, withdrawn, due, check>>

SyncReads ==
  /\ SyncStep("read")
  /\ sync' = IF file = None THEN NoSync ELSE [sync EXCEPT !.step = "ask", !.expects = file]
  /\ SyncLeaves /\ UNCHANGED <<queue, faults>>

SyncAsks ==
  /\ SyncStep("ask")
  /\ \E r \in Reply(sync.expects, sync.account) :
       sync' = [sync EXCEPT !.step = "identity", !.reply = r,
                            !.license = IF r = "changed" THEN offer[sync.account] ELSE None]
  /\ SyncLeaves /\ UNCHANGED <<queue, faults>>

\* A request that fails, a file that cannot be read: the license stays as it is.
SyncGivesUp ==
  /\ \E step \in {"read", "ask"} : SyncStep(step)
  /\ Hurt /\ SyncEnds /\ SyncLeaves /\ UNCHANGED queue

\* The account is asked again whenever the service or the file has been waited for.
SyncWithoutAccount ==
  /\ \E step \in {"identity", "again", "confirm"} : SyncStep(step)
  /\ account = None
  /\ SyncEnds /\ SyncLeaves /\ UNCHANGED <<queue, faults>>

Switched(u) == account \notin {None, u}

SyncFindsSwitch ==
  /\ \E step \in {"identity", "again"} : SyncStep(step)
  /\ Switched(sync.account)
  /\ face' = Without(face, sync.account) /\ Forget /\ timer' = TRUE /\ SyncEnds
  /\ UNCHANGED <<check, queue, faults>>

SyncGoesOn ==
  /\ SyncStep("identity") /\ account = sync.account /\ sync.reply = "changed"
  /\ sync' = [sync EXCEPT !.step = "again"]
  /\ SyncLeaves /\ UNCHANGED <<queue, faults>>

\* The service no longer withdraws the license: a new check may grant it.
SyncReinstates ==
  /\ SyncStep("identity") /\ account = sync.account /\ sync.reply = "same"
  /\ IF withdrawn = sync.expects THEN withdrawn' = None /\ Verify(face, TRUE)
     ELSE UNCHANGED <<withdrawn, face, check>>
  /\ SyncEnds /\ UNCHANGED <<timer, due, queue, faults>>

SyncWithdraws ==
  /\ SyncStep("identity") /\ account = sync.account /\ sync.reply \in {"keep", "clear"}
  /\ withdrawn' = sync.expects /\ face' = Denied(face) /\ timer' = TRUE
  /\ IF sync.reply = "keep" THEN SyncEnds /\ UNCHANGED queue
     ELSE sync' = [sync EXCEPT !.step = "deleting"] /\ Enqueue("sync", "delete", None, sync.expects)
  /\ UNCHANGED <<due, check, faults>>

SyncStores ==
  /\ SyncStep("again") /\ account = sync.account
  /\ IF Valid(sync.license, sync.account)
     THEN sync' = [sync EXCEPT !.step = "saving"] /\ Enqueue("sync", "save", sync.license, sync.expects)
     ELSE SyncEnds /\ UNCHANGED queue
  /\ SyncLeaves /\ UNCHANGED faults

SyncHasStored ==
  /\ SyncStep("saving") /\ Heard("sync")
  /\ sync' = IF answer["sync"] = "ok" THEN [sync EXCEPT !.step = "confirm"] ELSE NoSync
  /\ timer' = (timer \/ answer["sync"] = "changed")
  /\ UNCHANGED <<face, withdrawn, due, check, faults>>

SyncGrants ==
  /\ SyncStep("confirm") /\ account = sync.account
  /\ withdrawn' = None /\ face' = GrantedBy(face, sync.license) /\ timer' = TRUE /\ SyncEnds
  /\ UNCHANGED <<due, check, queue, faults>>

SyncTakesBack ==
  /\ SyncStep("confirm") /\ Switched(sync.account)
  /\ face' = Without(face, sync.account) /\ Forget
  /\ sync' = [sync EXCEPT !.step = "cleaning"] /\ Enqueue("sync", "delete", None, sync.license)
  /\ UNCHANGED <<timer, check, faults>>

SyncHasTakenBack ==
  /\ SyncStep("cleaning") /\ Heard("sync")
  /\ face' = IF answer["sync"] = "failed" THEN Failed(face) ELSE face
  /\ timer' = TRUE /\ SyncEnds
  /\ UNCHANGED <<withdrawn, due, check, faults>>

SyncHasDeleted ==
  /\ SyncStep("deleting") /\ Heard("sync")
  /\ timer' = (timer \/ answer["sync"] # "failed") /\ SyncEnds
  /\ UNCHANGED <<face, withdrawn, due, check, faults>>

Synchronise ==
  \/ SyncReads \/ SyncAsks \/ SyncWithoutAccount \/ SyncFindsSwitch \/ SyncGoesOn \/ SyncReinstates
  \/ SyncWithdraws \/ SyncStores \/ SyncHasStored \/ SyncGrants \/ SyncTakesBack
  \/ SyncHasTakenBack \/ SyncHasDeleted

-----------------------------------------------------------------------------
\* The check

CheckStep(at) == check.step = at /\ UNCHANGED <<world, store, refresh, grace, user>>
To(at) == check' = [check EXCEPT !.step = at]

\* Mutant: the next check is only armed by what the plugin hears of.
CheckEndsUnarmed(f) ==
  /\ check' = NoCheck /\ UNCHANGED timer
  /\ face' = [f EXCEPT !.starts = IF f.starts = {} THEN {} ELSE {"due"}]
\* Every end of a check arms the next one; who waited for it goes on.
CheckEnds(f) ==
  /\ check' = NoCheck /\ timer' = TRUE
  /\ face' = [f EXCEPT !.starts = IF f.starts = {} THEN {} ELSE {"due"}]
Quietly == UNCHANGED <<withdrawn, cooling, sync, due>>

\* handleHomepageEntitlementCheckFailure
CheckFails == CheckEnds(Failed(face)) /\ Quietly

ReadsAccount ==
  /\ CheckStep("identity")
  /\ check' = [check EXCEPT !.step = "license", !.account = account]
  /\ IF Granted /\ Switched(Owner[face.snapshot.license])
     THEN face' = Without(face, Owner[face.snapshot.license]) /\ Forget
     ELSE UNCHANGED <<face, withdrawn, due>>
  /\ UNCHANGED <<timer, cooling, sync, queue, faults>>

\* The account does not answer, the license cannot be read, or in time.
CheckGivesUp ==
  /\ \E at \in {"identity", "license", "expired", "ask", "current"} : CheckStep(at)
  /\ Hurt /\ CheckFails /\ UNCHANGED queue

WithoutAccount ==
  /\ CheckStep("license") /\ check.account = None
  /\ CheckFails /\ UNCHANGED <<queue, faults>>

LicenseHolds ==
  /\ CheckStep("license") /\ Valid(file, check.account)
  /\ IF withdrawn = None
     THEN CheckEnds(GrantedBy(face, file)) /\ IF check.syncs THEN StartSync(check.account, due) ELSE UNCHANGED <<sync, due>>
     ELSE check' = [check EXCEPT !.step = "saved", !.license = file] /\ UNCHANGED <<face, timer, sync, due>>
  /\ UNCHANGED <<withdrawn, cooling, queue, faults>>

\* The license of another account, or on the desktop none or one that is over.
LicenseFails ==
  /\ CheckStep("license") /\ check.account # None /\ ~Valid(file, check.account)
  /\ mobile => file # None /\ Owner[file] # check.account
  /\ CheckEnds(Denied(face)) /\ Quietly /\ UNCHANGED <<queue, faults>>

\* startHomepageMembershipRecovery
Recover(expects) ==
  IF check.account \in cooling THEN CheckFails
  ELSE /\ cooling' = cooling \cup {check.account}
       /\ check' = [check EXCEPT !.step = "ask", !.expects = expects]
       /\ UNCHANGED <<face, timer, withdrawn, sync, due>>

LicenseIsMissing ==
  /\ CheckStep("license") /\ check.account # None /\ mobile /\ file = None
  /\ IF grace THEN CheckFails ELSE Recover(None)
  /\ UNCHANGED <<queue, faults>>

LicenseIsOver ==
  /\ CheckStep("license") /\ mobile /\ file # None /\ Owner[file] = check.account /\ file \in expired
  /\ To("expired") /\ Quietly /\ UNCHANGED <<face, timer, queue, faults>>

ReadsExpired ==
  /\ CheckStep("expired")
  /\ IF file = None THEN CheckFails ELSE Recover(file)
  /\ UNCHANGED <<queue, faults>>

\* The license was fine when it was read, but the service has withdrawn one.
\* A second reading that finds or gets nothing leaves the first one valid.
IsWithdrawn ==
  /\ CheckStep("saved") /\ file # None /\ file = withdrawn
  /\ CheckEnds(Denied(face))
  /\ IF check.syncs THEN StartSync(check.account, TRUE) ELSE due' = TRUE /\ UNCHANGED sync
  /\ UNCHANGED <<withdrawn, cooling, queue, faults>>

IsAnother ==
  /\ CheckStep("saved")
  /\ \/ file # None /\ file # withdrawn /\ withdrawn' = None /\ UNCHANGED faults
     \/ file = None /\ UNCHANGED <<withdrawn, faults>>
     \/ Hurt /\ UNCHANGED withdrawn
  /\ CheckEnds(GrantedBy(face, check.license))
  /\ IF check.syncs THEN StartSync(check.account, due) ELSE UNCHANGED <<sync, due>>
  /\ UNCHANGED <<cooling, queue>>

AsksService ==
  /\ CheckStep("ask")
  /\ IF Serves(check.account)
     THEN check' = [check EXCEPT !.step = "live", !.license = offer[check.account]] /\ UNCHANGED <<face, timer>>
     ELSE CheckEnds(Denied(face))
  /\ Quietly /\ UNCHANGED <<queue, faults>>

LosesAccount ==
  /\ \E at \in {"live", "again", "confirm"} : CheckStep(at)
  /\ account = None
  /\ CheckFails /\ UNCHANGED <<queue, faults>>

IdentityChanged == CheckEnds(Without(face, check.account)) /\ Forget /\ UNCHANGED <<cooling, sync>>

FindsSwitch ==
  /\ \E at \in {"live", "again"} : CheckStep(at)
  /\ Switched(check.account)
  /\ IdentityChanged /\ UNCHANGED <<queue, faults>>

SeesAccount ==
  /\ CheckStep("live") /\ account = check.account
  /\ To("current") /\ Quietly /\ UNCHANGED <<face, timer, queue, faults>>

\* A recovered license may replace nothing, or the copy that has run out.
Replaceable == file = check.expects /\ file \in {None} \cup {l \in expired : Owner[l] = check.account}

\* recovered or local_valid
Recovered(l) ==
  /\ CheckEnds(GrantedBy(face, l)) /\ cooling' = cooling \ {check.account}
  /\ UNCHANGED <<withdrawn, sync, due>>

ReadsCurrent ==
  /\ CheckStep("current")
  /\ \/ Valid(file, check.account) /\ Recovered(file)
     \/ Replaceable /\ To("again") /\ Quietly /\ UNCHANGED <<face, timer>>
     \/ ~Valid(file, check.account) /\ ~Replaceable /\ CheckEnds(face) /\ Quietly
  /\ UNCHANGED <<queue, faults>>

Stores ==
  /\ CheckStep("again") /\ account = check.account
  /\ IF Valid(check.license, account)
     THEN /\ To("saving") /\ Enqueue("check", "save", check.license, check.expects)
          /\ Quietly /\ UNCHANGED <<face, timer>>
     ELSE CheckFails /\ UNCHANGED queue
  /\ UNCHANGED faults

HasStored ==
  /\ CheckStep("saving") /\ Heard("check")
  /\ \/ answer["check"] = "ok" /\ To("confirm") /\ UNCHANGED <<face, timer>>
     \/ answer["check"] = "changed" /\ CheckEnds(face)
     \/ answer["check"] = "failed" /\ CheckEnds(Failed(face))
  /\ Quietly /\ UNCHANGED faults

Confirms ==
  /\ CheckStep("confirm") /\ account = check.account
  /\ Recovered(check.license) /\ UNCHANGED <<queue, faults>>

TakesBack ==
  /\ CheckStep("confirm") /\ Switched(check.account)
  /\ To("cleaning") /\ Enqueue("check", "delete", None, check.license)
  /\ Quietly /\ UNCHANGED <<face, timer, faults>>

HasTakenBack ==
  /\ CheckStep("cleaning") /\ Heard("check")
  /\ \/ answer["check"] \in {"ok", "missing"} /\ IdentityChanged
     \/ answer["check"] = "changed" /\ CheckEnds(face) /\ Quietly
     \/ answer["check"] = "failed" /\ CheckFails
  /\ UNCHANGED faults

Check ==
  \/ ReadsAccount \/ WithoutAccount \/ LicenseHolds \/ LicenseFails \/ LicenseIsMissing
  \/ LicenseIsOver \/ ReadsExpired \/ IsWithdrawn \/ IsAnother \/ AsksService \/ LosesAccount
  \/ FindsSwitch \/ SeesAccount \/ ReadsCurrent \/ Stores \/ HasStored \/ Confirms \/ TakesBack
  \/ HasTakenBack

-----------------------------------------------------------------------------
\* The settings page

\* One operation at a time; every one begins by asking for the account.
Clicks(op) ==
  /\ user.step = "idle" /\ edits < MaxEdits /\ account # None
  /\ user' = [NoUser EXCEPT !.step = op, !.account = account] /\ edits' = edits + 1
  /\ UNCHANGED <<account, expired, revoked, offer, mobile, store, plugin, check, sync, queue, faults>>

Deactivates ==
  /\ user.step = "idle" /\ edits < MaxEdits
  /\ user' = [NoUser EXCEPT !.step = "deleting"] /\ edits' = edits + 1
  /\ Enqueue("user", "delete", None, Whatever)
  /\ UNCHANGED <<account, expired, revoked, offer, mobile, store, plugin, check, sync, faults>>

PageStep(at) ==
  /\ user.step = at
  /\ UNCHANGED <<store, timer, refresh, withdrawn, due, cooling, grace, sync>>
PageWaits == UNCHANGED <<world, face, check, faults>>
PageEnds == user' = NoUser
PageTo(at, l) == user' = [user EXCEPT !.step = at, !.license = l]

\* handleRedeem: the service issues a license.
Redeems ==
  /\ PageStep("redeem")
  /\ \E l \in Licenses \ (expired \cup revoked) :
       /\ Owner[l] = user.account
       /\ offer' = [offer EXCEPT ![user.account] = l] /\ PageTo("issued", l)
  /\ UNCHANGED <<account, expired, revoked, mobile, edits, face, check, queue, faults>>

\* handleRecoverExistingMembership
Recovers ==
  /\ PageStep("recover")
  /\ IF Serves(user.account) THEN PageTo("issued", offer[user.account]) ELSE PageEnds
  /\ PageWaits /\ UNCHANGED queue

\* handleRefreshMembershipStatus reads the license, once more after it has been
\* registered with the service; handleMainTabChange reads it and has it verified.
PageReads ==
  /\ \/ file = None /\ (PageStep("refresh") \/ PageStep("open")) /\ PageEnds /\ UNCHANGED queue
     \/ file # None /\ PageStep("refresh") /\ user' = [user EXCEPT !.step = "sync", !.had = file] /\ UNCHANGED queue
     \/ file # None /\ PageStep("open") /\ user' = [user EXCEPT !.step = "verifying", !.had = file]
        /\ Enqueue("user", "verify", None, Whatever)
  /\ PageWaits

PageSyncs ==
  /\ PageStep("sync")
  /\ \E reply \in Reply(user.had, user.account) :
       \/ reply = "changed" /\ PageTo("issued", offer[user.account])
       \/ reply = "same" /\ PageTo("active", None)
       \/ reply = "clear" /\ PageTo("cleared", None)
       \/ reply = "keep" /\ PageEnds
  /\ PageWaits /\ UNCHANGED queue

\* The account is asked again after the service and after the file.
PageFindsSwitch ==
  /\ \E at \in {"issued", "active", "cleared", "confirm"} : PageStep(at)
  /\ account # user.account
  /\ PageEnds /\ PageWaits /\ UNCHANGED queue

\* What the page was given is stored whatever the file holds by now.
PageStores ==
  /\ PageStep("issued") /\ account = user.account
  /\ IF Valid(user.license, account)
     THEN PageTo("saving", user.license) /\ Enqueue("user", "save", user.license, Whatever)
     ELSE PageEnds /\ UNCHANGED queue
  /\ PageWaits

PageGoesOn ==
  /\ account = user.account
  /\ \/ PageStep("active") /\ PageTo("reading", None)
     \/ PageStep("cleared") /\ PageTo("rereading", None)
  /\ PageWaits /\ UNCHANGED queue

PageRereads ==
  /\ \/ PageStep("reading") /\ Valid(file, user.account) /\ PageTo("confirm", file) /\ UNCHANGED queue
     \/ PageStep("reading") /\ ~Valid(file, user.account) /\ PageEnds /\ UNCHANGED queue
     \/ PageStep("rereading") /\ file = user.had /\ PageTo("clearing", None)
        /\ Enqueue("user", "delete", None, user.had)
     \/ PageStep("rereading") /\ file # user.had /\ PageEnds /\ UNCHANGED queue
  /\ PageWaits

PageHasStored ==
  /\ PageStep("saving") /\ Heard("user")
  /\ IF answer["user"] = "ok" THEN PageTo("confirm", user.license) ELSE PageEnds
  /\ PageWaits

\* handleVipMembershipActivated
PageGrants ==
  /\ PageStep("confirm") /\ account = user.account
  /\ Verify(GrantedBy(face, user.license), TRUE) /\ PageEnds
  /\ UNCHANGED <<world, queue, faults>>

\* handleVipDeactivate and the refresh, with handleVipMembershipRevoked
HasDeleted ==
  /\ \E at \in {"clearing", "deleting"} : PageStep(at)
  /\ Heard("user") /\ PageEnds
  /\ IF answer["user"] \in {"ok", "missing"}
     THEN Verify(Denied(face), TRUE) ELSE UNCHANGED <<face, check>>
  /\ UNCHANGED <<world, faults>>

\* The license of another account is deleted when the page opens.
HasVerified ==
  /\ PageStep("verifying") /\ answer["user"] # "none"
  /\ IF answer["user"] = "foreign"
     THEN PageTo("purging", None) /\ Enqueue("user", "delete", None, user.had)
     ELSE PageEnds /\ Heard("user")
  /\ PageWaits

HasPurged ==
  /\ PageStep("purging") /\ answer["user"] # "none"
  /\ IF answer["user"] = "changed"
     THEN PageTo("rechecking", None) /\ Enqueue("user", "verify", None, Whatever)
     ELSE PageEnds /\ Heard("user")
  /\ PageWaits

HasRechecked ==
  /\ PageStep("rechecking") /\ Heard("user") /\ PageEnds
  /\ IF answer["user"] = "ok"
     THEN Verify(GrantedBy(face, user.license), TRUE) ELSE UNCHANGED <<face, check>>
  /\ UNCHANGED <<world, faults>>

\* A request fails or is refused, or the page is left: a task that waits goes on.
PageStops ==
  /\ \E at \in Requests \cup {"saving", "clearing"} : PageStep(at)
  /\ Hurt /\ PageEnds
  /\ jobs' = [i \in DOMAIN jobs |->
                IF jobs[i].by = "user" THEN [jobs[i] EXCEPT !.awaited = FALSE] ELSE jobs[i]]
  /\ answer' = [answer EXCEPT !["user"] = "none"]
  /\ UNCHANGED <<world, face, check>>

Page ==
  \/ Redeems \/ Recovers \/ PageReads \/ PageSyncs \/ PageFindsSwitch \/ PageStores \/ PageGoesOn
  \/ PageRereads \/ PageHasStored \/ PageGrants \/ HasDeleted \/ HasVerified \/ HasPurged \/ HasRechecked

-----------------------------------------------------------------------------
\* Timers, time and the runtimes

Elapses == UNCHANGED <<world, store, sync, user, queue, faults>>

TimerFires ==
  /\ timer /\ timer' = FALSE /\ Verify(face, TRUE)
  /\ Elapses /\ UNCHANGED <<refresh, withdrawn, due, cooling, grace>>

RefreshFires ==
  /\ refresh /\ refresh' = FALSE /\ Verify(face, FALSE)
  /\ Elapses /\ UNCHANGED <<timer, withdrawn, due, cooling, grace>>

\* The window comes to the front, or a feature waits for the answer.
Looks ==
  /\ check.step = "idle" /\ Verify(face, TRUE)
  /\ Elapses /\ UNCHANGED <<timer, refresh, withdrawn, due, cooling, grace>>

\* A synchronisation of SiYuan ends and arms the refresh, or eight seconds pass.
GraceEnds ==
  /\ grace /\ grace' = FALSE /\ refresh' \in {refresh, TRUE}
  /\ Elapses /\ UNCHANGED <<face, timer, withdrawn, due, cooling, check>>

HalfHour ==
  /\ ~due /\ due' = TRUE
  /\ Elapses /\ UNCHANGED <<face, timer, refresh, withdrawn, cooling, grace, check>>

Cools ==
  /\ cooling # {} /\ cooling' = {}
  /\ Elapses /\ UNCHANGED <<face, timer, refresh, withdrawn, due, grace, check>>

\* Mutant: what waited starts.
StartsAnyway == TRUE
\* The grant may have gone while the start waited.
MayStart == Granted
StartsRuntimes ==
  /\ "due" \in face.starts
  /\ face' = [face EXCEPT !.starts = @ \ {"due"}, !.running = @ \/ MayStart,
                          !.centre = IF MayStart /\ ~face.running /\ ~mobile THEN "on" ELSE @]
  /\ Elapses /\ UNCHANGED <<timer, refresh, withdrawn, due, cooling, grace, check>>

\* The robot client has ended: the centre is destroyed, the one that a start has
\* brought up meanwhile too.
StopEnds ==
  /\ face.stops > 0
  /\ face' = [face EXCEPT !.stops = @ - 1,
                          !.centre = IF @ # "off" /\ face.running THEN "lost" ELSE "off"]
  /\ Elapses /\ UNCHANGED <<timer, refresh, withdrawn, due, cooling, grace, check>>

-----------------------------------------------------------------------------
\* The world

Changes == edits < MaxEdits /\ edits' = edits + 1 /\ UNCHANGED <<mobile, check, sync, user, queue, faults>>

SwitchesAccount ==
  /\ Changes /\ account' \in (Users \cup {None}) \ {account}
  /\ UNCHANGED <<expired, revoked, offer, store, plugin>>

FileArrives ==
  /\ Changes /\ file' \in MaybeLicense \ {file} /\ refresh' = TRUE
  /\ touched' = \E i \in DOMAIN jobs : jobs[i].stage = "writing"
  /\ UNCHANGED <<account, expired, revoked, offer, face, timer, withdrawn, due, cooling, grace>>

SiyuanSyncs ==
  /\ Changes /\ ~grace /\ grace' = TRUE
  /\ UNCHANGED <<account, expired, revoked, offer, store, face, timer, refresh, withdrawn, due, cooling>>

DayEnds ==
  /\ Changes /\ \E l \in Licenses \ expired : expired' = expired \cup {l}
  /\ UNCHANGED <<account, revoked, offer, store, plugin>>

ServiceDecides ==
  /\ Changes
  /\ \/ \E l \in Licenses : revoked' = (revoked \ {l}) \cup ({l} \ revoked) /\ UNCHANGED offer
     \/ \E u \in Users : \E l \in MaybeLicense \ {offer[u]} :
          /\ l # None => Owner[l] = u
          /\ offer' = [offer EXCEPT ![u] = l] /\ UNCHANGED revoked
  /\ UNCHANGED <<account, expired, store, plugin>>

-----------------------------------------------------------------------------
Fresh ==
  [snapshot |-> Snapshot("pending"), told |-> FALSE, starts |-> {"waiting"},
   running |-> FALSE, centre |-> "off", stops |-> 0]

Init ==
  /\ account \in Users \cup {None} /\ file \in MaybeLicense
  /\ expired = {} /\ revoked = {} /\ mobile \in BOOLEAN
  /\ offer \in [Users -> MaybeLicense] /\ \A u \in Users : offer[u] # None => Owner[offer[u]] = u
  /\ face = Fresh /\ timer = FALSE /\ refresh = FALSE /\ withdrawn = None /\ due = TRUE
  /\ cooling = {} /\ grace = TRUE
  /\ check = NewCheck(TRUE) /\ sync = NoSync /\ user = NoUser
  /\ jobs = <<>> /\ answer = [p \in Parties |-> "none"] /\ touched = FALSE
  /\ edits = 0 /\ faults = 0

\* Nothing outlives the window but the file.
Reload ==
  /\ Hurt
  /\ face' = Fresh /\ timer' = FALSE /\ refresh' = FALSE /\ withdrawn' = None /\ due' = TRUE
  /\ cooling' = {} /\ grace' = TRUE
  /\ check' = NewCheck(TRUE) /\ sync' = NoSync /\ user' = NoUser
  /\ jobs' = <<>> /\ answer' = [p \in Parties |-> "none"]
  /\ UNCHANGED <<world, store>>

Faults == CheckGivesUp \/ SyncGivesUp \/ PageStops \/ \E i \in DOMAIN jobs : TaskFails(i) \/ TaskTimesOut(i)
World == SwitchesAccount \/ FileArrives \/ SiyuanSyncs \/ DayEnds \/ ServiceDecides
Clock == TimerFires \/ RefreshFires \/ GraceEnds \/ HalfHour \/ Cools

Next ==
  \/ Check \/ Synchronise \/ Task \/ Page \/ Clock \/ StartsRuntimes \/ StopEnds
  \/ Looks \/ Deactivates \/ \E op \in Clickable : Clicks(op)
  \/ World \/ Faults \/ Reload

Spec == Init /\ [][Next]_vars

\* Promises settle, each within a time limit of its own; timers fire and time passes.
Fairness ==
  /\ WF_vars(Check) /\ WF_vars(Synchronise) /\ WF_vars(Task) /\ WF_vars(Page)
  /\ WF_vars(TimerFires) /\ WF_vars(RefreshFires) /\ WF_vars(GraceEnds)
  /\ WF_vars(HalfHour) /\ WF_vars(Cools)
  /\ WF_vars(StartsRuntimes) /\ WF_vars(StopEnds)
FairSpec == Spec /\ Fairness

-----------------------------------------------------------------------------
\* Correctness

\* What somebody asked for on the settings page is stored or removed whatever
\* the file holds: a code redeemed, a membership recovered or refreshed, a removal.
AskedFor(j) == j.by = "user" /\ j.expects = Whatever

\* A check or a synchronisation that worked from an older license never overwrites
\* or deletes a newer one, however late its task comes, and no more does the page
\* when it clears a license the service has withdrawn or that is another
\* account's.  Two things are not claimed: what the page stores because somebody
\* asked for it does overwrite a newer license that came since (advanced.ts:443),
\* and another device's writing at that very moment no queue can order.
KeepsNewer ==
  [][\A i \in DOMAIN jobs :
       TaskWrites(i) /\ ~AskedFor(jobs[i]) /\ ~touched => file = jobs[i].expects]_vars

\* Once the listeners are told that the features are gone, no start that was
\* waiting brings the runtimes back before they are told otherwise, and the
\* notification centre outlives that only until the stop has ended.
StopHolds ==
  /\ face.running \/ Granted => face.told
  /\ face.centre = "on" => face.told \/ face.stops > 0

\* Once account, file and service are left alone, the features follow them: they
\* are granted for a license of this account that runs and is not withdrawn, and
\* then the runtimes run: those that stop at once in any case, and on the desktop
\* the notification centre, unless a stop that began before its start has ended
\* after it.  Then nothing starts it again while the grant lasts.
Entitled == Valid(file, account) /\ file \notin revoked
Runs == face.running /\ (mobile \/ face.centre # "off")
Settles == <>[](account # None) => <>[](Granted = Entitled /\ (Granted => Runs))
=============================================================================

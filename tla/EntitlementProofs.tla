-------------------------- MODULE EntitlementProofs --------------------------
(***************************************************************************)
(* Proofs about Entitlement, for every set of accounts and licenses and    *)
(* any number of changes, failures and reloads: no late write hurts a newer *)
(* license, and a stop of the runtimes holds.                              *)
(***************************************************************************)
EXTENDS Entitlement, TLAPS

----------------------------------------------------------------------------
\* The snapshot and who follows it.

\* The features run, or may run, only when the listeners were told so; the centre
\* stays until the stop after that has ended.  There is none on mobile.
Good(f) ==
  /\ f \in Faces /\ (f.running \/ Holds(f.snapshot) => f.told)
  /\ f.centre = "on" => ~mobile /\ (f.told \/ f.stops > 0)

\* What may be published: a grant has a license.
Grants == [status : {"granted"}, license : Licenses]
Refusals == [status : {"pending", "denied", "error"}, license : {None}]

LEMMA PublishingIsGood ==
  ASSUME NEW f, Good(f), NEW s \in Grants \cup Refusals
  PROVE  Good(Published(f, s))
<1> DEFINE seen == IF s.status = "granted" /\ ~Holds(s) THEN Snapshot("denied") ELSE s
<1> DEFINE now == [f EXCEPT !.snapshot = seen]
<1>1. seen \in Snapshots
  BY DEF Grants, Refusals, Snapshots, Snapshot
<1>2. /\ now \in Faces /\ now.snapshot = seen /\ now.told = f.told /\ now.running = f.running
      /\ now.starts = f.starts /\ now.centre = f.centre /\ now.stops = f.stops
  BY <1>1 DEF Good, Faces
<1> HIDE DEF now, seen
<1>3. CASE Holds(f.snapshot) = Holds(seen)
  <2>1. Published(f, s) = now
    BY <1>3 DEF Published, now, seen
  <2>2. QED BY <1>2, <1>3, <2>1 DEF Good
<1>4. CASE Holds(f.snapshot) # Holds(seen) /\ Holds(seen)
  <2>1. Published(f, s) = Ready(now)
    BY <1>4 DEF Published, now, seen
  <2>2. Ready(now) \in Faces /\ Ready(now).told /\ Ready(now).centre = f.centre
    BY <1>2 DEF Ready, Faces
  <2>3. QED BY <2>1, <2>2 DEF Good
<1>5. CASE Holds(f.snapshot) # Holds(seen) /\ ~Holds(seen)
  <2>1. Published(f, s) = Unavailable(now)
    BY <1>5 DEF Published, now, seen
  <2>2. /\ Unavailable(now) \in Faces /\ ~Unavailable(now).running
        /\ Unavailable(now).snapshot = seen /\ Unavailable(now).centre = f.centre
        /\ ~mobile => Unavailable(now).stops > 0
    <3>1. now \in Faces /\ now.stops \in Nat
      BY <1>2 DEF Faces
    <3>2. PICK n \in Nat :
            /\ Unavailable(now) = [now EXCEPT !.told = FALSE, !.running = FALSE, !.stops = n]
            /\ ~mobile => n > 0
      <4>1. CASE mobile
        BY <3>1, <4>1 DEF Unavailable
      <4>2. CASE ~mobile
        <5>1. now.stops + 1 \in Nat /\ now.stops + 1 > 0
          BY <3>1
        <5>2. Unavailable(now) =
                [now EXCEPT !.told = FALSE, !.running = FALSE, !.stops = now.stops + 1]
          BY <4>2 DEF Unavailable
        <5>3. QED BY <5>1, <5>2
      <4>3. QED BY <4>1, <4>2
    <3>3. QED BY <1>2, <3>1, <3>2 DEF Faces
  <2>3. QED BY <1>5, <2>1, <2>2 DEF Good
<1>6. QED BY <1>3, <1>4, <1>5

LEMMA RefusingIsGood ==
  ASSUME NEW f, Good(f)
  PROVE  Good(Pending(f)) /\ Good(Failed(f)) /\ Good(Denied(f))
<1>1. \A x \in {"pending", "denied", "error"} : Snapshot(x) \in Refusals
  BY DEF Snapshot, Refusals
<1>2. QED BY <1>1, PublishingIsGood DEF Pending, Failed, Denied

LEMMA GrantingIsGood ==
  ASSUME NEW f, Good(f), NEW l \in Licenses
  PROVE  Good(GrantedBy(f, l))
<1>1. [status |-> "granted", license |-> l] \in Grants
  BY DEF Grants
<1>2. QED BY <1>1, PublishingIsGood DEF GrantedBy

LEMMA InvalidatingIsGood ==
  ASSUME NEW f, Good(f), NEW u
  PROVE  Good(Without(f, u))
<1>1. Snapshot("pending") \in Refusals
  BY DEF Snapshot, Refusals
<1>2. QED BY <1>1, PublishingIsGood DEF Without

\* A check that begins or ends leaves the snapshot good.
LEMMA EndingIsGood ==
  ASSUME NEW f, Good(f), CheckEnds(f)
  PROVE  Good(face')
BY DEF CheckEnds, Good, Faces

LEMMA VerifyingIsGood ==
  ASSUME NEW f, Good(f), NEW syncs, Verify(f, syncs)
  PROVE  Good(face')
BY RefusingIsGood DEF Verify

LEMMA StaysGood ==
  ASSUME Good(face'), expired' = expired, mobile' = mobile
  PROVE  Good(face)'
BY DEF Good, Holds

----------------------------------------------------------------------------
\* The queue of writes.

LEMMA RemovingTheFirst ==
  ASSUME NEW S, NEW s \in Seq(S), NEW i, i = 1, i \in DOMAIN s
  PROVE  /\ RemoveAt(s, i) \in Seq(S)
         /\ \A k \in DOMAIN RemoveAt(s, i) : k + 1 \in DOMAIN s /\ RemoveAt(s, i)[k] = s[k + 1]
<1>1. Len(s) \in Nat /\ Len(s) >= 1
  OBVIOUS
<1>2. SubSeq(s, 1, 0) = <<>>
  OBVIOUS
<1>3. SubSeq(s, 2, Len(s)) \in Seq(S)
  OBVIOUS
<1>4. RemoveAt(s, i) = SubSeq(s, 2, Len(s))
  BY <1>2, <1>3 DEF RemoveAt
<1>5. /\ Len(SubSeq(s, 2, Len(s))) = Len(s) - 1
      /\ \A k \in 1 .. Len(s) - 1 : SubSeq(s, 2, Len(s))[k] = s[k + 1]
  BY <1>1
<1>6. DOMAIN RemoveAt(s, i) = 1 .. Len(s) - 1
  BY <1>1, <1>3, <1>4, <1>5
<1>7. ASSUME NEW k \in DOMAIN RemoveAt(s, i)
      PROVE  k + 1 \in DOMAIN s /\ RemoveAt(s, i)[k] = s[k + 1]
  <2>1. k \in 1 .. Len(s) - 1
    BY <1>6
  <2>2. k + 1 \in DOMAIN s
    BY <1>1, <2>1
  <2>3. SubSeq(s, 2, Len(s))[k] = s[k + 1]
    BY <1>5, <2>1
  <2>4. QED BY <1>4, <2>2, <2>3
<1>8. QED BY <1>3, <1>4, <1>7

QueueType == jobs \in Seq(Jobs) /\ answer \in [Parties -> Answers]

\* Only the first task may be writing, and then the file is still the one it
\* has looked at, unless another device has replaced it.
WriterIsRight ==
  \A i \in DOMAIN jobs :
    jobs[i].stage = "writing" => i = 1 /\ (touched \/ jobs[i].expects = Whatever \/ file = jobs[i].expects)

\* Checks and synchronisations always say which license they have in mind.
Minded == \A i \in DOMAIN jobs : jobs[i].by # "user" => jobs[i].expects # Whatever

\* The settings page waits for one task at a time, and it knows the license that a
\* second verification is going to find valid.
Waiting == {"saving", "clearing", "verifying", "purging", "rechecking", "deleting"}
Mine(j) == j.by = "user" /\ j.awaited
AtOnce(i) ==
  /\ user.step \in Waiting /\ answer["user"] = "none"
  /\ \A k \in DOMAIN jobs : Mine(jobs[k]) => k = i
  /\ user.step = "rechecking" =>
       jobs[i].op = "verify" /\ (jobs[i].stage = "writing" => user.license \in Licenses)
OneAtATime ==
  /\ \A i \in DOMAIN jobs : Mine(jobs[i]) => AtOnce(i)
  /\ user.step = "rechecking" /\ answer["user"] = "ok" => user.license \in Licenses

----------------------------------------------------------------------------
\* The invariant.

WorldType ==
  /\ account \in Users \cup {None} /\ file \in MaybeLicense
  /\ expired \subseteq Licenses /\ revoked \subseteq Licenses
  /\ offer \in [Users -> MaybeLicense] /\ mobile \in BOOLEAN /\ touched \in BOOLEAN
  /\ edits \in 0 .. MaxEdits /\ faults \in 0 .. MaxFaults

PluginType ==
  /\ timer \in BOOLEAN /\ refresh \in BOOLEAN /\ grace \in BOOLEAN
  /\ withdrawn \in MaybeLicense /\ due \in BOOLEAN /\ cooling \subseteq Users

\* Past its first steps a check knows whose license it is about, and which one
\* it is about to grant.
CheckKnows ==
  /\ check \in [step : CheckSteps, account : Users \cup {None}, syncs : BOOLEAN,
                license : MaybeLicense, expects : MaybeLicense]
  /\ check.step \notin {"idle", "identity", "license"} => check.account \in Users
  /\ check.step \in {"saved", "live", "current", "again", "saving", "confirm"} =>
       check.license \in Licenses

SyncKnows ==
  /\ sync \in [step : SyncSteps, account : Users \cup {None}, expects : MaybeLicense,
               reply : {"none", "same", "changed", "keep", "clear"}, license : MaybeLicense]
  /\ sync.step # "idle" => sync.account \in Users
  /\ sync.step \in {"saving", "confirm"} => sync.license \in Licenses

UserKnows ==
  /\ user \in [step : PageSteps, account : Users \cup {None}, had : MaybeLicense,
               license : MaybeLicense]
  /\ user.step \notin {"idle", "deleting"} => user.account \in Users
  /\ user.step \in {"issued", "saving", "confirm"} => user.license \in Licenses

Parts == WorldType /\ PluginType /\ CheckKnows /\ SyncKnows /\ UserKnows
Queue == QueueType /\ WriterIsRight /\ Minded /\ OneAtATime
IInv == Parts /\ Queue /\ Good(face)

LEMMA NothingYet ==
  /\ NoCheck \in [step : CheckSteps, account : Users \cup {None}, syncs : BOOLEAN,
                  license : MaybeLicense, expects : MaybeLicense]
  /\ NoSync \in [step : SyncSteps, account : Users \cup {None}, expects : MaybeLicense,
                 reply : {"none", "same", "changed", "keep", "clear"}, license : MaybeLicense]
  /\ NoUser \in [step : PageSteps, account : Users \cup {None}, had : MaybeLicense,
                 license : MaybeLicense]
  /\ Good(Fresh) /\ NoCheck.step = "idle" /\ NoSync.step = "idle" /\ NoUser.step = "idle"
BY DEF NoCheck, NoSync, NoUser, CheckSteps, SyncSteps, PageSteps, MaybeLicense, Good, Fresh, Faces,
       Snapshots, Snapshot, Holds

LEMMA InitIsRight == Init => IInv
<1> SUFFICES ASSUME Init PROVE IInv
  OBVIOUS
<1>1. WorldType /\ PluginType
  <2>1. MaxEdits \in Nat /\ MaxFaults \in Nat
    BY EntitlementAssumption
  <2>2. edits \in 0 .. MaxEdits /\ faults \in 0 .. MaxFaults
    BY <2>1 DEF Init
  <2>3. mobile \in BOOLEAN /\ touched \in BOOLEAN /\ PluginType
    BY DEF Init, PluginType, MaybeLicense
  <2>4. QED BY <2>2, <2>3 DEF Init, WorldType, MaybeLicense
<1>2. CheckKnows /\ SyncKnows /\ UserKnows
  BY NothingYet DEF Init, CheckKnows, SyncKnows, UserKnows, NewCheck, NoCheck, CheckSteps, MaybeLicense
<1>3. Queue
  BY NothingYet DEF Init, Queue, QueueType, WriterIsRight, Minded, OneAtATime, Parties, Answers
<1>4. Good(face)
  BY NothingYet DEF Init
<1>5. QED BY <1>1, <1>2, <1>3, <1>4 DEF IInv, Parts

----------------------------------------------------------------------------
\* What the pieces of a step keep.

LEMMA WorldFrame ==
  ASSUME WorldType, UNCHANGED <<world, store>>, faults' \in 0 .. MaxFaults
  PROVE  WorldType' /\ expired' = expired /\ mobile' = mobile
BY DEF WorldType, world, store

LEMMA HurtCounts ==
  ASSUME WorldType, Hurt
  PROVE  faults' \in 0 .. MaxFaults
<1>1. MaxFaults \in Nat
  BY EntitlementAssumption
<1>2. QED BY <1>1 DEF WorldType, Hurt

LEMMA QueueFrame ==
  ASSUME Queue, UNCHANGED <<store, queue, user>>
  PROVE  Queue'
BY DEF Queue, QueueType, WriterIsRight, Minded, OneAtATime, AtOnce, store, queue

\* A task is put behind the others.
LEMMA QueueTypeGrows ==
  ASSUME Queue, NEW by \in Parties, NEW op \in {"save", "delete", "verify"},
         NEW l \in MaybeLicense, NEW e \in MaybeLicense \cup {Whatever}, Enqueue(by, op, l, e)
  PROVE  /\ QueueType' /\ answer' = [answer EXCEPT ![by] = "none"]
         /\ DOMAIN jobs \subseteq DOMAIN jobs' /\ \A i \in DOMAIN jobs : jobs'[i] = jobs[i]
         /\ \A i \in DOMAIN jobs' \ DOMAIN jobs :
              /\ jobs'[i].by = by /\ jobs'[i].op = op /\ jobs'[i].expects = e
              /\ jobs'[i].stage = "queued"
              /\ \A k \in DOMAIN jobs' \ DOMAIN jobs : k = i
<1> DEFINE j == [by |-> by, awaited |-> TRUE, op |-> op, license |-> l, expects |-> e,
                 stage |-> "queued"]
<1>1. j \in Jobs /\ j.by = by /\ j.op = op /\ j.expects = e /\ j.stage = "queued"
  BY DEF Jobs
<1> HIDE DEF j
<1>2. jobs \in Seq(Jobs) /\ jobs' = Append(jobs, j)
  BY DEF Queue, QueueType, Enqueue, j
<1>3. jobs' \in Seq(Jobs)
  BY <1>1, <1>2
<1>4. answer' \in [Parties -> Answers] /\ answer' = [answer EXCEPT ![by] = "none"]
  BY DEF Queue, QueueType, Enqueue, Answers
<1>5. /\ Len(jobs) \in Nat /\ DOMAIN jobs = 1 .. Len(jobs) /\ DOMAIN jobs' = 1 .. Len(jobs) + 1
      /\ jobs'[Len(jobs) + 1] = j /\ \A i \in 1 .. Len(jobs) : jobs'[i] = jobs[i]
  BY <1>1, <1>2
<1>6. \A i \in DOMAIN jobs' \ DOMAIN jobs : i = Len(jobs) + 1
  BY <1>5
<1>7. QED BY <1>1, <1>3, <1>4, <1>5, <1>6 DEF QueueType

LEMMA QueueGrows ==
  ASSUME Queue, UNCHANGED <<store, user>>, NEW by \in {"check", "sync"},
         NEW op \in {"save", "delete"}, NEW l \in MaybeLicense, NEW e \in MaybeLicense,
         Enqueue(by, op, l, e)
  PROVE  Queue'
<1>1. /\ QueueType' /\ answer' = [answer EXCEPT ![by] = "none"]
      /\ DOMAIN jobs \subseteq DOMAIN jobs' /\ \A i \in DOMAIN jobs : jobs'[i] = jobs[i]
      /\ \A i \in DOMAIN jobs' \ DOMAIN jobs :
           jobs'[i].by = by /\ jobs'[i].expects = e /\ jobs'[i].stage = "queued"
  BY QueueTypeGrows DEF Parties
<1>2. e # Whatever
  BY EntitlementAssumption DEF MaybeLicense
<1>3. WriterIsRight' /\ Minded'
  BY <1>1, <1>2 DEF Queue, WriterIsRight, Minded, store
<1>4. answer'["user"] = answer["user"]
  BY <1>1 DEF Queue, QueueType, Parties
<1>5. \A i \in DOMAIN jobs' : Mine(jobs'[i]) => i \in DOMAIN jobs
  BY <1>1 DEF Mine
<1>6. OneAtATime'
  BY <1>1, <1>4, <1>5 DEF Queue, OneAtATime, AtOnce
<1>7. QED BY <1>1, <1>3, <1>6 DEF Queue

LEMMA HearingKeepsQueue ==
  ASSUME Queue, UNCHANGED <<store, user>>, NEW by \in {"check", "sync"}, Heard(by)
  PROVE  Queue'
<1>1. /\ answer' \in [Parties -> Answers] /\ answer'["user"] = answer["user"] /\ UNCHANGED jobs
  BY DEF Queue, QueueType, Heard, Answers, Parties
<1>2. QED BY <1>1 DEF Queue, QueueType, WriterIsRight, Minded, OneAtATime, AtOnce, store

\* The page waits for a task.
LEMMA PageEnqueues ==
  ASSUME Queue, UNCHANGED store, \A i \in DOMAIN jobs : ~Mine(jobs[i]),
         NEW op \in {"save", "delete", "verify"}, NEW l \in MaybeLicense,
         NEW e \in MaybeLicense \cup {Whatever}, Enqueue("user", op, l, e),
         user'.step \in Waiting, user'.step = "rechecking" => op = "verify"
  PROVE  Queue'
<1>1. /\ QueueType' /\ answer' = [answer EXCEPT !["user"] = "none"]
      /\ DOMAIN jobs \subseteq DOMAIN jobs' /\ \A i \in DOMAIN jobs : jobs'[i] = jobs[i]
      /\ \A i \in DOMAIN jobs' \ DOMAIN jobs :
           /\ jobs'[i].by = "user" /\ jobs'[i].op = op /\ jobs'[i].stage = "queued"
           /\ \A k \in DOMAIN jobs' \ DOMAIN jobs : k = i
  BY QueueTypeGrows DEF Parties
<1>2. WriterIsRight' /\ Minded'
  BY <1>1 DEF Queue, WriterIsRight, Minded, store
<1>3. answer'["user"] = "none"
  BY <1>1 DEF Queue, QueueType, Parties
<1>4. \A i \in DOMAIN jobs' : Mine(jobs'[i]) => i \in DOMAIN jobs' \ DOMAIN jobs
  BY <1>1
<1>5. OneAtATime'
  BY <1>1, <1>3, <1>4 DEF OneAtATime, AtOnce
<1>6. QED BY <1>1, <1>2, <1>5 DEF Queue

\* It waits for no task when it asks somebody else or has just heard of one.
LEMMA PageIsAlone ==
  ASSUME Queue, user.step \notin Waiting \/ answer["user"] # "none"
  PROVE  \A i \in DOMAIN jobs : ~Mine(jobs[i])
BY DEF Queue, OneAtATime, AtOnce

LEMMA PageMovesOn ==
  ASSUME Queue, UNCHANGED store, UNCHANGED queue \/ Heard("user"),
         user.step \notin Waiting \/ answer["user"] # "none", user'.step # "rechecking"
  PROVE  Queue'
<1>1. answer' \in [Parties -> Answers] /\ UNCHANGED jobs
  BY DEF Queue, QueueType, Heard, Answers, queue
<1>2. OneAtATime'
  BY <1>1, PageIsAlone DEF OneAtATime
<1>3. QED BY <1>1, <1>2 DEF Queue, QueueType, WriterIsRight, Minded, store

\* The first task leaves: none of the others is writing.
LEMMA LeavingKeepsQueue ==
  ASSUME Queue, NEW i \in DOMAIN jobs, i = 1, NEW a \in Answers, Leaves(i, a), UNCHANGED user,
         a = "ok" => jobs[i].stage = "writing"
  PROVE  Queue'
<1>1. jobs \in Seq(Jobs) /\ jobs[i] \in Jobs
  BY DEF Queue, QueueType
<1>2. /\ jobs' \in Seq(Jobs)
      /\ \A k \in DOMAIN jobs' : k + 1 \in DOMAIN jobs /\ jobs'[k] = jobs[k + 1]
  BY <1>1, RemovingTheFirst DEF Leaves
<1>3. \A k \in DOMAIN jobs' : k \in Nat /\ k >= 1
  BY <1>2
<1>4. \A k \in DOMAIN jobs' : jobs'[k].stage # "writing" /\ (jobs'[k].by # "user" => jobs'[k].expects # Whatever)
  BY <1>2, <1>3 DEF Queue, WriterIsRight, Minded
<1>5. answer' = IF jobs[i].awaited THEN [answer EXCEPT ![jobs[i].by] = a] ELSE answer
  BY DEF Leaves
<1>6. answer' \in [Parties -> Answers]
  BY <1>1, <1>5 DEF Jobs, Queue, QueueType
<1>7. CASE Mine(jobs[i])
  <2>1. answer'["user"] = a
    BY <1>5, <1>7 DEF Mine, Parties, Queue, QueueType
  <2>2. \A k \in DOMAIN jobs' : ~Mine(jobs'[k])
    BY <1>2, <1>3, <1>7 DEF Queue, OneAtATime, AtOnce
  <2>3. OneAtATime'
    BY <1>7, <2>1, <2>2 DEF Queue, OneAtATime, AtOnce
  <2>4. QED BY <1>2, <1>4, <1>6, <2>3 DEF Queue, QueueType, WriterIsRight, Minded
<1>8. CASE ~Mine(jobs[i])
  <2>1. answer'["user"] = answer["user"]
    BY <1>1, <1>5, <1>8 DEF Mine, Jobs, Parties, Queue, QueueType
  <2>2. \A k \in DOMAIN jobs', m \in DOMAIN jobs' : k + 1 = m + 1 => k = m
    BY <1>3
  <2>3. \A k \in DOMAIN jobs' : Mine(jobs'[k]) => AtOnce(k)'
    BY <1>2, <2>1, <2>2 DEF Queue, OneAtATime, AtOnce
  <2>4. OneAtATime'
    BY <2>1, <2>3 DEF Queue, OneAtATime
  <2>5. QED BY <1>2, <1>4, <1>6, <2>4 DEF Queue, QueueType, WriterIsRight, Minded
<1>9. QED BY <1>7, <1>8

LEMMA SyncStarts ==
  ASSUME SyncKnows, NEW u \in Users, NEW isDue \in BOOLEAN, StartSync(u, isDue)
  PROVE  SyncKnows' /\ due' \in BOOLEAN
<1>1. CASE sync' = [NoSync EXCEPT !.step = "read", !.account = u] /\ due' = FALSE
  BY <1>1 DEF SyncKnows, NoSync, SyncSteps, MaybeLicense
<1>2. CASE UNCHANGED sync /\ due' = isDue
  BY <1>2 DEF SyncKnows
<1>3. QED BY <1>1, <1>2 DEF StartSync

LEMMA CheckBegins ==
  ASSUME NEW syncs \in BOOLEAN
  PROVE  check' = NewCheck(syncs) => CheckKnows'
BY DEF CheckKnows, NewCheck, NoCheck, CheckSteps, MaybeLicense

LEMMA VerifyingKeeps ==
  ASSUME CheckKnows, NEW f, Good(f), NEW syncs \in BOOLEAN, Verify(f, syncs)
  PROVE  CheckKnows' /\ Good(face')
<1>1. Good(face')
  BY VerifyingIsGood
<1>2. CheckKnows'
  BY CheckBegins DEF Verify, CheckKnows
<1>3. QED BY <1>1, <1>2

LEMMA CheckIsOver ==
  ASSUME NEW f, Good(f), CheckEnds(f)
  PROVE  CheckKnows' /\ Good(face') /\ timer' = TRUE
<1>1. CheckKnows'
  BY NothingYet DEF CheckEnds, CheckKnows
<1>2. QED BY <1>1, EndingIsGood DEF CheckEnds

----------------------------------------------------------------------------
\* The steps of a check.

\* What a step of the plugin has to keep beside the world and the settings page.
Kept == PluginType' /\ CheckKnows' /\ SyncKnows' /\ Queue' /\ Good(face') /\ faults' \in 0 .. MaxFaults

LEMMA CheckEndsQuietly ==
  ASSUME PluginType, SyncKnows, NEW f, Good(f), CheckEnds(f), Quietly, UNCHANGED <<refresh, grace>>
  PROVE  PluginType' /\ CheckKnows' /\ SyncKnows' /\ Good(face')
BY CheckIsOver DEF PluginType, SyncKnows, Quietly

LEMMA StepIsRight ==
  ASSUME IInv, Kept, UNCHANGED <<world, store>>, UserKnows'
  PROVE  IInv'
<1>1. WorldType' /\ expired' = expired /\ mobile' = mobile
  BY WorldFrame DEF IInv, Parts, Kept
<1>2. Good(face)'
  BY <1>1, StaysGood DEF Kept
<1>3. QED BY <1>1, <1>2 DEF IInv, Parts, Kept

LEMMA CheckStepFrame ==
  ASSUME IInv, NEW at, CheckStep(at)
  PROVE  /\ UNCHANGED <<world, store, refresh, grace, user>>
         /\ check.step = at /\ Parts /\ Queue /\ Good(face)
         /\ UNCHANGED queue => Queue'
         /\ UNCHANGED faults => faults' \in 0 .. MaxFaults
         /\ Hurt => faults' \in 0 .. MaxFaults
BY QueueFrame, HurtCounts DEF CheckStep, IInv, Parts, WorldType

LEMMA ReadsAccountKeeps ==
  ASSUME IInv, ReadsAccount
  PROVE  Kept
<1>1. CheckStep("identity") /\ Parts /\ Queue' /\ faults' \in 0 .. MaxFaults
  BY CheckStepFrame DEF ReadsAccount
<1>2. CheckKnows' /\ SyncKnows'
  BY <1>1 DEF ReadsAccount, CheckStep, Parts, WorldType, CheckKnows, SyncKnows, CheckSteps
<1>3. PluginType'
  BY <1>1 DEF ReadsAccount, CheckStep, Parts, PluginType, Forget, MaybeLicense
<1>4. Good(face')
  BY <1>1, InvalidatingIsGood DEF ReadsAccount, IInv
<1>5. QED BY <1>1, <1>2, <1>3, <1>4 DEF Kept

LEMMA CheckGivesUpKeeps ==
  ASSUME IInv, CheckGivesUp
  PROVE  Kept
<1>1. Parts /\ Queue' /\ faults' \in 0 .. MaxFaults /\ UNCHANGED <<refresh, grace>>
  BY CheckStepFrame DEF CheckGivesUp
<1>2. Good(Failed(face)) /\ CheckEnds(Failed(face)) /\ Quietly
  BY RefusingIsGood DEF CheckGivesUp, CheckFails, IInv
<1>3. QED BY <1>1, <1>2, CheckEndsQuietly DEF Kept, Parts

LEMMA WithoutAccountKeeps ==
  ASSUME IInv, WithoutAccount
  PROVE  Kept
<1>1. Parts /\ Queue' /\ faults' \in 0 .. MaxFaults /\ UNCHANGED <<refresh, grace>>
  BY CheckStepFrame DEF WithoutAccount
<1>2. Good(Failed(face)) /\ CheckEnds(Failed(face)) /\ Quietly
  BY RefusingIsGood DEF WithoutAccount, CheckFails, IInv
<1>3. QED BY <1>1, <1>2, CheckEndsQuietly DEF Kept, Parts

LEMMA LicenseFailsKeeps ==
  ASSUME IInv, LicenseFails
  PROVE  Kept
<1>1. Parts /\ Queue' /\ faults' \in 0 .. MaxFaults /\ UNCHANGED <<refresh, grace>>
  BY CheckStepFrame DEF LicenseFails
<1>2. Good(Denied(face)) /\ CheckEnds(Denied(face)) /\ Quietly
  BY RefusingIsGood DEF LicenseFails, IInv
<1>3. QED BY <1>1, <1>2, CheckEndsQuietly DEF Kept, Parts

LEMMA LosesAccountKeeps ==
  ASSUME IInv, LosesAccount
  PROVE  Kept
<1>1. Parts /\ Queue' /\ faults' \in 0 .. MaxFaults /\ UNCHANGED <<refresh, grace>>
  BY CheckStepFrame DEF LosesAccount
<1>2. Good(Failed(face)) /\ CheckEnds(Failed(face)) /\ Quietly
  BY RefusingIsGood DEF LosesAccount, CheckFails, IInv
<1>3. QED BY <1>1, <1>2, CheckEndsQuietly DEF Kept, Parts

LEMMA LicenseHoldsKeeps ==
  ASSUME IInv, LicenseHolds
  PROVE  Kept
<1>1. CheckStep("license") /\ Parts /\ Queue' /\ faults' \in 0 .. MaxFaults
  BY CheckStepFrame DEF LicenseHolds
<1>2. file \in Licenses /\ check.account \in Users
  BY <1>1, EntitlementAssumption DEF LicenseHolds, Valid, Parts, WorldType, MaybeLicense
<1>3. CASE withdrawn = None
  <2>1. CheckEnds(GrantedBy(face, file))
    BY <1>3 DEF LicenseHolds
  <2>2. CheckKnows' /\ Good(face') /\ timer' = TRUE
    BY <1>2, <2>1, GrantingIsGood, CheckIsOver DEF IInv
  <2>3. SyncKnows' /\ due' \in BOOLEAN
    BY <1>1, <1>2, <1>3, SyncStarts DEF LicenseHolds, Parts, PluginType, SyncKnows
  <2>4. PluginType'
    BY <1>1, <2>2, <2>3 DEF LicenseHolds, CheckStep, Parts, PluginType
  <2>5. QED BY <1>1, <2>2, <2>3, <2>4 DEF Kept
<1>4. CASE withdrawn # None
  <2>1. CheckKnows'
    BY <1>1, <1>2, <1>4 DEF LicenseHolds, Parts, CheckKnows, CheckSteps, MaybeLicense
  <2>2. PluginType' /\ SyncKnows' /\ Good(face')
    BY <1>1, <1>4 DEF LicenseHolds, CheckStep, IInv, Parts, PluginType, SyncKnows
  <2>3. QED BY <1>1, <2>1, <2>2 DEF Kept
<1>5. QED BY <1>3, <1>4

LEMMA RecoverKeeps ==
  ASSUME IInv, NEW at, CheckStep(at), check.account \in Users, NEW e \in MaybeLicense, Recover(e),
         UNCHANGED <<queue, faults>>
  PROVE  Kept
<1>1. Parts /\ Queue' /\ faults' \in 0 .. MaxFaults /\ UNCHANGED <<refresh, grace>>
  BY CheckStepFrame
<1>2. CASE check.account \in cooling
  <2>1. Good(Failed(face)) /\ CheckEnds(Failed(face)) /\ Quietly
    BY <1>2, RefusingIsGood DEF Recover, CheckFails, IInv
  <2>2. QED BY <1>1, <2>1, CheckEndsQuietly DEF Kept, Parts
<1>3. CASE check.account \notin cooling
  <2>1. CheckKnows' /\ SyncKnows'
    BY <1>1, <1>3 DEF Recover, Parts, CheckKnows, SyncKnows, CheckSteps
  <2>2. PluginType' /\ Good(face')
    BY <1>1, <1>3 DEF Recover, IInv, Parts, PluginType
  <2>3. QED BY <1>1, <2>1, <2>2 DEF Kept
<1>4. QED BY <1>2, <1>3

LEMMA LicenseIsMissingKeeps ==
  ASSUME IInv, LicenseIsMissing
  PROVE  Kept
<1>1. CheckStep("license") /\ Parts /\ Queue' /\ faults' \in 0 .. MaxFaults /\ UNCHANGED <<refresh, grace>>
  BY CheckStepFrame DEF LicenseIsMissing
<1>2. check.account \in Users
  BY <1>1 DEF LicenseIsMissing, Parts, CheckKnows
<1>3. CASE grace
  <2>1. Good(Failed(face)) /\ CheckEnds(Failed(face)) /\ Quietly
    BY <1>3, RefusingIsGood DEF LicenseIsMissing, CheckFails, IInv
  <2>2. QED BY <1>1, <2>1, CheckEndsQuietly DEF Kept, Parts
<1>4. CASE ~grace
  BY <1>1, <1>2, <1>4, RecoverKeeps DEF LicenseIsMissing, MaybeLicense
<1>5. QED BY <1>3, <1>4

LEMMA LicenseIsOverKeeps ==
  ASSUME IInv, LicenseIsOver
  PROVE  Kept
<1>1. CheckStep("license") /\ Parts /\ Queue' /\ faults' \in 0 .. MaxFaults
  BY CheckStepFrame DEF LicenseIsOver
<1>2. check.account \in Users
  BY <1>1, EntitlementAssumption DEF LicenseIsOver, Parts, WorldType, MaybeLicense
<1>3. CheckKnows' /\ SyncKnows'
  BY <1>1, <1>2 DEF LicenseIsOver, To, Quietly, Parts, CheckKnows, SyncKnows, CheckSteps
<1>4. PluginType' /\ Good(face')
  BY <1>1 DEF LicenseIsOver, Quietly, CheckStep, IInv, Parts, PluginType
<1>5. QED BY <1>1, <1>3, <1>4 DEF Kept

LEMMA ReadsExpiredKeeps ==
  ASSUME IInv, ReadsExpired
  PROVE  Kept
<1>1. CheckStep("expired") /\ Parts /\ Queue' /\ faults' \in 0 .. MaxFaults /\ UNCHANGED <<refresh, grace>>
  BY CheckStepFrame DEF ReadsExpired
<1>2. check.account \in Users /\ file \in MaybeLicense
  BY <1>1 DEF CheckStep, Parts, CheckKnows, WorldType
<1>3. CASE file = None
  <2>1. Good(Failed(face)) /\ CheckEnds(Failed(face)) /\ Quietly
    BY <1>3, RefusingIsGood DEF ReadsExpired, CheckFails, IInv
  <2>2. QED BY <1>1, <2>1, CheckEndsQuietly DEF Kept, Parts
<1>4. CASE file # None
  BY <1>1, <1>2, <1>4, RecoverKeeps DEF ReadsExpired
<1>5. QED BY <1>3, <1>4

LEMMA IsWithdrawnKeeps ==
  ASSUME IInv, IsWithdrawn
  PROVE  Kept
<1>1. CheckStep("saved") /\ Parts /\ Queue' /\ faults' \in 0 .. MaxFaults
  BY CheckStepFrame DEF IsWithdrawn
<1>2. check.account \in Users
  BY <1>1 DEF CheckStep, Parts, CheckKnows
<1>3. CheckKnows' /\ Good(face') /\ timer' = TRUE
  BY RefusingIsGood, CheckIsOver DEF IsWithdrawn, IInv
<1>4. SyncKnows' /\ due' \in BOOLEAN
  BY <1>1, <1>2, SyncStarts DEF IsWithdrawn, Parts, SyncKnows
<1>5. PluginType'
  BY <1>1, <1>3, <1>4 DEF IsWithdrawn, CheckStep, Parts, PluginType
<1>6. QED BY <1>1, <1>3, <1>4, <1>5 DEF Kept

LEMMA IsAnotherKeeps ==
  ASSUME IInv, IsAnother
  PROVE  Kept
<1>1. CheckStep("saved") /\ Parts /\ Queue' /\ faults' \in 0 .. MaxFaults
  BY CheckStepFrame DEF IsAnother
<1>2. check.account \in Users /\ check.license \in Licenses
  BY <1>1 DEF CheckStep, Parts, CheckKnows
<1>3. CheckKnows' /\ Good(face') /\ timer' = TRUE
  BY <1>2, GrantingIsGood, CheckIsOver DEF IsAnother, IInv
<1>4. SyncKnows' /\ due' \in BOOLEAN
  BY <1>1, <1>2, SyncStarts DEF IsAnother, Parts, SyncKnows, PluginType
<1>5. PluginType'
  BY <1>1, <1>3, <1>4 DEF IsAnother, CheckStep, Parts, PluginType, MaybeLicense
<1>6. QED BY <1>1, <1>3, <1>4, <1>5 DEF Kept

LEMMA AsksServiceKeeps ==
  ASSUME IInv, AsksService
  PROVE  Kept
<1>1. CheckStep("ask") /\ Parts /\ Queue' /\ faults' \in 0 .. MaxFaults /\ UNCHANGED <<refresh, grace>>
  BY CheckStepFrame DEF AsksService
<1>2. check.account \in Users /\ offer[check.account] \in MaybeLicense
  BY <1>1 DEF CheckStep, Parts, CheckKnows, WorldType
<1>3. CASE Serves(check.account)
  <2>1. offer[check.account] \in Licenses
    BY <1>2, <1>3 DEF Serves, MaybeLicense
  <2>2. CheckKnows' /\ SyncKnows'
    BY <1>1, <1>2, <1>3, <2>1 DEF AsksService, Quietly, Parts, CheckKnows, SyncKnows, CheckSteps, MaybeLicense
  <2>3. PluginType' /\ Good(face')
    BY <1>1, <1>3 DEF AsksService, Quietly, IInv, Parts, PluginType
  <2>4. QED BY <1>1, <2>2, <2>3 DEF Kept
<1>4. CASE ~Serves(check.account)
  <2>1. Good(Denied(face)) /\ CheckEnds(Denied(face)) /\ Quietly
    BY <1>4, RefusingIsGood DEF AsksService, IInv
  <2>2. QED BY <1>1, <2>1, CheckEndsQuietly DEF Kept, Parts
<1>5. QED BY <1>3, <1>4

LEMMA IdentityChangedKeeps ==
  ASSUME IInv, NEW at, CheckStep(at), IdentityChanged, Queue', faults' \in 0 .. MaxFaults
  PROVE  Kept
<1>1. Parts /\ UNCHANGED <<refresh, grace>>
  BY CheckStepFrame
<1>2. CheckKnows' /\ Good(face') /\ timer' = TRUE
  BY InvalidatingIsGood, CheckIsOver DEF IdentityChanged, IInv
<1>3. PluginType' /\ SyncKnows'
  BY <1>1, <1>2 DEF IdentityChanged, Forget, Parts, PluginType, SyncKnows, MaybeLicense
<1>4. QED BY <1>2, <1>3 DEF Kept

LEMMA FindsSwitchKeeps ==
  ASSUME IInv, FindsSwitch
  PROVE  Kept
<1>1. PICK at \in {"live", "again"} : CheckStep(at)
  BY DEF FindsSwitch
<1>2. Queue' /\ faults' \in 0 .. MaxFaults /\ IdentityChanged
  BY <1>1, CheckStepFrame DEF FindsSwitch
<1>3. QED BY <1>1, <1>2, IdentityChangedKeeps

LEMMA SeesAccountKeeps ==
  ASSUME IInv, SeesAccount
  PROVE  Kept
<1>1. CheckStep("live") /\ Parts /\ Queue' /\ faults' \in 0 .. MaxFaults
  BY CheckStepFrame DEF SeesAccount
<1>2. CheckKnows' /\ SyncKnows'
  BY <1>1 DEF SeesAccount, To, Quietly, CheckStep, Parts, CheckKnows, SyncKnows, CheckSteps
<1>3. PluginType' /\ Good(face')
  BY <1>1 DEF SeesAccount, Quietly, CheckStep, IInv, Parts, PluginType
<1>4. QED BY <1>1, <1>2, <1>3 DEF Kept

LEMMA RecoveredKeeps ==
  ASSUME IInv, NEW at, CheckStep(at), NEW l \in Licenses, Recovered(l), UNCHANGED <<queue, faults>>
  PROVE  Kept
<1>1. Parts /\ Queue' /\ faults' \in 0 .. MaxFaults /\ UNCHANGED <<refresh, grace>>
  BY CheckStepFrame
<1>2. CheckKnows' /\ Good(face') /\ timer' = TRUE
  BY GrantingIsGood, CheckIsOver DEF Recovered, IInv
<1>3. PluginType' /\ SyncKnows'
  BY <1>1, <1>2 DEF Recovered, Parts, PluginType, SyncKnows
<1>4. QED BY <1>1, <1>2, <1>3 DEF Kept

LEMMA ReadsCurrentKeeps ==
  ASSUME IInv, ReadsCurrent
  PROVE  Kept
<1>1. CheckStep("current") /\ Parts /\ Queue' /\ faults' \in 0 .. MaxFaults /\ UNCHANGED <<refresh, grace>>
  BY CheckStepFrame DEF ReadsCurrent
<1>2. CASE Valid(file, check.account) /\ Recovered(file)
  <2>1. file \in Licenses
    BY <1>1, <1>2 DEF Valid, Parts, WorldType, MaybeLicense
  <2>2. QED BY <1>1, <1>2, <2>1, RecoveredKeeps DEF ReadsCurrent
<1>3. CASE To("again") /\ Quietly /\ UNCHANGED <<face, timer>>
  <2>1. CheckKnows' /\ SyncKnows'
    BY <1>1, <1>3 DEF To, Quietly, CheckStep, Parts, CheckKnows, SyncKnows, CheckSteps
  <2>2. PluginType' /\ Good(face')
    BY <1>1, <1>3 DEF Quietly, IInv, Parts, PluginType
  <2>3. QED BY <1>1, <2>1, <2>2 DEF Kept
<1>4. CASE CheckEnds(face) /\ Quietly
  BY <1>1, <1>4, CheckEndsQuietly DEF Kept, Parts, IInv
<1>5. QED BY <1>2, <1>3, <1>4 DEF ReadsCurrent

LEMMA StoresKeeps ==
  ASSUME IInv, Stores
  PROVE  Kept
<1>1. CheckStep("again") /\ Parts /\ faults' \in 0 .. MaxFaults /\ UNCHANGED <<refresh, grace, store, user>>
  BY CheckStepFrame DEF Stores
<1>2. /\ check.license \in MaybeLicense /\ check.expects \in MaybeLicense
  BY <1>1 DEF Parts, CheckKnows
<1>3. CASE Valid(check.license, account)
  <2>1. Queue'
    BY <1>1, <1>2, <1>3, QueueGrows DEF Stores, IInv, Parties
  <2>2. CheckKnows' /\ SyncKnows'
    BY <1>1, <1>3 DEF Stores, To, Quietly, CheckStep, Parts, CheckKnows, SyncKnows, CheckSteps
  <2>3. PluginType' /\ Good(face')
    BY <1>1, <1>3 DEF Stores, Quietly, IInv, Parts, PluginType
  <2>4. QED BY <1>1, <2>1, <2>2, <2>3 DEF Kept
<1>4. CASE ~Valid(check.license, account)
  <2>1. Good(Failed(face)) /\ CheckEnds(Failed(face)) /\ Quietly /\ UNCHANGED queue
    BY <1>4, RefusingIsGood DEF Stores, CheckFails, IInv
  <2>2. Queue'
    BY <1>1, <2>1, QueueFrame DEF IInv
  <2>3. QED BY <1>1, <2>1, <2>2, CheckEndsQuietly DEF Kept, Parts
<1>5. QED BY <1>3, <1>4

LEMMA HasStoredKeeps ==
  ASSUME IInv, HasStored
  PROVE  Kept
<1>1. CheckStep("saving") /\ Parts /\ faults' \in 0 .. MaxFaults /\ UNCHANGED <<refresh, grace, store, user>>
  BY CheckStepFrame DEF HasStored
<1>2. Queue' /\ Quietly
  BY <1>1, HearingKeepsQueue DEF HasStored, IInv, Parties
<1>3. CASE To("confirm") /\ UNCHANGED <<face, timer>>
  <2>1. CheckKnows' /\ SyncKnows'
    BY <1>1, <1>2, <1>3 DEF To, Quietly, CheckStep, Parts, CheckKnows, SyncKnows, CheckSteps
  <2>2. PluginType' /\ Good(face')
    BY <1>1, <1>2, <1>3 DEF Quietly, IInv, Parts, PluginType
  <2>3. QED BY <1>1, <1>2, <2>1, <2>2 DEF Kept
<1>4. CASE CheckEnds(face)
  BY <1>1, <1>2, <1>4, CheckEndsQuietly DEF Kept, Parts, IInv
<1>5. CASE CheckEnds(Failed(face))
  <2>1. Good(Failed(face))
    BY RefusingIsGood DEF IInv
  <2>2. QED BY <1>1, <1>2, <1>5, <2>1, CheckEndsQuietly DEF Kept, Parts
<1>6. QED BY <1>3, <1>4, <1>5 DEF HasStored

LEMMA ConfirmsKeeps ==
  ASSUME IInv, Confirms
  PROVE  Kept
<1>1. CheckStep("confirm") /\ check.license \in Licenses
  BY CheckStepFrame DEF Confirms, Parts, CheckKnows
<1>2. QED BY <1>1, RecoveredKeeps DEF Confirms

LEMMA TakesBackKeeps ==
  ASSUME IInv, TakesBack
  PROVE  Kept
<1>1. CheckStep("confirm") /\ Parts /\ faults' \in 0 .. MaxFaults /\ UNCHANGED <<refresh, grace, store, user>>
  BY CheckStepFrame DEF TakesBack
<1>2. check.license \in MaybeLicense /\ None \in MaybeLicense
  BY <1>1 DEF Parts, CheckKnows, MaybeLicense
<1>3. Queue'
  BY <1>1, <1>2, QueueGrows DEF TakesBack, IInv, Parties
<1>4. CheckKnows' /\ SyncKnows'
  BY <1>1 DEF TakesBack, To, Quietly, CheckStep, Parts, CheckKnows, SyncKnows, CheckSteps
<1>5. PluginType' /\ Good(face')
  BY <1>1 DEF TakesBack, Quietly, IInv, Parts, PluginType
<1>6. QED BY <1>1, <1>3, <1>4, <1>5 DEF Kept

LEMMA HasTakenBackKeeps ==
  ASSUME IInv, HasTakenBack
  PROVE  Kept
<1>1. CheckStep("cleaning") /\ Parts /\ faults' \in 0 .. MaxFaults /\ UNCHANGED <<refresh, grace, store, user>>
  BY CheckStepFrame DEF HasTakenBack
<1>2. Queue'
  BY <1>1, HearingKeepsQueue DEF HasTakenBack, IInv, Parties
<1>3. CASE IdentityChanged
  BY <1>1, <1>2, <1>3, IdentityChangedKeeps
<1>4. CASE CheckEnds(face) /\ Quietly
  BY <1>1, <1>2, <1>4, CheckEndsQuietly DEF Kept, Parts, IInv
<1>5. CASE CheckFails
  <2>1. Good(Failed(face)) /\ CheckEnds(Failed(face)) /\ Quietly
    BY <1>5, RefusingIsGood DEF CheckFails, IInv
  <2>2. QED BY <1>1, <1>2, <2>1, CheckEndsQuietly DEF Kept, Parts
<1>6. QED BY <1>3, <1>4, <1>5 DEF HasTakenBack

LEMMA CheckKeeps ==
  ASSUME IInv, Check
  PROVE  IInv'
<1>1. Kept
  BY ReadsAccountKeeps, WithoutAccountKeeps, LicenseHoldsKeeps, LicenseFailsKeeps,
     LicenseIsMissingKeeps, LicenseIsOverKeeps, ReadsExpiredKeeps, IsWithdrawnKeeps,
     IsAnotherKeeps, AsksServiceKeeps, LosesAccountKeeps, FindsSwitchKeeps, SeesAccountKeeps,
     ReadsCurrentKeeps, StoresKeeps, HasStoredKeeps, ConfirmsKeeps, TakesBackKeeps,
     HasTakenBackKeeps
     DEF Check
<1>2. \E at : CheckStep(at)
  BY DEF Check, ReadsAccount, WithoutAccount, LicenseHolds, LicenseFails, LicenseIsMissing,
     LicenseIsOver, ReadsExpired, IsWithdrawn, IsAnother, AsksService, LosesAccount, FindsSwitch,
     SeesAccount, ReadsCurrent, Stores, HasStored, Confirms, TakesBack, HasTakenBack
<1>3. UNCHANGED <<world, store>> /\ UserKnows'
  BY <1>2 DEF CheckStep, IInv, Parts, UserKnows
<1>4. QED BY <1>1, <1>3, StepIsRight

----------------------------------------------------------------------------
\* The steps of a synchronisation.

LEMMA SyncStepFrame ==
  ASSUME IInv, NEW at, SyncStep(at)
  PROVE  /\ UNCHANGED <<world, store, refresh, cooling, grace, user>>
         /\ sync.step = at /\ Parts /\ Queue /\ Good(face)
         /\ UNCHANGED queue => Queue'
         /\ UNCHANGED faults => faults' \in 0 .. MaxFaults
         /\ Hurt => faults' \in 0 .. MaxFaults
BY QueueFrame, HurtCounts DEF SyncStep, IInv, Parts, WorldType

\* It leaves the plugin and the check alone.
LEMMA SyncLeavesKeeps ==
  ASSUME IInv, NEW at, SyncStep(at), SyncLeaves, SyncKnows', Queue', faults' \in 0 .. MaxFaults
  PROVE  Kept
<1>1. Parts /\ UNCHANGED <<refresh, cooling, grace>>
  BY SyncStepFrame
<1>2. PluginType' /\ CheckKnows' /\ Good(face')
  BY <1>1 DEF SyncLeaves, IInv, Parts, PluginType, CheckKnows
<1>3. QED BY <1>2 DEF Kept

LEMMA SyncIsOver == SyncEnds => SyncKnows'
BY NothingYet DEF SyncEnds, SyncKnows

LEMMA SyncReadsKeeps ==
  ASSUME IInv, SyncReads
  PROVE  Kept
<1>1. SyncStep("read") /\ Parts /\ Queue' /\ faults' \in 0 .. MaxFaults /\ sync.step = "read"
  BY SyncStepFrame DEF SyncReads
<1>2. SyncKnows'
  <2>1. CASE file = None
    BY <2>1, NothingYet DEF SyncReads, SyncKnows
  <2>2. CASE file # None
    BY <1>1, <2>2 DEF SyncReads, Parts, WorldType, SyncKnows, SyncSteps
  <2>3. QED BY <2>1, <2>2
<1>3. QED BY <1>1, <1>2, SyncLeavesKeeps DEF SyncReads

LEMMA SyncAsksKeeps ==
  ASSUME IInv, SyncAsks
  PROVE  Kept
<1>1. SyncStep("ask") /\ Parts /\ Queue' /\ faults' \in 0 .. MaxFaults /\ sync.step = "ask"
  BY SyncStepFrame DEF SyncAsks
<1>2. offer[sync.account] \in MaybeLicense
  BY <1>1 DEF Parts, WorldType, SyncKnows
<1>3. PICK r \in Reply(sync.expects, sync.account) :
        sync' = [sync EXCEPT !.step = "identity", !.reply = r,
                             !.license = IF r = "changed" THEN offer[sync.account] ELSE None]
  BY DEF SyncAsks
<1>4. r \in {"same", "changed", "keep", "clear"}
  BY <1>3 DEF Reply
<1>5. SyncKnows'
  <2> DEFINE l == IF r = "changed" THEN offer[sync.account] ELSE None
  <2>1. l \in MaybeLicense
    BY <1>2 DEF MaybeLicense
  <2>2. sync' = [sync EXCEPT !.step = "identity", !.reply = r, !.license = l]
    BY <1>3
  <2> HIDE DEF l
  <2>3. QED BY <1>1, <1>4, <2>1, <2>2 DEF Parts, SyncKnows, SyncSteps
<1>6. QED BY <1>1, <1>5, SyncLeavesKeeps DEF SyncAsks

LEMMA SyncWithoutAccountKeeps ==
  ASSUME IInv, SyncWithoutAccount
  PROVE  Kept
<1>1. PICK at : SyncStep(at)
  BY DEF SyncWithoutAccount
<1>2. Queue' /\ faults' \in 0 .. MaxFaults
  BY <1>1, SyncStepFrame DEF SyncWithoutAccount
<1>3. QED BY <1>1, <1>2, SyncIsOver, SyncLeavesKeeps DEF SyncWithoutAccount

LEMMA SyncGivesUpKeeps ==
  ASSUME IInv, SyncGivesUp
  PROVE  Kept
<1>1. PICK at : SyncStep(at)
  BY DEF SyncGivesUp
<1>2. Queue' /\ faults' \in 0 .. MaxFaults
  BY <1>1, SyncStepFrame DEF SyncGivesUp
<1>3. QED BY <1>1, <1>2, SyncIsOver, SyncLeavesKeeps DEF SyncGivesUp

LEMMA SyncFindsSwitchKeeps ==
  ASSUME IInv, SyncFindsSwitch
  PROVE  Kept
<1>1. PICK at : SyncStep(at)
  BY DEF SyncFindsSwitch
<1>2. Parts /\ Queue' /\ faults' \in 0 .. MaxFaults /\ UNCHANGED <<refresh, cooling, grace>>
  BY <1>1, SyncStepFrame DEF SyncFindsSwitch
<1>3. Good(face') /\ SyncKnows'
  BY InvalidatingIsGood, SyncIsOver DEF SyncFindsSwitch, IInv
<1>4. PluginType' /\ CheckKnows'
  BY <1>2 DEF SyncFindsSwitch, Forget, Parts, PluginType, CheckKnows, MaybeLicense
<1>5. QED BY <1>2, <1>3, <1>4 DEF Kept

LEMMA SyncGoesOnKeeps ==
  ASSUME IInv, SyncGoesOn
  PROVE  Kept
<1>1. SyncStep("identity") /\ Parts /\ Queue' /\ faults' \in 0 .. MaxFaults
  BY SyncStepFrame DEF SyncGoesOn
<1>2. SyncKnows'
  BY <1>1, SyncStepFrame DEF SyncGoesOn, Parts, SyncKnows, SyncSteps
<1>3. QED BY <1>1, <1>2, SyncLeavesKeeps DEF SyncGoesOn

LEMMA SyncReinstatesKeeps ==
  ASSUME IInv, SyncReinstates
  PROVE  Kept
<1>1. SyncStep("identity") /\ Parts /\ Queue' /\ faults' \in 0 .. MaxFaults
      /\ UNCHANGED <<refresh, cooling, grace>>
  BY SyncStepFrame DEF SyncReinstates
<1>2. SyncKnows'
  BY SyncIsOver DEF SyncReinstates
<1>3. CheckKnows' /\ Good(face')
  <2>1. CASE Verify(face, TRUE)
    BY <1>1, <2>1, VerifyingKeeps DEF Parts, IInv
  <2>2. CASE UNCHANGED <<face, check>>
    BY <1>1, <2>2 DEF Parts, IInv, CheckKnows
  <2>3. QED BY <2>1, <2>2 DEF SyncReinstates
<1>4. PluginType'
  BY <1>1 DEF SyncReinstates, Parts, PluginType, MaybeLicense
<1>5. QED BY <1>1, <1>2, <1>3, <1>4 DEF Kept

LEMMA SyncWithdrawsKeeps ==
  ASSUME IInv, SyncWithdraws
  PROVE  Kept
<1>1. SyncStep("identity") /\ Parts /\ faults' \in 0 .. MaxFaults /\ sync.step = "identity"
      /\ UNCHANGED <<refresh, cooling, grace, store, user>>
  BY SyncStepFrame DEF SyncWithdraws
<1>2. sync.expects \in MaybeLicense /\ None \in MaybeLicense
  BY <1>1 DEF Parts, SyncKnows, MaybeLicense
<1>3. Queue' /\ SyncKnows'
  <2>1. CASE SyncEnds /\ UNCHANGED queue
    BY <1>1, <2>1, SyncIsOver, SyncStepFrame
  <2>2. CASE /\ sync' = [sync EXCEPT !.step = "deleting"]
             /\ Enqueue("sync", "delete", None, sync.expects)
    BY <1>1, <1>2, <2>2, QueueGrows DEF Parties, IInv, Parts, SyncKnows, SyncSteps
  <2>3. QED BY <2>1, <2>2 DEF SyncWithdraws
<1>4. PluginType' /\ CheckKnows' /\ Good(face')
  BY <1>1, <1>2, RefusingIsGood DEF SyncWithdraws, IInv, Parts, PluginType, CheckKnows
<1>5. QED BY <1>1, <1>3, <1>4 DEF Kept

LEMMA SyncStoresKeeps ==
  ASSUME IInv, SyncStores
  PROVE  Kept
<1>1. SyncStep("again") /\ Parts /\ faults' \in 0 .. MaxFaults /\ sync.step = "again"
      /\ UNCHANGED <<store, user>>
  BY SyncStepFrame DEF SyncStores
<1>2. sync.license \in MaybeLicense /\ sync.expects \in MaybeLicense /\ sync.account \in Users
  BY <1>1 DEF Parts, SyncKnows
<1>3. CASE Valid(sync.license, sync.account)
  <2>1. sync.license \in Licenses
    BY <1>2, <1>3 DEF Valid, MaybeLicense
  <2>2. Queue' /\ SyncKnows'
    BY <1>1, <1>2, <1>3, <2>1, QueueGrows DEF SyncStores, Parties, IInv, Parts, SyncKnows, SyncSteps
  <2>3. QED BY <1>1, <2>2, SyncLeavesKeeps DEF SyncStores
<1>4. CASE ~Valid(sync.license, sync.account)
  <2>1. Queue' /\ SyncKnows'
    BY <1>1, <1>4, SyncIsOver, SyncStepFrame DEF SyncStores
  <2>2. QED BY <1>1, <2>1, SyncLeavesKeeps DEF SyncStores
<1>5. QED BY <1>3, <1>4

LEMMA SyncHasStoredKeeps ==
  ASSUME IInv, SyncHasStored
  PROVE  Kept
<1>1. Parts /\ faults' \in 0 .. MaxFaults /\ sync.step = "saving"
      /\ UNCHANGED <<refresh, cooling, grace, store, user>>
  BY SyncStepFrame DEF SyncHasStored
<1>2. Queue'
  BY <1>1, HearingKeepsQueue DEF SyncHasStored, IInv, Parties
<1>3. SyncKnows'
  BY <1>1, NothingYet DEF SyncHasStored, Parts, SyncKnows, SyncSteps
<1>4. timer' \in BOOLEAN
  BY DEF SyncHasStored
<1>5. PluginType' /\ CheckKnows' /\ Good(face')
  BY <1>1, <1>4 DEF SyncHasStored, IInv, Parts, PluginType, CheckKnows
<1>6. QED BY <1>1, <1>2, <1>3, <1>5 DEF Kept

LEMMA SyncGrantsKeeps ==
  ASSUME IInv, SyncGrants
  PROVE  Kept
<1>1. Parts /\ Queue' /\ faults' \in 0 .. MaxFaults /\ sync.step = "confirm"
      /\ UNCHANGED <<refresh, cooling, grace>>
  BY SyncStepFrame DEF SyncGrants
<1>2. Good(face') /\ SyncKnows'
  BY <1>1, GrantingIsGood, SyncIsOver DEF SyncGrants, IInv, Parts, SyncKnows
<1>3. PluginType' /\ CheckKnows'
  BY <1>1 DEF SyncGrants, Parts, PluginType, CheckKnows, MaybeLicense
<1>4. QED BY <1>1, <1>2, <1>3 DEF Kept

LEMMA SyncTakesBackKeeps ==
  ASSUME IInv, SyncTakesBack
  PROVE  Kept
<1>1. Parts /\ faults' \in 0 .. MaxFaults /\ sync.step = "confirm"
      /\ UNCHANGED <<refresh, cooling, grace, store, user>>
  BY SyncStepFrame DEF SyncTakesBack
<1>2. sync.license \in MaybeLicense /\ None \in MaybeLicense
  BY <1>1 DEF Parts, SyncKnows, MaybeLicense
<1>3. Queue'
  BY <1>1, <1>2, QueueGrows DEF SyncTakesBack, Parties, IInv
<1>4. SyncKnows' /\ Good(face')
  BY <1>1, InvalidatingIsGood DEF SyncTakesBack, IInv, Parts, SyncKnows, SyncSteps
<1>5. PluginType' /\ CheckKnows'
  BY <1>1 DEF SyncTakesBack, Forget, Parts, PluginType, CheckKnows, MaybeLicense
<1>6. QED BY <1>1, <1>3, <1>4, <1>5 DEF Kept

LEMMA SyncHasTakenBackKeeps ==
  ASSUME IInv, SyncHasTakenBack
  PROVE  Kept
<1>1. Parts /\ faults' \in 0 .. MaxFaults /\ UNCHANGED <<refresh, cooling, grace, store, user>>
  BY SyncStepFrame DEF SyncHasTakenBack
<1>2. Queue'
  BY <1>1, HearingKeepsQueue DEF SyncHasTakenBack, IInv, Parties
<1>3. SyncKnows' /\ Good(face')
  BY RefusingIsGood, SyncIsOver DEF SyncHasTakenBack, IInv
<1>4. PluginType' /\ CheckKnows'
  BY <1>1 DEF SyncHasTakenBack, Parts, PluginType, CheckKnows
<1>5. QED BY <1>1, <1>2, <1>3, <1>4 DEF Kept

LEMMA SyncHasDeletedKeeps ==
  ASSUME IInv, SyncHasDeleted
  PROVE  Kept
<1>1. Parts /\ faults' \in 0 .. MaxFaults /\ UNCHANGED <<refresh, cooling, grace, store, user>>
  BY SyncStepFrame DEF SyncHasDeleted
<1>2. Queue'
  BY <1>1, HearingKeepsQueue DEF SyncHasDeleted, IInv, Parties
<1>3. SyncKnows' /\ timer' \in BOOLEAN
  BY SyncIsOver DEF SyncHasDeleted
<1>4. PluginType' /\ CheckKnows' /\ Good(face')
  BY <1>1, <1>3 DEF SyncHasDeleted, IInv, Parts, PluginType, CheckKnows
<1>5. QED BY <1>1, <1>2, <1>3, <1>4 DEF Kept

LEMMA SynchroniseKeeps ==
  ASSUME IInv, Synchronise \/ SyncGivesUp
  PROVE  IInv'
<1>1. Kept
  BY SyncReadsKeeps, SyncAsksKeeps, SyncWithoutAccountKeeps, SyncFindsSwitchKeeps, SyncGoesOnKeeps,
     SyncReinstatesKeeps, SyncWithdrawsKeeps, SyncStoresKeeps, SyncHasStoredKeeps, SyncGrantsKeeps,
     SyncTakesBackKeeps, SyncHasTakenBackKeeps, SyncHasDeletedKeeps, SyncGivesUpKeeps
     DEF Synchronise
<1>2. \E at : SyncStep(at)
  BY DEF Synchronise, SyncReads, SyncAsks, SyncWithoutAccount, SyncFindsSwitch, SyncGoesOn,
     SyncReinstates, SyncWithdraws, SyncStores, SyncHasStored, SyncGrants, SyncTakesBack,
     SyncHasTakenBack, SyncHasDeleted, SyncGivesUp
<1>3. UNCHANGED <<world, store>> /\ UserKnows'
  BY <1>2 DEF SyncStep, IInv, Parts, UserKnows
<1>4. QED BY <1>1, <1>3, StepIsRight

----------------------------------------------------------------------------
\* The queue.

LEMMA TaskKeeps ==
  ASSUME IInv, NEW i \in DOMAIN jobs,
         TaskReads(i) \/ TaskIsLate(i) \/ TaskFindsNothing(i) \/ TaskVerifies(i) \/ TaskWrites(i)
           \/ TaskFails(i) \/ TaskTimesOut(i)
  PROVE  IInv'
<1>1. UNCHANGED <<world, plugin, check, sync>>
  BY DEF TaskReads, TaskIsLate, TaskFindsNothing, TaskVerifies, TaskWrites, TaskFails, TaskTimesOut, Elsewhere
<1>2. jobs \in Seq(Jobs) /\ jobs[i] \in Jobs
  BY DEF IInv, Queue, QueueType
<1>3. jobs[i].license \in MaybeLicense /\ jobs[i].by \in Parties /\ file \in MaybeLicense
  BY <1>2 DEF Jobs, IInv, Parts, WorldType
<1>4. UserKnows'
  <2>1. CASE UNCHANGED user
    BY <2>1 DEF IInv, Parts, UserKnows
  <2>2. CASE file # None /\ user' = [user EXCEPT !.license = file]
    <3>1. file \in Licenses
      BY <1>3, <2>2 DEF MaybeLicense
    <3>2. QED BY <1>3, <2>2, <3>1 DEF IInv, Parts, UserKnows
  <2>3. QED BY <2>1, <2>2 DEF TaskReads, TaskIsLate, TaskFindsNothing, TaskVerifies, TaskWrites,
               TaskFails, TaskTimesOut, Elsewhere, Valid
<1>5. Queue'
  <2>1. ASSUME i = 1, NEW l, NEW e, l \in MaybeLicense, e \in MaybeLicense \cup {Whatever},
               jobs' = [jobs EXCEPT ![i].stage = "writing", ![i].license = l, ![i].expects = e],
               UNCHANGED <<file, answer>>, e = Whatever \/ file = e,
               e = Whatever => jobs[i].expects = Whatever,
               user'.step = user.step, user'.license = user.license \/ user'.license \in Licenses,
               Mine(jobs[i]) /\ user.step = "rechecking" => user'.license \in Licenses
        PROVE  Queue'
    <3>1. /\ jobs'[i] \in Jobs /\ jobs'[i].expects = e /\ jobs'[i].by = jobs[i].by
          /\ jobs'[i].awaited = jobs[i].awaited /\ jobs'[i].op = jobs[i].op
          /\ \A k \in DOMAIN jobs \ {i} : jobs'[k] = jobs[k]
      BY <1>2, <2>1 DEF Jobs
    <3>2. jobs' \in Seq(Jobs) /\ DOMAIN jobs' = DOMAIN jobs
      BY <1>2, <2>1, <3>1
    <3>3. \A k \in DOMAIN jobs \ {i} : jobs[k].stage # "writing"
      BY <2>1 DEF IInv, Queue, WriterIsRight
    <3>4. WriterIsRight' /\ Minded'
      BY <2>1, <3>1, <3>2, <3>3 DEF IInv, Queue, WriterIsRight, Minded
    <3>5. \A k \in DOMAIN jobs : Mine(jobs'[k]) = Mine(jobs[k])
      BY <3>1 DEF Mine
    <3>6. \A k \in DOMAIN jobs : Mine(jobs'[k]) => AtOnce(k)'
      BY <2>1, <3>1, <3>2, <3>3, <3>5 DEF IInv, Queue, OneAtATime, AtOnce
    <3>7. OneAtATime'
      BY <2>1, <3>2, <3>6 DEF IInv, Queue, OneAtATime
    <3>8. QED BY <2>1, <3>2, <3>4, <3>7 DEF IInv, Queue, QueueType
  <2>2. CASE TaskReads(i)
    <3>1. /\ i = 1 /\ jobs' = [jobs EXCEPT ![i].stage = "writing"] /\ UNCHANGED <<file, answer, user>>
          /\ (jobs[i].expects = Whatever \/ file = jobs[i].expects) /\ jobs[i].op # "verify"
      BY <2>2 DEF TaskReads, Reads, Turn, Expected, Elsewhere
    <3>2. jobs[i].expects \in MaybeLicense \cup {Whatever}
      BY <1>2 DEF Jobs
    <3>3. jobs' = [jobs EXCEPT ![i].stage = "writing", ![i].license = jobs[i].license,
                               ![i].expects = jobs[i].expects]
      BY <1>2, <3>1 DEF Jobs
    <3>4. ~(Mine(jobs[i]) /\ user.step = "rechecking")
      BY <3>1 DEF IInv, Queue, OneAtATime, AtOnce
    <3>5. user'.step = user.step /\ user'.license = user.license
      BY <3>1
    <3> DEFINE l == jobs[i].license
               e == jobs[i].expects
    <3>6. /\ l \in MaybeLicense /\ e \in MaybeLicense \cup {Whatever} /\ (e = Whatever \/ file = e)
          /\ jobs' = [jobs EXCEPT ![i].stage = "writing", ![i].license = l, ![i].expects = e]
          /\ e = Whatever => jobs[i].expects = Whatever
      BY <1>3, <3>1, <3>2, <3>3
    <3> HIDE DEF l, e
    <3>7. QED BY <2>1, <3>1, <3>4, <3>5, <3>6
  <2>3. CASE TaskIsLate(i)
    BY <2>3, LeavingKeepsQueue DEF TaskIsLate, Reads, Turn, IInv, Answers, Elsewhere
  <2>4. CASE TaskFindsNothing(i)
    BY <2>4, LeavingKeepsQueue DEF TaskFindsNothing, Reads, Turn, IInv, Answers, Elsewhere
  <2>5. CASE TaskVerifies(i)
    <3>1. CASE /\ file # None
               /\ jobs' = [jobs EXCEPT ![i].stage = "writing", ![i].license = file, ![i].expects = file]
               /\ user' = IF jobs[i].awaited THEN [user EXCEPT !.license = file] ELSE user
               /\ UNCHANGED answer
      <4>1. file \in Licenses /\ file # Whatever
        BY <1>3, <3>1, EntitlementAssumption DEF MaybeLicense
      <4>2. /\ user'.step = user.step /\ (user'.license = user.license \/ user'.license \in Licenses)
            /\ Mine(jobs[i]) => user'.license \in Licenses
        BY <3>1, <4>1 DEF Mine, IInv, Parts, UserKnows
      <4>3. i = 1 /\ UNCHANGED file
        BY <2>5 DEF TaskVerifies, Turn
      <4>4. QED BY <1>3, <2>1, <3>1, <4>1, <4>2, <4>3
    <3>2. CASE /\ Leaves(i, IF file # None /\ Owner[file] # user.account THEN "foreign" ELSE "missing")
               /\ UNCHANGED user
      <4>1. i = 1
        BY <2>5 DEF TaskVerifies, Turn
      <4>2. QED BY <3>2, <4>1, LeavingKeepsQueue DEF IInv, Answers
    <3>3. QED BY <2>5, <3>1, <3>2 DEF TaskVerifies, Valid
  <2>6. CASE TaskWrites(i)
    BY <2>6, LeavingKeepsQueue DEF TaskWrites, Turn, IInv, Answers, Elsewhere
  <2>7. CASE TaskFails(i)
    BY <2>7, LeavingKeepsQueue DEF TaskFails, Turn, IInv, Answers, Elsewhere
  <2>8. CASE TaskTimesOut(i)
    <3>1. /\ jobs' = [jobs EXCEPT ![i].awaited = FALSE] /\ jobs[i].awaited
          /\ answer' = [answer EXCEPT ![jobs[i].by] = "failed"] /\ UNCHANGED <<file, touched, user>>
      BY <2>8 DEF TaskTimesOut, Elsewhere
    <3>2. /\ jobs'[i] \in Jobs /\ jobs'[i].expects = jobs[i].expects /\ jobs'[i].stage = jobs[i].stage
          /\ jobs'[i].by = jobs[i].by /\ ~jobs'[i].awaited
          /\ \A k \in DOMAIN jobs \ {i} : jobs'[k] = jobs[k]
      BY <1>2, <3>1 DEF Jobs
    <3>3. jobs' \in Seq(Jobs) /\ DOMAIN jobs' = DOMAIN jobs
      BY <1>2, <3>1, <3>2
    <3>4. WriterIsRight' /\ Minded'
      BY <3>1, <3>2, <3>3 DEF IInv, Queue, WriterIsRight, Minded
    <3>5. answer' \in [Parties -> Answers]
      BY <3>1 DEF IInv, Queue, QueueType, Answers
    <3>6. \A k \in DOMAIN jobs' : Mine(jobs'[k]) => k # i /\ Mine(jobs[k])
      BY <3>2, <3>3 DEF Mine
    <3>7. CASE Mine(jobs[i])
      <4>1. \A k \in DOMAIN jobs' : ~Mine(jobs'[k])
        BY <3>3, <3>6, <3>7 DEF IInv, Queue, OneAtATime, AtOnce
      <4>2. answer'["user"] = "failed"
        BY <3>1, <3>7 DEF Mine, IInv, Queue, QueueType, Parties
      <4>3. OneAtATime'
        BY <4>1, <4>2 DEF OneAtATime
      <4>4. QED BY <3>3, <3>4, <3>5, <4>3 DEF Queue, QueueType
    <3>8. CASE ~Mine(jobs[i])
      <4>1. answer'["user"] = answer["user"]
        BY <3>1, <3>8 DEF Mine, IInv, Queue, QueueType, Parties
      <4>2. \A k \in DOMAIN jobs' : Mine(jobs'[k]) => AtOnce(k)'
        BY <3>1, <3>2, <3>3, <3>6, <4>1 DEF IInv, Queue, OneAtATime, AtOnce
      <4>3. OneAtATime'
        BY <3>1, <4>1, <4>2 DEF IInv, Queue, OneAtATime
      <4>4. QED BY <3>3, <3>4, <3>5, <4>3 DEF Queue, QueueType
    <3>9. QED BY <3>7, <3>8
  <2>9. QED BY <2>2, <2>3, <2>4, <2>5, <2>6, <2>7, <2>8
<1>6. file' \in MaybeLicense /\ touched' \in BOOLEAN
  BY <1>3 DEF TaskReads, TaskIsLate, TaskFindsNothing, TaskVerifies, TaskWrites, TaskFails,
       TaskTimesOut, IInv, Parts, WorldType
<1>7. faults' \in 0 .. MaxFaults
  BY HurtCounts DEF TaskReads, TaskIsLate, TaskFindsNothing, TaskVerifies, TaskWrites, TaskFails,
       TaskTimesOut, IInv, Parts, WorldType
<1>8. WorldType'
  BY <1>1, <1>6, <1>7 DEF world, IInv, Parts, WorldType
<1>9. PluginType' /\ CheckKnows' /\ SyncKnows'
  BY <1>1 DEF plugin, IInv, Parts, PluginType, CheckKnows, SyncKnows
<1>10. Good(face)'
  BY <1>1 DEF plugin, world, IInv, Good, Holds
<1>11. QED BY <1>4, <1>5, <1>8, <1>9, <1>10 DEF IInv, Parts

LEMMA CheckGivingUpKeeps ==
  ASSUME IInv, CheckGivesUp
  PROVE  IInv'
<1>1. \E at : CheckStep(at)
  BY DEF CheckGivesUp
<1>2. UNCHANGED <<world, store>> /\ UserKnows'
  BY <1>1 DEF CheckStep, IInv, Parts, UserKnows
<1>3. QED BY <1>2, CheckGivesUpKeeps, StepIsRight

----------------------------------------------------------------------------
\* The steps of the settings page.

LEMMA PageStepFrame ==
  ASSUME IInv, NEW at, PageStep(at)
  PROVE  /\ user.step = at /\ UNCHANGED store /\ Parts /\ Queue /\ Good(face) /\ PluginType' /\ SyncKnows'
BY DEF PageStep, IInv, Parts, PluginType, SyncKnows

\* Most steps leave the world, the snapshot and the check alone.
LEMMA PageWaitsKeeps ==
  ASSUME IInv, NEW at, PageStep(at), PageWaits, UserKnows', Queue'
  PROVE  IInv'
<1>1. PluginType' /\ SyncKnows' /\ UNCHANGED store
  BY PageStepFrame
<1>2. CheckKnows' /\ Good(face') /\ faults' \in 0 .. MaxFaults
  BY DEF PageWaits, IInv, Parts, CheckKnows, WorldType
<1>3. QED BY <1>1, <1>2, StepIsRight DEF PageWaits, Kept

LEMMA PageIsOver == PageEnds => UserKnows' /\ user'.step = "idle"
BY NothingYet DEF PageEnds, UserKnows

\* The operation ends, or goes on without a task.
LEMMA PageEndingKeeps ==
  ASSUME IInv, NEW at, PageStep(at), PageWaits, PageEnds, UNCHANGED queue \/ Heard("user"),
         at \notin Waiting \/ answer["user"] # "none"
  PROVE  IInv'
<1>1. Queue'
  BY PageStepFrame, PageIsOver, PageMovesOn
<1>2. QED BY <1>1, PageIsOver, PageWaitsKeeps

LEMMA PageGoingOnKeeps ==
  ASSUME IInv, NEW at, PageStep(at), PageWaits, UNCHANGED queue \/ Heard("user"),
         at \notin Waiting \/ answer["user"] # "none", UserKnows', user'.step # "rechecking"
  PROVE  IInv'
<1>1. Queue'
  BY PageStepFrame, PageMovesOn
<1>2. QED BY <1>1, PageWaitsKeeps

LEMMA PageToIsRight ==
  ASSUME UserKnows, NEW at \in PageSteps \ {"idle", "deleting"}, NEW l \in MaybeLicense, PageTo(at, l),
         at \in {"issued", "saving", "confirm"} => l \in Licenses, user.account \in Users
  PROVE  UserKnows' /\ user'.step = at
BY DEF UserKnows, PageTo

\* A step of its own for a task.
LEMMA PageAsking ==
  ASSUME IInv, NEW from, PageStep(from), PageWaits, from \notin Waiting \/ answer["user"] # "none",
         NEW at \in Waiting \ {"deleting"}, UserKnows', user'.step = at,
         NEW op \in {"save", "delete", "verify"}, NEW l \in MaybeLicense,
         NEW e \in MaybeLicense \cup {Whatever}, Enqueue("user", op, l, e),
         at = "rechecking" => op = "verify"
  PROVE  IInv'
<1>1. Queue'
  BY PageStepFrame, PageIsAlone, PageEnqueues
<1>2. QED BY <1>1, PageWaitsKeeps

LEMMA ClicksKeeps ==
  ASSUME IInv, NEW op \in Clickable, Clicks(op)
  PROVE  IInv'
<1>1. /\ user.step = "idle" /\ user' = [NoUser EXCEPT !.step = op, !.account = account]
      /\ account \in Users /\ UNCHANGED <<mobile, expired, store, plugin, check, sync, queue, faults>>
  BY DEF Clicks, IInv, Parts, WorldType
<1>2. UserKnows' /\ user'.step = op
  BY <1>1 DEF UserKnows, NoUser, MaybeLicense, PageSteps, Requests, Clickable
<1>3. Queue'
  BY <1>1, <1>2, PageMovesOn DEF IInv, Waiting, Clickable
<1>4. edits' \in 0 .. MaxEdits
  <2>1. MaxEdits \in Nat
    BY EntitlementAssumption
  <2>2. QED BY <2>1 DEF Clicks, IInv, Parts, WorldType
<1>5. WorldType'
  BY <1>1, <1>4 DEF Clicks, store, IInv, Parts, WorldType
<1>6. PluginType' /\ CheckKnows' /\ SyncKnows' /\ Good(face)'
  BY <1>1 DEF plugin, IInv, Parts, PluginType, CheckKnows, SyncKnows, Good, Holds
<1>7. QED BY <1>2, <1>3, <1>5, <1>6 DEF IInv, Parts

LEMMA DeactivatesKeeps ==
  ASSUME IInv, Deactivates
  PROVE  IInv'
<1>1. /\ user.step = "idle" /\ user' = [NoUser EXCEPT !.step = "deleting"]
      /\ Enqueue("user", "delete", None, Whatever)
      /\ UNCHANGED <<mobile, expired, store, plugin, check, sync, faults>>
  BY DEF Deactivates
<1>2. UserKnows' /\ user'.step = "deleting"
  BY <1>1 DEF UserKnows, NoUser, MaybeLicense, PageSteps
<1>3. Queue'
  <2>1. \A i \in DOMAIN jobs : ~Mine(jobs[i])
    BY <1>1, PageIsAlone DEF IInv, Waiting
  <2>2. None \in MaybeLicense /\ Whatever \in MaybeLicense \cup {Whatever}
    BY DEF MaybeLicense
  <2>3. QED BY <1>1, <1>2, <2>1, <2>2, PageEnqueues DEF IInv, Waiting
<1>4. edits' \in 0 .. MaxEdits
  <2>1. MaxEdits \in Nat
    BY EntitlementAssumption
  <2>2. QED BY <2>1 DEF Deactivates, IInv, Parts, WorldType
<1>5. WorldType'
  BY <1>1, <1>4 DEF Deactivates, store, IInv, Parts, WorldType
<1>6. PluginType' /\ CheckKnows' /\ SyncKnows' /\ Good(face)'
  BY <1>1 DEF plugin, IInv, Parts, PluginType, CheckKnows, SyncKnows, Good, Holds
<1>7. QED BY <1>2, <1>3, <1>5, <1>6 DEF IInv, Parts

LEMMA RedeemsKeeps ==
  ASSUME IInv, Redeems
  PROVE  IInv'
<1>1. PICK l \in Licenses :
        offer' = [offer EXCEPT ![user.account] = l] /\ PageTo("issued", l)
  BY DEF Redeems
<1>2. /\ PageStep("redeem") /\ UNCHANGED <<account, expired, revoked, mobile, edits, face, check, queue, faults>>
      /\ user.account \in Users /\ user.step = "redeem"
  BY DEF Redeems, PageStep, IInv, Parts, UserKnows
<1>3. UserKnows' /\ user'.step = "issued"
  BY <1>1, <1>2, PageToIsRight DEF IInv, Parts, PageSteps, Requests, MaybeLicense
<1>4. Queue' /\ PluginType' /\ SyncKnows' /\ UNCHANGED store
  BY <1>2, <1>3, PageStepFrame, PageMovesOn DEF Waiting
<1>5. WorldType' /\ CheckKnows' /\ Good(face)'
  BY <1>1, <1>2, <1>4 DEF store, IInv, Parts, WorldType, CheckKnows, Good, Holds, MaybeLicense
<1>6. QED BY <1>3, <1>4, <1>5 DEF IInv, Parts

LEMMA RecoversKeeps ==
  ASSUME IInv, Recovers
  PROVE  IInv'
<1>1. PageStep("recover") /\ PageWaits /\ UNCHANGED queue /\ user.account \in Users /\ UserKnows
  BY DEF Recovers, PageStep, IInv, Parts, UserKnows
<1>2. CASE Serves(user.account)
  <2>1. offer[user.account] \in Licenses
    BY <1>1, <1>2 DEF Serves, IInv, Parts, WorldType, MaybeLicense
  <2>2. UserKnows' /\ user'.step = "issued"
    BY <1>1, <1>2, <2>1, PageToIsRight DEF Recovers, PageSteps, Requests, MaybeLicense
  <2>3. QED BY <1>1, <2>2, PageGoingOnKeeps DEF Waiting
<1>3. CASE ~Serves(user.account)
  BY <1>1, <1>3, PageEndingKeeps DEF Recovers, Waiting
<1>4. QED BY <1>2, <1>3

LEMMA PageReadsKeeps ==
  ASSUME IInv, PageReads
  PROVE  IInv'
<1>1. PICK at \in {"refresh", "open"} : PageStep(at)
  BY DEF PageReads
<1>2. PageWaits /\ user.step = at /\ user.account \in Users /\ UserKnows /\ file \in MaybeLicense
  BY <1>1 DEF PageReads, PageStep, IInv, Parts, UserKnows, WorldType
<1>3. CASE PageEnds /\ UNCHANGED queue
  BY <1>1, <1>2, <1>3, PageEndingKeeps DEF Waiting
<1>4. CASE user' = [user EXCEPT !.step = "sync", !.had = file] /\ UNCHANGED queue
  <2>1. UserKnows' /\ user'.step = "sync"
    BY <1>2, <1>4 DEF UserKnows, PageSteps, Requests
  <2>2. QED BY <1>1, <1>2, <1>4, <2>1, PageGoingOnKeeps DEF Waiting
<1>5. CASE user' = [user EXCEPT !.step = "verifying", !.had = file] /\ Enqueue("user", "verify", None, Whatever)
  <2>1. UserKnows' /\ user'.step = "verifying"
    BY <1>2, <1>5 DEF UserKnows, PageSteps
  <2>2. "verifying" \in Waiting \ {"deleting"} /\ None \in MaybeLicense
        /\ Whatever \in MaybeLicense \cup {Whatever}
    BY DEF Waiting, MaybeLicense
  <2>3. QED BY <1>1, <1>2, <1>5, <2>1, <2>2, PageAsking DEF Waiting
<1>6. QED BY <1>3, <1>4, <1>5 DEF PageReads

LEMMA PageSyncsKeeps ==
  ASSUME IInv, PageSyncs
  PROVE  IInv'
<1>1. /\ PageStep("sync") /\ PageWaits /\ UNCHANGED queue
      /\ user.account \in Users /\ UserKnows /\ user.step = "sync"
  BY DEF PageSyncs, PageStep, IInv, Parts, UserKnows
<1>2. CASE PageEnds
  BY <1>1, <1>2, PageEndingKeeps DEF Waiting
<1>3. CASE \E at \in {"active", "cleared"} : PageTo(at, None)
  <2>1. UserKnows' /\ user'.step \in {"active", "cleared"}
    BY <1>1, <1>3 DEF UserKnows, PageTo, PageSteps, Requests, MaybeLicense
  <2>2. QED BY <1>1, <2>1, PageGoingOnKeeps DEF Waiting
<1>4. CASE "changed" \in Reply(user.had, user.account) /\ PageTo("issued", offer[user.account])
  <2>1. offer[user.account] \in Licenses
    BY <1>1, <1>4 DEF Reply, Serves, IInv, Parts, WorldType, MaybeLicense
  <2>2. UserKnows' /\ user'.step = "issued"
    BY <1>1, <1>4, <2>1, PageToIsRight DEF PageSteps, Requests, MaybeLicense
  <2>3. QED BY <1>1, <2>2, PageGoingOnKeeps DEF Waiting
<1>5. QED BY <1>2, <1>3, <1>4 DEF PageSyncs

LEMMA PageFindsSwitchKeeps ==
  ASSUME IInv, PageFindsSwitch
  PROVE  IInv'
<1>1. PICK at \in {"issued", "active", "cleared", "confirm"} : PageStep(at)
  BY DEF PageFindsSwitch
<1>2. QED BY <1>1, PageEndingKeeps DEF PageFindsSwitch, Waiting

LEMMA PageStoresKeeps ==
  ASSUME IInv, PageStores
  PROVE  IInv'
<1>1. /\ PageStep("issued") /\ PageWaits /\ user.account \in Users /\ UserKnows
      /\ user.license \in Licenses
  BY DEF PageStores, PageStep, IInv, Parts, UserKnows
<1>2. CASE PageEnds /\ UNCHANGED queue
  BY <1>1, <1>2, PageEndingKeeps DEF Waiting
<1>3. CASE PageTo("saving", user.license) /\ Enqueue("user", "save", user.license, Whatever)
  <2>1. user.license \in MaybeLicense /\ Whatever \in MaybeLicense \cup {Whatever}
        /\ "saving" \in Waiting \ {"deleting"} /\ "issued" \notin Waiting
    BY <1>1 DEF MaybeLicense, Waiting
  <2>2. UserKnows' /\ user'.step = "saving"
    BY <1>1, <1>3, <2>1, PageToIsRight DEF PageSteps
  <2>3. QED BY <1>1, <1>3, <2>1, <2>2, PageAsking
<1>4. QED BY <1>2, <1>3 DEF PageStores

LEMMA PageGoesOnKeeps ==
  ASSUME IInv, PageGoesOn
  PROVE  IInv'
<1>1. PICK at \in {"active", "cleared"} : PageStep(at)
  BY DEF PageGoesOn
<1>2. PageWaits /\ UNCHANGED queue /\ user.account \in Users /\ UserKnows
  BY <1>1 DEF PageGoesOn, PageStep, IInv, Parts, UserKnows
<1>3. UserKnows' /\ user'.step \in {"reading", "rereading"}
  BY <1>2 DEF PageGoesOn, UserKnows, PageTo, PageSteps, Requests, MaybeLicense
<1>4. QED BY <1>1, <1>2, <1>3, PageGoingOnKeeps DEF Waiting

LEMMA PageRereadsKeeps ==
  ASSUME IInv, PageRereads
  PROVE  IInv'
<1>1. PICK at \in {"reading", "rereading"} : PageStep(at)
  BY DEF PageRereads
<1>2. /\ PageWaits /\ user.account \in Users /\ UserKnows
      /\ file \in MaybeLicense /\ user.had \in MaybeLicense
  BY <1>1 DEF PageRereads, PageStep, IInv, Parts, UserKnows, WorldType
<1>3. CASE PageEnds /\ UNCHANGED queue
  BY <1>1, <1>2, <1>3, PageEndingKeeps DEF Waiting
<1>4. CASE Valid(file, user.account) /\ PageTo("confirm", file) /\ UNCHANGED queue
  <2>1. file \in Licenses
    BY <1>2, <1>4 DEF Valid, MaybeLicense
  <2>2. UserKnows' /\ user'.step = "confirm"
    BY <1>2, <1>4, <2>1, PageToIsRight DEF PageSteps, Requests
  <2>3. QED BY <1>1, <1>2, <1>4, <2>2, PageGoingOnKeeps DEF Waiting
<1>5. CASE PageTo("clearing", None) /\ Enqueue("user", "delete", None, user.had)
  <2>1. None \in MaybeLicense /\ "clearing" \in Waiting \ {"deleting"} /\ at \notin Waiting
    BY DEF MaybeLicense, Waiting
  <2>2. UserKnows' /\ user'.step = "clearing"
    BY <1>2, <1>5, <2>1, PageToIsRight DEF PageSteps
  <2>3. QED BY <1>1, <1>2, <1>5, <2>1, <2>2, PageAsking
<1>6. QED BY <1>3, <1>4, <1>5 DEF PageRereads

LEMMA PageHasStoredKeeps ==
  ASSUME IInv, PageHasStored
  PROVE  IInv'
<1>1. /\ PageStep("saving") /\ PageWaits /\ Heard("user") /\ user.account \in Users /\ UserKnows
      /\ user.license \in Licenses /\ answer["user"] # "none"
  BY DEF PageHasStored, PageStep, IInv, Parts, UserKnows, Heard
<1>2. CASE PageEnds
  BY <1>1, <1>2, PageEndingKeeps
<1>3. CASE PageTo("confirm", user.license)
  <2>1. UserKnows' /\ user'.step = "confirm"
    BY <1>1, <1>3, PageToIsRight DEF PageSteps, Requests, MaybeLicense
  <2>2. QED BY <1>1, <2>1, PageGoingOnKeeps
<1>4. QED BY <1>2, <1>3 DEF PageHasStored

LEMMA HasVerifiedKeeps ==
  ASSUME IInv, HasVerified
  PROVE  IInv'
<1>1. /\ PageStep("verifying") /\ PageWaits /\ answer["user"] # "none"
      /\ user.account \in Users /\ UserKnows /\ user.had \in MaybeLicense
  BY DEF HasVerified, PageStep, IInv, Parts, UserKnows
<1>2. CASE PageEnds /\ Heard("user")
  BY <1>1, <1>2, PageEndingKeeps
<1>3. CASE PageTo("purging", None) /\ Enqueue("user", "delete", None, user.had)
  <2>1. None \in MaybeLicense /\ "purging" \in Waiting \ {"deleting"}
    BY DEF MaybeLicense, Waiting
  <2>2. UserKnows' /\ user'.step = "purging"
    BY <1>1, <1>3, <2>1, PageToIsRight DEF PageSteps
  <2>3. QED BY <1>1, <1>3, <2>1, <2>2, PageAsking
<1>4. QED BY <1>2, <1>3 DEF HasVerified

LEMMA HasPurgedKeeps ==
  ASSUME IInv, HasPurged
  PROVE  IInv'
<1>1. /\ PageStep("purging") /\ PageWaits /\ answer["user"] # "none"
      /\ user.account \in Users /\ UserKnows
  BY DEF HasPurged, PageStep, IInv, Parts, UserKnows
<1>2. CASE PageEnds /\ Heard("user")
  BY <1>1, <1>2, PageEndingKeeps
<1>3. CASE PageTo("rechecking", None) /\ Enqueue("user", "verify", None, Whatever)
  <2>1. None \in MaybeLicense /\ "rechecking" \in Waiting \ {"deleting"}
        /\ Whatever \in MaybeLicense \cup {Whatever}
    BY DEF MaybeLicense, Waiting
  <2>2. UserKnows' /\ user'.step = "rechecking"
    BY <1>1, <1>3, <2>1, PageToIsRight DEF PageSteps
  <2>3. QED BY <1>1, <1>3, <2>1, <2>2, PageAsking
<1>4. QED BY <1>2, <1>3 DEF HasPurged

\* The operation ends with a grant or a refusal.
LEMMA PageDecides ==
  ASSUME IInv, NEW at, PageStep(at), PageEnds, UNCHANGED <<world, faults>>,
         UNCHANGED queue \/ Heard("user"), at \notin Waiting \/ answer["user"] # "none",
         CheckKnows', Good(face')
  PROVE  IInv'
<1>1. PluginType' /\ SyncKnows' /\ UNCHANGED store
  BY PageStepFrame
<1>2. Queue' /\ UserKnows'
  BY PageStepFrame, PageIsOver, PageMovesOn
<1>3. faults' \in 0 .. MaxFaults
  BY DEF IInv, Parts, WorldType
<1>4. QED BY <1>1, <1>2, <1>3, StepIsRight DEF Kept

LEMMA PageGrantsKeeps ==
  ASSUME IInv, PageGrants
  PROVE  IInv'
<1>1. PageStep("confirm") /\ user.license \in Licenses
  BY DEF PageGrants, PageStep, IInv, Parts, UserKnows
<1>2. CheckKnows' /\ Good(face')
  BY <1>1, GrantingIsGood, VerifyingKeeps DEF PageGrants, IInv, Parts
<1>3. QED BY <1>1, <1>2, PageDecides DEF PageGrants, Waiting

LEMMA HasDeletedKeeps ==
  ASSUME IInv, HasDeleted
  PROVE  IInv'
<1>1. PICK at : PageStep(at)
  BY DEF HasDeleted
<1>2. CheckKnows' /\ Good(face')
  <2>1. CASE Verify(Denied(face), TRUE)
    BY <2>1, RefusingIsGood, VerifyingKeeps DEF IInv, Parts
  <2>2. CASE UNCHANGED <<face, check>>
    BY <2>2 DEF IInv, Parts, CheckKnows
  <2>3. QED BY <2>1, <2>2 DEF HasDeleted
<1>3. QED BY <1>1, <1>2, PageDecides DEF HasDeleted, Heard

LEMMA HasRecheckedKeeps ==
  ASSUME IInv, HasRechecked
  PROVE  IInv'
<1>1. PageStep("rechecking") /\ (answer["user"] = "ok" => user.license \in Licenses)
  BY DEF HasRechecked, PageStep, IInv, Queue, OneAtATime
<1>2. CheckKnows' /\ Good(face')
  <2>1. CASE answer["user"] = "ok" /\ Verify(GrantedBy(face, user.license), TRUE)
    BY <1>1, <2>1, GrantingIsGood, VerifyingKeeps DEF IInv, Parts
  <2>2. CASE UNCHANGED <<face, check>>
    BY <2>2 DEF IInv, Parts, CheckKnows
  <2>3. QED BY <2>1, <2>2 DEF HasRechecked
<1>3. QED BY <1>1, <1>2, PageDecides DEF HasRechecked, Heard

LEMMA PageStopsKeeps ==
  ASSUME IInv, PageStops
  PROVE  IInv'
<1>1. PICK at : PageStep(at)
  BY DEF PageStops
<1>2. /\ PluginType' /\ SyncKnows' /\ UNCHANGED <<store, world, face, check>> /\ PageEnds
      /\ faults' \in 0 .. MaxFaults
  BY <1>1, PageStepFrame, HurtCounts DEF PageStops, Parts
<1>3. CheckKnows' /\ Good(face')
  BY <1>2 DEF IInv, Parts, CheckKnows
<1>4. Queue'
  <2>1. /\ jobs \in Seq(Jobs) /\ answer' = [answer EXCEPT !["user"] = "none"]
        /\ jobs' = [i \in DOMAIN jobs |->
                      IF jobs[i].by = "user" THEN [jobs[i] EXCEPT !.awaited = FALSE] ELSE jobs[i]]
    BY DEF PageStops, IInv, Queue, QueueType
  <2>2. ASSUME NEW i \in DOMAIN jobs
        PROVE  /\ jobs'[i] \in Jobs /\ jobs'[i].by = jobs[i].by /\ jobs'[i].expects = jobs[i].expects
               /\ jobs'[i].stage = jobs[i].stage /\ ~Mine(jobs'[i])
    <3>1. jobs[i] \in Jobs
      BY <2>1
    <3>2. QED BY <2>1, <3>1 DEF Jobs, Mine
  <2>3. DOMAIN jobs' = DOMAIN jobs /\ DOMAIN jobs = 1 .. Len(jobs) /\ Len(jobs) \in Nat
    BY <2>1
  <2>4. jobs' \in Seq(Jobs)
    BY <2>1, <2>2, <2>3
  <2>5. answer' \in [Parties -> Answers]
    BY <2>1 DEF IInv, Queue, QueueType, Answers
  <2>6. WriterIsRight' /\ Minded'
    BY <1>2, <2>2, <2>3 DEF store, IInv, Queue, WriterIsRight, Minded
  <2>7. OneAtATime'
    BY <1>2, <2>2, <2>3, PageIsOver DEF OneAtATime
  <2>8. QED BY <2>4, <2>5, <2>6, <2>7 DEF Queue, QueueType
<1>5. QED BY <1>2, <1>3, <1>4, PageIsOver, StepIsRight DEF Kept

LEMMA PageKeeps ==
  ASSUME IInv, Page
  PROVE  IInv'
BY RedeemsKeeps, RecoversKeeps, PageReadsKeeps, PageSyncsKeeps, PageFindsSwitchKeeps,
   PageStoresKeeps, PageGoesOnKeeps, PageRereadsKeeps, PageHasStoredKeeps, PageGrantsKeeps,
   HasDeletedKeeps, HasVerifiedKeeps, HasPurgedKeeps, HasRecheckedKeeps
DEF Page

----------------------------------------------------------------------------
\* The clock and the world.

LEMMA ClockKeeps ==
  ASSUME IInv, Clock \/ Looks \/ StartsRuntimes \/ StopEnds
  PROVE  IInv'
<1>1. Elapses
  BY DEF Clock, Looks, StartsRuntimes, StopEnds, TimerFires, RefreshFires, GraceEnds, HalfHour, Cools
<1>2. Queue' /\ SyncKnows' /\ UserKnows' /\ faults' \in 0 .. MaxFaults /\ UNCHANGED <<world, store>>
  BY <1>1, QueueFrame DEF Elapses, IInv, Parts, SyncKnows, UserKnows, WorldType
<1>3. PluginType'
  BY DEF Clock, Looks, StartsRuntimes, StopEnds, TimerFires, RefreshFires, GraceEnds, HalfHour,
     Cools, IInv, Parts, PluginType
<1>4. CheckKnows' /\ Good(face')
  <2>1. CASE \E syncs \in BOOLEAN : Verify(face, syncs)
    BY <2>1, VerifyingKeeps DEF IInv, Parts
  <2>2. CASE UNCHANGED <<face, check>>
    BY <2>2 DEF IInv, Parts, CheckKnows
  <2>3. CASE StartsRuntimes
    <3>1. CheckKnows'
      BY <2>3 DEF StartsRuntimes, IInv, Parts, CheckKnows
    <3>2. PICK c \in {"off", "on", "lost"} :
            /\ face' = [face EXCEPT !.starts = face.starts \ {"due"}, !.centre = c,
                                    !.running = face.running \/ Granted]
            /\ c = face.centre \/ (Granted /\ ~mobile)
      BY <2>3 DEF StartsRuntimes, MayStart, IInv, Good, Faces
    <3>3. QED BY <3>1, <3>2 DEF IInv, Good, Faces, Granted
  <2>4. CASE StopEnds
    <3>1. CheckKnows'
      BY <2>4 DEF StopEnds, IInv, Parts, CheckKnows
    <3>2. PICK c \in {"off", "lost"} :
            face' = [face EXCEPT !.stops = face.stops - 1, !.centre = c]
      BY <2>4 DEF StopEnds
    <3>3. face.stops - 1 \in Nat
      BY <2>4 DEF StopEnds, IInv, Good, Faces
    <3>4. QED BY <3>1, <3>2, <3>3 DEF IInv, Good, Faces
  <2>5. QED BY <2>1, <2>2, <2>3, <2>4
            DEF Clock, Looks, TimerFires, RefreshFires, GraceEnds, HalfHour, Cools
<1>5. QED BY <1>2, <1>3, <1>4, StepIsRight DEF Kept

LEMMA WorldKeeps ==
  ASSUME IInv, World
  PROVE  IInv'
<1>1. edits' \in 0 .. MaxEdits /\ UNCHANGED <<mobile, check, sync, user, queue, faults>>
  <2>1. MaxEdits \in Nat
    BY EntitlementAssumption
  <2>2. Changes
    BY DEF World, SwitchesAccount, FileArrives, SiyuanSyncs, DayEnds, ServiceDecides
  <2>3. QED BY <2>1, <2>2 DEF Changes, IInv, Parts, WorldType
<1>2. CheckKnows' /\ SyncKnows' /\ UserKnows' /\ QueueType' /\ Minded' /\ OneAtATime'
  BY <1>1 DEF queue, IInv, Parts, CheckKnows, SyncKnows, UserKnows, Queue, QueueType, Minded,
       OneAtATime, AtOnce
<1>3. /\ WorldType' /\ PluginType' /\ face' = face /\ expired \subseteq expired'
      /\ UNCHANGED store \/ touched' = \E i \in DOMAIN jobs : jobs[i].stage = "writing"
  <2>1. CASE SwitchesAccount
    BY <1>1, <2>1 DEF SwitchesAccount, store, plugin, IInv, Parts, WorldType, PluginType
  <2>2. CASE FileArrives
    BY <1>1, <2>2 DEF FileArrives, IInv, Parts, WorldType, PluginType
  <2>3. CASE SiyuanSyncs
    BY <1>1, <2>3 DEF SiyuanSyncs, store, IInv, Parts, WorldType, PluginType
  <2>4. CASE DayEnds
    BY <1>1, <2>4 DEF DayEnds, store, plugin, IInv, Parts, WorldType, PluginType
  <2>5. CASE ServiceDecides
    <3>1. revoked' \subseteq Licenses /\ offer' \in [Users -> MaybeLicense]
      BY <2>5 DEF ServiceDecides, IInv, Parts, WorldType
    <3>2. QED BY <1>1, <2>5, <3>1 DEF ServiceDecides, store, plugin, IInv, Parts, WorldType, PluginType
  <2>6. QED BY <2>1, <2>2, <2>3, <2>4, <2>5 DEF World
<1>4. WriterIsRight'
  <2>1. UNCHANGED jobs
    BY <1>1 DEF queue
  <2>2. CASE UNCHANGED store
    BY <2>1, <2>2 DEF store, IInv, Queue, WriterIsRight
  <2>3. CASE touched' = \E i \in DOMAIN jobs : jobs[i].stage = "writing"
    <3>1. CASE \E i \in DOMAIN jobs : jobs[i].stage = "writing"
      BY <2>1, <2>3, <3>1 DEF IInv, Queue, WriterIsRight
    <3>2. CASE \A i \in DOMAIN jobs : jobs[i].stage # "writing"
      BY <2>1, <3>2 DEF WriterIsRight
    <3>3. QED BY <3>1, <3>2
  <2>4. QED BY <1>3, <2>2, <2>3
<1>5. Good(face)'
  BY <1>1, <1>3 DEF IInv, Good, Holds
<1>6. QED BY <1>2, <1>3, <1>4, <1>5 DEF IInv, Parts, Queue

LEMMA ReloadKeeps ==
  ASSUME IInv, Reload
  PROVE  IInv'
<1>1. faults' \in 0 .. MaxFaults /\ UNCHANGED <<world, store>>
  BY HurtCounts DEF Reload, IInv, Parts
<1>2. CheckKnows' /\ SyncKnows' /\ UserKnows'
  BY CheckBegins, NothingYet DEF Reload, SyncKnows, UserKnows
<1>3. Queue'
  BY NothingYet DEF Reload, Queue, QueueType, WriterIsRight, Minded, OneAtATime, Answers
<1>4. PluginType'
  BY DEF Reload, PluginType, MaybeLicense
<1>5. Good(face')
  BY NothingYet DEF Reload
<1>6. QED BY <1>1, <1>2, <1>3, <1>4, <1>5, StepIsRight DEF Kept

LEMMA NextIsRight == IInv /\ [Next]_vars => IInv'
<1> SUFFICES ASSUME IInv, [Next]_vars PROVE IInv'
  OBVIOUS
<1>1. CASE UNCHANGED vars
  <2>1. UNCHANGED <<world, store, plugin, check, sync, user, queue, faults>>
    BY <1>1 DEF vars
  <2>2. Kept /\ UserKnows'
    BY <2>1, QueueFrame DEF plugin, IInv, Parts, Kept, PluginType, CheckKnows, SyncKnows, UserKnows, WorldType
  <2>3. QED BY <2>1, <2>2, StepIsRight
<1>2. CASE Task \/ Faults
  BY <1>2, TaskKeeps, CheckGivingUpKeeps, SynchroniseKeeps, PageStopsKeeps DEF Task, Faults
<1>3. QED BY <1>1, <1>2, CheckKeeps, SynchroniseKeeps, PageKeeps, ClockKeeps, ClicksKeeps,
             DeactivatesKeeps, WorldKeeps, ReloadKeeps
          DEF Next

THEOREM EntitlementInvariant == Spec => []IInv
BY InitIsRight, NextIsRight, PTL DEF Spec

----------------------------------------------------------------------------
\* What follows.

\* Every variable keeps its type: a grant has a license, a check past its first
\* steps an account (index.ts, advanced.ts).
THEOREM EntitlementTypeCorrect == Spec => []TypeOK
<1>1. IInv => TypeOK
  BY DEF IInv, Parts, WorldType, PluginType, CheckKnows, SyncKnows, UserKnows, Queue, QueueType,
     Good, TypeOK
<1>2. QED BY <1>1, EntitlementInvariant, PTL

\* However starts, grants and losses follow each other, runtimes run only while
\* the last word to the listeners was that the features are there (index.ts:815).
THEOREM StoppedRuntimesStayStopped == Spec => []StopHolds
<1>1. IInv => StopHolds
  BY DEF IInv, Good, StopHolds, Granted
<1>2. QED BY <1>1, EntitlementInvariant, PTL

\* However many tasks were given up by those who waited for them, each that writes
\* for a check or a synchronisation finds the license its caller had in mind, and so
\* does each by which the page clears one (advanced.ts:24 and :486).  What somebody
\* asked the page to store is set aside: advanced.ts:443 does not look.
THEOREM NewerLicensesAreKept == Spec => KeepsNewer
<1>1. IInv => \A i \in DOMAIN jobs :
                TaskWrites(i) /\ ~AskedFor(jobs[i]) /\ ~touched => file = jobs[i].expects
  BY DEF IInv, Queue, WriterIsRight, Minded, AskedFor, TaskWrites
<1>2. QED BY <1>1, EntitlementInvariant, PTL DEF KeepsNewer
=============================================================================

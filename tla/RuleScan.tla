------------------------------- MODULE RuleScan -------------------------------
(***************************************************************************)
(* The notification rules of the user (notification-rule-runtime.ts) over  *)
(* NotificationDelivery.  Every window scans: it announces, rule by rule,  *)
(* the last occurrence since lastScanAt, and moves lastScanAt to the time  *)
(* the scan began once every rule is through.  The notification center     *)
(* starts and destroys the scans of a window with its membership           *)
(* (notification-center-runtime.ts).                                       *)
(***************************************************************************)
EXTENDS NotificationDelivery

CONSTANTS
  Rules,
  Occurs,     \* the times of a rule's trigger
  Scanner,    \* the caller that scans in a window
  MaxTime     \* bound of the clock

ASSUME RuleAssumption ==
  /\ Occurs \in [Rules -> SUBSET Nat] /\ MaxTime \in Nat
  /\ Scanner \in [Windows -> Callers] /\ \A w \in Windows : WindowOf[Scanner[w]] = w
  /\ \A r \in Rules : \A o \in Occurs[r] : <<r, o>> \in Events

VARIABLES
  scan,       \* the scan of each window, and its lastScanAt
  now,
  member,     \* the membership of each window
  announced,  \* history: the events whose notify returned, by window
  since       \* history: lastScanAt when the scans of the window were started

vars == <<delivery, scan, now, member, announced, since>>

\* Granted, run out without an event, or gone with the scans it had started.
Memberships == {"granted", "expired", "gone"}

TypeOK ==
  /\ DeliveryTypeOK
  /\ scan \in [Windows -> [pc : {"idle", "loop"}, upTo : Nat, left : SUBSET Rules,
                           last : Int]]
  /\ now \in 0 .. MaxTime /\ member \in [Windows -> Memberships]
  /\ announced \in [Windows -> SUBSET Events] /\ since \in [Windows -> Int]

Opened(time) == [pc |-> "idle", upTo |-> 0, left |-> {}, last |-> time - 1]
Init ==
  /\ DeliveryInit
  /\ scan = [w \in Windows |-> Opened(0)] /\ now = 0
  /\ member \in [Windows -> {"granted", "gone"}]
  /\ announced = [w \in Windows |-> {}] /\ since = [w \in Windows |-> -1]

Set(w, new) == scan' = [scan EXCEPT ![w] = new]
NotDelivering == UNCHANGED delivery
World == <<now, member, since>>
Available(w) == member[w] = "granted"

\* The scheduler runs the task while the feature is available; the rules are
\* listed, or listing them fails.
Begin(w) ==
  /\ scan[w].pc = "idle" /\ Available(w)
  /\ Set(w, [scan[w] EXCEPT !.pc = "loop", !.upTo = now, !.left = Rules])
  /\ NotDelivering /\ UNCHANGED <<World, announced>>
ListFails(w) ==
  /\ scan[w].pc = "idle" /\ Available(w) /\ Fault
  /\ UNCHANGED <<call, session, history, index, seen, crossed, scan, World, announced>>

\* A scan that throws leaves lastScanAt.  Faulty variant: it does not.
AbortedForGood(s) == [s EXCEPT !.pc = "idle", !.upTo = 0, !.left = {}, !.last = s.upTo]
Aborted(s) == [s EXCEPT !.pc = "idle", !.upTo = 0, !.left = {}]

\* listScheduledBetween, of which the last one counts
Due(r, s) == {o \in Occurs[r] : s.last < o /\ o <= s.upTo}
Latest(r, s) == CHOOSE o \in Due(r, s) : \A other \in Due(r, s) : other <= o
Busy(w) == call[Scanner[w]].pc # "idle"
Looking(w, r) == scan[w].pc = "loop" /\ ~Busy(w) /\ r \in scan[w].left
Done(w, r) == [scan[w] EXCEPT !.left = @ \ {r}]

\* Without the feature notify returns at once, and does not throw.
Skip(w, r) ==
  /\ Looking(w, r) /\ (Due(r, scan[w]) # {} => ~Available(w))
  /\ Set(w, Done(w, r))
  /\ announced' = IF Due(r, scan[w]) = {} THEN announced
                  ELSE [announced EXCEPT ![w] = @ \cup {<<r, Latest(r, scan[w])>>}]
  /\ NotDelivering /\ UNCHANGED World

Announce(w, r) ==
  /\ Looking(w, r) /\ Due(r, scan[w]) # {} /\ Available(w)
  /\ Start(Scanner[w], <<r, Latest(r, scan[w])>>) /\ Set(w, Done(w, r))
  /\ UNCHANGED <<World, announced>>

\* notify could not load the settings.
AnnounceFails(w, r) ==
  /\ Looking(w, r) /\ Due(r, scan[w]) # {} /\ Available(w) /\ Fault
  /\ Set(w, Aborted(scan[w]))
  /\ UNCHANGED <<call, session, history, index, seen, crossed, World, announced>>

Returned(w) ==
  LET c == Scanner[w] IN
  /\ Settle(c)
  /\ IF At(c, "done")
     THEN announced' = [announced EXCEPT ![w] = @ \cup {call[c].event}] /\ UNCHANGED scan
     ELSE Set(w, Aborted(scan[w])) /\ UNCHANGED announced
  /\ UNCHANGED World

\* Faulty variant: lastScanAt is the time the scan ended.
ScannedToNow(s) == now
ScannedTo(s) == s.upTo
Finish(w) ==
  /\ scan[w].pc = "loop" /\ scan[w].left = {} /\ ~Busy(w)
  /\ Set(w, [scan[w] EXCEPT !.pc = "idle", !.upTo = 0, !.last = ScannedTo(scan[w])])
  /\ NotDelivering /\ UNCHANGED <<World, announced>>

\* A window that is opened again has the membership checked, and then starts.
Restart(w) ==
  /\ Crash(w) /\ Set(w, Opened(now)) /\ since' = [since EXCEPT ![w] = now - 1]
  /\ member' = IF Available(w) THEN member ELSE [member EXCEPT ![w] = "gone"]
  /\ announced' = [announced EXCEPT ![w] = {}] /\ UNCHANGED now
Tick ==
  /\ now < MaxTime /\ now' = now + 1
  /\ NotDelivering /\ UNCHANGED <<scan, member, announced, since>>

\* The membership of a window is lost: its scans are destroyed, but for the one
\* under way.  One that only runs out is announced to nobody.
Lose(w) ==
  /\ Available(w) /\ \E how \in {"expired", "gone"} : member' = [member EXCEPT ![w] = how]
  /\ NotDelivering /\ UNCHANGED <<scan, now, announced, since>>

\* It returns: scans that were destroyed begin anew, a minute ago.
Started(w) ==
  /\ Set(w, [scan[w] EXCEPT !.last = now - 1]) /\ since' = [since EXCEPT ![w] = now - 1]
Regain(w) ==
  /\ ~Available(w) /\ member' = [member EXCEPT ![w] = "granted"]
  /\ IF member[w] = "gone" THEN Started(w) ELSE UNCHANGED <<scan, since>>
  /\ NotDelivering /\ UNCHANGED <<now, announced>>

Scans(w) ==
  \/ Returned(w) \/ Finish(w)
  \/ \E r \in Rules : Skip(w, r) \/ Announce(w, r) \/ AnnounceFails(w, r)
Delivers(c) == Deliver(c) /\ UNCHANGED <<scan, World, announced>>

\* What a window does by itself.
Proceeds(w) == Begin(w) \/ Scans(w) \/ Delivers(Scanner[w])

Next ==
  \/ \E w \in Windows : Proceeds(w) \/ ListFails(w) \/ Restart(w) \/ Lose(w) \/ Regain(w)
  \/ Tick

Spec == Init /\ [][Next]_vars

\* The scheduler scans again and again, and promises are settled.
Fairness == \A w \in Windows : WF_vars(Proceeds(w))
FairSpec == Spec /\ Fairness

----------------------------------------------------------------------------
\* Correctness

\* A window never counts as scanned what it has not announced: of every
\* occurrence since its scans were started and up to lastScanAt, it or a later one
\* of its rule was, or was refused because the membership was just not there.
\* What fell due before a membership that was gone returned is nobody's any more.
Answered(w, r, o, upTo) ==
  \E later \in Occurs[r] : o <= later /\ later <= upTo /\ <<r, later>> \in announced[w]
NothingSkipped ==
  \A w \in Windows, r \in Rules : \A o \in Occurs[r] :
    since[w] < o /\ o <= scan[w].last => Answered(w, r, o, scan[w].last)

\* Every occurrence since the scans of a window were started is announced or refused,
\* or a later one is, if the membership stays: a failing scan only puts it off, and so
\* does a membership that ran out between two scans and was renewed.
Owed(w, r, o) == since[w] < o /\ o <= now /\ ~Answered(w, r, o, now)
OccurrencesAreAnnounced ==
  \A w \in Windows, r \in Rules, o \in 0 .. MaxTime :
    o \in Occurs[r] => ([]<>(~Owed(w, r, o)) \/ []<>(~Available(w)))
=============================================================================

---------------------------- MODULE RuleScanProofs ----------------------------
(***************************************************************************)
(* Proofs about RuleScan for any windows, rules, occurrences, targets and  *)
(* years: what a scan may rely on and what it never skips.                 *)
(***************************************************************************)
EXTENDS RuleScan, NotificationDeliveryProofs, WellFoundedInduction

----------------------------------------------------------------------------
\* The last occurrence that is due exists.

LEMMA LatestIsLast ==
  ASSUME NEW r \in Rules, NEW s, s.last \in Int, s.upTo \in Nat, Due(r, s) # {}
  PROVE  Latest(r, s) \in Due(r, s) /\ \A o \in Due(r, s) : o <= Latest(r, s)
<1> DEFINE Ages == {s.upTo - o : o \in Due(r, s)}
<1>1. Due(r, s) \subseteq Nat /\ \A o \in Due(r, s) : o <= s.upTo
  BY RuleAssumption DEF Due
<1>2. Ages \subseteq Nat /\ Ages # {}
  BY <1>1
<1>3. PICK age \in Ages : \A other \in Ages : ~(<<other, age>> \in OpToRel(<, Nat))
  <2> HIDE DEF Ages
  <2>1. QED BY <1>2, NatLessThanWellFounded, WFMin
<1>4. \A other \in Ages : ~(other < age)
  BY <1>2, <1>3 DEF OpToRel
<1>5. PICK o \in Due(r, s) : age = s.upTo - o
  BY <1>3
<1>6. \A other \in Due(r, s) : other <= o
  <2> SUFFICES ASSUME NEW other \in Due(r, s) PROVE other <= o
    OBVIOUS
  <2>1. s.upTo - other \in Ages
    OBVIOUS
  <2>2. ~(s.upTo - other < s.upTo - o)
    BY <2>1, <1>4, <1>5
  <2>3. other \in Nat /\ o \in Nat
    BY <1>1
  <2>4. QED BY <2>2, <2>3
<1>7. QED BY <1>6 DEF Latest

LEMMA LatestIsEvent ==
  ASSUME NEW r \in Rules, NEW s, s.last \in Int, s.upTo \in Nat, Due(r, s) # {}
  PROVE  <<r, Latest(r, s)>> \in Events
<1>1. Latest(r, s) \in Occurs[r]
  BY LatestIsLast DEF Due
<1>2. QED BY <1>1, RuleAssumption

----------------------------------------------------------------------------
\* Types.

LEMMA ScanTyped ==
  ASSUME TypeOK, NEW w \in Windows
  PROVE  /\ scan[w].pc \in {"idle", "loop"} /\ scan[w].upTo \in Nat
         /\ scan[w].left \in SUBSET Rules /\ scan[w].last \in Int
         /\ Scanner[w] \in Callers /\ WindowOf[Scanner[w]] = w
BY RuleAssumption DEF TypeOK

\* Every step of the rules is one the deliveries know.
LEMMA RulesDeliver == TypeOK /\ [Next]_vars => Delivery
<1> SUFFICES ASSUME TypeOK, [Next]_vars PROVE Delivery
  OBVIOUS
<1>1. ASSUME NEW w \in Windows, Proceeds(w) PROVE Delivery
  <2>1. Scanner[w] \in Callers
    BY ScanTyped
  <2>2. CASE Begin(w) BY <2>2 DEF Begin, NotDelivering, Delivery
  <2>3. CASE Returned(w) BY <2>1, <2>3 DEF Returned, Delivery
  <2>4. CASE Finish(w) BY <2>4 DEF Finish, NotDelivering, Delivery
  <2>5. ASSUME NEW r \in Rules, Skip(w, r) PROVE Delivery
    BY <2>5 DEF Skip, NotDelivering, Delivery
  <2>6. ASSUME NEW r \in Rules, Announce(w, r) PROVE Delivery
    <3>1. <<r, Latest(r, scan[w])>> \in Events
      BY <2>6, ScanTyped, LatestIsEvent DEF Announce
    <3>2. Start(Scanner[w], <<r, Latest(r, scan[w])>>)
      BY <2>6 DEF Announce
    <3>3. QED BY <2>1, <3>1, <3>2 DEF Delivery
  <2>7. ASSUME NEW r \in Rules, AnnounceFails(w, r) PROVE Delivery
    BY <2>7 DEF AnnounceFails, Delivery
  <2>8. CASE Delivers(Scanner[w])
    BY <2>1, <2>8 DEF Delivers, Delivery
  <2>9. QED BY <1>1, <2>2, <2>3, <2>4, <2>5, <2>6, <2>7, <2>8 DEF Proceeds, Scans
<1>2. ASSUME NEW w \in Windows, ListFails(w) PROVE Delivery
  BY <1>2 DEF ListFails, Delivery
<1>3. ASSUME NEW w \in Windows, Restart(w) PROVE Delivery
  BY <1>3 DEF Restart, Delivery
<1>4. ASSUME Tick \/ \E w \in Windows : Lose(w) \/ Regain(w) PROVE Delivery
  BY <1>4 DEF Tick, Lose, Regain, NotDelivering, Delivery
<1>5. CASE UNCHANGED vars
  BY <1>5 DEF vars, Delivery
<1>6. QED BY <1>1, <1>2, <1>3, <1>4, <1>5 DEF Next

RuleTypes ==
  /\ scan \in [Windows -> [pc : {"idle", "loop"}, upTo : Nat, left : SUBSET Rules, last : Int]]
  /\ now \in 0 .. MaxTime /\ member \in [Windows -> Memberships]
  /\ announced \in [Windows -> SUBSET Events] /\ since \in [Windows -> Int]

\* A window's scan moves on, and perhaps it counts one more event as announced.
LEMMA ScanKeepsTypes ==
  ASSUME RuleTypes, NEW w \in Windows,
         NEW new \in [pc : {"idle", "loop"}, upTo : Nat, left : SUBSET Rules, last : Int],
         NEW more \in SUBSET Events,
         Set(w, new) \/ scan' = scan,
         announced' = announced \/ announced' = [announced EXCEPT ![w] = @ \cup more],
         UNCHANGED World
  PROVE  RuleTypes'
<1>1. scan' \in [Windows -> [pc : {"idle", "loop"}, upTo : Nat, left : SUBSET Rules, last : Int]]
  BY DEF RuleTypes, Set
<1>2. announced' \in [Windows -> SUBSET Events]
  BY DEF RuleTypes
<1>3. QED BY <1>1, <1>2 DEF RuleTypes, World

LEMMA NextRuleTypes == TypeOK /\ Kinds /\ [Next]_vars => RuleTypes'
<1> SUFFICES ASSUME TypeOK, Kinds, [Next]_vars PROVE RuleTypes'
  OBVIOUS
<1>t. RuleTypes
  BY DEF TypeOK, RuleTypes
<1>n. now \in Nat /\ MaxTime \in Nat /\ {} \in SUBSET Events
  BY <1>t, RuleAssumption DEF RuleTypes
<1>1. ASSUME NEW w \in Windows, Proceeds(w) PROVE RuleTypes'
  <2>s. /\ scan[w] \in [pc : {"idle", "loop"}, upTo : Nat, left : SUBSET Rules, last : Int]
        /\ Scanner[w] \in Callers
    BY <1>t, ScanTyped DEF RuleTypes
  <2>a. Aborted(scan[w]) \in [pc : {"idle", "loop"}, upTo : Nat, left : SUBSET Rules, last : Int]
    BY <2>s DEF Aborted
  <2>1. CASE Begin(w)
    <3> DEFINE new == [scan[w] EXCEPT !.pc = "loop", !.upTo = now, !.left = Rules]
    <3>1. new \in [pc : {"idle", "loop"}, upTo : Nat, left : SUBSET Rules, last : Int]
      BY <2>s, <1>n
    <3>2. Set(w, new) /\ announced' = announced /\ UNCHANGED World
      BY <2>1 DEF Begin
    <3> HIDE DEF new
    <3>3. QED BY <3>1, <3>2, <1>t, <1>n, ScanKeepsTypes
  <2>2. CASE Returned(w)
    <3>1. CASE At(Scanner[w], "done")
      <4> DEFINE more == {call[Scanner[w]].event}
      <4>1. more \in SUBSET Events
        BY <2>s, <3>1 DEF Kinds, Placed, At
      <4>2. announced' = [announced EXCEPT ![w] = @ \cup more] /\ scan' = scan /\ UNCHANGED World
        BY <2>2, <3>1 DEF Returned
      <4> HIDE DEF more
      <4>3. QED BY <4>1, <4>2, <2>s, <1>t, ScanKeepsTypes
    <3>2. CASE ~At(Scanner[w], "done")
      <4>1. Set(w, Aborted(scan[w])) /\ announced' = announced /\ UNCHANGED World
        BY <2>2, <3>2 DEF Returned
      <4>2. QED BY <4>1, <2>a, <1>t, <1>n, ScanKeepsTypes
    <3>3. QED BY <3>1, <3>2
  <2>3. CASE Finish(w)
    <3> DEFINE new == [scan[w] EXCEPT !.pc = "idle", !.upTo = 0, !.last = ScannedTo(scan[w])]
    <3>0. ScannedTo(scan[w]) \in Int
      BY <2>s DEF ScannedTo
    <3>1. new \in [pc : {"idle", "loop"}, upTo : Nat, left : SUBSET Rules, last : Int]
      BY <2>s, <3>0
    <3>2. Set(w, new) /\ announced' = announced /\ UNCHANGED World
      BY <2>3 DEF Finish
    <3> HIDE DEF new
    <3>3. QED BY <3>1, <3>2, <1>t, <1>n, ScanKeepsTypes
  <2>4. ASSUME NEW r \in Rules, Skip(w, r) PROVE RuleTypes'
    <3>1. Done(w, r) \in [pc : {"idle", "loop"}, upTo : Nat, left : SUBSET Rules, last : Int]
      BY <2>s DEF Done
    <3>2. CASE Due(r, scan[w]) = {}
      <4>1. Set(w, Done(w, r)) /\ announced' = announced /\ UNCHANGED World
        BY <2>4, <3>2 DEF Skip
      <4>2. QED BY <4>1, <3>1, <1>t, <1>n, ScanKeepsTypes
    <3>3. CASE Due(r, scan[w]) # {}
      <4> DEFINE more == {<<r, Latest(r, scan[w])>>}
      <4>1. more \in SUBSET Events
        BY <3>3, ScanTyped, LatestIsEvent
      <4>2. Set(w, Done(w, r)) /\ announced' = [announced EXCEPT ![w] = @ \cup more]
            /\ UNCHANGED World
        BY <2>4, <3>3 DEF Skip
      <4> HIDE DEF more
      <4>3. QED BY <4>1, <4>2, <3>1, <1>t, ScanKeepsTypes
    <3>4. QED BY <3>2, <3>3
  <2>5. ASSUME NEW r \in Rules, Announce(w, r) PROVE RuleTypes'
    <3>1. Done(w, r) \in [pc : {"idle", "loop"}, upTo : Nat, left : SUBSET Rules, last : Int]
      BY <2>s DEF Done
    <3>2. Set(w, Done(w, r)) /\ announced' = announced /\ UNCHANGED World
      BY <2>5 DEF Announce
    <3>3. QED BY <3>1, <3>2, <1>t, <1>n, ScanKeepsTypes
  <2>6. ASSUME NEW r \in Rules, AnnounceFails(w, r) PROVE RuleTypes'
    <3>1. Set(w, Aborted(scan[w])) /\ announced' = announced /\ UNCHANGED World
      BY <2>6 DEF AnnounceFails
    <3>2. QED BY <3>1, <2>a, <1>t, <1>n, ScanKeepsTypes
  <2>7. CASE Delivers(Scanner[w])
    BY <2>7, <1>t DEF Delivers, RuleTypes, World
  <2>8. QED BY <1>1, <2>1, <2>2, <2>3, <2>4, <2>5, <2>6, <2>7 DEF Proceeds, Scans
<1>2. ASSUME NEW w \in Windows, ListFails(w) PROVE RuleTypes'
  BY <1>2, <1>t DEF ListFails, RuleTypes, World
<1>m. {"granted", "expired", "gone"} \subseteq Memberships
  BY DEF Memberships
<1>3. ASSUME NEW w \in Windows, Restart(w) PROVE RuleTypes'
  <2>1. Opened(now) \in [pc : {"idle", "loop"}, upTo : Nat, left : SUBSET Rules, last : Int]
    BY <1>n DEF Opened
  <2>2. scan' \in [Windows -> [pc : {"idle", "loop"}, upTo : Nat, left : SUBSET Rules, last : Int]]
    BY <1>3, <1>t, <2>1 DEF Restart, Set, RuleTypes
  <2>3. announced' \in [Windows -> SUBSET Events] /\ since' \in [Windows -> Int]
    BY <1>3, <1>t, <1>n DEF Restart, RuleTypes
  <2>4. member' \in [Windows -> Memberships]
    BY <1>3, <1>t, <1>m DEF Restart, RuleTypes
  <2>5. QED BY <1>3, <1>t, <2>2, <2>3, <2>4 DEF Restart, RuleTypes
<1>4. CASE Tick
  BY <1>4, <1>t, <1>n DEF Tick, RuleTypes
<1>5. ASSUME NEW w \in Windows, Lose(w) PROVE RuleTypes'
  <2>1. member' \in [Windows -> Memberships]
    BY <1>5, <1>t, <1>m DEF Lose, RuleTypes
  <2>2. QED BY <1>5, <1>t, <2>1 DEF Lose, RuleTypes
<1>6. ASSUME NEW w \in Windows, Regain(w) PROVE RuleTypes'
  <2> DEFINE new == [scan[w] EXCEPT !.last = now - 1]
  <2>1. new \in [pc : {"idle", "loop"}, upTo : Nat, left : SUBSET Rules, last : Int]
    BY <1>t, <1>n DEF RuleTypes
  <2>2. member' \in [Windows -> Memberships]
    BY <1>6, <1>t, <1>m DEF Regain, RuleTypes
  <2>3. \/ scan' = scan /\ since' = since
        \/ scan' = [scan EXCEPT ![w] = new] /\ since' = [since EXCEPT ![w] = now - 1]
    BY <1>6 DEF Regain, Started, Set
  <2> HIDE DEF new
  <2>4. scan' \in [Windows -> [pc : {"idle", "loop"}, upTo : Nat, left : SUBSET Rules, last : Int]]
    BY <1>t, <2>1, <2>3 DEF RuleTypes
  <2>5. since' \in [Windows -> Int]
    BY <1>t, <1>n, <2>3 DEF RuleTypes
  <2>6. QED BY <1>6, <1>t, <2>2, <2>4, <2>5 DEF Regain, RuleTypes
<1>7. CASE UNCHANGED vars
  BY <1>7, <1>t DEF vars, RuleTypes
<1>8. QED BY <1>1, <1>2, <1>3, <1>4, <1>5, <1>6, <1>7 DEF Next

----------------------------------------------------------------------------
\* What a scan has done: of the rules it is through with, every occurrence since
\* the scans were started was announced, or a later one, or the call that does it is
\* under way.  Scans that are started anew move lastScanAt under the one under way.

Announces(c, event) ==
  \/ At(c, "rejected")
  \/ call[c].pc \in {"next", "send", "record", "write", "count", "verify", "done"}
     /\ call[c].event = event
Through(w, r) ==
  \A o \in Occurs[r] : since[w] < o /\ o <= scan[w].upTo =>
    \E later \in Occurs[r] :
      /\ o <= later /\ later <= scan[w].upTo
      /\ <<r, later>> \in announced[w] \/ Announces(Scanner[w], <<r, later>>)
ScanIsRight(w) ==
  /\ scan[w].last <= now /\ since[w] < now
  /\ scan[w].pc = "loop" =>
       /\ scan[w].last <= scan[w].upTo \/ scan[w].last <= since[w]
       /\ scan[w].upTo <= now
       /\ \A r \in Rules \ scan[w].left : Through(w, r)
  /\ \A r \in Rules : \A o \in Occurs[r] :
       since[w] < o /\ o <= scan[w].last => Answered(w, r, o, scan[w].last)
ScansAreRight == \A w \in Windows : ScanIsRight(w)

\* A delivery is of the event it was, until it is rejected.
LEMMA DeliverKeepsEvent ==
  ASSUME Kinds, NEW c \in Callers, Deliver(c), NEW event, Announces(c, event)
  PROVE  Announces(c, event)'
<1>1. call[c].event = event /\ call[c] \in States
  <2>1. ~At(c, "rejected")
    BY DEF Deliver, Check, CheckFails, Takes, Send, ReadYear, WriteYear, WriteIndex,
           VerifyIndex, RecordFails, Recording, At
  <2>2. QED BY <2>1 DEF Announces, Kinds, Placed
<1>2. ASSUME NEW target \in Targets, Check(c, target) PROVE Announces(c, event)'
  BY <1>1, <1>2, Targeted DEF Announces, At
<1>3. ASSUME NEW target \in Targets, CheckFails(c, target) PROVE Announces(c, event)'
  BY <1>3, Puts DEF CheckFails, NoCall, Announces, At
<1>4. ASSUME NEW sent \in BOOLEAN, Send(c, sent) PROVE Announces(c, event)'
  <2>1. call'[c] = [call[c] EXCEPT !.pc = "record", !.sent = sent]
    BY <1>4, Puts DEF Send
  <2>2. call'[c].pc = "record" /\ call'[c].event = event
    BY <2>1, <1>1 DEF States
  <2>3. QED BY <2>2 DEF Announces
<1>5. CASE ReadYear(c)
  <2> DEFINE file == [history EXCEPT ![Key(c)] = IF call[c].sent THEN "delivered" ELSE "failed"]
  <2>1. call'[c] = [call[c] EXCEPT !.pc = "write", !.file = file]
    BY <1>5, Puts DEF ReadYear
  <2> HIDE DEF file
  <2>2. call'[c].pc = "write" /\ call'[c].event = event
    BY <2>1, <1>1 DEF States
  <2>3. QED BY <2>2 DEF Announces
<1>6. CASE WriteYear(c)
  <2> DEFINE counts == [index EXCEPT ![Year(c)] = Saved(c)]
  <2>1. call'[c] = [call[c] EXCEPT !.pc = "count", !.counts = counts]
    BY <1>6, Puts DEF WriteYear
  <2> HIDE DEF counts
  <2>2. call'[c].pc = "count" /\ call'[c].event = event
    BY <2>1, <1>1 DEF States
  <2>3. QED BY <2>2 DEF Announces
<1>7. CASE WriteIndex(c)
  <2>1. call'[c] = [call[c] EXCEPT !.pc = "verify"]
    BY <1>7, Puts DEF WriteIndex, GoTo
  <2>2. call'[c].pc = "verify" /\ call'[c].event = event
    BY <2>1, <1>1 DEF States
  <2>3. QED BY <2>2 DEF Announces
<1>8. CASE VerifyIndex(c) \/ \E landed \in BOOLEAN : RecordFails(c, landed)
  <2> DEFINE new == [NoCall EXCEPT !.pc = IF call[c].left = {} THEN "done" ELSE "next",
                                   !.event = call[c].event, !.left = call[c].left]
  <2>1. Put(c, new)
    BY <1>8 DEF VerifyIndex, RecordFails, NextTarget
  <2>2. new.pc \in {"next", "done"} /\ new.event = event
    BY <1>1 DEF NoCall
  <2> HIDE DEF new
  <2>3. QED BY <2>1, <2>2, Puts DEF Announces
<1>9. QED BY <1>2, <1>3, <1>4, <1>5, <1>6, <1>7, <1>8 DEF Deliver

LEMMA DeliverIsOfOne ==
  ASSUME Kinds, NEW c \in Callers, Deliver(c)
  PROVE  \A d \in Callers \ {c} : call'[d] = call[d]
<1>1. ASSUME NEW target \in Targets, Check(c, target)
      PROVE  \A d \in Callers \ {c} : call'[d] = call[d]
  BY <1>1, Targeted
<1>2. ASSUME NEW new, Put(c, new) PROVE \A d \in Callers \ {c} : call'[d] = call[d]
  BY <1>2, Puts
<1>3. QED
  BY <1>1, <1>2 DEF Deliver, CheckFails, Send, ReadYear, WriteYear, WriteIndex, GoTo,
         VerifyIndex, RecordFails, NextTarget

\* Windows have calls of their own.
LEMMA ScannersDiffer ==
  ASSUME NEW w \in Windows, NEW v \in Windows, w # v
  PROVE  Scanner[w] # Scanner[v] /\ Scanner[w] \in Callers /\ Scanner[v] \in Callers
BY RuleAssumption

\* A window whose scan, times and call are as they were.
LEMMA ScanStaysRight ==
  ASSUME NEW w \in Windows, ScanIsRight(w), TypeOK, now' \in Nat, now <= now',
         scan'[w] = scan[w], since'[w] = since[w], announced[w] \subseteq announced'[w],
         \A event : Announces(Scanner[w], event) =>
                      Announces(Scanner[w], event)' \/ event \in announced'[w]
  PROVE  ScanIsRight(w)'
<1>1. /\ scan[w].last \in Int /\ scan[w].upTo \in Nat /\ now \in Nat /\ since[w] \in Int
  BY ScanTyped, RuleAssumption DEF TypeOK
<1>3. ASSUME NEW r \in Rules, Through(w, r) PROVE Through(w, r)'
  <2> SUFFICES ASSUME NEW o \in Occurs[r], since[w] < o, o <= scan[w].upTo
               PROVE  \E later \in Occurs[r] :
                        /\ o <= later /\ later <= scan[w].upTo
                        /\ <<r, later>> \in announced'[w] \/ Announces(Scanner[w], <<r, later>>)'
    BY DEF Through
  <2>1. PICK later \in Occurs[r] :
          /\ o <= later /\ later <= scan[w].upTo
          /\ <<r, later>> \in announced[w] \/ Announces(Scanner[w], <<r, later>>)
    BY <1>3 DEF Through
  <2>2. <<r, later>> \in announced'[w] \/ Announces(Scanner[w], <<r, later>>)'
    BY <2>1
  <2>3. QED BY <2>1, <2>2
<1>4. \A r \in Rules : \A o \in Occurs[r] :
        Answered(w, r, o, scan[w].last) => Answered(w, r, o, scan[w].last)'
  BY DEF Answered
<1>5. /\ scan[w].last <= now' /\ since[w] < now'
      /\ scan[w].upTo <= now => scan[w].upTo <= now'
  BY <1>1 DEF ScanIsRight
<1>6. QED BY <1>3, <1>4, <1>5 DEF ScanIsRight

\* What a scan has still to announce is due, or was answered for before.
LEMMA DueOrAnswered ==
  ASSUME TypeOK, NEW w \in Windows, ScanIsRight(w), scan[w].pc = "loop",
         NEW r \in Rules, NEW o \in Occurs[r], since[w] < o, o <= scan[w].upTo
  PROVE  \/ Answered(w, r, o, scan[w].upTo)
         \/ /\ Due(r, scan[w]) # {} /\ Latest(r, scan[w]) \in Occurs[r]
            /\ o <= Latest(r, scan[w]) /\ Latest(r, scan[w]) <= scan[w].upTo
<1>t. o \in Nat /\ scan[w].last \in Int /\ scan[w].upTo \in Nat /\ since[w] \in Int
  BY ScanTyped, RuleAssumption DEF TypeOK
<1>1. CASE o <= scan[w].last
  <2>1. Answered(w, r, o, scan[w].last)
    BY <1>1 DEF ScanIsRight
  <2>2. PICK later \in Occurs[r] : /\ o <= later /\ later <= scan[w].last
                                   /\ <<r, later>> \in announced[w]
    BY <2>1 DEF Answered
  <2>3. later \in Nat
    BY RuleAssumption
  <2>4. scan[w].last <= scan[w].upTo
    BY <1>1, <1>t DEF ScanIsRight
  <2>5. later <= scan[w].upTo
    BY <1>t, <2>2, <2>3, <2>4
  <2>6. QED BY <2>2, <2>5 DEF Answered
<1>2. CASE ~(o <= scan[w].last)
  <2>1. scan[w].last < o
    BY <1>t, <1>2
  <2>2. o \in Due(r, scan[w])
    BY <2>1 DEF Due
  <2>3. Latest(r, scan[w]) \in Due(r, scan[w]) /\ o <= Latest(r, scan[w])
    BY <1>t, <2>2, LatestIsLast
  <2>4. QED BY <2>2, <2>3 DEF Due
<1>3. QED BY <1>1, <1>2

RuleInv == TypeOK /\ Informed /\ ScansAreRight

LEMMA InitScans == Init => ScansAreRight
<1> SUFFICES ASSUME Init, NEW w \in Windows PROVE ScanIsRight(w)
  BY DEF ScansAreRight
<1>1. scan[w].pc = "idle" /\ scan[w].last = -1 /\ since[w] = -1 /\ now = 0
  BY DEF Init, Opened
<1>2. \A r \in Rules : \A o \in Occurs[r] : ~(since[w] < o /\ o <= scan[w].last)
  <2>1. \A r \in Rules : Occurs[r] \subseteq Nat
    BY RuleAssumption
  <2>2. QED BY <1>1, <2>1
<1>3. scan[w].last <= now /\ since[w] < now
  BY <1>1
<1>4. QED BY <1>1, <1>2, <1>3 DEF ScanIsRight

LEMMA NextScans == RuleInv /\ [Next]_vars => ScansAreRight'
<1> SUFFICES ASSUME RuleInv, [Next]_vars, NEW v \in Windows PROVE ScanIsRight(v)'
  BY DEF ScansAreRight
<1> USE DEF RuleInv
<1>r. ScanIsRight(v)
  BY DEF ScansAreRight
<1>n. now \in Nat /\ since[v] \in Int
  BY RuleAssumption DEF TypeOK
<1>k. Kinds
  BY DEF Informed
\* Nothing that concerns the window happens.
<1>q. ASSUME UNCHANGED World, scan'[v] = scan[v], announced'[v] = announced[v],
             call'[Scanner[v]] = call[Scanner[v]]
      PROVE  ScanIsRight(v)'
  <2>1. \A event : Announces(Scanner[v], event) => Announces(Scanner[v], event)'
    BY <1>q DEF Announces, At
  <2>2. now' = now /\ since'[v] = since[v]
    BY <1>q DEF World
  <2>3. QED BY <2>1, <2>2, <1>q, <1>r, <1>n, ScanStaysRight
\* A scan of a window concerns no other.
<1>o. ASSUME NEW w \in Windows, w # v, UNCHANGED World,
             scan' = scan \/ \E new : Set(w, new),
             announced' = announced \/ \E more : announced' = [announced EXCEPT ![w] = more],
             \A d \in Callers \ {Scanner[w]} : call'[d] = call[d]
      PROVE  ScanIsRight(v)'
  <2>1. scan'[v] = scan[v] /\ announced'[v] = announced[v]
    BY <1>o DEF TypeOK, Set
  <2>2. call'[Scanner[v]] = call[Scanner[v]]
    BY <1>o, ScannersDiffer
  <2>3. QED BY <2>1, <2>2, <1>o, <1>q
\* A scan that ends without having announced everything.
<1>a. ASSUME UNCHANGED World, scan' = [scan EXCEPT ![v] = Aborted(scan[v])],
             announced'[v] = announced[v]
      PROVE  ScanIsRight(v)'
  <2>1. scan[v] \in [pc : {"idle", "loop"}, upTo : Nat, left : SUBSET Rules, last : Int]
    BY DEF TypeOK
  <2>2. scan'[v].pc = "idle" /\ scan'[v].last = scan[v].last
    <3>1. scan'[v] = Aborted(scan[v])
      BY <1>a DEF TypeOK
    <3>2. QED BY <2>1, <3>1 DEF Aborted
  <2>3. \A r \in Rules : \A o \in Occurs[r] :
          Answered(v, r, o, scan[v].last) => Answered(v, r, o, scan[v].last)'
    BY <1>a, <2>2 DEF Answered
  <2>4. QED BY <1>a, <2>2, <2>3, <1>r DEF ScanIsRight, World
\* A rule is through.
<1>d. ASSUME NEW r \in Rules, scan' = [scan EXCEPT ![v] = Done(v, r)], UNCHANGED World,
             announced[v] \subseteq announced'[v], scan[v].pc = "loop",
             \A q \in Rules \ scan[v].left : Through(v, q)',
             Through(v, r)'
      PROVE  ScanIsRight(v)'
  <2>1. scan[v] \in [pc : {"idle", "loop"}, upTo : Nat, left : SUBSET Rules, last : Int]
    BY DEF TypeOK
  <2>2. /\ scan'[v].pc = "loop" /\ scan'[v].last = scan[v].last /\ scan'[v].upTo = scan[v].upTo
        /\ scan'[v].left = scan[v].left \ {r}
    <3>1. scan'[v] = Done(v, r)
      BY <1>d DEF TypeOK
    <3>2. QED BY <1>d, <2>1, <3>1 DEF Done
  <2>3. \A q \in Rules \ scan'[v].left : Through(v, q)'
    BY <2>2, <1>d
  <2>4. \A q \in Rules : \A o \in Occurs[q] :
          Answered(v, q, o, scan[v].last) => Answered(v, q, o, scan[v].last)'
    BY <1>d, <2>2 DEF Answered
  <2>5. now' = now /\ since' = since
    BY <1>d DEF World
  <2>6. /\ scan'[v].last <= now' /\ since'[v] < now' /\ scan'[v].upTo <= now'
        /\ scan'[v].last <= scan'[v].upTo \/ scan'[v].last <= since'[v]
    BY <2>2, <2>5, <1>r, <1>d DEF ScanIsRight
  <2>7. \A q \in Rules : \A o \in Occurs[q] :
          since'[v] < o /\ o <= scan'[v].last => Answered(v, q, o, scan[v].last)'
    BY <2>2, <2>4, <2>5, <1>r DEF ScanIsRight
  <2>8. QED BY <2>3, <2>6, <2>7 DEF ScanIsRight
\* While no call is under way, the rules that are through were announced.
<1>b. ASSUME scan[v].pc = "loop", ~Busy(v), NEW q \in Rules \ scan[v].left,
             NEW o \in Occurs[q], since[v] < o, o <= scan[v].upTo
      PROVE  Answered(v, q, o, scan[v].upTo)
  BY <1>b, <1>r DEF ScanIsRight, Through, Announces, Busy, At, Answered
\* They stay so when the scan goes on.
<1>c. ASSUME scan[v].pc = "loop", ~Busy(v), since'[v] = since[v],
             scan'[v].upTo = scan[v].upTo, announced[v] \subseteq announced'[v],
             NEW q \in Rules \ scan[v].left
      PROVE  Through(v, q)'
  BY <1>b, <1>c DEF Through, Answered
<1>1. ASSUME NEW w \in Windows, Proceeds(w) PROVE ScanIsRight(v)'
  <2>s. /\ scan[v] \in [pc : {"idle", "loop"}, upTo : Nat, left : SUBSET Rules, last : Int]
        /\ Scanner[w] \in Callers /\ scan[v].last \in Int /\ scan[v].upTo \in Nat
    BY ScanTyped DEF TypeOK
  <2>1. CASE Begin(w)
    <3> DEFINE new == [scan[w] EXCEPT !.pc = "loop", !.upTo = now, !.left = Rules]
    <3>1. /\ scan' = [scan EXCEPT ![w] = new] /\ announced' = announced /\ UNCHANGED World
          /\ call' = call
      BY <2>1 DEF Begin, Set, NotDelivering, delivery
    <3>2. CASE w # v
      <4> HIDE DEF new
      <4>1. QED BY <3>1, <3>2, <1>o DEF Set
    <3>3. CASE w = v
      <4>1. scan'[v] = new
        BY <3>1, <3>3 DEF TypeOK
      <4>2. /\ scan'[v].pc = "loop" /\ scan'[v].last = scan[v].last /\ scan'[v].upTo = now
            /\ scan'[v].left = Rules
        BY <4>1, <2>s, <3>3
      <4>3. \A r \in Rules : \A o \in Occurs[r] :
              Answered(v, r, o, scan[v].last) => Answered(v, r, o, scan[v].last)'
        BY <3>1, <4>2 DEF Answered
      <4>4. now' = now /\ since' = since
        BY <3>1 DEF World
      <4>5. /\ scan'[v].last <= now' /\ scan'[v].last <= scan'[v].upTo /\ scan'[v].upTo <= now'
            /\ since'[v] < now' /\ Rules \ scan'[v].left = {}
        BY <4>2, <4>4, <1>r, <1>n DEF ScanIsRight
      <4>6. \A r \in Rules : \A o \in Occurs[r] :
              since'[v] < o /\ o <= scan'[v].last => Answered(v, r, o, scan[v].last)'
        BY <4>2, <4>3, <4>4, <1>r DEF ScanIsRight
      <4>7. QED BY <4>5, <4>6 DEF ScanIsRight
    <3>4. QED BY <3>2, <3>3
  <2>2. CASE Returned(w)
    <3>1. \A d \in Callers \ {Scanner[w]} : call'[d] = call[d]
      BY <2>2, <2>s, <1>k, Puts DEF Returned, Settle
    <3>2. CASE At(Scanner[w], "done")
      <4>1. /\ scan' = scan /\ UNCHANGED World
            /\ announced' = [announced EXCEPT ![w] = @ \cup {call[Scanner[w]].event}]
        BY <2>2, <3>2 DEF Returned
      <4>2. CASE w # v
        BY <4>1, <4>2, <3>1, <1>o
      <4>3. CASE w = v
        <5>1. announced'[v] = announced[v] \cup {call[Scanner[v]].event}
          BY <4>1, <4>3 DEF TypeOK
        <5>2. \A event : Announces(Scanner[v], event) => event \in announced'[v]
          BY <5>1, <4>3, <3>2 DEF Announces, At
        <5>3. now' = now /\ since' = since
          BY <4>1 DEF World
        <5>4. QED BY <4>1, <5>1, <5>2, <5>3, <1>r, <1>n, ScanStaysRight
      <4>4. QED BY <4>2, <4>3
    <3>3. CASE ~At(Scanner[w], "done")
      <4>1. /\ scan' = [scan EXCEPT ![w] = Aborted(scan[w])] /\ announced' = announced
            /\ UNCHANGED World
        BY <2>2, <3>3 DEF Returned, Set
      <4>2. CASE w # v
        BY <4>1, <4>2, <3>1, <1>o DEF Set
      <4>3. CASE w = v
        BY <4>1, <4>3, <1>a
      <4>4. QED BY <4>2, <4>3
    <3>4. QED BY <3>2, <3>3
  <2>3. CASE Finish(w)
    <3> DEFINE new == [scan[w] EXCEPT !.pc = "idle", !.upTo = 0, !.last = ScannedTo(scan[w])]
    <3>1. /\ scan' = [scan EXCEPT ![w] = new] /\ announced' = announced /\ UNCHANGED World
          /\ call' = call
      BY <2>3 DEF Finish, Set, NotDelivering, delivery
    <3>2. CASE w # v
      <4> HIDE DEF new
      <4>1. QED BY <3>1, <3>2, <1>o DEF Set
    <3>3. CASE w = v
      <4>1. scan'[v] = new
        BY <3>1, <3>3 DEF TypeOK
      <4>2. scan'[v].pc = "idle" /\ scan'[v].last = scan[v].upTo
        BY <4>1, <2>s, <3>3 DEF ScannedTo
      <4>3. /\ scan[v].pc = "loop" /\ scan[v].left = {} /\ ~Busy(v)
            /\ scan[v].upTo <= now /\ since[v] < now
        BY <2>3, <3>3, <1>r DEF Finish, ScanIsRight
      <4>4. now' = now /\ since' = since
        BY <3>1 DEF World
      <4>5. ASSUME NEW r \in Rules, NEW o \in Occurs[r],
                   since[v] < o, o <= scan[v].upTo
            PROVE  Answered(v, r, o, scan[v].upTo)
        BY <4>3, <4>5, <1>b
      <4>6. \A r \in Rules : \A o \in Occurs[r] :
              Answered(v, r, o, scan[v].upTo) => Answered(v, r, o, scan[v].last)'
        BY <3>1, <4>2 DEF Answered
      <4>7. QED BY <4>2, <4>3, <4>4, <4>5, <4>6 DEF ScanIsRight
    <3>4. QED BY <3>2, <3>3
  <2>4. ASSUME NEW r \in Rules, Skip(w, r) PROVE ScanIsRight(v)'
    <3>1. /\ scan' = [scan EXCEPT ![w] = Done(w, r)] /\ UNCHANGED World /\ call' = call
          /\ Looking(w, r)
          /\ IF Due(r, scan[w]) = {} THEN announced' = announced
             ELSE announced' = [announced EXCEPT ![w] = @ \cup {<<r, Latest(r, scan[w])>>}]
      BY <2>4 DEF Skip, Set, NotDelivering, delivery
    <3>2. CASE w # v
      BY <3>1, <3>2, <1>o DEF Set
    <3>3. CASE w = v
      <4>1. scan[v].pc = "loop" /\ ~Busy(v)
        BY <3>1, <3>3 DEF Looking
      <4>2. announced[v] \subseteq announced'[v]
        BY <3>1, <3>3 DEF TypeOK
      <4>3. Due(r, scan[v]) # {} => <<r, Latest(r, scan[v])>> \in announced'[v]
        BY <3>1, <3>3 DEF TypeOK
      <4>4. scan'[v].upTo = scan[v].upTo /\ since'[v] = since[v]
        <5>1. scan'[v] = Done(v, r)
          BY <3>1, <3>3 DEF TypeOK
        <5>2. QED BY <2>s, <3>1, <5>1 DEF Done, World
      <4>5. Through(v, r)'
        <5> SUFFICES ASSUME NEW o \in Occurs[r], since[v] < o, o <= scan[v].upTo
                     PROVE  \E later \in Occurs[r] : /\ o <= later /\ later <= scan[v].upTo
                                                     /\ <<r, later>> \in announced'[v]
          BY <4>4 DEF Through
        <5>1. CASE Answered(v, r, o, scan[v].upTo)
          BY <5>1, <4>2 DEF Answered
        <5>2. CASE ~Answered(v, r, o, scan[v].upTo)
          BY <5>2, <4>1, <4>3, <1>r, DueOrAnswered
        <5>3. QED BY <5>1, <5>2
      <4>6. \A q \in Rules \ scan[v].left : Through(v, q)'
        BY <4>1, <4>2, <4>4, <1>c
      <4>7. QED BY <3>1, <3>3, <4>1, <4>2, <4>5, <4>6, <1>d
    <3>4. QED BY <3>2, <3>3
  <2>5. ASSUME NEW r \in Rules, Announce(w, r) PROVE ScanIsRight(v)'
    <3>1. /\ scan' = [scan EXCEPT ![w] = Done(w, r)] /\ UNCHANGED World
          /\ announced' = announced /\ Looking(w, r)
          /\ Start(Scanner[w], <<r, Latest(r, scan[w])>>)
      BY <2>5 DEF Announce, Set
    <3>2. /\ \A d \in Callers \ {Scanner[w]} : call'[d] = call[d]
          /\ call'[Scanner[w]].pc = "next"
          /\ call'[Scanner[w]].event = <<r, Latest(r, scan[w])>>
      <4> DEFINE event == <<r, Latest(r, scan[w])>>
                 new == [NoCall EXCEPT !.pc = "next", !.event = event, !.left = Targets]
      <4>1. Put(Scanner[w], new)
        BY <3>1 DEF Start
      <4>2. new.pc = "next" /\ new.event = event
        BY DEF NoCall
      <4> HIDE DEF new, event
      <4>3. call'[Scanner[w]] = new /\ \A d \in Callers \ {Scanner[w]} : call'[d] = call[d]
        BY <4>1, <2>s, <1>k, Puts
      <4>4. QED BY <4>2, <4>3 DEF event
    <3>3. CASE w # v
      BY <3>1, <3>2, <3>3, <1>o DEF Set
    <3>4. CASE w = v
      <4>1. scan[v].pc = "loop" /\ ~Busy(v)
        BY <3>1, <3>4 DEF Looking
      <4>2. scan'[v].upTo = scan[v].upTo /\ since'[v] = since[v]
        <5>1. scan'[v] = Done(v, r)
          BY <3>1, <3>4 DEF TypeOK
        <5>2. QED BY <2>s, <3>1, <5>1 DEF Done, World
      <4>3. Through(v, r)'
        <5> SUFFICES ASSUME NEW o \in Occurs[r], since[v] < o, o <= scan[v].upTo
                     PROVE  \E later \in Occurs[r] :
                              /\ o <= later /\ later <= scan[v].upTo
                              /\ <<r, later>> \in announced'[v]
                                 \/ Announces(Scanner[v], <<r, later>>)'
          BY <4>2 DEF Through
        <5>1. CASE Answered(v, r, o, scan[v].upTo)
          BY <5>1, <3>1 DEF Answered
        <5>2. CASE ~Answered(v, r, o, scan[v].upTo)
          <6>1. PICK later \in Occurs[r] : /\ later = Latest(r, scan[v])
                                           /\ o <= later /\ later <= scan[v].upTo
            BY <5>2, <4>1, <1>r, DueOrAnswered
          <6>2. Announces(Scanner[v], <<r, later>>)'
            BY <3>2, <3>4, <6>1 DEF Announces
          <6>3. QED BY <6>1, <6>2
        <5>3. QED BY <5>1, <5>2
      <4>4. announced[v] \subseteq announced'[v]
        BY <3>1
      <4>5. \A q \in Rules \ scan[v].left : Through(v, q)'
        BY <4>1, <4>2, <4>4, <1>c
      <4>6. QED BY <3>1, <3>4, <4>1, <4>3, <4>4, <4>5, <1>d
    <3>5. QED BY <3>3, <3>4
  <2>6. ASSUME NEW r \in Rules, AnnounceFails(w, r) PROVE ScanIsRight(v)'
    <3>1. /\ scan' = [scan EXCEPT ![w] = Aborted(scan[w])] /\ announced' = announced
          /\ UNCHANGED World /\ call' = call
      BY <2>6 DEF AnnounceFails, Set
    <3>2. CASE w # v
      BY <3>1, <3>2, <1>o DEF Set
    <3>3. CASE w = v
      BY <3>1, <3>3, <1>a
    <3>4. QED BY <3>2, <3>3
  <2>7. CASE Delivers(Scanner[w])
    <3>1. Deliver(Scanner[w]) /\ scan' = scan /\ announced' = announced /\ UNCHANGED World
      BY <2>7 DEF Delivers
    <3>2. CASE w # v
      BY <3>1, <3>2, <2>s, <1>k, <1>o, DeliverIsOfOne
    <3>3. CASE w = v
      <4>1. \A event : Announces(Scanner[v], event) => Announces(Scanner[v], event)'
        BY <3>1, <3>3, <2>s, <1>k, DeliverKeepsEvent
      <4>2. now' = now /\ since' = since
        BY <3>1 DEF World
      <4>3. QED BY <3>1, <4>1, <4>2, <1>r, <1>n, ScanStaysRight
    <3>4. QED BY <3>2, <3>3
  <2>8. QED BY <1>1, <2>1, <2>2, <2>3, <2>4, <2>5, <2>6, <2>7 DEF Proceeds, Scans
<1>2. ASSUME NEW w \in Windows, ListFails(w) PROVE ScanIsRight(v)'
  BY <1>2, <1>q DEF ListFails
<1>3. ASSUME NEW w \in Windows, Restart(w) PROVE ScanIsRight(v)'
  <2>1. now' = now
    BY <1>3 DEF Restart
  <2>2. CASE w = v
    <3>1. scan'[v] = Opened(now) /\ since'[v] = now - 1
      BY <1>3, <2>2 DEF Restart, Set, TypeOK
    <3>2. scan'[v].pc = "idle" /\ scan'[v].last = now - 1
      BY <3>1 DEF Opened
    <3>3. \A r \in Rules : \A o \in Occurs[r] : ~(since'[v] < o /\ o <= scan'[v].last)
      <4>1. \A r \in Rules : Occurs[r] \subseteq Nat
        BY RuleAssumption
      <4>2. QED BY <3>1, <3>2, <4>1, <1>n
    <3>4. scan'[v].last <= now' /\ since'[v] < now'
      BY <3>1, <3>2, <2>1, <1>n
    <3>5. QED BY <3>2, <3>3, <3>4 DEF ScanIsRight
  <2>3. CASE w # v
    <3>1. scan'[v] = scan[v] /\ since'[v] = since[v] /\ announced'[v] = announced[v]
      BY <1>3, <2>3 DEF Restart, Set, TypeOK
    <3>2. call'[Scanner[v]] = call[Scanner[v]]
      BY <1>3, <2>3, RuleAssumption DEF Restart, Crash
    <3>3. \A event : Announces(Scanner[v], event) => Announces(Scanner[v], event)'
      BY <3>2 DEF Announces, At
    <3>4. QED BY <2>1, <3>1, <3>3, <1>r, <1>n, ScanStaysRight
  <2>4. QED BY <2>2, <2>3
<1>4. CASE Tick
  <2>1. scan' = scan /\ since' = since /\ announced' = announced /\ call' = call /\ now' = now + 1
    BY <1>4 DEF Tick, NotDelivering, delivery
  <2>2. \A event : Announces(Scanner[v], event) => Announces(Scanner[v], event)'
    BY <2>1 DEF Announces, At
  <2>3. QED BY <2>1, <2>2, <1>r, <1>n, ScanStaysRight
<1>5. ASSUME UNCHANGED vars \/ \E w \in Windows : Lose(w) PROVE ScanIsRight(v)'
  <2>1. /\ scan' = scan /\ since' = since /\ announced' = announced /\ call' = call /\ now' = now
    BY <1>5 DEF Lose, NotDelivering, delivery, vars
  <2>2. \A event : Announces(Scanner[v], event) => Announces(Scanner[v], event)'
    BY <2>1 DEF Announces, At
  <2>3. QED BY <2>1, <2>2, <1>r, <1>n, ScanStaysRight
<1>6. ASSUME NEW w \in Windows, Regain(w) PROVE ScanIsRight(v)'
  <2>1. announced' = announced /\ call' = call /\ now' = now
    BY <1>6 DEF Regain, NotDelivering, delivery
  <2>2. CASE scan'[v] = scan[v] /\ since'[v] = since[v]
    <3>1. \A event : Announces(Scanner[v], event) => Announces(Scanner[v], event)'
      BY <2>1 DEF Announces, At
    <3>2. QED BY <2>1, <2>2, <3>1, <1>r, <1>n, ScanStaysRight
  <2>3. CASE ~(scan'[v] = scan[v] /\ since'[v] = since[v])
    <3>1. scan'[v] = [scan[v] EXCEPT !.last = now - 1] /\ since'[v] = now - 1
      BY <1>6, <2>3 DEF Regain, Started, Set, TypeOK
    <3>2. /\ scan'[v].last = now - 1 /\ scan'[v].pc = scan[v].pc
          /\ scan'[v].upTo = scan[v].upTo /\ scan'[v].left = scan[v].left
      BY <3>1, ScanTyped DEF TypeOK
    <3>3. \A r \in Rules : \A o \in Occurs[r] : ~(since'[v] < o /\ o <= scan'[v].last)
      <4>1. \A r \in Rules : Occurs[r] \subseteq Nat
        BY RuleAssumption
      <4>2. QED BY <3>1, <3>2, <4>1, <1>n
    <3>4. ASSUME NEW r \in Rules, Through(v, r) PROVE Through(v, r)'
      <4> SUFFICES ASSUME NEW o \in Occurs[r], now - 1 < o, o <= scan[v].upTo
                   PROVE  \E later \in Occurs[r] :
                            /\ o <= later /\ later <= scan[v].upTo
                            /\ <<r, later>> \in announced[v]
                               \/ Announces(Scanner[v], <<r, later>>)
        BY <2>1, <3>1, <3>2 DEF Through, Announces, At
      <4>1. o \in Nat
        BY RuleAssumption
      <4>2. since[v] < o
        BY <4>1, <1>n, <1>r DEF ScanIsRight
      <4>3. QED BY <3>4, <4>2 DEF Through
    <3>5. /\ scan'[v].last <= now' /\ since'[v] < now' /\ scan'[v].last <= since'[v]
      BY <2>1, <3>1, <3>2, <1>n
    <3>6. QED BY <2>1, <3>2, <3>3, <3>4, <3>5, <1>r DEF ScanIsRight
  <2>4. QED BY <2>2, <2>3
<1>7. QED BY <1>1, <1>2, <1>3, <1>4, <1>5, <1>6 DEF Next

----------------------------------------------------------------------------
\* The theorems.

LEMMA InitRules == Init => RuleInv
<1> SUFFICES ASSUME Init PROVE RuleInv
  OBVIOUS
<1>1. DeliveryInit
  BY DEF Init
<1>2. RuleTypes
  <2>1. Opened(0) \in [pc : {"idle", "loop"}, upTo : Nat, left : SUBSET Rules, last : Int]
    BY DEF Opened
  <2>2. scan \in [Windows -> [pc : {"idle", "loop"}, upTo : Nat, left : SUBSET Rules, last : Int]]
    BY <2>1 DEF Init
  <2>3. now \in 0 .. MaxTime
    BY RuleAssumption DEF Init
  <2>4. announced \in [Windows -> SUBSET Events] /\ since \in [Windows -> Int]
        /\ member \in [Windows -> Memberships]
    BY DEF Init, Memberships
  <2>5. QED BY <2>2, <2>3, <2>4 DEF RuleTypes
<1>3. Informed /\ DeliveryTypeOK
  BY <1>1, InitInformed DEF Informed, Kinds
<1>4. TypeOK
  BY <1>2, <1>3 DEF TypeOK, RuleTypes
<1>5. QED BY <1>3, <1>4, InitScans DEF RuleInv

LEMMA NextRules == RuleInv /\ [Next]_vars => RuleInv'
<1> SUFFICES ASSUME RuleInv, [Next]_vars PROVE RuleInv'
  OBVIOUS
<1>1. Delivery
  BY RulesDeliver DEF RuleInv
<1>2. Informed'
  BY <1>1, NextInformed DEF RuleInv
<1>3. RuleTypes'
  BY NextRuleTypes DEF RuleInv, Informed
<1>4. TypeOK'
  BY <1>2, <1>3 DEF TypeOK, RuleTypes, Informed, Kinds
<1>5. QED BY <1>2, <1>4, NextScans DEF RuleInv

LEMMA AlwaysRules == Spec => []RuleInv
BY InitRules, NextRules, PTL DEF Spec

\* Every variable keeps its type (NotificationDelivery, RuleScan).
THEOREM RuleTypeCorrect == Spec => []TypeOK
<1>1. RuleInv => TypeOK
  BY DEF RuleInv
<1>2. QED BY <1>1, AlwaysRules, PTL

\* A window never counts as scanned what it has not announced since its scans were
\* started: the last occurrence a scan announces answers for those before it, and
\* lastScanAt moves only when every rule is through, or forward to a minute ago when
\* the scans are started anew (notification-rule-runtime.ts, scan,
\* startNotificationRuleRuntime).
THEOREM NoOccurrenceSkipped == Spec => []NothingSkipped
<1>1. RuleInv => NothingSkipped
  BY DEF RuleInv, ScansAreRight, ScanIsRight, NothingSkipped
<1>2. QED BY <1>1, AlwaysRules, PTL

\* What a window has shown it never forgets, whatever fails
\* (notification-center-service.ts, notifyInternal).
THEOREM ShownStaysKnown == Spec => []ShownIsKnown
<1>1. RuleInv => ShownIsKnown
  BY DEF RuleInv, Informed
<1>2. QED BY <1>1, AlwaysRules, PTL

\* What is shown was delivered by nobody, and nobody else is delivering it
\* (notification-center-service.ts, notifyInternal).
THEOREM SendsAreFresh == Spec => SendIsFresh
<1>1. RuleInv => [\A c \in Callers : Shows(c) =>
       /\ history[Key(c)] # "delivered" /\ Key(c) \notin session[WindowOf[c]]
       /\ \A other \in Callers \ {c} :
            Delivering(other) /\ call[other].sent => Key(other) # Key(c)]_delivery
  BY ShowsFresh DEF RuleInv
<1>2. QED BY <1>1, AlwaysRules, PTL DEF SendIsFresh

\* While nothing fails and years are recorded one at a time, the index counts
\* the records of every year that nobody is recording
\* (notification-center-history-store.ts, recordNotificationDelivery).
THEOREM IndexIsExact == Spec => []IndexCounts
<1>1. Init => IndexIsTrue
  BY InitIndex DEF Init
<1>2. RuleInv /\ IndexIsTrue /\ [Next]_vars => IndexIsTrue'
  BY RulesDeliver, NextIndex DEF RuleInv
<1>3. RuleInv /\ IndexIsTrue => IndexCounts
  BY IndexIsRight DEF RuleInv
<1>4. QED BY <1>1, <1>2, <1>3, AlwaysRules, PTL DEF Spec

=============================================================================

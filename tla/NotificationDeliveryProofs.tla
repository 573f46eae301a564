---------------------- MODULE NotificationDeliveryProofs ----------------------
(***************************************************************************)
(* Proofs about NotificationDelivery for any windows, callers, events,     *)
(* targets and years: what a notify that is under way may rely on, and     *)
(* what the history and the index are worth.  They hold for callers that   *)
(* announce whatever they like; RuleScanProofs applies them to the rules.  *)
(***************************************************************************)
EXTENDS NotificationDelivery, FiniteSetTheorems, TLAPS

\* What may happen to the deliveries, whoever asks for them.
Delivery ==
  \/ UNCHANGED delivery
  \/ Fault /\ UNCHANGED <<call, session, history, index, seen, crossed>>
  \/ \E c \in Callers : \/ Deliver(c) \/ Settle(c)
                        \/ \E event \in Events : Start(c, event)
  \/ \E w \in Windows : Crash(w)

----------------------------------------------------------------------------
\* Types.  What a call knows depends on how far it is.

Placed(s) ==
  /\ s \in States
  /\ s.pc \in {"next", "done"} => s.event \in Events
  /\ s.pc \in {"next", "send"} => ~s.sent
  /\ s.pc \in {"send", "record", "write", "count", "verify"} =>
       s.event \in Events /\ s.target \in Targets
  /\ s.pc \in {"write", "count", "verify"} => s.file \in Records
  /\ s.pc \in {"count", "verify"} => s.counts \in [Years -> Nat]
Kinds == DeliveryTypeOK /\ \A c \in Callers : Placed(call[c])

LEMMA KeysAreFinite == ASSUME NEW S \in SUBSET Keys
                       PROVE  IsFiniteSet(S) /\ Cardinality(S) \in Nat
<1>1. IsFiniteSet(Keys)
  BY FS_Product, DeliveryAssumption DEF Keys
<1>2. QED BY <1>1, FS_Subset, FS_CardinalityType

LEMMA NoCallPlaced == Placed(NoCall)
BY DEF Placed, NoCall, States

LEMMA PutPlaced ==
  ASSUME Kinds, NEW c \in Callers, NEW new, Placed(new), Put(c, new)
  PROVE  call' \in [Callers -> States] /\ \A d \in Callers : Placed(call'[d])
<1>1. call \in [Callers -> States] /\ \A d \in Callers : Placed(call[d])
  BY DEF Kinds, DeliveryTypeOK
<1>2. /\ call' \in [Callers -> States]
      /\ \A d \in Callers : call'[d] = IF d = c THEN new ELSE call[d]
  BY <1>1 DEF Put, Placed
<1>3. QED BY <1>1, <1>2

LEMMA InitKinds == DeliveryInit => Kinds
<1> SUFFICES ASSUME DeliveryInit PROVE Kinds
  OBVIOUS
<1>1. \A c \in Callers : call[c] = NoCall /\ Placed(call[c])
  BY NoCallPlaced DEF DeliveryInit
<1>2. call \in [Callers -> States]
  BY NoCallPlaced DEF DeliveryInit, Placed
<1>3. history \in Records
  BY DEF DeliveryInit, Records
<1>4. /\ session \in [Windows -> SUBSET Keys] /\ seen \in [Windows -> SUBSET Keys]
      /\ index \in [Years -> Nat] /\ crossed \in BOOLEAN
  BY DEF DeliveryInit
<1>f. faults \in 0 .. MaxFaults
  BY DeliveryAssumption DEF DeliveryInit
<1>5. QED BY <1>1, <1>2, <1>3, <1>4, <1>f DEF Kinds, DeliveryTypeOK

LEMMA KeyIsKey ==
  ASSUME Kinds, NEW c \in Callers, Delivering(c)
  PROVE  /\ call[c].event \in Events /\ call[c].target \in Targets
         /\ Key(c) \in Keys /\ Year(c) \in Years /\ Key(c) \in InYear(Year(c))
         /\ WindowOf[c] \in Windows
<1>1. call[c].event \in Events /\ call[c].target \in Targets
  BY DEF Kinds, Placed, Delivering
<1>2. QED BY <1>1, DeliveryAssumption DEF Key, Year, Keys, InYear

\* The file a call is about to write has a value for every record.
LEMMA SavedIsNumber ==
  ASSUME Kinds, NEW c \in Callers, Recording(c)
  PROVE  /\ Saved(c) \in Nat /\ NewHistory(c) \in Records /\ Year(c) \in Years
<1>1. Delivering(c)
  BY DEF Delivering, Recording
<1>2. call[c].file \in Records /\ history \in Records
  BY DEF Kinds, DeliveryTypeOK, Placed, Recording
<1>3. NewHistory(c) \in Records
  <2>1. \A k \in Keys : /\ call[c].file[k] \in {"none", "delivered", "failed"}
                        /\ history[k] \in {"none", "delivered", "failed"}
    BY <1>2 DEF Records
  <2>2. QED BY <2>1 DEF NewHistory, Records
<1>4. {k \in InYear(Year(c)) : call[c].file[k] # "none"} \in SUBSET Keys
  BY DEF InYear
<1>5. QED BY <1>1, <1>3, <1>4, KeysAreFinite, KeyIsKey DEF Saved

\* The call after a target, and the session memory, keep their kinds.
LEMMA NextTargetPlaced ==
  ASSUME Kinds, NEW c \in Callers, Delivering(c), NextTarget(c)
  PROVE  call' \in [Callers -> States] /\ \A d \in Callers : Placed(call'[d])
<1> DEFINE new == [NoCall EXCEPT !.pc = IF call[c].left = {} THEN "done" ELSE "next",
                                 !.event = call[c].event, !.left = call[c].left]
<1>1. call[c].event \in Events /\ call[c].left \in SUBSET Targets
  BY KeyIsKey DEF Kinds, Placed, States
<1>2. /\ new \in States /\ new.event \in Events /\ new.pc \in {"done", "next"}
      /\ ~new.sent
  BY <1>1 DEF NoCall, States
<1>3. Placed(new)
  BY <1>2 DEF Placed
<1>4. QED BY <1>3, PutPlaced DEF NextTarget

LEMMA MemoryKinds ==
  ASSUME Kinds, NEW c \in Callers, Delivering(c),
         session' = [session EXCEPT ![WindowOf[c]] = @ \cup {Key(c)}] \/ session' = session
  PROVE  session' \in [Windows -> SUBSET Keys]
BY KeyIsKey DEF Kinds, DeliveryTypeOK

LEMMA NextKinds == Kinds /\ Delivery => Kinds'
<1> SUFFICES ASSUME Kinds, Delivery PROVE Kinds'
  OBVIOUS
<1>t. DeliveryTypeOK
  BY DEF Kinds
<1>m. MaxFaults \in Nat /\ (Fault => faults' \in 0 .. MaxFaults)
  BY <1>t, DeliveryAssumption DEF Fault, DeliveryTypeOK
<1>q. ASSUME call' \in [Callers -> States], \A d \in Callers : Placed(call'[d]),
             session' \in [Windows -> SUBSET Keys], seen' \in [Windows -> SUBSET Keys],
             history' \in Records, index' \in [Years -> Nat],
             faults' \in 0 .. MaxFaults, crossed' \in BOOLEAN
      PROVE  Kinds'
  BY <1>q DEF Kinds, DeliveryTypeOK
<1>1. CASE UNCHANGED delivery
  BY <1>1 DEF delivery, Kinds, DeliveryTypeOK
<1>2. CASE Fault /\ UNCHANGED <<call, session, history, index, seen, crossed>>
  BY <1>2, <1>m DEF Kinds, DeliveryTypeOK
<1>3. ASSUME NEW c \in Callers, NEW event \in Events, Start(c, event) PROVE Kinds'
  <2> DEFINE new == [NoCall EXCEPT !.pc = "next", !.event = event, !.left = Targets]
  <2>1. new \in States /\ new.pc = "next" /\ new.event = event /\ ~new.sent
    BY DEF NoCall, States
  <2>2. Placed(new)
    BY <2>1 DEF Placed
  <2>3. call' \in [Callers -> States] /\ \A d \in Callers : Placed(call'[d])
    BY <1>3, <2>2, PutPlaced DEF Start
  <2>4. QED BY <1>3, <1>t, <2>3, <1>q DEF Start, DeliveryTypeOK
<1>4. ASSUME NEW c \in Callers, Settle(c) PROVE Kinds'
  <2>1. call' \in [Callers -> States] /\ \A d \in Callers : Placed(call'[d])
    BY <1>4, NoCallPlaced, PutPlaced DEF Settle
  <2>2. QED BY <1>4, <1>t, <2>1, <1>q DEF Settle, DeliveryTypeOK
<1>5. ASSUME NEW w \in Windows, Crash(w) PROVE Kinds'
  <2>1. call' \in [Callers -> States] /\ \A d \in Callers : Placed(call'[d])
    <3>1. \A d \in Callers : Placed(NoCall) /\ Placed(call[d])
      BY NoCallPlaced DEF Kinds
    <3>2. QED BY <1>5, <3>1 DEF Crash, Placed
  <2>2. QED BY <1>5, <1>t, <1>m, <2>1, <1>q DEF Crash, DeliveryTypeOK
<1>6. ASSUME NEW c \in Callers, Deliver(c) PROVE Kinds'
  <2>s. call[c] \in States /\ Placed(call[c]) /\ WindowOf[c] \in Windows
    BY DeliveryAssumption DEF Kinds, Placed
  <2>1. ASSUME NEW target \in Targets, Check(c, target) PROVE Kinds'
    <3> DEFINE rest == [call[c] EXCEPT !.left = @ \ {target}]
               new == IF ~Delivered(WindowOf[c], <<call[c].event, target>>)
                      THEN [rest EXCEPT !.pc = "send", !.target = target]
                      ELSE IF rest.left = {} THEN [rest EXCEPT !.pc = "done"] ELSE rest
    <3>1. call[c].pc = "next" /\ call[c].event \in Events /\ ~call[c].sent
      BY <2>1, <2>s DEF Check, Takes, At, Placed
    <3>2. /\ rest \in States /\ rest.pc = "next" /\ rest.event = call[c].event
          /\ rest.sent = call[c].sent
      BY <2>s, <3>1 DEF States
    <3>3. Placed(rest) /\ Placed([rest EXCEPT !.pc = "done"])
      BY <3>1, <3>2 DEF Placed, States
    <3>4. Placed([rest EXCEPT !.pc = "send", !.target = target])
      BY <3>1, <3>2 DEF Placed, States
    <3>5. Placed(new)
      BY <3>3, <3>4
    <3>6. Put(c, new)
      BY <2>1 DEF Check
    <3> HIDE DEF new
    <3>7. call' \in [Callers -> States] /\ \A d \in Callers : Placed(call'[d])
      BY <3>5, <3>6, PutPlaced
    <3>8. QED BY <2>1, <1>t, <3>7, <1>q DEF Check, DeliveryTypeOK
  <2>2. ASSUME NEW target \in Targets, CheckFails(c, target) PROVE Kinds'
    <3>1. Placed([NoCall EXCEPT !.pc = "rejected"])
      BY DEF Placed, NoCall, States
    <3>2. call' \in [Callers -> States] /\ \A d \in Callers : Placed(call'[d])
      BY <2>2, <3>1, PutPlaced DEF CheckFails
    <3>3. QED BY <2>2, <1>t, <1>m, <3>2, <1>q DEF CheckFails, DeliveryTypeOK
  <2>3. ASSUME NEW sent \in BOOLEAN, Send(c, sent) PROVE Kinds'
    <3>1. call[c].pc = "send" /\ call[c].event \in Events /\ call[c].target \in Targets
      BY <2>3, <2>s DEF Send, At, Placed
    <3>2. Placed([call[c] EXCEPT !.pc = "record", !.sent = sent])
      BY <2>s, <3>1 DEF Placed, States
    <3>3. call' \in [Callers -> States] /\ \A d \in Callers : Placed(call'[d])
      BY <2>3, <3>2, PutPlaced DEF Send
    <3>4. Key(c) \in Keys
      BY <3>1 DEF Key, Keys
    <3>5. seen' \in [Windows -> SUBSET Keys]
      BY <2>3, <2>s, <1>t, <3>4 DEF Send, DeliveryTypeOK
    <3>6. faults' \in 0 .. MaxFaults
      BY <2>3, <1>t, <1>m DEF Send, DeliveryTypeOK
    <3>7. QED BY <2>3, <1>t, <3>3, <3>5, <3>6, <1>q DEF Send, DeliveryTypeOK
  <2>4. CASE ReadYear(c)
    <3> DEFINE word == IF call[c].sent THEN "delivered" ELSE "failed"
               new == [call[c] EXCEPT !.pc = "write", !.file = [history EXCEPT ![Key(c)] = word]]
    <3>1. call[c].pc = "record" /\ call[c].event \in Events /\ call[c].target \in Targets
      BY <2>4, <2>s DEF ReadYear, At, Placed
    <3>2. [history EXCEPT ![Key(c)] = word] \in Records
      BY <1>t DEF DeliveryTypeOK, Records
    <3>3. Placed(new)
      <4> HIDE DEF word
      <4>1. new \in States /\ new.pc = "write" /\ new.file \in Records
        BY <2>s, <3>2 DEF States
      <4>2. new.event = call[c].event /\ new.target = call[c].target
        BY <2>s DEF States
      <4>3. QED BY <3>1, <4>1, <4>2 DEF Placed
    <3>4. Put(c, new)
      BY <2>4 DEF ReadYear
    <3> HIDE DEF new
    <3>5. call' \in [Callers -> States] /\ \A d \in Callers : Placed(call'[d])
      BY <3>3, <3>4, PutPlaced
    <3>6. crossed' \in BOOLEAN
      BY <2>4, <1>t DEF ReadYear, DeliveryTypeOK
    <3>7. QED BY <2>4, <1>t, <3>5, <3>6, <1>q DEF ReadYear, DeliveryTypeOK
  <2>5. CASE WriteYear(c)
    <3> DEFINE new == [call[c] EXCEPT !.pc = "count", !.counts = [index EXCEPT ![Year(c)] = Saved(c)]]
    <3>1. call[c].pc = "write" /\ Recording(c)
      BY <2>5 DEF WriteYear, At, Recording
    <3>2. Saved(c) \in Nat /\ NewHistory(c) \in Records
      BY <3>1, SavedIsNumber
    <3>3. [index EXCEPT ![Year(c)] = Saved(c)] \in [Years -> Nat]
      BY <3>2, <1>t DEF DeliveryTypeOK
    <3>4. Placed(new)
      <4>1. /\ new \in States /\ new.pc = "count" /\ new.counts \in [Years -> Nat]
            /\ new.event = call[c].event /\ new.target = call[c].target
            /\ new.file = call[c].file
        BY <2>s, <3>3 DEF States
      <4>2. /\ call[c].event \in Events /\ call[c].target \in Targets
            /\ call[c].file \in Records
        BY <2>s, <3>1 DEF Placed
      <4>3. QED BY <4>1, <4>2 DEF Placed
    <3>5. Put(c, new)
      BY <2>5 DEF WriteYear
    <3> HIDE DEF new
    <3>6. call' \in [Callers -> States] /\ \A d \in Callers : Placed(call'[d])
      BY <3>4, <3>5, PutPlaced
    <3>7. QED BY <2>5, <1>t, <3>2, <3>6, <1>q DEF WriteYear, DeliveryTypeOK
  <2>6. CASE WriteIndex(c)
    <3>1. call[c].pc = "count" /\ call[c].counts \in [Years -> Nat]
      BY <2>6, <2>s DEF WriteIndex, At, Placed
    <3>2. Placed([call[c] EXCEPT !.pc = "verify"])
      BY <2>s, <3>1 DEF Placed, States
    <3>3. call' \in [Callers -> States] /\ \A d \in Callers : Placed(call'[d])
      BY <2>6, <3>2, PutPlaced DEF WriteIndex, GoTo
    <3>4. QED BY <2>6, <1>t, <3>1, <3>3, <1>q DEF WriteIndex, DeliveryTypeOK
  <2>7. CASE VerifyIndex(c)
    <3>1. Delivering(c)
      BY <2>7 DEF VerifyIndex, At, Delivering
    <3>2. session' \in [Windows -> SUBSET Keys]
      BY <2>7, <3>1, MemoryKinds DEF VerifyIndex, Known
    <3>3. call' \in [Callers -> States] /\ \A d \in Callers : Placed(call'[d])
      BY <2>7, <3>1, NextTargetPlaced DEF VerifyIndex
    <3>4. QED BY <2>7, <1>t, <3>2, <3>3, <1>q DEF VerifyIndex, DeliveryTypeOK
  <2>8. ASSUME NEW landed \in BOOLEAN, RecordFails(c, landed) PROVE Kinds'
    <3>1. Delivering(c)
      BY <2>8 DEF RecordFails, At, Delivering, Recording
    <3>2. session' \in [Windows -> SUBSET Keys]
      BY <2>8, <3>1, MemoryKinds DEF RecordFails, Remembered, Known
    <3>3. call' \in [Callers -> States] /\ \A d \in Callers : Placed(call'[d])
      BY <2>8, <3>1, NextTargetPlaced DEF RecordFails
    <3>4. history' \in Records
      <4>1. CASE landed
        <5>1. Recording(c) BY <2>8, <4>1 DEF RecordFails, At, Recording
        <5>2. QED BY <2>8, <4>1, <5>1, SavedIsNumber DEF RecordFails
      <4>2. CASE ~landed
        BY <2>8, <4>2, <1>t DEF RecordFails, DeliveryTypeOK
      <4>3. QED BY <4>1, <4>2
    <3>5. faults' \in 0 .. MaxFaults
      BY <2>8, <1>t, <1>m DEF RecordFails, DeliveryTypeOK
    <3>6. QED BY <2>8, <1>t, <3>2, <3>3, <3>4, <3>5, <1>q DEF RecordFails, DeliveryTypeOK
  <2>9. QED BY <1>6, <2>1, <2>2, <2>3, <2>4, <2>5, <2>6, <2>7, <2>8 DEF Deliver
<1>7. QED BY <1>1, <1>2, <1>3, <1>4, <1>5, <1>6 DEF Delivery

----------------------------------------------------------------------------
\* The locks.  The steps of a call, seen from the others: what is locked stays
\* locked for the same thing, and a lock is only taken when it is free.

DeliverLock ==
  \A c, d \in Callers : c # d /\ Delivering(c) /\ Delivering(d) => Key(c) # Key(d)
YearLock ==
  \A c, d \in Callers : c # d /\ Recording(c) /\ Recording(d) => Year(c) # Year(d)
Locks == DeliverLock /\ YearLock

Alike(c) == call'[c].event = call[c].event /\ call'[c].target = call[c].target
Enters(c) == \A d \in Callers : Delivering(d) => Key(d) # <<call'[c].event, call'[c].target>>

LEMMA Puts ==
  ASSUME Kinds, NEW c \in Callers, NEW new, Put(c, new)
  PROVE  call'[c] = new /\ \A d \in Callers \ {c} : call'[d] = call[d]
BY DEF Kinds, DeliveryTypeOK, Put

LEMMA Targeted ==
  ASSUME Kinds, NEW c \in Callers, NEW target, Check(c, target)
  PROVE  /\ \A d \in Callers \ {c} : call'[d] = call[d]
         /\ ~Delivered(WindowOf[c], <<call[c].event, target>>)
            => /\ call'[c].pc = "send" /\ call'[c].target = target /\ ~call'[c].sent
               /\ call'[c].event = call[c].event
         /\ Delivered(WindowOf[c], <<call[c].event, target>>)
            => call'[c].pc \in {"next", "done"} /\ call'[c].event = call[c].event
<1> DEFINE rest == [call[c] EXCEPT !.left = @ \ {target}]
           new == IF ~Delivered(WindowOf[c], <<call[c].event, target>>)
                  THEN [rest EXCEPT !.pc = "send", !.target = target]
                  ELSE IF rest.left = {} THEN [rest EXCEPT !.pc = "done"] ELSE rest
<1>1. Put(c, new)
  BY DEF Check
<1>2. call[c] \in States /\ call[c].pc = "next" /\ ~call[c].sent
  BY DEF Check, Takes, At, Kinds, Placed
<1>3. /\ rest.pc = "next" /\ rest.event = call[c].event /\ rest.sent = call[c].sent
      /\ rest \in [pc : {"next"}, event : Events \cup {None}, left : SUBSET Targets,
                   target : Targets \cup {None}, sent : BOOLEAN,
                   file : Records \cup {<<>>}, counts : [Years -> Nat] \cup {<<>>}]
  BY <1>2 DEF States
<1>4. call'[c] = new /\ \A d \in Callers \ {c} : call'[d] = call[d]
  <2> HIDE DEF new
  <2>1. QED BY <1>1, Puts
<1>5. CASE ~Delivered(WindowOf[c], <<call[c].event, target>>)
  <2> HIDE DEF rest
  <2>1. call'[c] = [rest EXCEPT !.pc = "send", !.target = target]
    BY <1>4, <1>5
  <2>2. QED BY <2>1, <1>2, <1>3, <1>4, <1>5
<1>6. CASE Delivered(WindowOf[c], <<call[c].event, target>>)
  <2> HIDE DEF rest
  <2>1. call'[c] = IF rest.left = {} THEN [rest EXCEPT !.pc = "done"] ELSE rest
    BY <1>4, <1>6
  <2>2. QED BY <2>1, <1>2, <1>3, <1>4, <1>6
<1>7. QED BY <1>5, <1>6

\* A call that goes on with its next target delivers no more.
LEMMA Left ==
  ASSUME Kinds, NEW c \in Callers, NextTarget(c)
  PROVE  call'[c].pc \in {"next", "done"} /\ \A d \in Callers \ {c} : call'[d] = call[d]
<1> DEFINE new == [NoCall EXCEPT !.pc = IF call[c].left = {} THEN "done" ELSE "next",
                                 !.event = call[c].event, !.left = call[c].left]
<1>1. new.pc \in {"next", "done"}
  BY DEF NoCall
<1>2. Put(c, new)
  BY DEF NextTarget
<1> HIDE DEF new
<1>3. QED BY <1>1, <1>2, Puts

\* Each step is one of a single call, or leaves the calls alone but for those
\* that end.
LEMMA HowCallsMove ==
  ASSUME Kinds, Delivery
  PROVE  \/ \A d \in Callers : call'[d] = call[d] \/ call'[d].pc = "idle"
         \/ \E c \in Callers :
              /\ \A d \in Callers \ {c} : call'[d] = call[d]
              /\ Delivering(c)' => \/ Delivering(c) /\ Alike(c)
                                   \/ ~Recording(c)' /\ Enters(c)
              /\ Recording(c)' => \/ Recording(c)
                                  \/ HistoryFree(Year(c)) /\ call'[c].pc = "write"
<1> DEFINE Move(c) ==
             /\ \A d \in Callers \ {c} : call'[d] = call[d]
             /\ Delivering(c)' => \/ Delivering(c) /\ Alike(c)
                                  \/ ~Recording(c)' /\ Enters(c)
             /\ Recording(c)' => \/ Recording(c)
                                 \/ HistoryFree(Year(c)) /\ call'[c].pc = "write"
<1>1. CASE UNCHANGED delivery \/ (Fault /\ UNCHANGED <<call, session, history, index, seen, crossed>>)
  BY <1>1 DEF delivery
<1>2. ASSUME NEW c \in Callers, NEW event \in Events, Start(c, event) PROVE Move(c)
  <2> DEFINE new == [NoCall EXCEPT !.pc = "next", !.event = event, !.left = Targets]
  <2>1. new.pc = "next" /\ Put(c, new)
    BY <1>2 DEF NoCall, Start
  <2> HIDE DEF new
  <2>2. QED BY <2>1, Puts DEF Delivering, Recording
<1>3. ASSUME NEW c \in Callers, Settle(c) PROVE Move(c)
  BY <1>3, Puts DEF Settle, NoCall, Delivering, Recording
<1>4. ASSUME NEW w \in Windows, Crash(w)
      PROVE  \A d \in Callers : call'[d] = call[d] \/ call'[d].pc = "idle"
  BY <1>4 DEF Crash, NoCall
<1>5. ASSUME NEW c \in Callers, Deliver(c) PROVE Move(c)
  <2>s. call[c] \in States
    BY DEF Kinds, Placed
  <2>1. ASSUME NEW target \in Targets, Check(c, target) PROVE Move(c)
    <3>1. DeliverFree(<<call[c].event, target>>)
      BY <2>1 DEF Check, Takes
    <3>2. QED BY <2>1, <3>1, Targeted DEF DeliverFree, Enters, Delivering, Recording
  <2>2. ASSUME NEW target \in Targets, CheckFails(c, target) PROVE Move(c)
    BY <2>2, Puts DEF CheckFails, NoCall, Delivering, Recording
  <2>3. ASSUME NEW sent \in BOOLEAN, Send(c, sent) PROVE Move(c)
    <3>1. call'[c] = [call[c] EXCEPT !.pc = "record", !.sent = sent]
          /\ (\A d \in Callers \ {c} : call'[d] = call[d]) /\ call[c].pc = "send"
      BY <2>3, Puts DEF Send, At
    <3>2. call'[c].pc = "record" /\ Alike(c)
      BY <3>1, <2>s DEF Alike, States
    <3>3. QED BY <3>1, <3>2 DEF Delivering, Recording
  <2>4. CASE ReadYear(c)
    <3> DEFINE file == [history EXCEPT ![Key(c)] = IF call[c].sent THEN "delivered" ELSE "failed"]
    <3>1. call'[c] = [call[c] EXCEPT !.pc = "write", !.file = file]
          /\ (\A d \in Callers \ {c} : call'[d] = call[d]) /\ call[c].pc = "record"
          /\ HistoryFree(Year(c))
      BY <2>4, Puts DEF ReadYear, At
    <3> HIDE DEF file
    <3>2. call'[c].pc = "write" /\ Alike(c)
      BY <3>1, <2>s DEF Alike, States
    <3>3. QED BY <3>1, <3>2 DEF Delivering, Recording
  <2>5. CASE WriteYear(c)
    <3> DEFINE counts == [index EXCEPT ![Year(c)] = Saved(c)]
    <3>1. call'[c] = [call[c] EXCEPT !.pc = "count", !.counts = counts]
          /\ (\A d \in Callers \ {c} : call'[d] = call[d]) /\ call[c].pc = "write"
      BY <2>5, Puts DEF WriteYear, At
    <3> HIDE DEF counts
    <3>2. call'[c].pc = "count" /\ Alike(c)
      BY <3>1, <2>s DEF Alike, States
    <3>3. QED BY <3>1, <3>2 DEF Delivering, Recording
  <2>6. CASE WriteIndex(c)
    <3>1. call'[c] = [call[c] EXCEPT !.pc = "verify"]
          /\ (\A d \in Callers \ {c} : call'[d] = call[d]) /\ call[c].pc = "count"
      BY <2>6, Puts DEF WriteIndex, GoTo, At
    <3>2. call'[c].pc = "verify" /\ Alike(c)
      BY <3>1, <2>s DEF Alike, States
    <3>3. QED BY <3>1, <3>2 DEF Delivering, Recording
  <2>7. CASE VerifyIndex(c) \/ \E landed \in BOOLEAN : RecordFails(c, landed)
    <3>1. NextTarget(c)
      BY <2>7 DEF VerifyIndex, RecordFails
    <3>2. QED BY <3>1, Left DEF Delivering, Recording
  <2>8. QED BY <1>5, <2>1, <2>2, <2>3, <2>4, <2>5, <2>6, <2>7 DEF Deliver
<1>6. QED BY <1>1, <1>2, <1>3, <1>4, <1>5 DEF Delivery

LEMMA InitLocks == DeliveryInit => Locks
BY DEF DeliveryInit, Locks, DeliverLock, YearLock, NoCall, Delivering, Recording

LEMMA NextLocks == Kinds /\ Locks /\ Delivery => Locks'
<1> SUFFICES ASSUME Kinds, Locks, Delivery PROVE Locks'
  OBVIOUS
<1>1. CASE \A d \in Callers : call'[d] = call[d] \/ call'[d].pc = "idle"
  BY <1>1 DEF Locks, DeliverLock, YearLock, Delivering, Recording, Key, Year
<1>2. ASSUME NEW c \in Callers,
             \A d \in Callers \ {c} : call'[d] = call[d],
             Delivering(c)' => (Delivering(c) /\ Alike(c)) \/ (~Recording(c)' /\ Enters(c)),
             Recording(c)' => Recording(c) \/ (HistoryFree(Year(c)) /\ call'[c].pc = "write")
      PROVE  Locks'
  <2>1. \A d \in Callers \ {c} : /\ Delivering(d)' <=> Delivering(d)
                                 /\ Recording(d)' <=> Recording(d)
                                 /\ Key(d)' = Key(d) /\ Year(d)' = Year(d)
    BY <1>2 DEF Delivering, Recording, Key, Year
  <2>2. ASSUME NEW d \in Callers \ {c}, Delivering(c)', Delivering(d)
        PROVE  Key(d) # Key(c)'
    <3>1. CASE Delivering(c) /\ Alike(c)
      BY <3>1, <2>2 DEF Alike, Key, Locks, DeliverLock
    <3>2. CASE Enters(c)
      BY <3>2, <2>2 DEF Enters, Key
    <3>3. QED BY <1>2, <2>2, <3>1, <3>2
  <2>3. ASSUME NEW d \in Callers \ {c}, Recording(c)', Recording(d)
        PROVE  Year(d) # Year(c)'
    <3>1. Delivering(c)'
      BY <2>3 DEF Delivering, Recording
    <3>2. Year(c)' = Year(c)
      BY <1>2, <2>3, <3>1 DEF Alike, Year
    <3>3. CASE Recording(c)
      BY <2>3, <3>2, <3>3 DEF Locks, YearLock
    <3>4. CASE HistoryFree(Year(c))
      BY <2>3, <3>2, <3>4 DEF HistoryFree
    <3>5. QED BY <1>2, <2>3, <3>3, <3>4
  <2>4. DeliverLock'
    <3> SUFFICES ASSUME NEW a \in Callers, NEW b \in Callers, a # b,
                        Delivering(a)', Delivering(b)'
                 PROVE  Key(a)' # Key(b)'
      BY DEF DeliverLock
    <3>1. CASE a = c BY <3>1, <2>1, <2>2
    <3>2. CASE b = c BY <3>2, <2>1, <2>2
    <3>3. CASE a # c /\ b # c BY <3>3, <2>1 DEF Locks, DeliverLock
    <3>4. QED BY <3>1, <3>2, <3>3
  <2>5. YearLock'
    <3> SUFFICES ASSUME NEW a \in Callers, NEW b \in Callers, a # b,
                        Recording(a)', Recording(b)'
                 PROVE  Year(a)' # Year(b)'
      BY DEF YearLock
    <3>1. CASE a = c BY <3>1, <2>1, <2>3
    <3>2. CASE b = c BY <3>2, <2>1, <2>3
    <3>3. CASE a # c /\ b # c BY <3>3, <2>1 DEF Locks, YearLock
    <3>4. QED BY <3>1, <3>2, <3>3
  <2>6. QED BY <2>4, <2>5 DEF Locks
<1>3. CASE \E c \in Callers :
             /\ \A d \in Callers \ {c} : call'[d] = call[d]
             /\ Delivering(c)' => \/ Delivering(c) /\ Alike(c)
                                  \/ ~Recording(c)' /\ Enters(c)
             /\ Recording(c)' => \/ Recording(c)
                                 \/ HistoryFree(Year(c)) /\ call'[c].pc = "write"
  <2>1. PICK c \in Callers :
             /\ \A d \in Callers \ {c} : call'[d] = call[d]
             /\ Delivering(c)' => \/ Delivering(c) /\ Alike(c)
                                  \/ ~Recording(c)' /\ Enters(c)
             /\ Recording(c)' => \/ Recording(c)
                                 \/ HistoryFree(Year(c)) /\ call'[c].pc = "write"
    BY <1>3
  <2>2. Delivering(c)' => (Delivering(c) /\ Alike(c)) \/ (~Recording(c)' /\ Enters(c))
    BY <2>1
  <2>3. Recording(c)' => Recording(c) \/ (HistoryFree(Year(c)) /\ call'[c].pc = "write")
    BY <2>1
  <2>4. QED BY <2>1, <2>2, <2>3, <1>2
<1>4. QED BY <1>1, <1>3, HowCallsMove

----------------------------------------------------------------------------
\* What a call knows of the files while it holds their locks: its copy of the
\* year is the file but for its own record, and what it found undelivered is
\* undelivered until it says otherwise.

Word(c) == IF call[c].sent THEN "delivered" ELSE "failed"
CopyIsCurrent(c) ==
  /\ At(c, "write") => \A k \in InYear(Year(c)) :
                         call[c].file[k] = IF k = Key(c) THEN Word(c) ELSE history[k]
  /\ call[c].pc \in {"count", "verify"} =>
       \A k \in InYear(Year(c)) : call[c].file[k] = history[k]
StillUndelivered(c) ==
  /\ call[c].pc \in {"send", "record", "write"} => history[Key(c)] # "delivered"
  /\ At(c, "send") => Key(c) \notin session[WindowOf[c]]
Right(c) == CopyIsCurrent(c) /\ StillUndelivered(c)
Informed == Kinds /\ Locks /\ (\A c \in Callers : Right(c)) /\ ShownIsKnown

\* Writing the year changes the call's own record and no other.
LEMMA OwnRecordOnly ==
  ASSUME Kinds, NEW c \in Callers, At(c, "write"), CopyIsCurrent(c)
  PROVE  NewHistory(c) = [history EXCEPT ![Key(c)] = Word(c)]
<1>1. Delivering(c)
  BY DEF At, Delivering
<1>2. Key(c) \in InYear(Year(c)) /\ Key(c) \in Keys
  BY <1>1, KeyIsKey
<1>3. history \in [Keys -> {"none", "delivered", "failed"}]
  BY DEF Kinds, DeliveryTypeOK, Records
<1>4. \A k \in InYear(Year(c)) :
        call[c].file[k] = IF k = Key(c) THEN Word(c) ELSE history[k]
  BY DEF CopyIsCurrent
<1>5. \A k \in Keys : NewHistory(c)[k] = IF k = Key(c) THEN Word(c) ELSE history[k]
  BY <1>2, <1>4 DEF NewHistory
<1>6. NewHistory(c) = [k \in Keys |-> NewHistory(c)[k]]
  BY DEF NewHistory
<1> HIDE DEF NewHistory, Word
<1>7. QED BY <1>2, <1>3, <1>5, <1>6

\* What one call does to the files and the session memory leaves the others right.
LEMMA OthersStayRight ==
  ASSUME Kinds, Locks, NEW c \in Callers, NEW d \in Callers, c # d, Delivering(c),
         call'[d] = call[d], Right(d), NEW word,
         history' = history \/ (Recording(c) /\ history' = [history EXCEPT ![Key(c)] = word]),
         session' = session \/ session' = [session EXCEPT ![WindowOf[c]] = @ \cup {Key(c)}]
  PROVE  Right(d)'
<1>1. /\ At(d, "write")' = At(d, "write") /\ At(d, "send")' = At(d, "send")
      /\ Year(d)' = Year(d) /\ Key(d)' = Key(d) /\ Word(d)' = Word(d)
  BY DEF At, Year, Key, Word
<1>2. history \in [Keys -> {"none", "delivered", "failed"}]
  BY DEF Kinds, DeliveryTypeOK, Records
<1>3. \A k \in Keys : history'[k] # history[k] => k = Key(c) /\ Recording(c)
  BY <1>2
<1>4. Delivering(d) => /\ Key(d) # Key(c) /\ Key(d) \in Keys
                       /\ history'[Key(d)] = history[Key(d)]
  BY <1>3, KeyIsKey DEF Locks, DeliverLock
<1>5. Recording(d) => \A k \in InYear(Year(d)) : history'[k] = history[k]
  <2> SUFFICES ASSUME Recording(d), NEW k \in InYear(Year(d)), history'[k] # history[k]
               PROVE  FALSE
    OBVIOUS
  <2>1. k = Key(c) /\ Recording(c) /\ YearOf[k[1]] = Year(d)
    BY <1>3 DEF InYear
  <2>2. YearOf[k[1]] = Year(c)
    BY <2>1 DEF Key, Year
  <2>3. QED BY <2>1, <2>2 DEF Locks, YearLock
<1>6. CopyIsCurrent(d)'
  BY <1>1, <1>5 DEF Right, CopyIsCurrent, At, Recording, InYear
<1>7. At(d, "send") => Key(d) \notin session'[WindowOf[d]]
  <2> SUFFICES ASSUME At(d, "send") PROVE Key(d) \notin session'[WindowOf[d]]
    OBVIOUS
  <2>1. Key(d) # Key(c) /\ WindowOf[d] \in Windows
    BY <1>4, DeliveryAssumption DEF At, Delivering
  <2>2. Key(d) \notin session[WindowOf[d]]
    BY DEF Right, StillUndelivered
  <2>3. session \in [Windows -> SUBSET Keys]
    BY DEF Kinds, DeliveryTypeOK
  <2>4. QED BY <2>1, <2>2, <2>3
<1>8. StillUndelivered(d)'
  BY <1>1, <1>4, <1>7 DEF Right, StillUndelivered, At, Delivering
<1>9. QED BY <1>6, <1>8 DEF Right

\* A call that does not hold a lock relies on nothing.
LEMMA AtLargeIsRight == ASSUME NEW c, ~Delivering(c) PROVE Right(c)
BY DEF Right, CopyIsCurrent, StillUndelivered, At, Delivering

LEMMA InitRight == DeliveryInit => \A c \in Callers : Right(c)
BY AtLargeIsRight DEF DeliveryInit, NoCall, Delivering

LEMMA NextRight == Informed /\ Delivery => \A d \in Callers : Right(d)'
<1> SUFFICES ASSUME Informed, Delivery PROVE \A d \in Callers : Right(d)'
  OBVIOUS
<1> USE DEF Informed
<1>i. \A d \in Callers : ~Delivering(d)' => Right(d)'
  BY DEF Right, CopyIsCurrent, StillUndelivered, At, Delivering
<1>u. \A d \in Callers : call'[d] = call[d] /\ history' = history /\ session' = session
                           => Right(d)'
  BY DEF Right, CopyIsCurrent, StillUndelivered, At, Key, Year, Word, InYear
<1>1. CASE UNCHANGED delivery \/ (Fault /\ UNCHANGED <<call, session, history, index, seen, crossed>>)
  BY <1>1, <1>u DEF delivery
<1>2. ASSUME NEW c \in Callers, NEW event \in Events, Start(c, event)
      PROVE  \A d \in Callers : Right(d)'
  <2> DEFINE new == [NoCall EXCEPT !.pc = "next", !.event = event, !.left = Targets]
  <2>1. new.pc = "next" /\ Put(c, new)
    BY <1>2 DEF NoCall, Start
  <2> HIDE DEF new
  <2>2. ~Delivering(c)' /\ \A d \in Callers \ {c} : call'[d] = call[d]
    BY <2>1, Puts DEF Delivering
  <2>3. QED BY <1>2, <2>2, <1>i, <1>u DEF Start
<1>3. ASSUME NEW c \in Callers, Settle(c) PROVE \A d \in Callers : Right(d)'
  <2>1. ~Delivering(c)' /\ \A d \in Callers \ {c} : call'[d] = call[d]
    BY <1>3, Puts DEF Settle, NoCall, Delivering
  <2>2. QED BY <1>3, <2>1, <1>i, <1>u DEF Settle
<1>4. ASSUME NEW w \in Windows, Crash(w) PROVE \A d \in Callers : Right(d)'
  <2> SUFFICES ASSUME NEW d \in Callers, Delivering(d)' PROVE Right(d)'
    BY <1>i
  <2>1. WindowOf[d] # w /\ call'[d] = call[d]
    BY <1>4 DEF Crash, Delivering, NoCall
  <2>2. session'[WindowOf[d]] = session[WindowOf[d]] /\ history' = history
    BY <1>4, <2>1, DeliveryAssumption DEF Crash, Kinds, DeliveryTypeOK
  <2>3. QED BY <2>1, <2>2 DEF Right, CopyIsCurrent, StillUndelivered, At, Key, Year, Word, InYear
<1>5. ASSUME NEW c \in Callers, Deliver(c) PROVE \A d \in Callers : Right(d)'
  <2>s. call[c] \in States /\ Right(c)
    BY DEF Kinds, Placed
  <2>1. ASSUME NEW target \in Targets, Check(c, target) PROVE \A d \in Callers : Right(d)'
    <3>1. /\ \A d \in Callers \ {c} : call'[d] = call[d]
          /\ history' = history /\ session' = session
      BY <2>1, Targeted DEF Check
    <3>2. CASE Delivered(WindowOf[c], <<call[c].event, target>>)
      <4>1. ~Delivering(c)'
        BY <2>1, <3>2, Targeted DEF Delivering
      <4>2. QED BY <3>1, <4>1, <1>i, <1>u
    <3>3. CASE ~Delivered(WindowOf[c], <<call[c].event, target>>)
      <4>1. call'[c].pc = "send" /\ Key(c)' = <<call[c].event, target>>
        BY <2>1, <3>3, Targeted DEF Key
      <4>2. Right(c)'
        BY <3>1, <3>3, <4>1 DEF Delivered, Right, CopyIsCurrent, StillUndelivered, At
      <4>3. QED BY <3>1, <4>2, <1>u
    <3>4. QED BY <3>2, <3>3
  <2>2. ASSUME NEW target \in Targets, CheckFails(c, target) PROVE \A d \in Callers : Right(d)'
    <3>1. ~Delivering(c)' /\ \A d \in Callers \ {c} : call'[d] = call[d]
      BY <2>2, Puts DEF CheckFails, NoCall, Delivering
    <3>2. QED BY <2>2, <3>1, <1>i, <1>u DEF CheckFails
  <2>3. ASSUME NEW sent \in BOOLEAN, Send(c, sent) PROVE \A d \in Callers : Right(d)'
    <3>1. /\ call'[c] = [call[c] EXCEPT !.pc = "record", !.sent = sent]
          /\ \A d \in Callers \ {c} : call'[d] = call[d]
          /\ call[c].pc = "send" /\ history' = history /\ session' = session
      BY <2>3, Puts DEF Send, At
    <3>2. call'[c].pc = "record" /\ Key(c)' = Key(c)
      BY <3>1, <2>s DEF Key, States
    <3>3. Right(c)'
      BY <3>1, <3>2, <2>s DEF Right, CopyIsCurrent, StillUndelivered, At
    <3>4. QED BY <3>1, <3>3, <1>u
  <2>4. CASE ReadYear(c)
    <3> DEFINE file == [history EXCEPT ![Key(c)] = Word(c)]
    <3>1. /\ call'[c] = [call[c] EXCEPT !.pc = "write", !.file = file]
          /\ \A d \in Callers \ {c} : call'[d] = call[d]
          /\ call[c].pc = "record" /\ history' = history /\ session' = session
      BY <2>4, Puts DEF ReadYear, At, Word
    <3>2. \A k \in Keys : file[k] = IF k = Key(c) THEN Word(c) ELSE history[k]
      <4>1. history \in [Keys -> {"none", "delivered", "failed"}]
        BY DEF Kinds, DeliveryTypeOK, Records
      <4> HIDE DEF Word
      <4>2. QED BY <4>1
    <3> HIDE DEF file
    <3>3. /\ call'[c].pc = "write" /\ Key(c)' = Key(c) /\ Year(c)' = Year(c)
          /\ Word(c)' = Word(c) /\ call'[c].file = file
      BY <3>1, <2>s DEF Key, Year, Word, States
    <3>4. CopyIsCurrent(c)'
      <4>1. \A k \in InYear(Year(c))' :
              call'[c].file[k] = IF k = Key(c)' THEN Word(c)' ELSE history'[k]
        BY <3>1, <3>2, <3>3 DEF InYear
      <4>2. QED BY <3>3, <4>1 DEF CopyIsCurrent, At
    <3>5. StillUndelivered(c)'
      BY <3>1, <3>3, <2>s DEF Right, StillUndelivered, At
    <3>6. QED BY <3>1, <3>4, <3>5, <1>u DEF Right
  <2>5. CASE WriteYear(c)
    <3> DEFINE counts == [index EXCEPT ![Year(c)] = Saved(c)]
    <3>1. /\ call'[c] = [call[c] EXCEPT !.pc = "count", !.counts = counts]
          /\ \A d \in Callers \ {c} : call'[d] = call[d]
          /\ At(c, "write") /\ history' = NewHistory(c) /\ session' = session
      BY <2>5, Puts DEF WriteYear, At
    <3> HIDE DEF counts
    <3>2. call'[c].pc = "count" /\ Year(c)' = Year(c) /\ call'[c].file = call[c].file
      BY <3>1, <2>s DEF Year, States
    <3>3. \A k \in InYear(Year(c))' : call'[c].file[k] = history'[k]
      BY <3>1, <3>2 DEF NewHistory, InYear
    <3>4. Right(c)'
      BY <3>2, <3>3 DEF Right, CopyIsCurrent, StillUndelivered, At
    <3>5. NewHistory(c) = [history EXCEPT ![Key(c)] = Word(c)] /\ Delivering(c) /\ Recording(c)
      BY <3>1, <2>s, OwnRecordOnly DEF Right, At, Delivering, Recording
    <3>6. \A d \in Callers \ {c} : Right(d)'
      BY <3>1, <3>5, OthersStayRight
    <3>7. QED BY <3>4, <3>6
  <2>6. CASE WriteIndex(c)
    <3>1. /\ call'[c] = [call[c] EXCEPT !.pc = "verify"]
          /\ \A d \in Callers \ {c} : call'[d] = call[d]
          /\ At(c, "count") /\ history' = history /\ session' = session
      BY <2>6, Puts DEF WriteIndex, GoTo, At
    <3>2. call'[c].pc = "verify" /\ Year(c)' = Year(c) /\ call'[c].file = call[c].file
      BY <3>1, <2>s DEF Year, States
    <3>3. \A k \in InYear(Year(c))' : call'[c].file[k] = history'[k]
      BY <3>1, <3>2, <2>s DEF InYear, Right, CopyIsCurrent, At
    <3>4. Right(c)'
      BY <3>2, <3>3 DEF Right, CopyIsCurrent, StillUndelivered, At
    <3>5. QED BY <3>1, <3>4, <1>u
  <2>7. CASE VerifyIndex(c)
    <3>1. ~Delivering(c)' /\ \A d \in Callers \ {c} : call'[d] = call[d]
      BY <2>7, Left DEF VerifyIndex, Delivering
    <3>2. Delivering(c) /\ history' = history
      BY <2>7 DEF VerifyIndex, At, Delivering
    <3>3. session' = session \/ session' = [session EXCEPT ![WindowOf[c]] = @ \cup {Key(c)}]
      BY <2>7 DEF VerifyIndex, Known
    <3>4. \A d \in Callers \ {c} : Right(d)'
      BY <3>1, <3>2, <3>3, OthersStayRight
    <3>5. QED BY <3>1, <3>4, <1>i
  <2>8. ASSUME NEW landed \in BOOLEAN, RecordFails(c, landed)
        PROVE  \A d \in Callers : Right(d)'
    <3>1. ~Delivering(c)' /\ \A d \in Callers \ {c} : call'[d] = call[d]
      BY <2>8, Left DEF RecordFails, Delivering
    <3>2. Delivering(c)
      BY <2>8 DEF RecordFails, At, Delivering, Recording
    <3>3. session' = session \/ session' = [session EXCEPT ![WindowOf[c]] = @ \cup {Key(c)}]
      BY <2>8 DEF RecordFails, Remembered, Known
    <3>4. \/ history' = history
          \/ Recording(c) /\ history' = [history EXCEPT ![Key(c)] = Word(c)]
      <4>1. CASE landed
        <5>1. At(c, "write") /\ history' = NewHistory(c)
          BY <2>8, <4>1 DEF RecordFails
        <5>2. QED BY <5>1, <2>s, OwnRecordOnly DEF Right, At, Recording
      <4>2. CASE ~landed BY <2>8, <4>2 DEF RecordFails
      <4>3. QED BY <4>1, <4>2
    <3>5. \A d \in Callers \ {c} : Right(d)'
      BY <3>1, <3>2, <3>3, <3>4, OthersStayRight
    <3>6. QED BY <3>1, <3>5, <1>i
  <2>9. QED BY <1>5, <2>1, <2>2, <2>3, <2>4, <2>5, <2>6, <2>7, <2>8 DEF Deliver
<1>6. QED BY <1>1, <1>2, <1>3, <1>4, <1>5 DEF Delivery

----------------------------------------------------------------------------
\* What a window has shown, it knows.

Remembers(w, k) ==
  \/ k \in session[w] \/ history[k] = "delivered"
  \/ \E c \in Callers : WindowOf[c] = w /\ Delivering(c) /\ Key(c) = k /\ call[c].sent

\* A step that takes nothing away and moves one call on.
LEMMA StillRemembers ==
  ASSUME Kinds, NEW c \in Callers, \A d \in Callers \ {c} : call'[d] = call[d],
         \A w \in Windows : session[w] \subseteq session'[w],
         \A k \in Keys : history[k] = "delivered" => history'[k] = "delivered",
         Delivering(c) /\ call[c].sent =>
           \/ Key(c) \in session'[WindowOf[c]]
           \/ Delivering(c)' /\ Key(c)' = Key(c) /\ call'[c].sent,
         NEW w \in Windows, NEW k \in Keys, Remembers(w, k)
  PROVE  Remembers(w, k)'
<1>1. CASE k \in session[w] \/ history[k] = "delivered"
  BY <1>1 DEF Remembers
<1>2. ASSUME NEW d \in Callers,
             WindowOf[d] = w /\ Delivering(d) /\ Key(d) = k /\ call[d].sent
      PROVE  Remembers(w, k)'
  <2>1. CASE d # c
    BY <1>2, <2>1 DEF Remembers, Delivering, Key
  <2>2. CASE d = c
    BY <1>2, <2>2 DEF Remembers
  <2>3. QED BY <2>1, <2>2
<1>3. QED BY <1>1, <1>2 DEF Remembers

LEMMA NextShown == Informed /\ Delivery => ShownIsKnown'
<1> SUFFICES ASSUME Informed, Delivery PROVE ShownIsKnown'
  OBVIOUS
<1> USE DEF Informed
<1>s. /\ session \in [Windows -> SUBSET Keys] /\ seen \in [Windows -> SUBSET Keys]
      /\ history \in [Keys -> {"none", "delivered", "failed"}]
  BY DEF Kinds, DeliveryTypeOK, Records
<1>w. \A w \in Windows : \A k \in seen[w] : Remembers(w, k) /\ k \in Keys
  BY <1>s DEF ShownIsKnown, Remembers
<1>p. (\A w \in Windows : \A k \in seen'[w] : Remembers(w, k)') => ShownIsKnown'
  BY DEF ShownIsKnown, Remembers
<1>k. ASSUME NEW c \in Callers, \A d \in Callers \ {c} : call'[d] = call[d],
             session' = session \/ session' = [session EXCEPT ![WindowOf[c]] = @ \cup {Key(c)}],
             \A k \in Keys : history[k] = "delivered" => history'[k] = "delivered",
             Delivering(c) /\ call[c].sent =>
               \/ Key(c) \in session'[WindowOf[c]]
               \/ Delivering(c)' /\ Key(c)' = Key(c) /\ call'[c].sent,
             seen' = seen
      PROVE  ShownIsKnown'
  <2>1. \A w \in Windows : session[w] \subseteq session'[w]
    BY <1>s, <1>k
  <2>2. \A w \in Windows : \A k \in seen'[w] : Remembers(w, k)'
    BY <2>1, <1>k, <1>w, StillRemembers
  <2>3. QED BY <2>2, <1>p
<1>1. CASE UNCHANGED delivery \/ (Fault /\ UNCHANGED <<call, session, history, index, seen, crossed>>)
  BY <1>1 DEF delivery, ShownIsKnown, Delivering, Key
<1>2. ASSUME NEW c \in Callers, NEW event \in Events, Start(c, event) PROVE ShownIsKnown'
  <2> DEFINE new == [NoCall EXCEPT !.pc = "next", !.event = event, !.left = Targets]
  <2>1. Put(c, new)
    BY <1>2 DEF Start
  <2> HIDE DEF new
  <2>2. (\A d \in Callers \ {c} : call'[d] = call[d]) /\ ~Delivering(c)
    BY <1>2, <2>1, Puts DEF Start, At, Delivering
  <2>3. QED BY <1>2, <2>2, <1>k DEF Start
<1>3. ASSUME NEW c \in Callers, Settle(c) PROVE ShownIsKnown'
  <2>1. (\A d \in Callers \ {c} : call'[d] = call[d]) /\ ~Delivering(c)
    BY <1>3, Puts DEF Settle, Delivering
  <2>2. QED BY <1>3, <2>1, <1>k DEF Settle
<1>4. ASSUME NEW w \in Windows, Crash(w) PROVE ShownIsKnown'
  <2> SUFFICES ASSUME NEW v \in Windows, NEW k \in seen'[v] PROVE Remembers(v, k)'
    BY <1>p
  <2>1. v # w /\ k \in seen[v] /\ session'[v] = session[v] /\ history' = history
    BY <1>4, <1>s DEF Crash
  <2>2. Remembers(v, k)
    BY <2>1, <1>w
  <2>3. \A d \in Callers : WindowOf[d] = v => call'[d] = call[d]
    BY <1>4, <2>1 DEF Crash
  <2>4. QED BY <2>1, <2>2, <2>3 DEF Remembers, Delivering, Key
<1>5. ASSUME NEW c \in Callers, Deliver(c) PROVE ShownIsKnown'
  <2>s. call[c] \in States /\ Right(c) /\ WindowOf[c] \in Windows /\ Placed(call[c])
    BY DeliveryAssumption DEF Kinds, Placed
  <2>1. ASSUME NEW target \in Targets, Check(c, target) PROVE ShownIsKnown'
    <3>1. (\A d \in Callers \ {c} : call'[d] = call[d]) /\ ~Delivering(c)
      BY <2>1, Targeted DEF Check, Takes, At, Delivering
    <3>2. QED BY <2>1, <3>1, <1>k DEF Check
  <2>2. ASSUME NEW target \in Targets, CheckFails(c, target) PROVE ShownIsKnown'
    <3>1. (\A d \in Callers \ {c} : call'[d] = call[d]) /\ ~Delivering(c)
      BY <2>2, Puts DEF CheckFails, Takes, At, Delivering
    <3>2. QED BY <2>2, <3>1, <1>k DEF CheckFails
  <2>3. ASSUME NEW sent \in BOOLEAN, Send(c, sent) PROVE ShownIsKnown'
    <3>1. /\ call'[c] = [call[c] EXCEPT !.pc = "record", !.sent = sent]
          /\ \A d \in Callers \ {c} : call'[d] = call[d]
          /\ call[c].pc = "send" /\ history' = history /\ session' = session
      BY <2>3, Puts DEF Send, At
    <3>2. /\ call'[c].pc = "record" /\ Key(c)' = Key(c) /\ call'[c].sent = sent
          /\ ~call[c].sent
      BY <3>1, <2>s DEF Key, States, Placed
    <3>3. CASE sent
      <4>1. Delivering(c)' /\ Key(c)' = Key(c) /\ call'[c].sent
        BY <3>2, <3>3 DEF Delivering
      <4>2. \A v \in Windows : \A k \in seen[v] : Remembers(v, k)'
        <5>1. \A v \in Windows : session[v] \subseteq session'[v]
          BY <3>1
        <5>2. \A k \in Keys : history[k] = "delivered" => history'[k] = "delivered"
          BY <3>1
        <5>3. QED BY <3>1, <4>1, <5>1, <5>2, <1>w, StillRemembers
      <4>3. Remembers(WindowOf[c], Key(c))'
        BY <4>1 DEF Remembers
      <4>4. \A v \in Windows : \A k \in seen'[v] :
              k \in seen[v] \/ (v = WindowOf[c] /\ k = Key(c))
        BY <2>3, <3>3, <1>s, <2>s DEF Send
      <4>6. ASSUME NEW v \in Windows, NEW k \in seen'[v] PROVE Remembers(v, k)'
        <5>1. CASE k \in seen[v] BY <5>1, <4>2
        <5>2. CASE v = WindowOf[c] /\ k = Key(c)
          BY <5>2, <4>1 DEF Remembers
        <5>3. QED BY <5>1, <5>2, <4>4
      <4>7. QED BY <4>6, <1>p
    <3>4. CASE ~sent
      BY <2>3, <3>1, <3>2, <3>4, <1>k DEF Send
    <3>5. QED BY <3>3, <3>4
  <2>4. CASE ReadYear(c)
    <3> DEFINE file == [history EXCEPT ![Key(c)] = IF call[c].sent THEN "delivered" ELSE "failed"]
    <3>1. /\ call'[c] = [call[c] EXCEPT !.pc = "write", !.file = file]
          /\ \A d \in Callers \ {c} : call'[d] = call[d]
      BY <2>4, Puts DEF ReadYear
    <3> HIDE DEF file
    <3>2. call'[c].pc = "write" /\ Key(c)' = Key(c) /\ call'[c].sent = call[c].sent
      BY <3>1, <2>s DEF Key, States
    <3>3. QED BY <2>4, <3>1, <3>2, <1>k DEF ReadYear, Delivering
  <2>5. CASE WriteYear(c)
    <3> DEFINE counts == [index EXCEPT ![Year(c)] = Saved(c)]
    <3>1. /\ call'[c] = [call[c] EXCEPT !.pc = "count", !.counts = counts]
          /\ \A d \in Callers \ {c} : call'[d] = call[d]
          /\ At(c, "write") /\ history' = NewHistory(c)
      BY <2>5, Puts DEF WriteYear
    <3> HIDE DEF counts
    <3>2. call'[c].pc = "count" /\ Key(c)' = Key(c) /\ call'[c].sent = call[c].sent
      BY <3>1, <2>s DEF Key, States
    <3>3. history' = [history EXCEPT ![Key(c)] = Word(c)] /\ history[Key(c)] # "delivered"
      BY <3>1, <2>s, OwnRecordOnly DEF Right, StillUndelivered, At
    <3>4. \A k \in Keys : history[k] = "delivered" => history'[k] = "delivered"
      BY <3>3, <1>s
    <3>5. Delivering(c)'
      BY <3>2 DEF Delivering
    <3>6. QED BY <2>5, <3>1, <3>2, <3>4, <3>5, <1>k DEF WriteYear
  <2>6. CASE WriteIndex(c)
    <3>1. /\ call'[c] = [call[c] EXCEPT !.pc = "verify"]
          /\ \A d \in Callers \ {c} : call'[d] = call[d]
      BY <2>6, Puts DEF WriteIndex, GoTo
    <3>2. call'[c].pc = "verify" /\ Key(c)' = Key(c) /\ call'[c].sent = call[c].sent
      BY <3>1, <2>s DEF Key, States
    <3>3. QED BY <2>6, <3>1, <3>2, <1>k DEF WriteIndex, Delivering
  <2>7. CASE VerifyIndex(c)
    <3>1. \A d \in Callers \ {c} : call'[d] = call[d]
      BY <2>7, Left DEF VerifyIndex
    <3>2. session' = session \/ session' = [session EXCEPT ![WindowOf[c]] = @ \cup {Key(c)}]
      BY <2>7 DEF VerifyIndex, Known
    <3>3. call[c].sent => Key(c) \in session'[WindowOf[c]]
      BY <2>7, <1>s, <2>s DEF VerifyIndex, Known
    <3>4. QED BY <2>7, <3>1, <3>2, <3>3, <1>k DEF VerifyIndex
  <2>8. ASSUME NEW landed \in BOOLEAN, RecordFails(c, landed) PROVE ShownIsKnown'
    <3>1. \A d \in Callers \ {c} : call'[d] = call[d]
      BY <2>8, Left DEF RecordFails
    <3>2. session' = session \/ session' = [session EXCEPT ![WindowOf[c]] = @ \cup {Key(c)}]
      BY <2>8 DEF RecordFails, Remembered, Known
    <3>3. call[c].sent => Key(c) \in session'[WindowOf[c]]
      BY <2>8, <1>s, <2>s DEF RecordFails, Remembered, Known
    <3>4. \A k \in Keys : history[k] = "delivered" => history'[k] = "delivered"
      <4>1. CASE landed
        <5>1. At(c, "write") /\ history' = NewHistory(c)
          BY <2>8, <4>1 DEF RecordFails
        <5>2. history' = [history EXCEPT ![Key(c)] = Word(c)] /\ history[Key(c)] # "delivered"
          BY <5>1, <2>s, OwnRecordOnly DEF Right, StillUndelivered, At
        <5>3. QED BY <5>2, <1>s
      <4>2. CASE ~landed BY <2>8, <4>2 DEF RecordFails
      <4>3. QED BY <4>1, <4>2
    <3>5. QED BY <2>8, <3>1, <3>2, <3>3, <3>4, <1>k DEF RecordFails
  <2>9. QED BY <1>5, <2>1, <2>2, <2>3, <2>4, <2>5, <2>6, <2>7, <2>8 DEF Deliver
<1>6. QED BY <1>1, <1>2, <1>3, <1>4, <1>5 DEF Delivery

LEMMA InitInformed == DeliveryInit => Informed
<1>1. DeliveryInit => ShownIsKnown
  BY DEF DeliveryInit, ShownIsKnown
<1>2. QED BY <1>1, InitKinds, InitLocks, InitRight DEF Informed

LEMMA NextInformed == Informed /\ Delivery => Informed'
BY NextKinds, NextLocks, NextRight, NextShown DEF Informed

\* What a call shows was delivered by nobody, and nobody else is delivering it.
LEMMA ShowsFresh ==
  ASSUME Informed, NEW c \in Callers, Shows(c)
  PROVE  /\ history[Key(c)] # "delivered" /\ Key(c) \notin session[WindowOf[c]]
         /\ \A other \in Callers \ {c} :
              Delivering(other) /\ call[other].sent => Key(other) # Key(c)
<1>1. Delivering(c) /\ StillUndelivered(c) /\ At(c, "send")
  BY DEF Informed, Right, Shows, At, Delivering
<1>2. QED BY <1>1 DEF Informed, Locks, DeliverLock, StillUndelivered, At

----------------------------------------------------------------------------
\* The index, while nothing fails and years are recorded one at a time.

Alone(c) == \A d \in Callers \ {c} : ~Recording(d)
IndexIsTrue ==
  faults = 0 /\ ~crossed =>
    /\ \A c \in Callers : Recording(c) => Alone(c)
    /\ \A y \in Years : \/ index[y] = Count(y)
                        \/ \E c \in Callers : At(c, "count") /\ Year(c) = y
    /\ \A c \in Callers : At(c, "count") =>
         \A y \in Years : call[c].counts[y] = Count(y)

LEMMA InitIndex == DeliveryInit => IndexIsTrue
<1> SUFFICES ASSUME DeliveryInit PROVE IndexIsTrue
  OBVIOUS
<1>1. \A c \in Callers : ~Recording(c) /\ ~At(c, "count")
  BY DEF DeliveryInit, NoCall, Recording, At
<1>2. \A y \in Years : {k \in InYear(y) : history[k] # "none"} = {}
  BY DEF DeliveryInit, InYear
<1>3. Cardinality({}) = 0
  BY FS_EmptySet
<1>4. \A y \in Years : index[y] = Count(y)
  BY <1>2, <1>3 DEF DeliveryInit, Count
<1>5. QED BY <1>1, <1>4 DEF IndexIsTrue, Alone

\* What the call is about to put in the index is the count of its file.
LEMMA SavedIsCount ==
  ASSUME NEW c \in Callers, call[c].pc \in {"count", "verify"}, CopyIsCurrent(c)
  PROVE  Saved(c) = Count(Year(c))
<1>1. \A k \in InYear(Year(c)) : call[c].file[k] = history[k]
  BY DEF CopyIsCurrent
<1>2. {k \in InYear(Year(c)) : call[c].file[k] # "none"}
        = {k \in InYear(Year(c)) : history[k] # "none"}
  BY <1>1
<1>3. QED BY <1>2 DEF Saved, Count

LEMMA NextIndex == Informed /\ IndexIsTrue /\ Delivery => IndexIsTrue'
<1> SUFFICES ASSUME Informed, IndexIsTrue, Delivery, faults' = 0, ~crossed'
             PROVE  IndexIsTrue'
  BY DEF IndexIsTrue
<1> USE DEF Informed
<1>s. /\ index \in [Years -> Nat] /\ faults \in 0 .. MaxFaults /\ MaxFaults \in Nat
      /\ history \in [Keys -> {"none", "delivered", "failed"}] /\ crossed \in BOOLEAN
  BY DeliveryAssumption DEF Kinds, DeliveryTypeOK, Records
<1>f. ~Fault
  BY <1>s DEF Fault
<1>g. faults = 0 /\ ~crossed
  <2>1. ASSUME NEW c \in Callers, Deliver(c) PROVE faults = 0 /\ ~crossed
    <3>1. ASSUME NEW sent \in BOOLEAN, Send(c, sent) PROVE faults = 0 /\ ~crossed
      BY <3>1, <1>s DEF Send
    <3>2. QED
      BY <2>1, <3>1, <1>f, <1>s DEF Deliver, Check, CheckFails, ReadYear, WriteYear, WriteIndex,
             VerifyIndex, RecordFails
  <2>2. CASE UNCHANGED delivery
    BY <2>2 DEF delivery
  <2>3. ASSUME NEW c \in Callers, Settle(c) PROVE faults = 0 /\ ~crossed
    BY <2>3 DEF Settle
  <2>4. ASSUME NEW c \in Callers, NEW event \in Events, Start(c, event)
        PROVE  faults = 0 /\ ~crossed
    BY <2>4 DEF Start
  <2>5. ASSUME NEW w \in Windows, Crash(w) PROVE FALSE
    BY <2>5, <1>f DEF Crash
  <2>6. QED BY <2>1, <2>2, <2>3, <2>4, <2>5, <1>f DEF Delivery
<1>i. /\ \A c \in Callers : Recording(c) => Alone(c)
      /\ \A y \in Years : \/ index[y] = Count(y)
                          \/ \E c \in Callers : At(c, "count") /\ Year(c) = y
      /\ \A c \in Callers : At(c, "count") =>
           \A y \in Years : call[c].counts[y] = Count(y)
  BY <1>g DEF IndexIsTrue
\* A step in which no call comes to record, or gets to its index.
<1>q. ASSUME \A d \in Callers : \/ call'[d] = call[d]
                                \/ ~Recording(d)' /\ ~At(d, "count"),
             history' = history, index' = index
      PROVE  IndexIsTrue'
  <2>1. \A y \in Years : Count(y)' = Count(y)
    BY <1>q DEF Count, InYear
  <2>2. \A d \in Callers : /\ Recording(d)' => Recording(d)
                           /\ At(d, "count")' <=> At(d, "count")
                           /\ At(d, "count") => Year(d)' = Year(d) /\ call'[d] = call[d]
    BY <1>q DEF Recording, At, Year
  <2>3. \A d \in Callers : Recording(d)' => Alone(d)'
    BY <2>2, <1>i DEF Alone
  <2>4. \A y \in Years : \/ index'[y] = Count(y)'
                         \/ \E d \in Callers : At(d, "count")' /\ Year(d)' = y
    BY <1>q, <2>1, <2>2, <1>i
  <2>5. \A d \in Callers : At(d, "count")' => \A y \in Years : call'[d].counts[y] = Count(y)'
    BY <2>1, <2>2, <1>i
  <2>6. QED BY <2>3, <2>4, <2>5 DEF IndexIsTrue
<1>1. CASE UNCHANGED delivery
  BY <1>1, <1>q DEF delivery
<1>2. ASSUME NEW c \in Callers, NEW event \in Events, Start(c, event) PROVE IndexIsTrue'
  <2> DEFINE new == [NoCall EXCEPT !.pc = "next", !.event = event, !.left = Targets]
  <2>1. new.pc = "next" /\ Put(c, new)
    BY <1>2 DEF NoCall, Start
  <2> HIDE DEF new
  <2>2. /\ \A d \in Callers \ {c} : call'[d] = call[d]
        /\ ~Recording(c)' /\ ~At(c, "count")
    BY <1>2, <2>1, Puts DEF Start, At, Recording
  <2>3. QED BY <1>2, <2>2, <1>q DEF Start
<1>3. ASSUME NEW c \in Callers, Settle(c) PROVE IndexIsTrue'
  <2>1. /\ \A d \in Callers \ {c} : call'[d] = call[d]
        /\ ~Recording(c)' /\ ~At(c, "count")
    BY <1>3, Puts DEF Settle, NoCall, At, Recording
  <2>2. QED BY <1>3, <2>1, <1>q DEF Settle
<1>5. ASSUME NEW c \in Callers, Deliver(c) PROVE IndexIsTrue'
  <2>s. call[c] \in States /\ Right(c) /\ Placed(call[c])
    BY DEF Kinds, Placed
  <2>1. ASSUME NEW target \in Targets, Check(c, target) PROVE IndexIsTrue'
    <3>1. call'[c].pc \in {"send", "next", "done"}
      BY <2>1, Targeted
    <3>2. /\ \A d \in Callers \ {c} : call'[d] = call[d]
          /\ ~Recording(c)' /\ ~At(c, "count")
      BY <2>1, <3>1, Targeted DEF Check, Takes, At, Recording
    <3>3. QED BY <2>1, <3>2, <1>q DEF Check
  <2>2. ASSUME NEW target \in Targets, CheckFails(c, target) PROVE IndexIsTrue'
    BY <2>2, <1>f DEF CheckFails
  <2>3. ASSUME NEW sent \in BOOLEAN, Send(c, sent) PROVE IndexIsTrue'
    <3>1. /\ call'[c] = [call[c] EXCEPT !.pc = "record", !.sent = sent]
          /\ \A d \in Callers \ {c} : call'[d] = call[d]
          /\ call[c].pc = "send"
      BY <2>3, Puts DEF Send, At
    <3>2. ~Recording(c)' /\ ~At(c, "count")
      BY <3>1, <2>s DEF Recording, At, States
    <3>3. QED BY <2>3, <3>1, <3>2, <1>q DEF Send
  <2>4. CASE ReadYear(c)
    <3> DEFINE file == [history EXCEPT ![Key(c)] = IF call[c].sent THEN "delivered" ELSE "failed"]
    <3>1. /\ call'[c] = [call[c] EXCEPT !.pc = "write", !.file = file]
          /\ \A d \in Callers \ {c} : call'[d] = call[d]
          /\ At(c, "record") /\ history' = history /\ index' = index
          /\ \A d \in Callers : ~Recording(d)
      BY <2>4, Puts DEF ReadYear
    <3> HIDE DEF file
    <3>2. call'[c].pc = "write"
      BY <3>1, <2>s DEF States
    <3>3. \A d \in Callers : ~At(d, "count") /\ ~At(d, "count")'
      BY <3>1, <3>2 DEF At, Recording
    <3>4. \A d \in Callers \ {c} : ~Recording(d)'
      BY <3>1 DEF Recording
    <3>5. \A y \in Years : index'[y] = Count(y)'
      BY <3>1, <3>3, <1>i DEF Count, InYear
    <3>6. QED BY <3>3, <3>4, <3>5 DEF IndexIsTrue, Alone
  <2>5. CASE WriteYear(c)
    <3> DEFINE counts == [index EXCEPT ![Year(c)] = Saved(c)]
    <3>1. /\ call'[c] = [call[c] EXCEPT !.pc = "count", !.counts = counts]
          /\ \A d \in Callers \ {c} : call'[d] = call[d]
          /\ At(c, "write") /\ history' = NewHistory(c) /\ index' = index
      BY <2>5, Puts DEF WriteYear
    <3>2. Recording(c) /\ Alone(c) /\ Year(c) \in Years
      BY <3>1, <1>i, SavedIsNumber DEF At, Recording
    <3>3. \A d \in Callers : ~At(d, "count")
      BY <3>1, <3>2 DEF Alone, At, Recording
    <3>4. \A y \in Years : counts[y] = IF y = Year(c) THEN Saved(c) ELSE Count(y)
      BY <3>2, <3>3, <1>s, <1>i
    <3>5. \A y \in Years : y # Year(c) => Count(y)' = Count(y)
      <4> SUFFICES ASSUME NEW y \in Years, y # Year(c) PROVE Count(y)' = Count(y)
        OBVIOUS
      <4>1. \A k \in InYear(y) : history'[k] = history[k]
        BY <3>1 DEF NewHistory, InYear
      <4>2. {k \in InYear(y) : history'[k] # "none"} = {k \in InYear(y) : history[k] # "none"}
        BY <4>1
      <4>3. QED BY <4>2 DEF Count, InYear
    <3>6. Count(Year(c))' = Saved(c)
      <4> DEFINE y == Year(c)
      <4>1. \A k \in InYear(y) : history'[k] = call[c].file[k]
        BY <3>1 DEF NewHistory, InYear
      <4>2. {k \in InYear(y) : history'[k] # "none"}
              = {k \in InYear(y) : call[c].file[k] # "none"}
        BY <4>1
      <4>3. Year(c)' = Year(c)
        <5> HIDE DEF counts
        <5>1. QED BY <3>1, <2>s DEF Year, States
      <4>4. QED BY <4>2, <4>3 DEF Count, Saved, InYear
    <3> HIDE DEF counts
    <3>7. call'[c].pc = "count" /\ call'[c].counts = counts /\ Year(c)' = Year(c)
      BY <3>1, <2>s DEF States, Year
    <3>8. \A d \in Callers \ {c} : ~Recording(d)' /\ ~At(d, "count")'
      BY <3>1, <3>2 DEF Alone, Recording, At
    <3>9. \A y \in Years : call'[c].counts[y] = Count(y)'
      BY <3>4, <3>5, <3>6, <3>7
    <3>10. \A y \in Years : y # Year(c) => index'[y] = Count(y)'
      BY <3>1, <3>3, <3>5, <1>i
    <3>11. At(c, "count")' /\ Recording(c)'
      BY <3>7 DEF At, Recording
    <3>12. QED BY <3>7, <3>8, <3>9, <3>10, <3>11 DEF IndexIsTrue, Alone
  <2>6. CASE WriteIndex(c)
    <3>1. /\ call'[c] = [call[c] EXCEPT !.pc = "verify"]
          /\ \A d \in Callers \ {c} : call'[d] = call[d]
          /\ At(c, "count") /\ history' = history /\ index' = call[c].counts
      BY <2>6, Puts DEF WriteIndex, GoTo
    <3>2. Recording(c) /\ Alone(c)
      BY <3>1, <1>i DEF At, Recording
    <3>3. call'[c].pc = "verify"
      BY <3>1, <2>s DEF States
    <3>4. \A d \in Callers \ {c} : ~Recording(d)'
      BY <3>1, <3>2 DEF Alone, Recording
    <3>5. \A d \in Callers : ~At(d, "count")'
      BY <3>3, <3>4 DEF At, Recording
    <3>6. \A y \in Years : index'[y] = Count(y)'
      BY <3>1, <1>i DEF Count, InYear
    <3>7. QED BY <3>4, <3>5, <3>6 DEF IndexIsTrue, Alone
  <2>7. CASE VerifyIndex(c)
    <3>1. /\ \A d \in Callers \ {c} : call'[d] = call[d]
          /\ ~Recording(c)' /\ ~At(c, "count")
      BY <2>7, Left DEF VerifyIndex, At, Recording
    <3>2. QED BY <2>7, <3>1, <1>q DEF VerifyIndex
  <2>8. ASSUME NEW landed \in BOOLEAN, RecordFails(c, landed) PROVE IndexIsTrue'
    <3>1. At(c, "verify") /\ ~Verified(c)
      BY <2>8, <1>f DEF RecordFails
    <3>2. Recording(c) /\ Alone(c) /\ Year(c) \in Years
      BY <3>1, <1>i, SavedIsNumber DEF At, Recording
    <3>3. \A d \in Callers : ~At(d, "count")
      BY <3>1, <3>2 DEF Alone, At, Recording
    <3>4. index[Year(c)] = Count(Year(c))
      BY <3>2, <3>3, <1>i
    <3>5. Saved(c) = Count(Year(c))
      BY <3>1, <2>s, SavedIsCount DEF Right, At
    <3>6. QED BY <3>1, <3>4, <3>5 DEF Verified
  <2>9. QED BY <1>5, <2>1, <2>2, <2>3, <2>4, <2>5, <2>6, <2>7, <2>8 DEF Deliver
<1>6. QED BY <1>1, <1>2, <1>3, <1>5, <1>f DEF Delivery, Crash

LEMMA IndexIsRight == Informed /\ IndexIsTrue => IndexCounts
<1> SUFFICES ASSUME IndexIsTrue, faults = 0 /\ ~crossed, NEW y \in Years, HistoryFree(y)
             PROVE  index[y] = Count(y)
  BY DEF IndexCounts
<1>1. \A c \in Callers : At(c, "count") => Year(c) # y
  BY DEF HistoryFree, Recording, At
<1>2. QED BY <1>1 DEF IndexIsTrue

=============================================================================

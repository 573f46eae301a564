--------------------------- MODULE RobotTurnsProofs ---------------------------
(***************************************************************************)
(* Proofs about RobotTurns for every set of chats and messages, every      *)
(* limit, and any number of repeated messages, failing writes and          *)
(* restarts.                                                               *)
(***************************************************************************)
EXTENDS RobotTurns, FiniteSetTheorems, SequenceTheorems, TLAPS

Where == Chats \X Lanes

\* TypeOK, but for the counters that are natural numbers because of what they count.
Kinds ==
  /\ text \in Writings /\ learns \in BOOLEAN
  /\ lane \in [Where -> Seq(Arrived)]
  /\ delivered \subseteq Messages /\ processed \subseteq Messages
  /\ saved \subseteq Messages /\ forgotten \subseteq Messages
  /\ turn \in [Messages -> Turns] /\ tail \in [Chats -> Messages \cup {None}]
  /\ depth \in [Chats -> Int] /\ leaked \in [Chats -> Nat]
  /\ total \in Int /\ active \in Int /\ waiters \in Seq(Messages)
  /\ pending \in [Chats -> Requests \cup {None}] /\ request \in [Requests -> Answers]
  /\ acts \in [Messages -> Nat]
  /\ mishaps \in Nat /\ restarts \in Nat

Pcs == {"none", "noting", "queued", "waiting", "woken", "running", "storing",
        "asking", "allowed", "ending", "closing", "done"}

----------------------------------------------------------------------------
\* How the turns move.

\* Only the turn of m changes, and it comes to pc.
Moved(m, pc) ==
  /\ turn' \in [Messages -> Turns] /\ turn'[m].pc = pc
  /\ \A n \in Messages \ {m} : turn'[n] = turn[n]

LEMMA FieldMoves ==
  ASSUME turn \in [Messages -> Turns], NEW m \in Messages, NEW pc \in Pcs, GoTo(m, pc)
  PROVE  Moved(m, pc) /\ turn'[m].after = turn[m].after /\ turn'[m].request = turn[m].request
BY DEF GoTo, Moved, Turns, Pcs

LEMMA Unchaining ==
  ASSUME turn \in [Messages -> Turns], NEW m \in Messages, NEW pc \in Pcs, Unchained(m, pc)
  PROVE  Moved(m, pc) /\ turn'[m].after = None /\ turn'[m].request = turn[m].request
BY DEF Unchained, Moved, Turns, Pcs

LEMMA Renewing ==
  ASSUME turn \in [Messages -> Turns], NEW m \in Messages, NEW pc \in Pcs,
         NEW a \in Messages \cup {None},
         turn' = [turn EXCEPT ![m] = [NoTurn EXCEPT !.pc = pc, !.after = a]]
  PROVE  Moved(m, pc) /\ turn'[m].after = a /\ turn'[m].request = None
BY DEF NoTurn, Moved, Turns, Pcs

LEMMA Resetting ==
  ASSUME turn \in [Messages -> Turns], NEW m \in Messages, NEW pc \in Pcs,
         turn' = [turn EXCEPT ![m] = [NoTurn EXCEPT !.pc = pc]]
  PROVE  Moved(m, pc) /\ turn'[m].after = None /\ turn'[m].request = None
BY DEF NoTurn, Moved, Turns, Pcs

\* What each step of a turn does to it.
LEMMA CancelMoves ==
  ASSUME Kinds, NEW m \in Messages, Cancel(m)
  PROVE  turn[m].pc = "queued" /\ Moved(m, "closing")
         /\ turn'[m].after = None /\ turn'[m].request = turn[m].request
<1>1. Unchained(m, "closing") /\ turn[m].pc = "queued"
  BY DEF Cancel, Cancelled, Ready, At
<1>2. turn \in [Messages -> Turns] /\ "closing" \in Pcs BY DEF Kinds, Pcs
<1>3. QED BY <1>1, <1>2, Unchaining

LEMMA AcquireMoves ==
  ASSUME Kinds, NEW m \in Messages, Acquire(m)
  PROVE  /\ turn[m].pc = "queued" /\ turn'[m].after = None
         /\ turn'[m].request = turn[m].request
         /\ Moved(m, IF active >= MaxTurns THEN "waiting" ELSE "running")
<1>1. turn[m].pc = "queued" BY DEF Acquire, Ready, At
<1>2. turn \in [Messages -> Turns] /\ "waiting" \in Pcs /\ "running" \in Pcs BY DEF Kinds, Pcs
<1>3. Unchained(m, IF active >= MaxTurns THEN "waiting" ELSE "running") BY DEF Acquire
<1>4. QED BY <1>1, <1>2, <1>3, Unchaining

LEMMA ResumeMoves ==
  ASSUME Kinds, NEW m \in Messages, Resume(m)
  PROVE  turn[m].pc = "woken" /\ Moved(m, "running")
         /\ turn'[m].after = turn[m].after /\ turn'[m].request = turn[m].request
<1>1. turn[m].pc = "woken" /\ GoTo(m, "running") BY DEF Resume, At
<1>2. turn \in [Messages -> Turns] /\ "running" \in Pcs BY DEF Kinds, Pcs
<1>3. QED BY <1>1, <1>2, FieldMoves

LEMMA PassMoves ==
  ASSUME Kinds, NEW m \in Messages, PassGate(m)
  PROVE  turn[m].pc = "running" /\ Moved(m, "allowed")
         /\ turn'[m].after = turn[m].after /\ turn'[m].request = turn[m].request
<1>1. turn[m].pc = "running" /\ GoTo(m, "allowed") BY DEF PassGate, At
<1>2. turn \in [Messages -> Turns] /\ "allowed" \in Pcs BY DEF Kinds, Pcs
<1>3. QED BY <1>1, <1>2, FieldMoves

LEMMA WantMoves ==
  ASSUME Kinds, NEW m \in Messages, WantToWrite(m)
  PROVE  turn[m].pc = "running" /\ Moved(m, "storing") /\ turn'[m].after = turn[m].after
         /\ turn'[m].request \in Fresh /\ turn'[m].request = (CHOOSE q \in Fresh : TRUE)
<1> DEFINE r == CHOOSE q \in Fresh : TRUE
<1>1. turn[m].pc = "running" /\ Fresh # {}
      /\ turn' = [turn EXCEPT ![m].pc = "storing", ![m].request = r]
  BY DEF WantToWrite, At
<1>2. r \in Fresh BY <1>1
<1>3. r \in Requests BY <1>2 DEF Fresh
<1> HIDE DEF r
<1>4. Moved(m, "storing") /\ turn'[m].after = turn[m].after /\ turn'[m].request = r
  BY <1>1, <1>3 DEF Moved, Kinds, Turns
<1>5. QED BY <1>1, <1>2, <1>4 DEF r

LEMMA RegisterMoves ==
  ASSUME Kinds, NEW m \in Messages, Register(m)
  PROVE  turn[m].pc = "storing" /\ Moved(m, "asking")
         /\ turn'[m].after = turn[m].after /\ turn'[m].request = turn[m].request
<1>1. turn[m].pc = "storing" /\ GoTo(m, "asking") BY DEF Register, At
<1>2. turn \in [Messages -> Turns] /\ "asking" \in Pcs BY DEF Kinds, Pcs
<1>3. QED BY <1>1, <1>2, FieldMoves

LEMMA AskingFailsMoves ==
  ASSUME Kinds, NEW m \in Messages, AskingFails(m)
  PROVE  turn[m].pc \in {"storing", "asking"} /\ Moved(m, "ending")
         /\ turn'[m].after = None /\ turn'[m].request = None
<1>1. turn[m].pc \in {"storing", "asking"}
      /\ turn' = [turn EXCEPT ![m] = [NoTurn EXCEPT !.pc = "ending"]] BY DEF AskingFails
<1>2. turn \in [Messages -> Turns] /\ "ending" \in Pcs BY DEF Kinds, Pcs
<1>3. QED BY <1>1, <1>2, Resetting

LEMMA WriteMoves ==
  ASSUME Kinds, NEW m \in Messages, Write(m)
  PROVE  turn[m].pc \in {"asking", "allowed"} /\ Moved(m, "running")
         /\ turn'[m].after = turn[m].after /\ turn'[m].request = None
BY DEF Write, At, Moved, Kinds, Turns

LEMMA ForgoMoves ==
  ASSUME Kinds, NEW m \in Messages, Forgo(m)
  PROVE  /\ turn[m].pc \in {"asking", "allowed"}
         /\ turn'[m].after = None /\ turn'[m].request = None
         /\ Moved(m, IF turn[m].late THEN "ending" ELSE "running")
<1>1. turn[m].pc \in {"asking", "allowed"} /\ turn' = [turn EXCEPT ![m] =
        [NoTurn EXCEPT !.pc = IF turn[m].late THEN "ending" ELSE "running"]] BY DEF Forgo, At
<1>2. turn \in [Messages -> Turns] /\ "ending" \in Pcs /\ "running" \in Pcs BY DEF Kinds, Pcs
<1>3. QED BY <1>1, <1>2, Resetting

LEMMA TimesOutMoves ==
  ASSUME Kinds, NEW m \in Messages, TimesOut(m)
  PROVE  /\ turn[m].pc \in Loop /\ turn'[m].pc \in Loop \cup {"ending"}
         /\ Moved(m, turn'[m].pc) /\ (turn'[m].pc # turn[m].pc => turn[m].pc = "running")
         /\ turn'[m].after = turn[m].after /\ turn'[m].request = turn[m].request
<1>1. turn[m].pc \in Loop BY DEF TimesOut
<1>2. CASE At(m, "running")
  BY <1>1, <1>2 DEF TimesOut, At, Moved, Kinds, Turns, Loop
<1>3. CASE ~At(m, "running")
  BY <1>1, <1>3 DEF TimesOut, At, Moved, Kinds, Turns, Loop
<1>4. QED BY <1>2, <1>3

LEMMA LeaveMoves ==
  ASSUME Kinds, NEW m \in Messages, Leave(m)
  PROVE  turn[m].pc = "closing" /\ Moved(m, "done")
         /\ turn'[m].after = None /\ turn'[m].request = None
<1>1. turn[m].pc = "closing" /\ turn' = [turn EXCEPT ![m] = [NoTurn EXCEPT !.pc = "done"]]
  BY DEF Leave, At
<1>2. turn \in [Messages -> Turns] /\ "done" \in Pcs BY DEF Kinds, Pcs
<1>3. QED BY <1>1, <1>2, Resetting

\* Those who wait for a slot are waiting, and wait once.
WaitersWait ==
  /\ \A i \in 1 .. Len(waiters) : turn[waiters[i]].pc = "waiting"
  /\ \A i, j \in 1 .. Len(waiters) : waiters[i] = waiters[j] => i = j

LEMMA HeadWaits ==
  ASSUME Kinds, WaitersWait, waiters # <<>>
  PROVE  /\ Head(waiters) \in Messages /\ turn[Head(waiters)].pc = "waiting"
         /\ Tail(waiters) \in Seq(Messages) /\ Len(Tail(waiters)) = Len(waiters) - 1
         /\ \A i \in 1 .. Len(Tail(waiters)) :
              /\ i + 1 \in 1 .. Len(waiters) /\ Tail(waiters)[i] = waiters[i + 1]
              /\ Tail(waiters)[i] # Head(waiters)
<1>1. waiters \in Seq(Messages) /\ Len(waiters) \in Nat /\ Len(waiters) >= 1
  BY DEF Kinds
<1>2. Head(waiters) = waiters[1] /\ 1 \in 1 .. Len(waiters) /\ waiters[1] \in Messages
  BY <1>1
<1>3. turn[waiters[1]].pc = "waiting" BY <1>2 DEF WaitersWait
<1>4. Tail(waiters) \in Seq(Messages) /\ Len(Tail(waiters)) = Len(waiters) - 1
  BY <1>1
<1>5. ASSUME NEW i \in 1 .. Len(Tail(waiters))
      PROVE  /\ i + 1 \in 1 .. Len(waiters) /\ Tail(waiters)[i] = waiters[i + 1]
             /\ Tail(waiters)[i] # Head(waiters)
  <2>1. i + 1 \in 1 .. Len(waiters) /\ Tail(waiters)[i] = waiters[i + 1]
    BY <1>1, <1>4
  <2>2. waiters[i + 1] # waiters[1] BY <2>1, <1>1, <1>2 DEF WaitersWait
  <2>3. QED BY <2>1, <2>2, <1>2
<1>6. QED BY <1>2, <1>3, <1>4, <1>5

LEMMA ReleaseMoves ==
  ASSUME Kinds, WaitersWait, NEW m \in Messages, Release(m)
  PROVE  /\ turn[m].pc \in {"running", "ending"} /\ turn'[m].pc = "closing"
         /\ turn' \in [Messages -> Turns]
         /\ \A n \in Messages \ {m} :
              IF waiters # <<>> /\ n = Head(waiters)
              THEN turn[n].pc = "waiting" /\ turn'[n].pc = "woken"
              ELSE turn'[n] = turn[n]
         /\ \A n \in Messages : turn'[n].after = turn[n].after /\ turn'[n].request = turn[n].request
<1>1. turn[m].pc \in {"running", "ending"} /\ turn' = Woken(m) BY DEF Release
<1>2. turn \in [Messages -> Turns] BY DEF Kinds
<1>3. CASE waiters = <<>>
  BY <1>1, <1>2, <1>3 DEF Woken, Turns
<1>4. CASE waiters # <<>>
  <2> DEFINE h == Head(waiters)
  <2>1. h \in Messages /\ turn[h].pc = "waiting" BY <1>4, HeadWaits
  <2>2. h # m BY <2>1, <1>1
  <2>3. turn' = [turn EXCEPT ![m].pc = "closing", ![h].pc = "woken"] BY <1>1, <1>4 DEF Woken
  <2> HIDE DEF h
  <2>4. turn' \in [Messages -> Turns] /\ turn'[m].pc = "closing" /\ turn'[h].pc = "woken"
    BY <1>2, <2>1, <2>2, <2>3 DEF Turns
  <2>5. \A n \in Messages \ {m, h} : turn'[n] = turn[n]
    BY <1>2, <2>1, <2>3
  <2>6. \A n \in Messages : turn'[n].after = turn[n].after /\ turn'[n].request = turn[n].request
    BY <1>2, <2>1, <2>2, <2>3 DEF Turns
  <2>7. QED BY <1>1, <1>4, <2>1, <2>2, <2>4, <2>5, <2>6 DEF h
<1>5. QED BY <1>3, <1>4

----------------------------------------------------------------------------
\* How the lanes move.

LaneType == lane \in [Where -> Seq(Arrived)]

LEMMA DropMoves ==
  ASSUME LaneType, NEW l \in Where, lane[l] # <<>>, Drop(l)
  PROVE  /\ lane' \in [Where -> Seq(Arrived)]
         /\ \A k \in Where \ {l} : lane'[k] = lane[k]
         /\ \A i \in 1 .. Len(lane'[l]) :
              i + 1 \in 1 .. Len(lane[l]) /\ lane'[l][i] = lane[l][i + 1]
<1>1. lane[l] \in Seq(Arrived) BY DEF LaneType
<1>2. lane'[l] = Tail(lane[l]) /\ \A k \in Where \ {l} : lane'[k] = lane[k]
  BY DEF Drop, LaneType
<1>3. Tail(lane[l]) \in Seq(Arrived) BY <1>1
<1>4. \A i \in 1 .. Len(Tail(lane[l])) :
        i + 1 \in 1 .. Len(lane[l]) /\ Tail(lane[l])[i] = lane[l][i + 1]
  BY <1>1
<1>5. lane' \in [Where -> Seq(Arrived)] BY <1>3 DEF Drop, LaneType
<1>6. QED BY <1>2, <1>4, <1>5

LEMMA StaysMoves ==
  ASSUME LaneType, NEW l \in Where, lane[l] # <<>>,
         NEW pc \in {"checked", "noting"}, Stays(l, pc)
  PROVE  /\ lane' \in [Where -> Seq(Arrived)]
         /\ \A k \in Where \ {l} : lane'[k] = lane[k]
         /\ Len(lane'[l]) = Len(lane[l]) /\ lane'[l][1].pc = pc
         /\ lane'[l][1].msg = lane[l][1].msg /\ lane'[l][1].early = lane[l][1].early
         /\ \A i \in 2 .. Len(lane[l]) : lane'[l][i] = lane[l][i]
<1> DEFINE s == lane[l]
           t == [s EXCEPT ![1] = [s[1] EXCEPT !.pc = pc]]
<1>1. s \in Seq(Arrived) /\ Len(s) \in Nat /\ Len(s) >= 1 BY DEF LaneType
<1>2. s[1] \in Arrived BY <1>1, ElementOfSeq
<1>3. lane' = [lane EXCEPT ![l] = t] BY DEF Stays
<1> HIDE DEF s
<1>4. [s[1] EXCEPT !.pc = pc] \in Arrived /\ [s[1] EXCEPT !.pc = pc].pc = pc
      /\ [s[1] EXCEPT !.pc = pc].msg = s[1].msg /\ [s[1] EXCEPT !.pc = pc].early = s[1].early
  BY <1>2 DEF Arrived
<1>5. /\ t \in Seq(Arrived) /\ Len(t) = Len(s)
      /\ \A i \in 1 .. Len(s) : t[i] = IF i = 1 THEN [s[1] EXCEPT !.pc = pc] ELSE s[i]
  BY <1>1, <1>4, ExceptSeq
<1>6. t[1].pc = pc /\ t[1].msg = s[1].msg /\ t[1].early = s[1].early
      /\ \A i \in 2 .. Len(s) : t[i] = s[i]
  BY <1>1, <1>4, <1>5
<1> HIDE DEF t
<1>9. lane'[l] = t /\ lane' \in [Where -> Seq(Arrived)]
  BY <1>3, <1>5 DEF LaneType
<1>10. \A k \in Where \ {l} : lane'[k] = lane[k] BY <1>3 DEF LaneType
<1>11. QED BY <1>5, <1>6, <1>9, <1>10 DEF s


LEMMA ArriveMoves ==
  ASSUME Kinds, NEW m \in Messages, Arrive(m)
  PROVE  /\ lane' \in [Where -> Seq(Arrived)]
         /\ \A k \in Where : \A i \in 1 .. Len(lane'[k]) :
              \/ i \in 1 .. Len(lane[k]) /\ lane'[k][i] = lane[k][i]
              \/ /\ i \notin 1 .. Len(lane[k]) /\ lane'[k][i].pc = "new"
                 /\ lane'[k][i].msg = m /\ k[1] = ChatOf[m]
                 /\ k[2] = "answers" => lane'[k][i].early
         /\ \A k \in Where : \A i \in 1 .. Len(lane[k]) :
              i \in 1 .. Len(lane'[k]) /\ lane'[k][i] = lane[k][i]
<1> DEFINE c == ChatOf[m]
           early == pending[c] # None
           l == <<c, IF early /\ text[m] # "talk" THEN "answers" ELSE "messages">>
           e == [msg |-> m, early |-> early, pc |-> "new"]
<1>1. c \in Chats BY RobotAssumption
<1>2. l \in Where /\ l[1] = c /\ (l[2] = "answers" => early) BY <1>1 DEF Where, Lanes
<1>3. e \in Arrived /\ e.pc = "new" /\ e.msg = m /\ e.early = early BY DEF Arrived
<1>4. lane' = lane \/ lane' = [lane EXCEPT ![l] = Append(@, e)] BY DEF Arrive
<1>5. lane \in [Where -> Seq(Arrived)] BY DEF Kinds
<1> HIDE DEF e, l, early, c
<1>6. CASE lane' = lane BY <1>5, <1>6
<1>7. CASE lane' = [lane EXCEPT ![l] = Append(lane[l], e)]
  <2>1. lane[l] \in Seq(Arrived) /\ Len(lane[l]) \in Nat BY <1>2, <1>5
  <2>2. /\ Append(lane[l], e) \in Seq(Arrived) /\ Len(Append(lane[l], e)) = Len(lane[l]) + 1
        /\ \A i \in 1 .. Len(lane[l]) : Append(lane[l], e)[i] = lane[l][i]
        /\ Append(lane[l], e)[Len(lane[l]) + 1] = e
    BY <2>1, <1>3, AppendProperties
  <2>3. lane'[l] = Append(lane[l], e) /\ (\A k \in Where \ {l} : lane'[k] = lane[k])
        /\ lane' \in [Where -> Seq(Arrived)]
    BY <1>2, <1>5, <1>7, <2>2
  <2>4. \A i \in 1 .. Len(lane'[l]) :
          \/ i \in 1 .. Len(lane[l]) /\ lane'[l][i] = lane[l][i]
          \/ i \notin 1 .. Len(lane[l]) /\ lane'[l][i] = e
    BY <2>1, <2>2, <2>3
  <2>5. \A i \in 1 .. Len(lane[l]) : i \in 1 .. Len(lane'[l]) /\ lane'[l][i] = lane[l][i]
    BY <2>1, <2>2, <2>3
  <2>6. l[1] = ChatOf[m] /\ (l[2] = "answers" => e.early) BY <1>2, <1>3 DEF c
  <2>7. \A i \in 1 .. Len(lane'[l]) :
          \/ i \in 1 .. Len(lane[l]) /\ lane'[l][i] = lane[l][i]
          \/ /\ i \notin 1 .. Len(lane[l]) /\ lane'[l][i].pc = "new"
             /\ lane'[l][i].msg = m /\ l[1] = ChatOf[m]
             /\ l[2] = "answers" => lane'[l][i].early
    BY <1>3, <2>4, <2>6
  <2>8. QED BY <2>3, <2>5, <2>7
<1>8. QED BY <1>4, <1>6, <1>7


----------------------------------------------------------------------------
\* What the lanes hold, and what it says about the turns: a message beyond its
\* check is the head of one lane only, and has no turn but the one it notes.

Held(l, m) == lane[l] # <<>> /\ lane[l][1].msg = m /\ lane[l][1].pc # "new"

Lined ==
  \A l \in Where : \A i \in 1 .. Len(lane[l]) :
    /\ ChatOf[lane[l][i].msg] = l[1]
    /\ l[2] = "answers" => lane[l][i].early
    /\ lane[l][i].pc # "new" => i = 1 /\ lane[l][i].msg \in processed

Once == \A l, k \in Where, m \in Messages : Held(l, m) /\ Held(k, m) => l = k

Known ==
  \A m \in Messages :
    /\ turn[m].pc # "none" => m \in processed
    /\ \A l \in Where : Held(l, m) =>
         \/ lane[l][1].pc = "checked" /\ turn[m].pc = "none"
         \/ lane[l][1].pc = "noting" /\ turn[m].pc = "noting" /\ l[2] = "messages"
    /\ turn[m].pc = "noting" =>
         /\ Held(<<ChatOf[m], "messages">>, m)
         /\ lane[<<ChatOf[m], "messages">>][1].pc = "noting"

Base == Kinds /\ WaitersWait /\ Lined /\ Once /\ Known

LEMMA InitBase == Init => Base
<1> SUFFICES ASSUME Init PROVE Base OBVIOUS
<1>1. Kinds
  BY RobotAssumption DEF Init, Kinds, Where, Turns, NoTurn, Answers, NoAnswer
<1>2. waiters = <<>> /\ \A l \in Where : lane[l] = <<>> BY DEF Init, Where
<1>3. WaitersWait /\ Lined /\ Once BY <1>2 DEF WaitersWait, Lined, Once, Held
<1>4. \A m \in Messages : turn[m].pc = "none" BY DEF Init, NoTurn
<1>5. Known BY <1>2, <1>4 DEF Known, Held
<1>6. QED BY <1>1, <1>3, <1>5 DEF Base

\* The head of a lane.
LEMMA HeadOf ==
  ASSUME Kinds, NEW l \in Where, lane[l] # <<>>
  PROVE  /\ Head(lane[l]) = lane[l][1] /\ lane[l][1] \in Arrived /\ Msg(l) = lane[l][1].msg
         /\ Len(lane[l]) \in Nat /\ 1 \in 1 .. Len(lane[l]) /\ Msg(l) \in Messages
         /\ l[1] \in Chats /\ l[2] \in Lanes /\ l = <<l[1], l[2]>>
<1>1. lane[l] \in Seq(Arrived) BY DEF Kinds
<1>2. Len(lane[l]) \in Nat /\ Len(lane[l]) >= 1 /\ Head(lane[l]) = lane[l][1] BY <1>1
<1>3. lane[l][1] \in Arrived BY <1>1, <1>2, ElementOfSeq
<1>4. QED BY <1>2, <1>3 DEF Msg, Arrived, Where

LEMMA AnswersIn ==
  /\ Closed \in Answers /\ NoAnswer \in Answers
  /\ \A who \in Messages \cup {Admin} : ApprovedBy(who) \in Answers
  /\ \A q \in Answers : [q EXCEPT !.stage = "asked"] \in Answers
  /\ [NoAnswer EXCEPT !.stage = "storing"] \in Answers
BY DEF Closed, NoAnswer, ApprovedBy, Answers

LEMMA ReceivesKinds ==
  ASSUME Base, NEW l \in Where, Receives(l) PROVE Kinds'
<1> USE DEF Base
<1>h. lane[l] # <<>>
  BY DEF Receives, LookUp, Answer, Refuse, Count, Chain, NotingFails, HeadIs
<1>m. Msg(l) \in Messages /\ l[1] \in Chats BY <1>h, HeadOf
<1>t. LaneType BY DEF Kinds, LaneType
<1>d. Drop(l) => lane' \in [Where -> Seq(Arrived)] BY <1>h, <1>t, DropMoves
<1>s. \A pc \in {"checked", "noting"} : Stays(l, pc) => lane' \in [Where -> Seq(Arrived)]
  BY <1>h, <1>t, StaysMoves
<1>1. CASE LookUp(l)
  <2>1. lane' \in [Where -> Seq(Arrived)] /\ processed' \subseteq Messages
    BY <1>1, <1>d, <1>s, <1>m DEF LookUp, Marked, Kinds
  <2>2. QED BY <1>1, <2>1 DEF LookUp, Kinds, counts, given
<1>2. CASE Answer(l)
  <2>1. pending[l[1]] \in Requests BY <1>2, <1>m DEF Answer, Kinds
  <2>2. request' \in [Requests -> Answers] /\ pending' \in [Chats -> Requests \cup {None}]
    <3>1. PICK new \in Answers : Resolve(l[1], new)
      BY <1>2, <1>m, AnswersIn DEF Answer
    <3>2. QED BY <3>1, <1>m, <2>1 DEF Resolve, Kinds
  <2>3. acts' \in [Messages -> Nat] BY <1>2, <1>m DEF Answer, Acts, Kinds
  <2>4. QED BY <1>2, <1>d, <2>2, <2>3 DEF Answer, Kinds, counts, given
<1>3. CASE Refuse(l)
  BY <1>3, <1>d DEF Refuse, Kinds, counts, given
<1>4. CASE Count(l)
  <2>1. tail[l[1]] \in Messages \cup {None} BY <1>m DEF Kinds
  <2>2. turn' \in [Messages -> Turns]
    <3>1. turn \in [Messages -> Turns] /\ "noting" \in Pcs BY DEF Kinds, Pcs
    <3>2. turn' = [turn EXCEPT ![Msg(l)] = [NoTurn EXCEPT !.pc = "noting", !.after = tail[l[1]]]]
      BY <1>4 DEF Count
    <3>3. Moved(Msg(l), "noting") BY <1>m, <2>1, <3>1, <3>2, Renewing
    <3>4. QED BY <3>3 DEF Moved
  <2>3. acts' \in [Messages -> Nat] BY <1>4, <1>m DEF Count, Acts, Kinds
  <2>4. depth' \in [Chats -> Int] /\ total' \in Int BY <1>4, <1>m DEF Count, Kinds
  <2>5. QED BY <1>4, <1>s, <2>2, <2>3, <2>4 DEF Count, Kinds, given
<1>5. CASE Chain(l)
  <2>1. turn' \in [Messages -> Turns]
    BY <1>5, <1>m, FieldMoves DEF Chain, Kinds, Moved, Pcs
  <2>2. QED BY <1>5, <1>d, <1>m, <2>1 DEF Chain, Kinds, counts, given
<1>6. CASE NotingFails(l)
  <2>1. turn' \in [Messages -> Turns]
    BY <1>6, <1>m, Resetting DEF NotingFails, Kinds, Moved, Pcs
  <2>2. leaked' \in [Chats -> Nat] BY <1>6, <1>m DEF NotingFails, Kinds
  <2>3. QED BY <1>6, <1>d, <2>1, <2>2, SMTT(20) DEF NotingFails, Mishap, Kinds, counts
<1>7. QED BY <1>1, <1>2, <1>3, <1>4, <1>5, <1>6 DEF Receives


LEMMA ProceedsKinds ==
  ASSUME Base, NEW m \in Messages, Proceeds(m) \/ TimesOut(m) PROVE Kinds'
<1> USE DEF Base
<1>c. ChatOf[m] \in Chats BY RobotAssumption
<1>q. turn[m].request \in Requests \cup {None} /\ turn \in [Messages -> Turns]
  BY DEF Kinds, Turns
<1>w. waiters \in Seq(Messages) BY DEF Kinds
<1>t. turn' \in [Messages -> Turns]
  BY CancelMoves, AcquireMoves, ResumeMoves, PassMoves, WantMoves, RegisterMoves, AskingFailsMoves,
     WriteMoves, ForgoMoves, ReleaseMoves, LeaveMoves, TimesOutMoves DEF Proceeds, Moved
<1>1. CASE Cancel(m)
  BY <1>1, <1>t DEF Cancel, Kinds, counts, given
<1>2. CASE Acquire(m)
  <2>1. waiters' \in Seq(Messages) BY <1>2, <1>w, AppendProperties DEF Acquire
  <2>2. active' \in Int BY <1>2 DEF Acquire, Kinds
  <2>3. QED BY <1>2, <1>t, <2>1, <2>2 DEF Acquire, Kinds, given
<1>3. CASE Resume(m)
  BY <1>3, <1>t DEF Resume, Kinds, given
<1>0. CASE PassGate(m)
  BY <1>0, <1>t DEF PassGate, Others, Kinds, counts, given
<1>4. CASE WantToWrite(m)
  <2>1. request' \in [Requests -> Answers]
    BY <1>4, AnswersIn DEF WantToWrite, Kinds
  <2>2. pending' \in [Chats -> Requests \cup {None}] BY <1>4 DEF WantToWrite, Kinds
  <2>3. QED BY <1>4, <1>t, <2>1, <2>2 DEF WantToWrite, Others, Kinds, counts, given
<1>5. CASE Register(m)
  <2>1. request' \in [Requests -> Answers]
    <3>1. request' = [request EXCEPT ![turn[m].request] = [@ EXCEPT !.stage = "asked"]]
      BY <1>5 DEF Register
    <3>2. \A q \in Requests : [request[q] EXCEPT !.stage = "asked"] \in Answers
      BY AnswersIn DEF Kinds
    <3>3. QED BY <3>1, <3>2 DEF Kinds
  <2>2. pending' \in [Chats -> Requests \cup {None}] BY <1>5, <1>q DEF Register, Kinds
  <2>3. QED BY <1>5, <1>t, <2>1, <2>2 DEF Register, Others, Kinds, counts, given
<1>6. CASE AskingFails(m)
  <2>1. request' \in [Requests -> Answers]
    BY <1>6, AnswersIn DEF AskingFails, Kinds
  <2>2. QED BY <1>6, <1>t, <2>1 DEF AskingFails, Mishap, Kinds, counts
<1>7. CASE Write(m) \/ Forgo(m)
  <2>1. request' \in [Requests -> Answers]
    BY <1>7, AnswersIn DEF Write, Forgo, Settled, Kinds
  <2>2. QED BY <1>7, <1>t, <2>1 DEF Write, Forgo, Others, Kinds, counts, given
<1>8. CASE Release(m)
  <2>1. waiters' \in Seq(Messages) BY <1>8, <1>w, HeadWaits DEF Release
  <2>2. QED BY <1>8, <1>t, <2>1 DEF Release, Kinds, given
<1>9. CASE Leave(m)
  <2>1. tail' \in [Chats -> Messages \cup {None}] BY <1>9 DEF Leave, Kinds
  <2>2. depth' \in [Chats -> Int] /\ total' \in Int BY <1>9, <1>c DEF Leave, Kinds
  <2>3. QED BY <1>9, <1>t, <2>1, <2>2 DEF Leave, Kinds, given
<1>10. CASE TimesOut(m)
  BY <1>10, <1>t DEF TimesOut, Others, Kinds, counts, given
<1>11. QED
  BY <1>0, <1>1, <1>2, <1>3, <1>4, <1>5, <1>6, <1>7, <1>8, <1>9, <1>10 DEF Proceeds

LEMMA AroundKinds ==
  ASSUME Base,
         \/ \E m \in Messages : Arrive(m)
         \/ \E c \in Chats : Expire(c) \/ Decide(c)
         \/ Persist \/ Restart
  PROVE  Kinds'
<1> USE DEF Base
<1>1. ASSUME NEW m \in Messages, Arrive(m) PROVE Kinds'
  <2>1. lane' \in [Where -> Seq(Arrived)] BY <1>1, ArriveMoves
  <2>2. mishaps' \in Nat /\ delivered' \subseteq Messages
    BY <1>1 DEF Arrive, Mishap, Kinds
  <2>3. QED BY <1>1, <2>1, <2>2 DEF Arrive, Kinds, counts
<1>2. ASSUME NEW c \in Chats, Expire(c) \/ Decide(c) PROVE Kinds'
  <2>1. PICK new \in Answers : Resolve(c, new)
    BY <1>2, AnswersIn DEF Expire, Decide
  <2>2. pending[c] \in Requests BY <1>2 DEF Expire, Decide, Kinds
  <2>3. request' \in [Requests -> Answers] /\ pending' \in [Chats -> Requests \cup {None}]
    BY <2>1, <2>2 DEF Resolve, Kinds
  <2>4. QED BY <1>2, <2>3 DEF Expire, Decide, Others, Kinds, counts, given
<1>3. CASE Persist
  BY <1>3 DEF Persist, Kinds, counts, given
<1>4. CASE Restart
  <2>1. lane' \in [Where -> Seq(Arrived)] /\ waiters' \in Seq(Messages)
    BY <1>4 DEF Restart, Where
  <2>2. turn' \in [Messages -> Turns] BY <1>4 DEF Restart, NoTurn, Turns
  <2>3. request' \in [Requests -> Answers] BY <1>4, AnswersIn DEF Restart, Kinds
  <2>4. QED BY <1>4, <2>1, <2>2, <2>3 DEF Restart, Kinds
<1>5. QED BY <1>1, <1>2, <1>3, <1>4


----------------------------------------------------------------------------
\* The steps of a lane and of a turn, as the other proofs need them.

LEMMA CountMoves ==
  ASSUME Base, NEW l \in Where, Count(l)
  PROVE  /\ Msg(l) \in Messages /\ ChatOf[Msg(l)] = l[1] /\ l[1] \in Chats /\ l[2] = "messages"
         /\ Held(l, Msg(l)) /\ turn[Msg(l)].pc = "none" /\ Moved(Msg(l), "noting")
         /\ turn'[Msg(l)].after = tail[l[1]] /\ turn'[Msg(l)].request = None
<1> USE DEF Base
<1>1. lane[l] # <<>> /\ Head(lane[l]).pc = "checked" /\ ~Head(lane[l]).early
  BY DEF Count, HeadIs, ForAgent
<1>2. /\ Msg(l) = lane[l][1].msg /\ lane[l][1].pc = "checked" /\ ~lane[l][1].early
      /\ Msg(l) \in Messages /\ 1 \in 1 .. Len(lane[l]) /\ l[1] \in Chats /\ l[2] \in Lanes
  BY <1>1, HeadOf
<1>3. ChatOf[Msg(l)] = l[1] /\ l[2] # "answers" BY <1>2 DEF Lined
<1>4. Held(l, Msg(l)) BY <1>1, <1>2 DEF Held
<1>5. turn[Msg(l)].pc = "none" BY <1>2, <1>4 DEF Known
<1>6. tail[l[1]] \in Messages \cup {None} /\ turn \in [Messages -> Turns] /\ "noting" \in Pcs
  BY <1>2 DEF Kinds, Pcs
<1>7. turn' = [turn EXCEPT ![Msg(l)] = [NoTurn EXCEPT !.pc = "noting", !.after = tail[l[1]]]]
  BY DEF Count
<1>8. Moved(Msg(l), "noting") /\ turn'[Msg(l)].after = tail[l[1]] /\ turn'[Msg(l)].request = None
  BY <1>2, <1>6, <1>7, Renewing, ZenonT(40)
<1>9. QED BY <1>2, <1>3, <1>4, <1>5, <1>8 DEF Lanes

\* A message that is being noted, and its turn.
LEMMA HeadNotes ==
  ASSUME Base, NEW l \in Where, HeadIs(l, "noting")
  PROVE  /\ Msg(l) \in Messages /\ ChatOf[Msg(l)] = l[1] /\ l[1] \in Chats /\ l[2] = "messages"
         /\ lane[l] # <<>> /\ Held(l, Msg(l)) /\ turn[Msg(l)].pc = "noting"
<1> USE DEF Base
<1>1. lane[l] # <<>> /\ Head(lane[l]).pc = "noting" BY DEF HeadIs
<1>2. /\ Msg(l) = lane[l][1].msg /\ lane[l][1].pc = "noting"
      /\ Msg(l) \in Messages /\ 1 \in 1 .. Len(lane[l]) /\ l[1] \in Chats
  BY <1>1, HeadOf
<1>3. ChatOf[Msg(l)] = l[1] BY <1>2 DEF Lined
<1>4. Held(l, Msg(l)) BY <1>1, <1>2 DEF Held
<1>5. QED BY <1>1, <1>2, <1>3, <1>4 DEF Known

LEMMA ChainMoves ==
  ASSUME Base, NEW l \in Where, Chain(l)
  PROVE  /\ Moved(Msg(l), "queued")
         /\ turn'[Msg(l)].after = turn[Msg(l)].after /\ turn'[Msg(l)].request = turn[Msg(l)].request
<1>1. Msg(l) \in Messages BY HeadNotes DEF Chain
<1>2. turn \in [Messages -> Turns] /\ "queued" \in Pcs BY DEF Base, Kinds, Pcs
<1>3. QED BY <1>1, <1>2, FieldMoves DEF Chain

LEMMA NotingFailsMoves ==
  ASSUME Base, NEW l \in Where, NotingFails(l)
  PROVE  Moved(Msg(l), "done") /\ turn'[Msg(l)].after = None /\ turn'[Msg(l)].request = None
<1>1. Msg(l) \in Messages BY HeadNotes DEF NotingFails
<1>2. turn \in [Messages -> Turns] /\ "done" \in Pcs BY DEF Base, Kinds, Pcs
<1>3. turn' = [turn EXCEPT ![Msg(l)] = [NoTurn EXCEPT !.pc = "done"]] BY DEF NotingFails
<1>4. QED BY <1>1, <1>2, <1>3, Resetting

\* The steps of a lane that leave the turns alone.
Checks(l) == LookUp(l) \/ Answer(l) \/ Refuse(l)

\* The step of a turn is between the two ends of its life.
Later == Pcs \ {"none", "noting"}

LEMMA ProceedsLater ==
  ASSUME Base, NEW m \in Messages, Proceeds(m) \/ TimesOut(m)
  PROVE  \A n \in Messages :
           turn'[n] = turn[n] \/ (turn[n].pc \in Later /\ turn'[n].pc \in Later)
<1> USE DEF Base, Later, Pcs, Moved
<1>1. CASE Cancel(m) BY <1>1, CancelMoves
<1>2. CASE Acquire(m) BY <1>2, AcquireMoves
<1>3. CASE Resume(m) BY <1>3, ResumeMoves
<1>0. CASE PassGate(m) BY <1>0, PassMoves
<1>4. CASE WantToWrite(m) BY <1>4, WantMoves
<1>5. CASE Register(m) BY <1>5, RegisterMoves
<1>6. CASE AskingFails(m) BY <1>6, AskingFailsMoves
<1>7. CASE Write(m) BY <1>7, WriteMoves
<1>8. CASE Forgo(m) BY <1>8, ForgoMoves
<1>9. CASE Release(m) BY <1>9, ReleaseMoves
<1>10. CASE Leave(m) BY <1>10, LeaveMoves
<1>11. CASE TimesOut(m) BY <1>11, TimesOutMoves DEF Loop
<1>12. QED
  BY <1>0, <1>1, <1>2, <1>3, <1>4, <1>5, <1>6, <1>7, <1>8, <1>9, <1>10, <1>11 DEF Proceeds

LEMMA ProceedsLanes ==
  ASSUME NEW m \in Messages, Proceeds(m) \/ TimesOut(m)
  PROVE  UNCHANGED <<lane, processed, saved, acts, forgotten>>
BY DEF Proceeds, TimesOut, Cancel, Acquire, Resume, PassGate, WantToWrite, Register, AskingFails,
       Write, Forgo, Release, Leave, Others


----------------------------------------------------------------------------
\* The lanes keep what they hold.

LEMMA DropHeld ==
  ASSUME Base, NEW l \in Where, lane[l] # <<>>, Drop(l), processed' = processed
  PROVE  /\ Lined' /\ \A m : ~Held(l, m)'
         /\ \A k \in Where \ {l} : lane'[k] = lane[k]
<1> USE DEF Base
<1>1. LaneType BY DEF Kinds, LaneType
<1>2. /\ lane' \in [Where -> Seq(Arrived)]
      /\ \A k \in Where \ {l} : lane'[k] = lane[k]
      /\ \A i \in 1 .. Len(lane'[l]) :
           i + 1 \in 1 .. Len(lane[l]) /\ lane'[l][i] = lane[l][i + 1]
  BY <1>1, DropMoves
<1>3. ASSUME NEW i \in 1 .. Len(lane'[l])
      PROVE  /\ ChatOf[lane'[l][i].msg] = l[1] /\ (l[2] = "answers" => lane'[l][i].early)
             /\ lane'[l][i].pc = "new"
  <2>1. i + 1 \in 1 .. Len(lane[l]) /\ lane'[l][i] = lane[l][i + 1] /\ i + 1 # 1 BY <1>2
  <2>2. QED BY <2>1 DEF Lined
<1>4. ASSUME NEW k \in Where, NEW i \in 1 .. Len(lane'[k])
      PROVE  /\ ChatOf[lane'[k][i].msg] = k[1] /\ (k[2] = "answers" => lane'[k][i].early)
             /\ lane'[k][i].pc # "new" => i = 1 /\ lane'[k][i].msg \in processed'
  <2>1. CASE k = l BY <1>3, <2>1
  <2>2. CASE k # l
    <3>1. lane'[k] = lane[k] BY <1>2, <2>2
    <3>2. QED BY <3>1 DEF Lined
  <2>3. QED BY <2>1, <2>2
<1>5. \A m : ~Held(l, m)'
  <2>1. lane'[l] \in Seq(Arrived) BY <1>2
  <2>2. lane'[l] # <<>> => 1 \in 1 .. Len(lane'[l]) BY <2>1
  <2>3. QED BY <1>3, <2>2 DEF Held
<1>6. Lined' BY <1>4 DEF Lined
<1>7. QED BY <1>2, <1>5, <1>6

LEMMA StaysHeld ==
  ASSUME Base, NEW l \in Where, lane[l] # <<>>, NEW pc \in {"checked", "noting"}, Stays(l, pc),
         processed \subseteq processed', Msg(l) \in processed'
  PROVE  /\ Lined' /\ lane'[l][1].pc = pc /\ \A m : Held(l, m)' <=> m = Msg(l)
         /\ \A k \in Where \ {l} : lane'[k] = lane[k]
<1> USE DEF Base
<1>1. LaneType BY DEF Kinds, LaneType
<1>2. /\ lane' \in [Where -> Seq(Arrived)]
      /\ \A k \in Where \ {l} : lane'[k] = lane[k]
      /\ Len(lane'[l]) = Len(lane[l]) /\ lane'[l][1].pc = pc
      /\ lane'[l][1].msg = lane[l][1].msg /\ lane'[l][1].early = lane[l][1].early
      /\ \A i \in 2 .. Len(lane[l]) : lane'[l][i] = lane[l][i]
  BY <1>1, StaysMoves
<1>3. Msg(l) = lane[l][1].msg /\ 1 \in 1 .. Len(lane[l]) /\ Len(lane[l]) \in Nat BY HeadOf
<1>4. ASSUME NEW i \in 1 .. Len(lane'[l])
      PROVE  /\ ChatOf[lane'[l][i].msg] = l[1] /\ (l[2] = "answers" => lane'[l][i].early)
             /\ lane'[l][i].pc # "new" => i = 1 /\ lane'[l][i].msg \in processed'
  <2>1. CASE i = 1 BY <1>2, <1>3, <2>1 DEF Lined
  <2>2. CASE i # 1
    <3>1. i \in 2 .. Len(lane[l]) /\ i \in 1 .. Len(lane[l]) BY <1>2, <1>3, <2>2
    <3>2. lane'[l][i] = lane[l][i] BY <1>2, <3>1
    <3>3. QED BY <3>1, <3>2, <2>2 DEF Lined
  <2>3. QED BY <2>1, <2>2
<1>5. ASSUME NEW k \in Where, NEW i \in 1 .. Len(lane'[k])
      PROVE  /\ ChatOf[lane'[k][i].msg] = k[1] /\ (k[2] = "answers" => lane'[k][i].early)
             /\ lane'[k][i].pc # "new" => i = 1 /\ lane'[k][i].msg \in processed'
  <2>1. CASE k = l BY <1>4, <2>1
  <2>2. CASE k # l
    <3>1. lane'[k] = lane[k] BY <1>2, <2>2
    <3>2. QED BY <3>1 DEF Lined
  <2>3. QED BY <2>1, <2>2
<1>6. \A m : Held(l, m)' <=> m = Msg(l)
  <2>1. lane'[l] \in Seq(Arrived) BY <1>2
  <2>2. lane'[l] # <<>> BY <1>2, <1>3, <2>1
  <2>3. QED BY <1>2, <1>3, <2>2 DEF Held
<1>7. Lined' BY <1>5 DEF Lined
<1>8. QED BY <1>2, <1>6, <1>7

\* The head of a lane that is beyond its check leaves it.
LEMMA DropKnown ==
  ASSUME Base, NEW l \in Where, lane[l] # <<>>, Drop(l), UNCHANGED <<processed, waiters>>,
         lane[l][1].pc # "new", turn'[Msg(l)].pc # "noting", turn[Msg(l)].pc # "waiting",
         \A n \in Messages \ {Msg(l)} : turn'[n] = turn[n]
  PROVE  Lined' /\ Once' /\ Known' /\ WaitersWait'
<1> USE DEF Base
<1>m. /\ Msg(l) = lane[l][1].msg /\ Msg(l) \in Messages /\ 1 \in 1 .. Len(lane[l])
      /\ Held(l, Msg(l)) /\ Msg(l) \in processed
  BY HeadOf DEF Held, Lined
<1>1. Lined' /\ (\A m : ~Held(l, m)') /\ \A k \in Where \ {l} : lane'[k] = lane[k]
  BY DropHeld
<1>2. \A k \in Where : \A m : Held(k, m)' => k # l /\ Held(k, m) /\ lane'[k] = lane[k]
  <2>1. \A k \in Where : \A m : lane'[k] = lane[k] => (Held(k, m)' <=> Held(k, m)) BY DEF Held
  <2>2. QED BY <1>1, <2>1
<1>3. Once' BY <1>2 DEF Once
<1>4. ASSUME NEW m \in Messages
      PROVE /\ turn'[m].pc # "none" => m \in processed'
            /\ \A k \in Where : Held(k, m)' =>
                 \/ lane'[k][1].pc = "checked" /\ turn'[m].pc = "none"
                 \/ lane'[k][1].pc = "noting" /\ turn'[m].pc = "noting" /\ k[2] = "messages"
            /\ turn'[m].pc = "noting" =>
                 /\ Held(<<ChatOf[m], "messages">>, m)'
                 /\ lane'[<<ChatOf[m], "messages">>][1].pc = "noting"
  <2>1. CASE m = Msg(l)
    <3>1. \A k \in Where : ~Held(k, m)' BY <1>2, <1>m, <2>1 DEF Once
    <3>2. QED BY <3>1, <1>m, <2>1
  <2>2. CASE m # Msg(l)
    <3>1. turn'[m] = turn[m] BY <2>2
    <3>2. \A k \in Where : Held(k, m)' => Held(k, m) /\ lane'[k] = lane[k] BY <1>2
    <3>3. ASSUME turn'[m].pc = "noting"
          PROVE  /\ Held(<<ChatOf[m], "messages">>, m)'
                 /\ lane'[<<ChatOf[m], "messages">>][1].pc = "noting"
      <4> DEFINE k == <<ChatOf[m], "messages">>
      <4>1. k \in Where BY RobotAssumption DEF Where, Lanes
      <4>2. Held(k, m) /\ lane[k][1].pc = "noting" BY <3>1, <3>3 DEF Known
      <4>3. k # l BY <4>2, <2>2, <1>m DEF Held
      <4> HIDE DEF k
      <4>4. lane'[k] = lane[k] BY <1>1, <4>1, <4>3
      <4>5. Held(k, m)' /\ lane'[k][1].pc = "noting" BY <4>2, <4>4 DEF Held
      <4>6. QED BY <4>5 DEF k
    <3>4. turn'[m].pc # "none" => m \in processed' BY <3>1 DEF Known
    <3>5. ASSUME NEW k \in Where, Held(k, m)'
          PROVE  \/ lane'[k][1].pc = "checked" /\ turn'[m].pc = "none"
                 \/ lane'[k][1].pc = "noting" /\ turn'[m].pc = "noting" /\ k[2] = "messages"
      <4>1. Held(k, m) /\ lane'[k] = lane[k] BY <3>2, <3>5
      <4>2. QED BY <3>1, <4>1 DEF Known
    <3>6. QED BY <3>3, <3>4, <3>5
  <2>3. QED BY <2>1, <2>2
<1>5. Known' BY <1>4 DEF Known
<1>6. WaitersWait'
  <2>1. \A i \in 1 .. Len(waiters) : waiters[i] \in Messages BY DEF Kinds
  <2>2. \A i \in 1 .. Len(waiters) : waiters[i] # Msg(l) BY DEF WaitersWait
  <2>3. QED BY <2>1, <2>2 DEF WaitersWait
<1>7. QED BY <1>1, <1>3, <1>5, <1>6

LEMMA ReceivesBase ==
  ASSUME Base, NEW l \in Where, Receives(l) PROVE Base'
<1> USE DEF Base
<1>k. Kinds' BY ReceivesKinds
<1>h. lane[l] # <<>>
  BY DEF Receives, LookUp, Answer, Refuse, Count, Chain, NotingFails, HeadIs
<1>m. /\ Msg(l) = lane[l][1].msg /\ Head(lane[l]) = lane[l][1] /\ Msg(l) \in Messages
      /\ 1 \in 1 .. Len(lane[l])
  BY <1>h, HeadOf
<1>o. \A k \in Where : \A m : lane'[k] = lane[k] => (Held(k, m)' <=> Held(k, m)) BY DEF Held
<1>1. CASE LookUp(l) /\ Msg(l) \in processed
  <2>1. Drop(l) /\ UNCHANGED <<processed, turn, waiters>> BY <1>1 DEF LookUp, counts
  <2>2. Lined' /\ (\A m : ~Held(l, m)') /\ \A k \in Where \ {l} : lane'[k] = lane[k]
    BY <1>h, <2>1, DropHeld
  <2>3. lane[l][1].pc = "new" BY <1>1, <1>m DEF LookUp, HeadIs
  <2>4. \A m : ~Held(l, m) BY <2>3 DEF Held
  <2>5. \A k \in Where : \A m : Held(k, m)' <=> Held(k, m) BY <1>o, <2>2, <2>4
  <2>6. \A k \in Where : \A m : Held(k, m) => lane'[k] = lane[k] BY <2>2, <2>4
  <2>7. Once' BY <2>5 DEF Once
  <2>8. Known' BY <2>1, <2>5, <2>6, RobotAssumption DEF Known, Where, Lanes
  <2>9. WaitersWait' BY <2>1 DEF WaitersWait
  <2>10. QED BY <1>k, <2>2, <2>7, <2>8, <2>9
<1>2. CASE LookUp(l) /\ Msg(l) \notin processed
  <2>1. /\ Stays(l, "checked") /\ UNCHANGED <<turn, waiters>>
        /\ processed' = processed \cup {Msg(l)}
    BY <1>2 DEF LookUp, Marked, counts
  <2>2. /\ Lined' /\ lane'[l][1].pc = "checked" /\ \A m : Held(l, m)' <=> m = Msg(l)
        /\ \A k \in Where \ {l} : lane'[k] = lane[k]
    BY <1>h, <2>1, StaysHeld
  <2>3. \A k \in Where : ~Held(k, Msg(l))
    <3>1. ASSUME NEW k \in Where, Held(k, Msg(l)) PROVE FALSE
      <4>1. lane[k] # <<>> /\ lane[k][1].pc # "new" /\ lane[k][1].msg = Msg(l)
        BY <3>1 DEF Held
      <4>2. 1 \in 1 .. Len(lane[k]) BY <4>1, HeadOf
      <4>3. QED BY <4>1, <4>2, <1>2 DEF Lined
    <3>2. QED BY <3>1
  <2>4. turn[Msg(l)].pc = "none" BY <1>2, <1>m DEF Known
  <2>5. \A m : ~Held(l, m)
    BY <1>2, <1>m DEF LookUp, HeadIs, Held
  <2>6. Once' BY <1>o, <2>2, <2>3 DEF Once
  <2>7. ASSUME NEW m \in Messages
        PROVE /\ turn'[m].pc # "none" => m \in processed'
              /\ \A k \in Where : Held(k, m)' =>
                   \/ lane'[k][1].pc = "checked" /\ turn'[m].pc = "none"
                   \/ lane'[k][1].pc = "noting" /\ turn'[m].pc = "noting" /\ k[2] = "messages"
              /\ turn'[m].pc = "noting" =>
                   /\ Held(<<ChatOf[m], "messages">>, m)'
                   /\ lane'[<<ChatOf[m], "messages">>][1].pc = "noting"
    <3>1. turn'[m].pc # "none" => m \in processed' BY <2>1 DEF Known
    <3>2. ASSUME NEW k \in Where, Held(k, m)'
          PROVE  \/ lane'[k][1].pc = "checked" /\ turn'[m].pc = "none"
                 \/ lane'[k][1].pc = "noting" /\ turn'[m].pc = "noting" /\ k[2] = "messages"
      <4>1. CASE k = l BY <2>1, <2>2, <2>4, <3>2, <4>1
      <4>2. CASE k # l
        <5>1. lane'[k] = lane[k] /\ Held(k, m) BY <1>o, <2>2, <3>2, <4>2
        <5>2. QED BY <5>1, <2>1 DEF Known
      <4>3. QED BY <4>1, <4>2
    <3>3. ASSUME turn'[m].pc = "noting"
          PROVE  /\ Held(<<ChatOf[m], "messages">>, m)'
                 /\ lane'[<<ChatOf[m], "messages">>][1].pc = "noting"
      <4> DEFINE k == <<ChatOf[m], "messages">>
      <4>1. k \in Where BY RobotAssumption DEF Where, Lanes
      <4>2. Held(k, m) /\ lane[k][1].pc = "noting" BY <3>3, <2>1 DEF Known
      <4>3. k # l BY <4>2, <2>5
      <4> HIDE DEF k
      <4>4. lane'[k] = lane[k] BY <2>2, <4>1, <4>3
      <4>5. Held(k, m)' /\ lane'[k][1].pc = "noting" BY <1>o, <4>1, <4>2, <4>4
      <4>6. QED BY <4>5 DEF k
    <3>4. QED BY <3>1, <3>2, <3>3
  <2>8. Known' BY <2>7 DEF Known
  <2>9. WaitersWait' BY <2>1 DEF WaitersWait
  <2>10. QED BY <1>k, <2>2, <2>6, <2>8, <2>9
<1>3. CASE Answer(l) \/ Refuse(l)
  <2>1. Drop(l) /\ UNCHANGED <<processed, turn, waiters>> /\ lane[l][1].pc = "checked"
    BY <1>3, <1>m DEF Answer, Refuse, HeadIs, counts
  <2>2. turn[Msg(l)].pc = "none" BY <2>1, <1>h, <1>m DEF Known, Held
  <2>3. QED BY <1>k, <1>h, <2>1, <2>2, DropKnown
<1>4. CASE Count(l)
  <2>1. /\ Stays(l, "noting") /\ UNCHANGED <<processed, waiters>>
        /\ lane[l][1].pc = "checked"
    BY <1>4, <1>m DEF Count, HeadIs
  <2>2. /\ ChatOf[Msg(l)] = l[1] /\ l[2] = "messages" /\ Held(l, Msg(l))
        /\ turn[Msg(l)].pc = "none" /\ Moved(Msg(l), "noting")
    BY <1>4, CountMoves
  <2>3. Msg(l) \in processed BY <2>1, <1>m DEF Lined
  <2>4. /\ Lined' /\ lane'[l][1].pc = "noting" /\ \A m : Held(l, m)' <=> m = Msg(l)
        /\ \A k \in Where \ {l} : lane'[k] = lane[k]
    BY <1>h, <2>1, <2>3, StaysHeld
  <2>5. \A k \in Where, m \in Messages : Held(k, m)' => Held(k, m)
    BY <1>o, <2>2, <2>4
  <2>6. Once' BY <2>5 DEF Once
  <2>7. ASSUME NEW m \in Messages
        PROVE /\ turn'[m].pc # "none" => m \in processed'
              /\ \A k \in Where : Held(k, m)' =>
                   \/ lane'[k][1].pc = "checked" /\ turn'[m].pc = "none"
                   \/ lane'[k][1].pc = "noting" /\ turn'[m].pc = "noting" /\ k[2] = "messages"
              /\ turn'[m].pc = "noting" =>
                   /\ Held(<<ChatOf[m], "messages">>, m)'
                   /\ lane'[<<ChatOf[m], "messages">>][1].pc = "noting"
    <3>1. CASE m = Msg(l)
      <4>1. turn'[m].pc = "noting" /\ m \in processed' BY <3>1, <2>1, <2>2, <2>3 DEF Moved
      <4>2. \A k \in Where : Held(k, m)' => k = l BY <3>1, <2>2, <2>5 DEF Once
      <4>3. l = <<ChatOf[m], "messages">> BY <3>1, <2>2, <1>h, HeadOf
      <4>4. QED BY <4>1, <4>2, <4>3, <2>2, <2>4, <3>1
    <3>2. CASE m # Msg(l)
      <4>1. turn'[m] = turn[m] BY <3>2, <2>2 DEF Moved
      <4>2. \A k \in Where : Held(k, m)' => Held(k, m) /\ lane'[k] = lane[k]
        BY <2>4, <2>5, <3>2
      <4>3. ASSUME turn'[m].pc = "noting"
            PROVE  /\ Held(<<ChatOf[m], "messages">>, m)'
                   /\ lane'[<<ChatOf[m], "messages">>][1].pc = "noting"
        <5> DEFINE k == <<ChatOf[m], "messages">>
        <5>1. k \in Where BY RobotAssumption DEF Where, Lanes
        <5>2. Held(k, m) /\ lane[k][1].pc = "noting" BY <4>1, <4>3 DEF Known
        <5>3. k # l BY <5>2, <2>1
        <5> HIDE DEF k
        <5>4. lane'[k] = lane[k] BY <2>4, <5>1, <5>3
        <5>5. Held(k, m)' /\ lane'[k][1].pc = "noting" BY <5>2, <5>4 DEF Held
        <5>6. QED BY <5>5 DEF k
      <4>4. turn'[m].pc # "none" => m \in processed' BY <4>1, <2>1 DEF Known
      <4>5. ASSUME NEW k \in Where, Held(k, m)'
            PROVE  \/ lane'[k][1].pc = "checked" /\ turn'[m].pc = "none"
                   \/ lane'[k][1].pc = "noting" /\ turn'[m].pc = "noting" /\ k[2] = "messages"
        <5>1. Held(k, m) /\ lane'[k] = lane[k] BY <4>2, <4>5
        <5>2. QED BY <4>1, <5>1 DEF Known
      <4>6. QED BY <4>3, <4>4, <4>5
    <3>3. QED BY <3>1, <3>2
  <2>8. Known' BY <2>7 DEF Known
  <2>9. WaitersWait'
    <3>1. \A i \in 1 .. Len(waiters) : waiters[i] \in Messages BY DEF Kinds
    <3>2. \A i \in 1 .. Len(waiters) : turn'[waiters[i]] = turn[waiters[i]]
      BY <3>1, <2>2 DEF WaitersWait, Moved
    <3>3. QED BY <3>2, <2>1 DEF WaitersWait
  <2>10. QED BY <1>k, <2>4, <2>6, <2>8, <2>9
<1>5. CASE Chain(l) \/ NotingFails(l)
  <2>1. HeadIs(l, "noting") /\ Drop(l) /\ UNCHANGED <<processed, waiters>>
    BY <1>5 DEF Chain, NotingFails, counts
  <2>2. lane[l][1].pc = "noting" /\ turn[Msg(l)].pc = "noting"
    BY <2>1, <1>m, HeadNotes DEF HeadIs
  <2>3. turn'[Msg(l)].pc # "noting" /\ \A n \in Messages \ {Msg(l)} : turn'[n] = turn[n]
    BY <1>5, ChainMoves, NotingFailsMoves DEF Moved
  <2>4. QED BY <1>k, <1>h, <2>1, <2>2, <2>3, DropKnown
<1>6. QED BY <1>1, <1>2, <1>3, <1>4, <1>5 DEF Receives



\* Nobody who waits is touched by the step of another turn.
LEMMA WaitersKeep ==
  ASSUME Base, NEW m \in Messages, turn[m].pc # "waiting", waiters' = waiters,
         \A n \in Messages \ {m} : turn'[n] = turn[n]
  PROVE  WaitersWait'
<1> USE DEF Base
<1>1. \A i \in 1 .. Len(waiters) : waiters[i] \in Messages BY DEF Kinds
<1>2. \A i \in 1 .. Len(waiters) : waiters[i] # m BY DEF WaitersWait
<1>3. \A i \in 1 .. Len(waiters) : turn'[waiters[i]] = turn[waiters[i]] BY <1>1, <1>2
<1>4. QED BY <1>3 DEF WaitersWait

LEMMA ProceedsBase ==
  ASSUME Base, NEW m \in Messages, Proceeds(m) \/ TimesOut(m) PROVE Base'
<1> USE DEF Base
<1>k. Kinds' BY ProceedsKinds
<1>u. UNCHANGED <<lane, processed>> BY ProceedsLanes
<1>l. Lined' /\ Once' BY <1>u DEF Lined, Once, Held
<1>n. Known'
  <2>1. ASSUME NEW n \in Messages
        PROVE /\ turn'[n].pc # "none" => n \in processed'
              /\ \A k \in Where : Held(k, n)' =>
                   \/ lane'[k][1].pc = "checked" /\ turn'[n].pc = "none"
                   \/ lane'[k][1].pc = "noting" /\ turn'[n].pc = "noting" /\ k[2] = "messages"
              /\ turn'[n].pc = "noting" =>
                   /\ Held(<<ChatOf[n], "messages">>, n)'
                   /\ lane'[<<ChatOf[n], "messages">>][1].pc = "noting"
    <3>h. \A k : Held(k, n)' <=> Held(k, n) BY <1>u DEF Held
    <3>1. CASE turn'[n] = turn[n] BY <1>u, <3>1, <3>h DEF Known
    <3>2. CASE turn[n].pc \in Later /\ turn'[n].pc \in Later
      <4>1. turn[n].pc \notin {"none", "noting"} /\ turn'[n].pc # "noting" BY <3>2 DEF Later
      <4>2. \A k \in Where : ~Held(k, n) BY <4>1 DEF Known
      <4>3. n \in processed' BY <4>1, <1>u DEF Known
      <4>4. QED BY <4>1, <4>2, <4>3, <3>h
    <3>3. QED BY <3>1, <3>2, ProceedsLater
  <2>2. QED BY <2>1 DEF Known
<1>1. CASE Cancel(m)
  BY <1>1, <1>k, <1>l, <1>n, CancelMoves, WaitersKeep DEF Cancel, counts, Moved
<1>2. CASE Acquire(m)
  <2>1. turn[m].pc = "queued" /\ \A n \in Messages \ {m} : turn'[n] = turn[n]
    BY <1>2, AcquireMoves DEF Moved
  <2>2. CASE active >= MaxTurns
    <3>1. waiters' = Append(waiters, m) /\ turn'[m].pc = "waiting"
      BY <1>2, <2>2, AcquireMoves DEF Acquire, Moved
    <3>2. waiters \in Seq(Messages) /\ Len(waiters) \in Nat BY DEF Kinds
    <3>3. /\ Len(waiters') = Len(waiters) + 1 /\ waiters'[Len(waiters) + 1] = m
          /\ \A i \in 1 .. Len(waiters) : waiters'[i] = waiters[i]
      BY <3>1, <3>2, AppendProperties
    <3>4. \A i \in 1 .. Len(waiters) : waiters[i] \in Messages /\ waiters[i] # m
      BY <2>1, <3>2 DEF WaitersWait
    <3>5. \A i \in 1 .. Len(waiters') : i \in 1 .. Len(waiters) \/ i = Len(waiters) + 1
      BY <3>2, <3>3
    <3>6. \A i \in 1 .. Len(waiters) : turn'[waiters'[i]].pc = "waiting" /\ waiters'[i] # m
      BY <2>1, <3>3, <3>4 DEF WaitersWait
    <3>7. \A i \in 1 .. Len(waiters') : turn'[waiters'[i]].pc = "waiting"
      BY <3>1, <3>3, <3>5, <3>6
    <3>8. \A i, j \in 1 .. Len(waiters') : waiters'[i] = waiters'[j] => i = j
      BY <3>3, <3>5, <3>6 DEF WaitersWait
    <3>9. QED BY <1>k, <1>l, <1>n, <3>7, <3>8 DEF WaitersWait
  <2>3. CASE ~(active >= MaxTurns)
    <3>1. waiters' = waiters BY <1>2, <2>3 DEF Acquire
    <3>2. QED BY <2>1, <3>1, <1>k, <1>l, <1>n, WaitersKeep
  <2>4. QED BY <2>2, <2>3
<1>3. CASE Resume(m)
  BY <1>3, <1>k, <1>l, <1>n, ResumeMoves, WaitersKeep DEF Resume, Moved
<1>0. CASE PassGate(m)
  BY <1>0, <1>k, <1>l, <1>n, PassMoves, WaitersKeep DEF PassGate, Others, counts, Moved
<1>4. CASE WantToWrite(m)
  BY <1>4, <1>k, <1>l, <1>n, WantMoves, WaitersKeep DEF WantToWrite, Others, counts, Moved
<1>5. CASE Register(m)
  BY <1>5, <1>k, <1>l, <1>n, RegisterMoves, WaitersKeep DEF Register, Others, counts, Moved
<1>6. CASE AskingFails(m)
  BY <1>6, <1>k, <1>l, <1>n, AskingFailsMoves, WaitersKeep DEF AskingFails, counts, Moved
<1>7. CASE Write(m)
  BY <1>7, <1>k, <1>l, <1>n, WriteMoves, WaitersKeep DEF Write, Others, counts, Moved
<1>8. CASE Forgo(m)
  BY <1>8, <1>k, <1>l, <1>n, ForgoMoves, WaitersKeep DEF Forgo, Others, counts, Moved
<1>9. CASE Release(m)
  <2>1. turn[m].pc \in {"running", "ending"} BY <1>9, ReleaseMoves
  <2>2. CASE waiters = <<>>
    <3>1. waiters' = waiters BY <1>9, <2>2 DEF Release
    <3>2. QED BY <2>2, <3>1, <1>k, <1>l, <1>n DEF WaitersWait
  <2>3. CASE waiters # <<>>
    <3>1. waiters' = Tail(waiters) BY <1>9, <2>3 DEF Release
    <3>2. /\ Len(Tail(waiters)) = Len(waiters) - 1
          /\ \A i \in 1 .. Len(Tail(waiters)) :
               /\ i + 1 \in 1 .. Len(waiters) /\ Tail(waiters)[i] = waiters[i + 1]
               /\ Tail(waiters)[i] # Head(waiters)
      BY <2>3, HeadWaits
    <3>3. \A i \in 1 .. Len(waiters) :
            waiters[i] \in Messages /\ turn[waiters[i]].pc = "waiting" /\ waiters[i] # m
      BY <2>1 DEF Kinds, WaitersWait
    <3>4. \A i \in 1 .. Len(waiters') : turn'[waiters'[i]].pc = "waiting"
      <4>1. ASSUME NEW i \in 1 .. Len(waiters') PROVE turn'[waiters'[i]].pc = "waiting"
        <5>1. /\ i + 1 \in 1 .. Len(waiters) /\ waiters'[i] = waiters[i + 1]
              /\ waiters'[i] # Head(waiters)
          BY <3>1, <3>2
        <5>2. /\ waiters'[i] \in Messages \ {m} /\ turn[waiters'[i]].pc = "waiting"
          BY <5>1, <3>3
        <5>3. turn'[waiters'[i]] = turn[waiters'[i]] BY <5>1, <5>2, <1>9, ReleaseMoves
        <5>4. QED BY <5>2, <5>3
      <4>2. QED BY <4>1
    <3>5. \A i, j \in 1 .. Len(waiters') : waiters'[i] = waiters'[j] => i = j
      <4>1. ASSUME NEW i \in 1 .. Len(waiters'), NEW j \in 1 .. Len(waiters'),
                   waiters'[i] = waiters'[j]
            PROVE  i = j
        <5>1. i + 1 \in 1 .. Len(waiters) /\ waiters'[i] = waiters[i + 1] BY <3>1, <3>2
        <5>2. j + 1 \in 1 .. Len(waiters) /\ waiters'[j] = waiters[j + 1] BY <3>1, <3>2
        <5>3. i + 1 = j + 1 BY <4>1, <5>1, <5>2 DEF WaitersWait
        <5>4. QED BY <5>3
      <4>2. QED BY <4>1
    <3>6. QED BY <3>4, <3>5, <1>k, <1>l, <1>n DEF WaitersWait
  <2>4. QED BY <2>2, <2>3
<1>10. CASE Leave(m)
  BY <1>10, <1>k, <1>l, <1>n, LeaveMoves, WaitersKeep DEF Leave, Moved
<1>11. CASE TimesOut(m)
  BY <1>11, <1>k, <1>l, <1>n, TimesOutMoves, WaitersKeep DEF TimesOut, Others, counts, Moved, Loop
<1>12. QED
  BY <1>0, <1>1, <1>2, <1>3, <1>4, <1>5, <1>6, <1>7, <1>8, <1>9, <1>10, <1>11 DEF Proceeds

\* A message that arrives is behind the head of its lane, or not yet checked.
LEMMA ArriveHeld ==
  ASSUME Base, NEW m \in Messages, Arrive(m)
  PROVE  /\ \A k \in Where : \A n : Held(k, n)' => Held(k, n) /\ lane'[k][1] = lane[k][1]
         /\ \A k \in Where : \A n : Held(k, n) => Held(k, n)' /\ lane'[k][1] = lane[k][1]
<1> USE DEF Base
<1>k. Kinds' BY AroundKinds
<1>1. /\ \A k \in Where : \A i \in 1 .. Len(lane'[k]) :
           \/ i \in 1 .. Len(lane[k]) /\ lane'[k][i] = lane[k][i]
           \/ /\ i \notin 1 .. Len(lane[k]) /\ lane'[k][i].pc = "new"
              /\ lane'[k][i].msg = m /\ k[1] = ChatOf[m]
              /\ k[2] = "answers" => lane'[k][i].early
      /\ \A k \in Where : \A i \in 1 .. Len(lane[k]) :
           i \in 1 .. Len(lane'[k]) /\ lane'[k][i] = lane[k][i]
  BY ArriveMoves
<1>3. \A k \in Where : (lane[k] # <<>> => 1 \in 1 .. Len(lane[k]))
                       /\ (lane'[k] # <<>> => 1 \in 1 .. Len(lane'[k]))
  BY <1>k DEF Kinds
<1>4. \A k \in Where : \A n : Held(k, n)' => Held(k, n) /\ lane'[k][1] = lane[k][1]
  <2>1. ASSUME NEW k \in Where, NEW n, Held(k, n)'
        PROVE  Held(k, n) /\ lane'[k][1] = lane[k][1]
    <3>1. lane'[k] # <<>> /\ lane'[k][1].msg = n /\ lane'[k][1].pc # "new"
      BY <2>1 DEF Held
    <3>2. 1 \in 1 .. Len(lane'[k]) BY <3>1, <1>3
    <3>3. 1 \in 1 .. Len(lane[k]) /\ lane'[k][1] = lane[k][1] BY <1>1, <3>1, <3>2
    <3>4. lane[k] # <<>> BY <3>3
    <3>5. QED BY <3>1, <3>3, <3>4 DEF Held
  <2>2. QED BY <2>1
<1>5. \A k \in Where : \A n : Held(k, n) => Held(k, n)' /\ lane'[k][1] = lane[k][1]
  <2>1. ASSUME NEW k \in Where, NEW n, Held(k, n)
        PROVE  Held(k, n)' /\ lane'[k][1] = lane[k][1]
    <3>1. lane[k] # <<>> /\ lane[k][1].msg = n /\ lane[k][1].pc # "new"
      BY <2>1 DEF Held
    <3>2. 1 \in 1 .. Len(lane[k]) BY <3>1, <1>3
    <3>3. 1 \in 1 .. Len(lane'[k]) /\ lane'[k][1] = lane[k][1] BY <1>1, <3>2
    <3>4. lane'[k] # <<>> BY <3>3
    <3>5. QED BY <3>1, <3>3, <3>4 DEF Held
  <2>2. QED BY <2>1
<1>6. QED BY <1>4, <1>5

LEMMA ArriveBase ==
  ASSUME Base, NEW m \in Messages, Arrive(m) PROVE Base'
<1> USE DEF Base
<1>k. Kinds' BY AroundKinds
<1>u. UNCHANGED <<processed, turn, waiters>> BY DEF Arrive, counts
<1>1. /\ \A k \in Where : \A i \in 1 .. Len(lane'[k]) :
           \/ i \in 1 .. Len(lane[k]) /\ lane'[k][i] = lane[k][i]
           \/ /\ i \notin 1 .. Len(lane[k]) /\ lane'[k][i].pc = "new"
              /\ lane'[k][i].msg = m /\ k[1] = ChatOf[m]
              /\ k[2] = "answers" => lane'[k][i].early
      /\ \A k \in Where : \A i \in 1 .. Len(lane[k]) :
           i \in 1 .. Len(lane'[k]) /\ lane'[k][i] = lane[k][i]
  BY ArriveMoves
<1>2. ASSUME NEW k \in Where, NEW i \in 1 .. Len(lane'[k])
      PROVE  /\ ChatOf[lane'[k][i].msg] = k[1] /\ (k[2] = "answers" => lane'[k][i].early)
             /\ lane'[k][i].pc # "new" => i = 1 /\ lane'[k][i].msg \in processed'
  <2>1. CASE i \in 1 .. Len(lane[k]) /\ lane'[k][i] = lane[k][i]
    BY <2>1, <1>u DEF Lined
  <2>2. CASE /\ i \notin 1 .. Len(lane[k]) /\ lane'[k][i].pc = "new"
             /\ lane'[k][i].msg = m /\ k[1] = ChatOf[m]
             /\ k[2] = "answers" => lane'[k][i].early
    BY <2>2
  <2>3. QED BY <1>1, <2>1, <2>2
<1>4. \A k \in Where : \A n : Held(k, n)' => Held(k, n) /\ lane'[k][1] = lane[k][1]
  BY ArriveHeld
<1>5. \A k \in Where : \A n : Held(k, n) => Held(k, n)' /\ lane'[k][1] = lane[k][1]
  BY ArriveHeld
<1>6. Lined' BY <1>2 DEF Lined
<1>7. Once' BY <1>4 DEF Once
<1>8. ASSUME NEW n \in Messages
      PROVE /\ turn'[n].pc # "none" => n \in processed'
            /\ \A k \in Where : Held(k, n)' =>
                 \/ lane'[k][1].pc = "checked" /\ turn'[n].pc = "none"
                 \/ lane'[k][1].pc = "noting" /\ turn'[n].pc = "noting" /\ k[2] = "messages"
            /\ turn'[n].pc = "noting" =>
                 /\ Held(<<ChatOf[n], "messages">>, n)'
                 /\ lane'[<<ChatOf[n], "messages">>][1].pc = "noting"
  <2>1. turn'[n].pc # "none" => n \in processed' BY <1>u DEF Known
  <2>2. ASSUME NEW k \in Where, Held(k, n)'
        PROVE  \/ lane'[k][1].pc = "checked" /\ turn'[n].pc = "none"
               \/ lane'[k][1].pc = "noting" /\ turn'[n].pc = "noting" /\ k[2] = "messages"
    <3>1. Held(k, n) /\ lane'[k][1] = lane[k][1] BY <1>4, <2>2
    <3>2. QED BY <3>1, <1>u DEF Known
  <2>3. ASSUME turn'[n].pc = "noting"
        PROVE  /\ Held(<<ChatOf[n], "messages">>, n)'
               /\ lane'[<<ChatOf[n], "messages">>][1].pc = "noting"
    <3> DEFINE k == <<ChatOf[n], "messages">>
    <3>1. k \in Where BY RobotAssumption DEF Where, Lanes
    <3>2. Held(k, n) /\ lane[k][1].pc = "noting" BY <1>u, <2>3 DEF Known
    <3> HIDE DEF k
    <3>3. Held(k, n)' /\ lane'[k][1].pc = "noting" BY <1>5, <3>1, <3>2
    <3>4. QED BY <3>3 DEF k
  <2>4. QED BY <2>1, <2>2, <2>3
<1>9. Known' BY <1>8 DEF Known
<1>10. WaitersWait' BY <1>u DEF WaitersWait
<1>11. QED BY <1>k, <1>6, <1>7, <1>9, <1>10

LEMMA NextBase == ASSUME Base, [Next]_vars PROVE Base'
<1> USE DEF Base
<1>1. CASE \E l \in Where : Receives(l) BY <1>1, ReceivesBase
<1>2. CASE \E m \in Messages : Proceeds(m) \/ TimesOut(m) BY <1>2, ProceedsBase
<1>3. CASE \E m \in Messages : Arrive(m) BY <1>3, ArriveBase
<1>4. ASSUME UNCHANGED <<lane, processed, turn, waiters>>
      PROVE  Lined' /\ Once' /\ Known' /\ WaitersWait'
  BY <1>4 DEF Lined, Once, Known, WaitersWait, Held
<1>5. CASE \E c \in Chats : Expire(c) \/ Decide(c)
  <2>1. UNCHANGED <<lane, processed, turn, waiters>>
    BY <1>5 DEF Expire, Decide, Others, counts
  <2>2. QED BY <2>1, <1>4, <1>5, AroundKinds
<1>6. CASE Persist
  <2>1. UNCHANGED <<lane, processed, turn, waiters>> BY <1>6 DEF Persist, counts
  <2>2. QED BY <2>1, <1>4, <1>6, AroundKinds
<1>7. CASE Restart
  <2>1. Kinds' BY <1>7, AroundKinds
  <2>2. waiters' = <<>> /\ (\A l \in Where : lane'[l] = <<>>)
        /\ \A m \in Messages : turn'[m].pc = "none"
    BY <1>7 DEF Restart, Where, NoTurn
  <2>3. WaitersWait' /\ Lined' /\ Once' BY <2>2 DEF WaitersWait, Lined, Once, Held
  <2>4. Known' BY <2>2 DEF Known, Held
  <2>5. QED BY <2>1, <2>3, <2>4
<1>8. CASE UNCHANGED vars
  <2>1. Kinds' BY <1>8 DEF vars, Kinds, counts, given
  <2>2. UNCHANGED <<lane, processed, turn, waiters>> BY <1>8 DEF vars, counts
  <2>3. QED BY <2>1, <2>2, <1>4
<1>9. QED BY <1>1, <1>2, <1>3, <1>5, <1>6, <1>7, <1>8 DEF Next, Where


----------------------------------------------------------------------------
\* A message acts once.

\* The effect of a message follows the mark that keeps its copies away, and the
\* message is gone from the lanes, or being noted, when it is done.
ActedOnce ==
  \A m \in Messages : m \notin forgotten =>
    /\ acts[m] <= 1
    /\ acts[m] = 1 => m \in processed
    /\ acts[m] = 1 => \A l \in Where : Held(l, m) => lane[l][1].pc = "noting"

\* Nothing is done, and the lanes hold no more than they did.
LEMMA ActedKept ==
  ASSUME Base, ActedOnce, UNCHANGED <<acts, forgotten>>, processed \subseteq processed',
         \A k \in Where, m \in Messages : Held(k, m)' =>
           (Held(k, m) /\ lane'[k][1] = lane[k][1]) \/ acts[m] = 0
  PROVE  ActedOnce'
<1>1. \A m \in Messages : acts[m] \in Nat BY DEF Base, Kinds
<1>2. ASSUME NEW m \in Messages, m \notin forgotten'
      PROVE  /\ acts'[m] <= 1 /\ (acts'[m] = 1 => m \in processed')
             /\ acts'[m] = 1 => \A l \in Where : Held(l, m)' => lane'[l][1].pc = "noting"
  <2>1. m \notin forgotten /\ acts'[m] = acts[m] BY <1>2
  <2>2. acts[m] <= 1 /\ (acts[m] = 1 => m \in processed) BY <2>1 DEF ActedOnce
  <2>3. ASSUME acts'[m] = 1, NEW l \in Where, Held(l, m)' PROVE lane'[l][1].pc = "noting"
    <3>1. acts[m] = 1 /\ acts[m] # 0 BY <2>1, <2>3
    <3>2. Held(l, m) /\ lane'[l][1] = lane[l][1] BY <2>3, <3>1
    <3>3. QED BY <2>1, <3>1, <3>2 DEF ActedOnce
  <2>4. QED BY <2>1, <2>2, <2>3
<1>3. QED BY <1>2 DEF ActedOnce

\* The head of a lane acts: it has not acted before, and no lane holds a copy.
LEMMA ActedNow ==
  ASSUME Base, ActedOnce, NEW l \in Where, lane[l] # <<>>, lane[l][1].pc = "checked",
         Acts(Msg(l)), UNCHANGED <<forgotten, processed>>,
         \A k \in Where \ {l} : lane'[k] = lane[k],
         \A m \in Messages : Held(l, m)' => lane'[l][1].pc = "noting" /\ m = Msg(l)
  PROVE  ActedOnce'
<1> USE DEF Base
<1>1. /\ Msg(l) = lane[l][1].msg /\ Msg(l) \in Messages /\ 1 \in 1 .. Len(lane[l])
  BY HeadOf
<1>2. Held(l, Msg(l)) /\ Msg(l) \in processed BY <1>1 DEF Held, Lined
<1>3. acts \in [Messages -> Nat] BY DEF Kinds
<1>4. /\ acts'[Msg(l)] = acts[Msg(l)] + 1
      /\ \A m \in Messages \ {Msg(l)} : acts'[m] = acts[m]
  BY <1>1, <1>3 DEF Acts
<1>5. \A k \in Where : \A m : k # l => (Held(k, m)' <=> Held(k, m)) BY DEF Held
<1>6. ASSUME NEW m \in Messages, m \notin forgotten'
      PROVE  /\ acts'[m] <= 1 /\ (acts'[m] = 1 => m \in processed')
             /\ acts'[m] = 1 => \A k \in Where : Held(k, m)' => lane'[k][1].pc = "noting"
  <2>1. CASE m = Msg(l)
    <3>1. acts[m] <= 1 /\ acts[m] # 1 BY <1>2, <1>6, <2>1 DEF ActedOnce
    <3>2. acts[m] = 0 BY <3>1, <1>3
    <3>3. acts'[m] <= 1 BY <3>2, <1>4, <2>1
    <3>4. \A k \in Where : Held(k, m)' => k = l
      BY <1>2, <1>5, <2>1 DEF Once
    <3>5. \A k \in Where : Held(k, m)' => lane'[k][1].pc = "noting" BY <3>4
    <3>6. QED BY <3>3, <3>5, <1>2, <2>1
  <2>2. CASE m # Msg(l)
    <3>1. acts'[m] = acts[m] /\ m \notin forgotten BY <1>4, <1>6, <2>2
    <3>2. ASSUME acts'[m] = 1, NEW k \in Where, Held(k, m)' PROVE lane'[k][1].pc = "noting"
      <4>1. k # l BY <3>2, <2>2
      <4>2. Held(k, m) /\ lane'[k] = lane[k] BY <4>1, <3>2, <1>5
      <4>3. QED BY <4>2, <3>1, <3>2 DEF ActedOnce
    <3>3. acts[m] <= 1 /\ (acts[m] = 1 => m \in processed) BY <3>1 DEF ActedOnce
    <3>4. QED BY <3>1, <3>2, <3>3
  <2>3. QED BY <2>1, <2>2
<1>7. QED BY <1>6 DEF ActedOnce

LEMMA ReceivesActed ==
  ASSUME Base, ActedOnce, NEW l \in Where, Receives(l) PROVE ActedOnce'
<1> USE DEF Base
<1>h. lane[l] # <<>>
  BY DEF Receives, LookUp, Answer, Refuse, Count, Chain, NotingFails, HeadIs
<1>m. /\ Msg(l) = lane[l][1].msg /\ Head(lane[l]) = lane[l][1] /\ Msg(l) \in Messages
      /\ 1 \in 1 .. Len(lane[l])
  BY <1>h, HeadOf
<1>o. \A k \in Where : \A m : lane'[k] = lane[k] => (Held(k, m)' <=> Held(k, m)) BY DEF Held
<1>d. ASSUME Drop(l), processed' = processed
      PROVE  \A k \in Where, m \in Messages : Held(k, m)' => Held(k, m) /\ lane'[k][1] = lane[k][1]
  <2>1. (\A m : ~Held(l, m)') /\ \A k \in Where \ {l} : lane'[k] = lane[k]
    BY <1>d, <1>h, DropHeld
  <2>2. QED BY <2>1, <1>o
<1>1. CASE Drop(l) /\ UNCHANGED <<processed, acts, forgotten>>
  <2>1. \A k \in Where, m \in Messages : Held(k, m)' => Held(k, m) /\ lane'[k][1] = lane[k][1]
    BY <1>1, <1>d
  <2>2. QED BY <1>1, <2>1, ActedKept
<1>2. CASE LookUp(l)
  <2>1. UNCHANGED <<acts, forgotten>> BY <1>2 DEF LookUp
  <2>2. CASE Msg(l) \in processed
    <3>1. Drop(l) /\ processed' = processed BY <1>2, <2>2 DEF LookUp
    <3>2. QED BY <2>1, <3>1, <1>1
  <2>3. CASE Msg(l) \notin processed
    <3>1. Stays(l, "checked") /\ processed' = processed \cup {Msg(l)}
      BY <1>2, <2>3 DEF LookUp, Marked
    <3>2. /\ \A m : Held(l, m)' <=> m = Msg(l)
          /\ \A k \in Where \ {l} : lane'[k] = lane[k]
      BY <1>h, <3>1, StaysHeld
    <3>3. ASSUME NEW m \in Messages \ forgotten, Held(l, m)' PROVE acts[m] = 0
      <4>1. m = Msg(l) BY <3>2, <3>3
      <4>2. acts[m] <= 1 /\ acts[m] # 1 BY <4>1, <2>3 DEF ActedOnce
      <4>3. acts[m] \in Nat BY DEF Kinds
      <4>4. QED BY <4>2, <4>3
    <3>4. ASSUME NEW m \in Messages, m \notin forgotten'
          PROVE  /\ acts'[m] <= 1 /\ (acts'[m] = 1 => m \in processed')
                 /\ acts'[m] = 1 => \A k \in Where : Held(k, m)' => lane'[k][1].pc = "noting"
      <4>1. m \in Messages \ forgotten /\ acts'[m] = acts[m] BY <2>1, <3>4
      <4>2. acts[m] <= 1 /\ (acts[m] = 1 => m \in processed) BY <4>1 DEF ActedOnce
      <4>3. ASSUME acts'[m] = 1, NEW k \in Where, Held(k, m)' PROVE lane'[k][1].pc = "noting"
        <5>1. acts[m] # 0 BY <4>1, <4>3
        <5>2. k # l BY <5>1, <4>1, <4>3, <3>3
        <5>3. Held(k, m) /\ lane'[k] = lane[k] BY <5>2, <4>3, <3>2, <1>o
        <5>4. QED BY <5>3, <4>1, <4>3 DEF ActedOnce
      <4>4. QED BY <4>1, <4>2, <4>3, <3>1
    <3>5. QED BY <3>4 DEF ActedOnce
  <2>4. QED BY <2>2, <2>3
<1>3. CASE Answer(l)
  <2>1. /\ Drop(l) /\ Acts(Msg(l)) /\ UNCHANGED <<processed, forgotten>>
        /\ lane[l][1].pc = "checked"
    BY <1>3, <1>m DEF Answer, HeadIs
  <2>2. (\A m : ~Held(l, m)') /\ \A k \in Where \ {l} : lane'[k] = lane[k]
    BY <2>1, <1>h, DropHeld
  <2>3. QED BY <2>1, <2>2, <1>h, ActedNow
<1>4. CASE Refuse(l)
  BY <1>4, <1>1 DEF Refuse
<1>5. CASE Count(l)
  <2>1. /\ Stays(l, "noting") /\ Acts(Msg(l)) /\ UNCHANGED <<processed, forgotten>>
        /\ lane[l][1].pc = "checked"
    BY <1>5, <1>m DEF Count, HeadIs
  <2>2. Msg(l) \in processed BY <2>1, <1>m DEF Lined
  <2>3. /\ lane'[l][1].pc = "noting" /\ \A m : Held(l, m)' <=> m = Msg(l)
        /\ \A k \in Where \ {l} : lane'[k] = lane[k]
    BY <2>1, <2>2, <1>h, StaysHeld
  <2>4. QED BY <2>1, <2>3, <1>h, ActedNow
<1>6. CASE Chain(l) \/ NotingFails(l)
  BY <1>6, <1>1 DEF Chain, NotingFails
<1>7. QED BY <1>2, <1>3, <1>4, <1>5, <1>6 DEF Receives

LEMMA NextActed == ASSUME Base, ActedOnce, [Next]_vars PROVE ActedOnce'
<1>1. CASE \E l \in Where : Receives(l) BY <1>1, ReceivesActed
<1>2. ASSUME UNCHANGED <<lane, acts, forgotten, processed>> PROVE ActedOnce'
  BY <1>2 DEF ActedOnce, Held
<1>3. CASE \E m \in Messages : Proceeds(m) \/ TimesOut(m) BY <1>2, <1>3, ProceedsLanes
<1>4. CASE \E m \in Messages : Arrive(m)
  <2>1. PICK m \in Messages : Arrive(m) BY <1>4
  <2>2. UNCHANGED <<acts, forgotten, processed>> BY <2>1 DEF Arrive
  <2>3. \A k \in Where : \A n : Held(k, n)' => Held(k, n) /\ lane'[k][1] = lane[k][1]
    BY <2>1, ArriveHeld
  <2>4. QED BY <2>2, <2>3, ActedKept
<1>5. CASE \E c \in Chats : Expire(c) \/ Decide(c) BY <1>2, <1>5 DEF Expire, Decide, Others
<1>6. CASE Persist BY <1>2, <1>6 DEF Persist
<1>7. CASE Restart
  <2>1. /\ processed' = saved /\ acts' = acts /\ \A l \in Where : lane'[l] = <<>>
        /\ forgotten' = forgotten \cup (processed \ saved)
    BY <1>7 DEF Restart, Where
  <2>2. ASSUME NEW m \in Messages, m \notin forgotten'
        PROVE  /\ acts'[m] <= 1 /\ (acts'[m] = 1 => m \in processed')
               /\ acts'[m] = 1 => \A k \in Where : Held(k, m)' => lane'[k][1].pc = "noting"
    <3>1. m \notin forgotten /\ m \notin processed \ saved BY <2>1, <2>2
    <3>2. acts[m] <= 1 /\ (acts[m] = 1 => m \in processed) BY <3>1 DEF ActedOnce
    <3>3. \A k \in Where : ~Held(k, m)' BY <2>1 DEF Held
    <3>4. QED BY <2>1, <3>1, <3>2, <3>3
  <2>3. QED BY <2>2 DEF ActedOnce
<1>8. CASE UNCHANGED vars BY <1>2, <1>8 DEF vars
<1>9. QED BY <1>1, <1>3, <1>4, <1>5, <1>6, <1>7, <1>8 DEF Next, Where


----------------------------------------------------------------------------
\* The counters are true.

Life == Busy \cup {"noting", "queued"}
Slots == Loop \cup {"ending"}
Queued == {m \in Messages : turn[m].pc \in Life}

\* total counts no less than the turns there are: one that could not be noted
\* stays counted.
Counted == CountersAreTrue /\ total >= Cardinality(Queued)

\* Two sets of messages that differ in m at most.
LEMMA OneApart ==
  ASSUME NEW A \in SUBSET Messages, NEW B \in SUBSET Messages, NEW m \in Messages,
         \A n \in Messages \ {m} : n \in A <=> n \in B
  PROVE  /\ Cardinality(A) \in Nat /\ Cardinality(B) \in Nat
         /\ (m \in A <=> m \in B) => Cardinality(B) = Cardinality(A)
         /\ (m \notin A /\ m \in B) => Cardinality(B) = Cardinality(A) + 1
         /\ (m \in A /\ m \notin B) => Cardinality(B) = Cardinality(A) - 1
<1>1. IsFiniteSet(Messages) BY RobotAssumption
<1>2. IsFiniteSet(A) /\ IsFiniteSet(B) BY <1>1, FS_Subset
<1>3. Cardinality(A) \in Nat /\ Cardinality(B) \in Nat BY <1>2, FS_CardinalityType
<1>4. ASSUME m \in A <=> m \in B PROVE Cardinality(B) = Cardinality(A)
  <2>1. A = B BY <1>4
  <2>2. QED BY <2>1
<1>5. ASSUME m \notin A, m \in B PROVE Cardinality(B) = Cardinality(A) + 1
  <2>1. B = A \cup {m} BY <1>5
  <2>2. QED BY <1>2, <1>5, <2>1, FS_AddElement
<1>6. ASSUME m \in A, m \notin B PROVE Cardinality(B) = Cardinality(A) - 1
  <2>1. B = A \ {m} BY <1>6
  <2>2. QED BY <1>2, <1>6, <2>1, FS_RemoveElement
<1>7. QED BY <1>3, <1>4, <1>5, <1>6

\* What the counted sets gain when a turn that was at a comes to b.
Gain(a, b, S) == (IF b \in S THEN 1 ELSE 0) - (IF a \in S THEN 1 ELSE 0)

LEMMA TurnCounts ==
  ASSUME Kinds, NEW m \in Messages,
         \A n \in Messages \ {m} : turn'[n].pc = turn[n].pc
  PROVE  /\ Cardinality(InSlot') = Cardinality(InSlot) + Gain(turn[m].pc, turn'[m].pc, Slots)
         /\ Cardinality(AboutTo') = Cardinality(AboutTo) + Gain(turn[m].pc, turn'[m].pc, {"woken"})
         /\ Cardinality(Queued') = Cardinality(Queued) + Gain(turn[m].pc, turn'[m].pc, Life)
         /\ \A c \in Chats : Cardinality(InQueue(c)') = Cardinality(InQueue(c))
              + (IF ChatOf[m] = c THEN Gain(turn[m].pc, turn'[m].pc, Life) ELSE 0)
         /\ Cardinality(InSlot) \in Nat /\ Cardinality(AboutTo) \in Nat
         /\ Cardinality(Queued) \in Nat /\ \A c \in Chats : Cardinality(InQueue(c)) \in Nat
<1>1. /\ InSlot \in SUBSET Messages /\ InSlot' \in SUBSET Messages
      /\ \A n \in Messages : n \in InSlot <=> turn[n].pc \in Slots
      /\ \A n \in Messages : n \in InSlot' <=> turn'[n].pc \in Slots
  BY DEF InSlot, Slots
<1>2. /\ AboutTo \in SUBSET Messages /\ AboutTo' \in SUBSET Messages
      /\ \A n \in Messages : n \in AboutTo <=> turn[n].pc \in {"woken"}
      /\ \A n \in Messages : n \in AboutTo' <=> turn'[n].pc \in {"woken"}
  BY DEF AboutTo, At
<1>3. /\ Queued \in SUBSET Messages /\ Queued' \in SUBSET Messages
      /\ \A n \in Messages : n \in Queued <=> turn[n].pc \in Life
      /\ \A n \in Messages : n \in Queued' <=> turn'[n].pc \in Life
  BY DEF Queued
<1>4. ASSUME NEW c \in Chats
      PROVE  /\ InQueue(c) \in SUBSET Messages /\ InQueue(c)' \in SUBSET Messages
             /\ \A n \in Messages : n \in InQueue(c) <=> ChatOf[n] = c /\ turn[n].pc \in Life
             /\ \A n \in Messages : n \in InQueue(c)' <=> ChatOf[n] = c /\ turn'[n].pc \in Life
  BY DEF InQueue, Life
<1>5. Cardinality(InSlot') = Cardinality(InSlot) + Gain(turn[m].pc, turn'[m].pc, Slots)
      /\ Cardinality(InSlot) \in Nat
  <2>1. \A n \in Messages \ {m} : n \in InSlot <=> n \in InSlot' BY <1>1
  <2>2. QED BY <1>1, <2>1, OneApart DEF Gain
<1>6. Cardinality(AboutTo') = Cardinality(AboutTo) + Gain(turn[m].pc, turn'[m].pc, {"woken"})
      /\ Cardinality(AboutTo) \in Nat
  <2>1. \A n \in Messages \ {m} : n \in AboutTo <=> n \in AboutTo' BY <1>2
  <2>2. QED BY <1>2, <2>1, OneApart DEF Gain
<1>7. Cardinality(Queued') = Cardinality(Queued) + Gain(turn[m].pc, turn'[m].pc, Life)
      /\ Cardinality(Queued) \in Nat
  <2>1. \A n \in Messages \ {m} : n \in Queued <=> n \in Queued' BY <1>3
  <2>2. QED BY <1>3, <2>1, OneApart DEF Gain
<1>8. ASSUME NEW c \in Chats
      PROVE  /\ Cardinality(InQueue(c)') = Cardinality(InQueue(c))
                  + (IF ChatOf[m] = c THEN Gain(turn[m].pc, turn'[m].pc, Life) ELSE 0)
             /\ Cardinality(InQueue(c)) \in Nat
  <2>1. \A n \in Messages \ {m} : n \in InQueue(c) <=> n \in InQueue(c)' BY <1>4
  <2>2. QED BY <1>4, <2>1, OneApart DEF Gain
<1>9. QED BY <1>5, <1>6, <1>7, <1>8

\* Only the places of the turns count.
LEMMA CountedSame ==
  ASSUME Counted, UNCHANGED <<counts, leaked>>,
         \A n \in Messages : turn'[n].pc = turn[n].pc
  PROVE  Counted'
<1>1. InSlot' = InSlot /\ AboutTo' = AboutTo /\ Queued' = Queued BY DEF InSlot, AboutTo, Queued, At
<1>2. \A c : InQueue(c)' = InQueue(c) BY DEF InQueue
<1>3. QED BY <1>1, <1>2 DEF Counted, CountersAreTrue, counts

\* A turn moves, and only the counters that must move with it do.
LEMMA CountedMoves ==
  ASSUME Kinds, Counted, NEW m \in Messages,
         \A n \in Messages \ {m} : turn'[n].pc = turn[n].pc,
         \A c \in Chats : depth'[c] - leaked'[c] = depth[c] - leaked[c]
           + (IF ChatOf[m] = c THEN Gain(turn[m].pc, turn'[m].pc, Life) ELSE 0),
         \A c \in Chats : depth'[c] \in Int /\ leaked'[c] \in Int,
         total' \in Int, total' >= total + Gain(turn[m].pc, turn'[m].pc, Life),
         active' = active + Gain(turn[m].pc, turn'[m].pc, Slots),
         waiters' # <<>> =>
           \/ waiters # <<>> /\ Gain(turn[m].pc, turn'[m].pc, Slots)
                                + Gain(turn[m].pc, turn'[m].pc, {"woken"}) >= 0
           \/ active' >= MaxTurns
  PROVE  Counted'
<1> DEFINE g == Gain(turn[m].pc, turn'[m].pc, Life)
           s == Gain(turn[m].pc, turn'[m].pc, Slots)
           w == Gain(turn[m].pc, turn'[m].pc, {"woken"})
<1>1. /\ Cardinality(InSlot') = Cardinality(InSlot) + s
      /\ Cardinality(AboutTo') = Cardinality(AboutTo) + w
      /\ Cardinality(Queued') = Cardinality(Queued) + g
      /\ \A c \in Chats : Cardinality(InQueue(c)') = Cardinality(InQueue(c))
              + (IF ChatOf[m] = c THEN g ELSE 0)
      /\ Cardinality(InSlot) \in Nat /\ Cardinality(AboutTo) \in Nat
      /\ Cardinality(Queued) \in Nat /\ \A c \in Chats : Cardinality(InQueue(c)) \in Nat
  BY TurnCounts
<1>2. g \in Int /\ s \in Int /\ w \in Int BY DEF Gain
<1>3. AboutTo' \in SUBSET Messages BY DEF AboutTo
<1>4. Cardinality(AboutTo') \in Nat
  <2>1. IsFiniteSet(Messages) BY RobotAssumption
  <2>2. IsFiniteSet(AboutTo') BY <1>3, <2>1, FS_Subset
  <2>3. QED BY <2>2, FS_CardinalityType
<1>5. /\ \A c \in Chats : depth'[c] - leaked'[c] = depth[c] - leaked[c]
           + (IF ChatOf[m] = c THEN g ELSE 0)
      /\ total' >= total + g /\ active' = active + s
      /\ waiters' # <<>> => \/ waiters # <<>> /\ s + w >= 0
                            \/ active' >= MaxTurns
  OBVIOUS
<1> HIDE DEF g, s, w
<1>6. MaxTurns \in Nat BY RobotAssumption
<1>7. ASSUME NEW c \in Chats PROVE depth'[c] = Cardinality(InQueue(c)') + leaked'[c]
  <2>1. depth[c] = Cardinality(InQueue(c)) + leaked[c] BY DEF Counted, CountersAreTrue
  <2>2. depth[c] \in Int /\ leaked[c] \in Int /\ depth'[c] \in Int /\ leaked'[c] \in Int BY DEF Kinds
  <2>3. depth'[c] - leaked'[c] = Cardinality(InQueue(c))  + (IF ChatOf[m] = c THEN g ELSE 0)
    BY <1>1, <1>2, <1>5, <2>1, <2>2, SMTT(20)
  <2>4. Cardinality(InQueue(c)') \in Int BY <1>1, <1>2
  <2>5. QED BY <1>1, <2>2, <2>3, <2>4
<1>8. active' = Cardinality(InSlot')
  BY <1>1, <1>2, <1>5 DEF Counted, CountersAreTrue
<1>9. ASSUME waiters' # <<>> PROVE active' + Cardinality(AboutTo') >= MaxTurns
  <2>1. active \in Int /\ active' \in Int BY <1>1, <1>2, <1>5 DEF Counted, CountersAreTrue
  <2>2. CASE active' >= MaxTurns BY <2>1, <2>2, <1>4, <1>6
  <2>3. CASE waiters # <<>> /\ s + w >= 0
    <3>1. active + Cardinality(AboutTo) >= MaxTurns BY <2>3 DEF Counted, CountersAreTrue
    <3>2. QED BY <3>1, <2>1, <2>3, <1>1, <1>2, <1>5, <1>6
  <2>4. QED BY <2>2, <2>3, <1>5, <1>9
<1>10. total' >= Cardinality(Queued')
  <2>1. total \in Int /\ total >= Cardinality(Queued) BY DEF Counted, Kinds
  <2>2. QED BY <2>1, <1>1, <1>2, <1>5
<1>11. QED BY <1>7, <1>8, <1>9, <1>10 DEF Counted, CountersAreTrue


LEMMA Gains ==
  /\ \A a, b \in Life : Gain(a, b, Life) = 0
  /\ \A a, b \in Slots : Gain(a, b, Slots) = 0
  /\ \A a, b \in Pcs \ Slots : Gain(a, b, Slots) = 0
  /\ \A a, b \in Pcs \ {"woken"} : Gain(a, b, {"woken"}) = 0
  /\ \A a \in Pcs \ Life, b \in Life : Gain(a, b, Life) = 1
  /\ \A a \in Life, b \in Pcs \ Life : Gain(a, b, Life) = -1
  /\ \A a \in Pcs \ Slots, b \in Slots : Gain(a, b, Slots) = 1
  /\ \A a \in Slots, b \in Pcs \ Slots : Gain(a, b, Slots) = -1
  /\ \A b \in Pcs \ {"woken"} : Gain("woken", b, {"woken"}) = -1
BY DEF Gain

LEMMA Pcses ==
  /\ Slots = {"running", "storing", "asking", "allowed", "ending"}
  /\ Life = {"waiting", "woken", "ending", "closing", "running", "storing", "asking",
             "allowed", "noting", "queued"}
  /\ Slots \subseteq Life /\ Life \subseteq Pcs /\ "woken" \notin Slots
BY DEF Slots, Life, Busy, Loop, Pcs

\* The turn moves within its slot, or outside of all slots.
LEMMA CountedStays ==
  ASSUME Kinds, Counted, NEW m \in Messages, UNCHANGED <<counts, leaked>>,
         \A n \in Messages \ {m} : turn'[n].pc = turn[n].pc,
         \/ turn[m].pc \in Slots /\ turn'[m].pc \in Slots
         \/ /\ turn[m].pc \in Life \ (Slots \cup {"woken"})
            /\ turn'[m].pc \in Life \ (Slots \cup {"woken"})
  PROVE  Counted'
<1>1. /\ Gain(turn[m].pc, turn'[m].pc, Life) = 0 /\ Gain(turn[m].pc, turn'[m].pc, Slots) = 0
      /\ Gain(turn[m].pc, turn'[m].pc, {"woken"}) = 0
  BY Gains, Pcses
<1>2. total \in Int /\ active \in Int /\ \A c \in Chats : depth[c] \in Int /\ leaked[c] \in Int
  BY DEF Kinds
<1>3. depth' = depth /\ leaked' = leaked /\ total' = total /\ active' = active /\ waiters' = waiters
  BY DEF counts
<1>4. \A c \in Chats : depth'[c] - leaked'[c] = depth[c] - leaked[c]
           + (IF ChatOf[m] = c THEN Gain(turn[m].pc, turn'[m].pc, Life) ELSE 0)
  BY <1>1, <1>2, <1>3
<1>5. total' >= total + Gain(turn[m].pc, turn'[m].pc, Life)
      /\ active' = active + Gain(turn[m].pc, turn'[m].pc, Slots)
      /\ Gain(turn[m].pc, turn'[m].pc, Slots) + Gain(turn[m].pc, turn'[m].pc, {"woken"}) >= 0
  BY <1>1, <1>2, <1>3
<1>6. QED BY <1>2, <1>3, <1>4, <1>5, CountedMoves

LEMMA ReceivesCounted ==
  ASSUME Base, Counted, NEW l \in Where, Receives(l) PROVE Counted'
<1> USE DEF Base
<1>k. Kinds' BY ReceivesKinds
<1>i. /\ total \in Int /\ active \in Int /\ total' \in Int /\ active' \in Int
      /\ \A c \in Chats : depth[c] \in Int /\ leaked[c] \in Int
                          /\ depth'[c] \in Int /\ leaked'[c] \in Int
  BY <1>k DEF Kinds
<1>1. CASE LookUp(l) \/ Answer(l) \/ Refuse(l)
  <2>1. UNCHANGED <<counts, leaked, turn>> BY <1>1 DEF LookUp, Answer, Refuse
  <2>2. QED BY <2>1, CountedSame
<1>2. CASE Count(l)
  <2> DEFINE m == Msg(l)
  <2>1. /\ m \in Messages /\ ChatOf[m] = l[1] /\ turn[m].pc = "none" /\ turn'[m].pc = "noting"
        /\ \A n \in Messages \ {m} : turn'[n] = turn[n]
    BY <1>2, CountMoves DEF Moved
  <2> HIDE DEF m
  <2>2. /\ Gain(turn[m].pc, turn'[m].pc, Life) = 1 /\ Gain(turn[m].pc, turn'[m].pc, Slots) = 0
        /\ Gain(turn[m].pc, turn'[m].pc, {"woken"}) = 0
    BY <2>1, Gains, Pcses DEF Pcs
  <2>3. /\ depth' = [depth EXCEPT ![l[1]] = depth[l[1]] + 1] /\ leaked' = leaked
        /\ total' = total + 1 /\ active' = active /\ waiters' = waiters
    BY <1>2 DEF Count
  <2>4. \A c \in Chats : depth'[c] = IF c = l[1] THEN depth[c] + 1 ELSE depth[c]
    BY <2>3 DEF Kinds
  <2>5. \A c \in Chats : depth'[c] - leaked'[c] = depth[c] - leaked[c]
           + (IF ChatOf[m] = c THEN Gain(turn[m].pc, turn'[m].pc, Life) ELSE 0)
    BY <2>1, <2>2, <2>3, <2>4, <1>i
  <2>6. total' >= total + Gain(turn[m].pc, turn'[m].pc, Life)
        /\ active' = active + Gain(turn[m].pc, turn'[m].pc, Slots)
        /\ Gain(turn[m].pc, turn'[m].pc, Slots) + Gain(turn[m].pc, turn'[m].pc, {"woken"}) >= 0
    BY <2>2, <2>3, <1>i
  <2>7. QED BY <2>1, <2>3, <2>5, <2>6, <1>i, CountedMoves
<1>3. CASE Chain(l)
  <2>1. /\ Msg(l) \in Messages /\ turn[Msg(l)].pc = "noting" /\ turn'[Msg(l)].pc = "queued"
        /\ \A n \in Messages \ {Msg(l)} : turn'[n] = turn[n] /\ UNCHANGED <<counts, leaked>>
    BY <1>3, ChainMoves, HeadNotes DEF Moved, Chain
  <2>2. UNCHANGED <<counts, leaked>> BY <1>3 DEF Chain
  <2>3. {turn[Msg(l)].pc, turn'[Msg(l)].pc} \subseteq Life \ (Slots \cup {"woken"}) BY <2>1, Pcses
  <2>4. QED BY <2>1, <2>2, <2>3, CountedStays
<1>4. CASE NotingFails(l)
  <2> DEFINE m == Msg(l)
  <2>1. /\ m \in Messages /\ ChatOf[m] = l[1] /\ turn[m].pc = "noting" /\ turn'[m].pc = "done"
        /\ \A n \in Messages \ {m} : turn'[n] = turn[n]
    BY <1>4, NotingFailsMoves, HeadNotes DEF Moved, NotingFails
  <2> HIDE DEF m
  <2>2. /\ Gain(turn[m].pc, turn'[m].pc, Life) = -1 /\ Gain(turn[m].pc, turn'[m].pc, Slots) = 0
        /\ Gain(turn[m].pc, turn'[m].pc, {"woken"}) = 0
    BY <2>1, Gains, Pcses DEF Pcs
  <2>3. /\ leaked' = [leaked EXCEPT ![l[1]] = leaked[l[1]] + 1] /\ depth' = depth
        /\ total' = total /\ active' = active /\ waiters' = waiters
    BY <1>4 DEF NotingFails, counts
  <2>4. \A c \in Chats : leaked'[c] = IF c = l[1] THEN leaked[c] + 1 ELSE leaked[c]
    BY <2>3 DEF Kinds
  <2>5. \A c \in Chats : depth'[c] - leaked'[c] = depth[c] - leaked[c]
           + (IF ChatOf[m] = c THEN Gain(turn[m].pc, turn'[m].pc, Life) ELSE 0)
    BY <2>1, <2>2, <2>3, <2>4, <1>i
  <2>6. total' >= total + Gain(turn[m].pc, turn'[m].pc, Life)
        /\ active' = active + Gain(turn[m].pc, turn'[m].pc, Slots)
        /\ Gain(turn[m].pc, turn'[m].pc, Slots) + Gain(turn[m].pc, turn'[m].pc, {"woken"}) >= 0
    BY <2>2, <2>3, <1>i
  <2>7. QED BY <2>1, <2>3, <2>5, <2>6, <1>i, CountedMoves
<1>5. QED BY <1>1, <1>2, <1>3, <1>4 DEF Receives

LEMMA ProceedsCounted ==
  ASSUME Base, Counted, NEW m \in Messages, Proceeds(m) \/ TimesOut(m) PROVE Counted'
<1> USE DEF Base
<1>k. Kinds' BY ProceedsKinds
<1>i. /\ total \in Int /\ active \in Int /\ total' \in Int /\ active' \in Int
      /\ \A c \in Chats : depth[c] \in Int /\ leaked[c] \in Int
                          /\ depth'[c] \in Int /\ leaked'[c] \in Int
  BY <1>k DEF Kinds
<1>n. MaxTurns \in Nat BY RobotAssumption
<1>1. CASE Cancel(m)
  <2>1. turn[m].pc = "queued" /\ turn'[m].pc = "closing"
        /\ \A n \in Messages \ {m} : turn'[n] = turn[n]
    BY <1>1, CancelMoves DEF Moved
  <2>2. UNCHANGED <<counts, leaked>> BY <1>1 DEF Cancel
  <2>3. QED BY <2>1, <2>2, CountedStays, Pcses
<1>2. CASE Acquire(m) /\ active >= MaxTurns
  <2>1. /\ turn[m].pc = "queued" /\ turn'[m].pc = "waiting"
        /\ \A n \in Messages \ {m} : turn'[n] = turn[n]
    BY <1>2, AcquireMoves DEF Moved
  <2>2. UNCHANGED <<depth, total, active, leaked>> BY <1>2 DEF Acquire
  <2>3. /\ Gain(turn[m].pc, turn'[m].pc, Life) = 0 /\ Gain(turn[m].pc, turn'[m].pc, Slots) = 0
    BY <2>1, Gains, Pcses
  <2>4. \A c \in Chats : depth'[c] - leaked'[c] = depth[c] - leaked[c]
           + (IF ChatOf[m] = c THEN Gain(turn[m].pc, turn'[m].pc, Life) ELSE 0)
    BY <2>2, <2>3, <1>i
  <2>5. total' >= total + Gain(turn[m].pc, turn'[m].pc, Life)
        /\ active' = active + Gain(turn[m].pc, turn'[m].pc, Slots) /\ active' >= MaxTurns
    BY <1>2, <2>2, <2>3, <1>i
  <2>6. QED BY <2>1, <2>4, <2>5, <1>i, CountedMoves
<1>3. CASE (Acquire(m) /\ ~(active >= MaxTurns)) \/ Resume(m)
  <2>1. /\ turn[m].pc \in {"queued", "woken"} /\ turn'[m].pc = "running"
        /\ \A n \in Messages \ {m} : turn'[n] = turn[n]
    BY <1>3, AcquireMoves, ResumeMoves DEF Moved
  <2>2. UNCHANGED <<depth, total, waiters, leaked>> /\ active' = active + 1
    BY <1>3 DEF Acquire, Resume
  <2>3. /\ Gain(turn[m].pc, turn'[m].pc, Life) = 0 /\ Gain(turn[m].pc, turn'[m].pc, Slots) = 1
        /\ Gain(turn[m].pc, turn'[m].pc, {"woken"}) \in {0, -1}
    BY <2>1, Gains, Pcses DEF Pcs
  <2>4. \A c \in Chats : depth'[c] - leaked'[c] = depth[c] - leaked[c]
           + (IF ChatOf[m] = c THEN Gain(turn[m].pc, turn'[m].pc, Life) ELSE 0)
    BY <2>2, <2>3, <1>i
  <2>5. total' >= total + Gain(turn[m].pc, turn'[m].pc, Life)
        /\ active' = active + Gain(turn[m].pc, turn'[m].pc, Slots)
        /\ Gain(turn[m].pc, turn'[m].pc, Slots) + Gain(turn[m].pc, turn'[m].pc, {"woken"}) >= 0
    BY <2>2, <2>3, <1>i
  <2>6. QED BY <2>1, <2>2, <2>4, <2>5, <1>i, CountedMoves
<1>4. CASE \/ PassGate(m) \/ WantToWrite(m) \/ Register(m) \/ AskingFails(m)
           \/ Write(m) \/ Forgo(m) \/ TimesOut(m)
  <2>1. /\ turn[m].pc \in Slots /\ turn'[m].pc \in Slots
        /\ \A n \in Messages \ {m} : turn'[n] = turn[n]
    BY <1>4, PassMoves, WantMoves, RegisterMoves, AskingFailsMoves, WriteMoves, ForgoMoves,
       TimesOutMoves DEF Moved, Slots, Loop
  <2>2. UNCHANGED <<counts, leaked>>
    BY <1>4 DEF PassGate, WantToWrite, Register, AskingFails, Write, Forgo, TimesOut, Others
  <2>3. QED BY <2>1, <2>2, CountedStays
<1>5. CASE Release(m) /\ waiters = <<>>
  <2>1. /\ turn[m].pc \in {"running", "ending"} /\ turn'[m].pc = "closing"
        /\ \A n \in Messages \ {m} : turn'[n] = turn[n]
    BY <1>5, ReleaseMoves
  <2>2. UNCHANGED <<depth, total, leaked>> /\ active' = active - 1 /\ waiters' = <<>>
    BY <1>5 DEF Release
  <2>3. /\ Gain(turn[m].pc, turn'[m].pc, Life) = 0 /\ Gain(turn[m].pc, turn'[m].pc, Slots) = -1
    BY <2>1, Gains, Pcses DEF Pcs
  <2>4. \A c \in Chats : depth'[c] - leaked'[c] = depth[c] - leaked[c]
           + (IF ChatOf[m] = c THEN Gain(turn[m].pc, turn'[m].pc, Life) ELSE 0)
    BY <2>2, <2>3, <1>i
  <2>5. total' >= total + Gain(turn[m].pc, turn'[m].pc, Life)
        /\ active' = active + Gain(turn[m].pc, turn'[m].pc, Slots)
    BY <2>2, <2>3, <1>i
  <2>6. QED BY <2>1, <2>2, <2>4, <2>5, <1>i, CountedMoves
<1>6. CASE Release(m) /\ waiters # <<>>
  <2> DEFINE h == Head(waiters)
  <2>1. /\ turn[m].pc \in {"running", "ending"} /\ turn'[m].pc = "closing"
        /\ h \in Messages \ {m} /\ turn[h].pc = "waiting" /\ turn'[h].pc = "woken"
        /\ \A n \in Messages \ {m, h} : turn'[n] = turn[n]
    BY <1>6, ReleaseMoves, HeadWaits
  <2>2. UNCHANGED <<depth, total, leaked>> /\ active' = active - 1 BY <1>6 DEF Release
  <2> HIDE DEF h
  <2>3. Queued' = Queued
    <3>1. \A n \in Messages : turn'[n].pc \in Life <=> turn[n].pc \in Life BY <2>1, Pcses
    <3>2. QED BY <3>1 DEF Queued
  <2>4. \A c \in Chats : InQueue(c)' = InQueue(c)
    <3>1. \A n \in Messages : turn'[n].pc \in Life <=> turn[n].pc \in Life BY <2>1, Pcses
    <3>2. QED BY <3>1 DEF InQueue, Life
  <2>5. Cardinality(InSlot') = Cardinality(InSlot) - 1 /\ Cardinality(InSlot) \in Nat
    <3>1. InSlot \in SUBSET Messages /\ InSlot' \in SUBSET Messages BY DEF InSlot
    <3>2. \A n \in Messages \ {m} : n \in InSlot <=> n \in InSlot' BY <2>1 DEF InSlot, Loop
    <3>3. m \in InSlot /\ m \notin InSlot' BY <2>1 DEF InSlot, Loop
    <3>4. QED BY <3>1, <3>2, <3>3, OneApart
  <2>6. Cardinality(AboutTo') = Cardinality(AboutTo) + 1 /\ Cardinality(AboutTo) \in Nat
    <3>1. AboutTo \in SUBSET Messages /\ AboutTo' \in SUBSET Messages BY DEF AboutTo
    <3>2. \A n \in Messages \ {h} : n \in AboutTo <=> n \in AboutTo' BY <2>1 DEF AboutTo, At
    <3>3. h \notin AboutTo /\ h \in AboutTo' BY <2>1 DEF AboutTo, At
    <3>4. QED BY <2>1, <3>1, <3>2, <3>3, OneApart
  <2>7. active + Cardinality(AboutTo) >= MaxTurns BY <1>6 DEF Counted, CountersAreTrue
  <2>8. active' + Cardinality(AboutTo') >= MaxTurns BY <2>2, <2>6, <2>7, <1>i, <1>n
  <2>9. active' = Cardinality(InSlot')
    BY <2>2, <2>5, <1>i DEF Counted, CountersAreTrue
  <2>10. QED BY <2>2, <2>3, <2>4, <2>8, <2>9 DEF Counted, CountersAreTrue
<1>7. CASE Leave(m)
  <2> DEFINE c0 == ChatOf[m]
  <2>1. /\ turn[m].pc = "closing" /\ turn'[m].pc = "done"
        /\ \A n \in Messages \ {m} : turn'[n] = turn[n]
    BY <1>7, LeaveMoves DEF Moved
  <2>2. /\ UNCHANGED <<active, waiters, leaked>> /\ total' = total - 1
        /\ depth' = [depth EXCEPT ![c0] = depth[c0] - 1]
    BY <1>7 DEF Leave
  <2> HIDE DEF c0
  <2>3. \A c \in Chats : depth'[c] = IF c = c0 THEN depth[c] - 1 ELSE depth[c]
    BY <2>2 DEF Kinds
  <2>4. /\ Gain(turn[m].pc, turn'[m].pc, Life) = -1 /\ Gain(turn[m].pc, turn'[m].pc, Slots) = 0
        /\ Gain(turn[m].pc, turn'[m].pc, {"woken"}) = 0
    BY <2>1, Gains, Pcses DEF Pcs
  <2>5. \A c \in Chats : depth'[c] - leaked'[c] = depth[c] - leaked[c]
           + (IF ChatOf[m] = c THEN Gain(turn[m].pc, turn'[m].pc, Life) ELSE 0)
    BY <2>2, <2>3, <2>4, <1>i DEF c0
  <2>6. total' >= total + Gain(turn[m].pc, turn'[m].pc, Life)
        /\ active' = active + Gain(turn[m].pc, turn'[m].pc, Slots)
        /\ Gain(turn[m].pc, turn'[m].pc, Slots) + Gain(turn[m].pc, turn'[m].pc, {"woken"}) >= 0
    BY <2>2, <2>4, <1>i
  <2>7. QED BY <2>1, <2>2, <2>5, <2>6, <1>i, CountedMoves
<1>8. QED BY <1>1, <1>2, <1>3, <1>4, <1>5, <1>6, <1>7 DEF Proceeds


LEMMA InitCounted == Init => Counted
<1> SUFFICES ASSUME Init PROVE Counted OBVIOUS
<1>1. \A m \in Messages : turn[m].pc = "none" BY DEF Init, NoTurn
<1>2. InSlot = {} /\ Queued = {} /\ \A c \in Chats : InQueue(c) = {}
  BY <1>1 DEF InSlot, Queued, InQueue, Life, Busy, Loop
<1>3. Cardinality({}) = 0 BY FS_EmptySet
<1>4. /\ waiters = <<>> /\ active = 0 /\ total = 0
      /\ \A c \in Chats : depth[c] = 0 /\ leaked[c] = 0
  BY DEF Init
<1>5. /\ Cardinality(InSlot) = 0 /\ Cardinality(Queued) = 0
      /\ \A c \in Chats : Cardinality(InQueue(c)) = 0
  BY <1>2, <1>3
<1>6. QED BY <1>4, <1>5 DEF Counted, CountersAreTrue

LEMMA NextCounted == ASSUME Base, Counted, [Next]_vars PROVE Counted'
<1>1. CASE \E l \in Where : Receives(l) BY <1>1, ReceivesCounted
<1>2. CASE \E m \in Messages : Proceeds(m) \/ TimesOut(m) BY <1>2, ProceedsCounted
<1>3. ASSUME UNCHANGED <<counts, leaked, turn>> PROVE Counted' BY <1>3, CountedSame
<1>4. CASE \E m \in Messages : Arrive(m) BY <1>3, <1>4 DEF Arrive
<1>5. CASE \E c \in Chats : Expire(c) \/ Decide(c) BY <1>3, <1>5 DEF Expire, Decide, Others
<1>6. CASE Persist BY <1>3, <1>6 DEF Persist
<1>7. CASE Restart
  <2>1. \A m \in Messages : turn'[m].pc = "none" BY <1>7 DEF Restart, NoTurn
  <2>2. InSlot' = {} /\ Queued' = {} /\ \A c \in Chats : InQueue(c)' = {}
    BY <2>1 DEF InSlot, Queued, InQueue, Life, Busy, Loop
  <2>3. Cardinality({}) = 0 BY FS_EmptySet
  <2>4. /\ waiters' = <<>> /\ active' = 0 /\ total' = 0
        /\ \A c \in Chats : depth'[c] = 0 /\ leaked'[c] = 0
    BY <1>7 DEF Restart
  <2>5. /\ Cardinality(InSlot') = 0 /\ Cardinality(Queued') = 0
        /\ \A c \in Chats : Cardinality(InQueue(c)') = 0
    BY <2>2, <2>3
  <2>6. QED BY <2>4, <2>5 DEF Counted, CountersAreTrue
<1>8. CASE UNCHANGED vars BY <1>3, <1>8 DEF vars
<1>9. QED BY <1>1, <1>2, <1>4, <1>5, <1>6, <1>7, <1>8 DEF Next, Where

----------------------------------------------------------------------------
\* Requests and their turns.

\* Only a turn that asks holds a request, one that was stored first, and an
\* approval of it was given by one who may.
Awaits(m) ==
  LET r == turn[m].request IN
  /\ r # None <=> turn[m].pc \in {"storing", "asking"}
  /\ r # None => request[r].stage # "new"
  /\ turn[m].pc = "storing" => request[r].stage = "storing"
  /\ r # None /\ request[r].stage = "approved" => Meant(m, request[r].by)

\* A request belongs to one turn, and is pending in the chat of that turn alone.
Alone == \A m, n \in Messages :
  turn[m].request # None /\ turn[m].request = turn[n].request => m = n
Pending == \A c \in Chats :
  /\ pending[c] # None => request[pending[c]].stage = "asked"
  /\ \A d \in Chats : pending[c] # None /\ pending[c] = pending[d] => c = d
  /\ \A m \in Messages : pending[c] # None /\ pending[c] = turn[m].request => ChatOf[m] = c

Owned == (\A m \in Messages : Awaits(m)) /\ Alone /\ Pending

\* A turn that moves without asking.
LEMMA OwnedMoves ==
  ASSUME Owned, UNCHANGED <<request, pending, text>>,
         \A n \in Messages : /\ turn'[n].request = turn[n].request
                             /\ \/ turn'[n].pc = turn[n].pc
                                \/ {turn[n].pc, turn'[n].pc} \cap {"storing", "asking"} = {}
  PROVE  Owned'
<1>1. ASSUME NEW n \in Messages PROVE Awaits(n)'
  <2>1. Awaits(n) BY DEF Owned
  <2>2. \A by : Meant(n, by)' <=> Meant(n, by) BY DEF Meant
  <2>3. turn'[n].pc \in {"storing", "asking"} <=> turn[n].pc \in {"storing", "asking"} OBVIOUS
  <2>4. turn'[n].pc = "storing" => turn[n].pc = "storing" OBVIOUS
  <2>5. QED BY <2>1, <2>2, <2>3, <2>4 DEF Awaits
<1>2. Alone' /\ Pending' BY DEF Owned, Alone, Pending
<1>3. QED BY <1>1, <1>2 DEF Owned

\* The turns that hold nothing before and after.
LEMMA OwnedRenews ==
  ASSUME Owned, UNCHANGED <<request, pending, text>>, NEW m \in Messages,
         \A n \in Messages \ {m} : turn'[n] = turn[n], turn'[m].request = None,
         {turn[m].pc, turn'[m].pc} \cap {"storing", "asking"} = {}
  PROVE  Owned'
<1>1. turn[m].request = None BY DEF Owned, Awaits
<1>2. QED BY <1>1, OwnedMoves

\* The promise of a pending request holds its outcome.
LEMMA OwnedResolves ==
  ASSUME Kinds, Owned, NEW c \in Chats, pending[c] # None, UNCHANGED <<turn, text>>,
         NEW new, Resolve(c, new), new.stage \in {"approved", "closed"},
         new.stage = "approved" =>
           \A m \in Messages : ChatOf[m] = c => Meant(m, new.by)
  PROVE  Owned'
<1> DEFINE r == pending[c]
<1>1. r \in Requests BY DEF Kinds
<1>2. /\ request'[r] = new /\ \A q \in Requests \ {r} : request'[q] = request[q]
      /\ pending'[c] = None /\ \A d \in Chats \ {c} : pending'[d] = pending[d]
  BY <1>1 DEF Resolve, Kinds
<1>3. \A m \in Messages : turn[m].request \in Requests \cup {None} BY DEF Kinds, Turns
<1>4. request[r].stage = "asked" BY DEF Owned, Pending
<1>5. \A m \in Messages : r = turn[m].request => ChatOf[m] = c BY DEF Owned, Pending
<1>6. \A d \in Chats \ {c} : pending[d] # r BY DEF Owned, Pending
<1> HIDE DEF r
<1>7. ASSUME NEW m \in Messages PROVE Awaits(m)'
  <2>1. Awaits(m) BY DEF Owned
  <2>2. \A by : Meant(m, by)' <=> Meant(m, by) BY DEF Meant
  <2>3. CASE turn[m].request = r
    <3>1. turn[m].pc # "storing" BY <2>1, <2>3, <1>4 DEF Awaits
    <3>2. new.stage = "approved" => Meant(m, new.by) BY <2>3, <1>5
    <3>3. QED BY <2>1, <2>2, <2>3, <3>1, <3>2, <1>2 DEF Awaits
  <2>4. CASE turn[m].request \in Requests \ {r}
    BY <2>1, <2>2, <2>4, <1>2 DEF Awaits
  <2>5. CASE turn[m].request = None
    BY <2>1, <2>5 DEF Awaits
  <2>6. QED BY <2>3, <2>4, <2>5, <1>3
<1>8. Alone' BY DEF Owned, Alone
<1>9. Pending'
  <2>1. ASSUME NEW d \in Chats, pending'[d] # None
        PROVE  /\ d # c /\ pending'[d] = pending[d] /\ pending[d] \in Requests \ {r}
    BY <2>1, <1>2, <1>6 DEF Kinds
  <2>2. QED BY <2>1, <1>2 DEF Owned, Pending
<1>10. QED BY <1>7, <1>8, <1>9 DEF Owned

LEMMA Apart == None \notin Requests /\ None \notin Messages /\ Admin \notin Messages /\ None # Admin
BY RobotAssumption

LEMMA WantOwned ==
  ASSUME Base, Owned, NEW m \in Messages, WantToWrite(m) PROVE Owned'
<1> USE DEF Base
<1> DEFINE r == turn'[m].request
           c == ChatOf[m]
<1>1. /\ turn[m].pc = "running" /\ turn'[m].pc = "storing" /\ r \in Fresh
      /\ r = (CHOOSE q \in Fresh : TRUE) /\ \A n \in Messages \ {m} : turn'[n] = turn[n]
  BY WantMoves DEF Moved
<1>2. c \in Chats BY RobotAssumption
<1>3. r \in Requests /\ request[r].stage = "new" BY <1>1 DEF Fresh
<1>4. /\ request' = [q \in Requests |-> IF q = r THEN [NoAnswer EXCEPT !.stage = "storing"]
                                   ELSE IF q = pending[c] THEN Closed ELSE request[q]]
      /\ pending' = [pending EXCEPT ![c] = None] /\ text' = text
  BY <1>1 DEF WantToWrite, Others, given
<1> HIDE DEF r, c
<1>5. /\ request'[r].stage = "storing"
      /\ \A q \in Requests \ {r} : request'[q] = IF q = pending[c] THEN Closed ELSE request[q]
      /\ pending'[c] = None /\ \A d \in Chats \ {c} : pending'[d] = pending[d]
      /\ Closed.stage = "closed"
  BY <1>2, <1>3, <1>4 DEF Kinds, NoAnswer, Closed
<1>6. \A n \in Messages : turn[n].request \in Requests \cup {None} BY DEF Kinds, Turns
<1>7. \A n \in Messages : turn[n].request # r
  BY <1>3, Apart DEF Owned, Awaits
<1>8. \A d \in Chats : pending[d] # None => pending[d] \in Requests \ {r}
  <2>1. ASSUME NEW d \in Chats, pending[d] # None PROVE pending[d] \in Requests \ {r}
    <3>1. pending[d] \in Requests /\ request[pending[d]].stage = "asked"
      BY <2>1 DEF Kinds, Owned, Pending
    <3>2. QED BY <3>1, <1>3
  <2>2. QED BY <2>1
<1>9. ASSUME NEW n \in Messages PROVE Awaits(n)'
  <2>1. Awaits(n) BY DEF Owned
  <2>2. \A by : Meant(n, by)' <=> Meant(n, by) BY <1>4 DEF Meant
  <2>3. CASE n = m
    <3>1. turn'[n].pc = "storing" /\ turn'[n].request = r BY <2>3, <1>1 DEF r
    <3>2. r # None BY <1>3, Apart
    <3>3. QED BY <3>1, <3>2, <1>5 DEF Awaits
  <2>4. CASE n # m
    <3>1. turn'[n] = turn[n] BY <2>4, <1>1
    <3>2. CASE turn[n].request = None BY <3>1, <3>2, <2>1 DEF Awaits
    <3>3. CASE turn[n].request \in Requests \ {r} /\ turn[n].request # pending[c]
      BY <3>1, <3>3, <2>1, <2>2, <1>5 DEF Awaits
    <3>4. CASE turn[n].request \in Requests \ {r} /\ turn[n].request = pending[c]
      <4>1. request[pending[c]].stage = "asked"
        BY <3>4, <1>2, Apart DEF Owned, Pending
      <4>2. request'[turn[n].request].stage = "closed" BY <3>4, <1>5
      <4>3. turn[n].pc # "storing" BY <3>4, <4>1, <2>1 DEF Awaits
      <4>4. QED BY <3>1, <4>2, <4>3, <2>1 DEF Awaits
    <3>5. QED BY <3>2, <3>3, <3>4, <1>6, <1>7
  <2>5. QED BY <2>3, <2>4
<1>10. Alone'
  <2>1. \A n \in Messages \ {m} : turn'[n].request = turn[n].request /\ turn'[n].request # r
    BY <1>1, <1>7
  <2>2. turn'[m].request = r BY DEF r
  <2>3. QED BY <2>1, <2>2 DEF Owned, Alone
<1>11. Pending'
  <2>1. ASSUME NEW d \in Chats, pending'[d] # None
        PROVE  /\ d # c /\ pending'[d] = pending[d] /\ pending[d] \in Requests \ {r}
               /\ pending[d] # pending[c]
    BY <2>1, <1>2, <1>5, <1>8 DEF Owned, Pending
  <2>2. \A n \in Messages : turn'[n].request = r \/ turn'[n].request = turn[n].request
    BY <1>1 DEF r
  <2>3. ASSUME NEW d \in Chats, pending'[d] # None
        PROVE  request'[pending'[d]].stage = "asked"
    <3>1. request'[pending'[d]] = request[pending[d]] BY <2>1, <2>3, <1>5
    <3>2. QED BY <3>1, <2>1, <2>3 DEF Owned, Pending
  <2>4. \A d, e \in Chats : pending'[d] # None /\ pending'[d] = pending'[e] => d = e
    BY <2>1 DEF Owned, Pending
  <2>5. \A d \in Chats, n \in Messages :
          pending'[d] # None /\ pending'[d] = turn'[n].request => ChatOf[n] = d
    BY <2>1, <2>2 DEF Owned, Pending
  <2>6. QED BY <2>3, <2>4, <2>5 DEF Pending
<1>12. QED BY <1>9, <1>10, <1>11 DEF Owned

LEMMA RegisterOwned ==
  ASSUME Base, Owned, NEW m \in Messages, Register(m) PROVE Owned'
<1> USE DEF Base
<1> DEFINE r == turn[m].request
           c == ChatOf[m]
<1>1. /\ turn[m].pc = "storing" /\ turn'[m].pc = "asking" /\ turn'[m].request = r
      /\ \A n \in Messages \ {m} : turn'[n] = turn[n]
  BY RegisterMoves DEF Moved
<1>2. c \in Chats BY RobotAssumption
<1>3. r # None /\ request[r].stage = "storing" BY <1>1 DEF Owned, Awaits
<1>4. r \in Requests BY <1>3 DEF Kinds, Turns
<1>5. /\ request' = [request EXCEPT ![r] = [request[r] EXCEPT !.stage = "asked"]]
      /\ pending' = [pending EXCEPT ![c] = r] /\ text' = text
  BY DEF Register, Others, given
<1>6. \A n \in Messages \ {m} : turn[n].request # r BY <1>3 DEF Owned, Alone
<1> HIDE DEF r, c
<1>7. [request[r] EXCEPT !.stage = "asked"].stage = "asked" BY <1>4 DEF Kinds, Answers
<1>8. /\ request'[r].stage = "asked" /\ \A q \in Requests \ {r} : request'[q] = request[q]
      /\ pending'[c] = r /\ \A d \in Chats \ {c} : pending'[d] = pending[d]
  BY <1>2, <1>4, <1>5, <1>7 DEF Kinds
<1>9. \A n \in Messages : turn[n].request \in Requests \cup {None} BY DEF Kinds, Turns
<1>10. ASSUME NEW d \in Chats, pending[d] # None
       PROVE  pending[d] \in Requests \ {r} /\ request[pending[d]].stage = "asked"
  <2>1. pending[d] \in Requests /\ request[pending[d]].stage = "asked"
    BY <1>10 DEF Kinds, Owned, Pending
  <2>2. QED BY <2>1, <1>3 DEF r
<1>11. ASSUME NEW n \in Messages PROVE Awaits(n)'
  <2>1. Awaits(n) BY DEF Owned
  <2>2. \A by : Meant(n, by)' <=> Meant(n, by) BY <1>5 DEF Meant
  <2>3. CASE n = m
    BY <2>3, <1>1, <1>3, <1>8 DEF Awaits, r
  <2>4. CASE n # m /\ turn[n].request = None
    BY <2>1, <2>4, <1>1 DEF Awaits
  <2>5. CASE n # m /\ turn[n].request # None
    <3>1. turn'[n] = turn[n] /\ request'[turn[n].request] = request[turn[n].request]
      BY <2>5, <1>1, <1>6, <1>8, <1>9
    <3>2. QED BY <2>1, <2>2, <3>1 DEF Awaits
  <2>6. QED BY <2>3, <2>4, <2>5
<1>12. \A n \in Messages : turn'[n].request = turn[n].request BY <1>1 DEF r
<1>13. Alone' BY <1>12 DEF Owned, Alone
<1>14. Pending'
  <2>1. ASSUME NEW d \in Chats, pending'[d] # None
        PROVE  /\ request'[pending'[d]].stage = "asked"
               /\ \A n \in Messages : pending'[d] = turn'[n].request => ChatOf[n] = d
    <3>1. CASE d = c
      <4>1. \A n \in Messages : turn'[n].request = r => n = m BY <1>6, <1>12
      <4>2. QED BY <3>1, <4>1, <1>8 DEF c
    <3>2. CASE d # c
      <4>1. pending'[d] = pending[d] /\ pending[d] # None BY <2>1, <3>2, <1>8
      <4>2. pending[d] \in Requests \ {r} /\ request[pending[d]].stage = "asked"
        BY <4>1, <1>10
      <4>3. QED BY <4>1, <4>2, <1>8, <1>12 DEF Owned, Pending
    <3>3. QED BY <3>1, <3>2
  <2>2. ASSUME NEW d \in Chats, NEW e \in Chats, pending'[d] # None, pending'[d] = pending'[e]
        PROVE  d = e
    <3>1. CASE d = c /\ e # c
      <4>1. pending[e] = r BY <2>2, <3>1, <1>8
      <4>2. QED BY <4>1, <1>3, <1>10 DEF r
    <3>2. CASE d # c /\ e = c
      <4>1. pending[d] = r BY <2>2, <3>2, <1>8
      <4>2. QED BY <4>1, <1>3, <1>10 DEF r
    <3>3. CASE d # c /\ e # c
      BY <2>2, <3>3, <1>8 DEF Owned, Pending
    <3>4. QED BY <3>1, <3>2, <3>3
  <2>3. QED BY <2>1, <2>2 DEF Pending
<1>15. QED BY <1>11, <1>13, <1>14 DEF Owned

\* A turn gives its request up, and the promise of no other changes.
LEMMA GivesUpOwned ==
  ASSUME Kinds, Owned, NEW m \in Messages, UNCHANGED <<pending, text>>,
         \A n \in Messages \ {m} : turn'[n] = turn[n],
         turn'[m].request = None, turn'[m].pc \notin {"storing", "asking"},
         \A q \in Requests \ {turn[m].request} : request'[q] = request[q],
         request' = request \/ \A c \in Chats : pending[c] # None => pending[c] # turn[m].request
  PROVE  Owned'
<1>1. \A n \in Messages : turn[n].request \in Requests \cup {None} BY DEF Kinds, Turns
<1>2. ASSUME NEW n \in Messages PROVE Awaits(n)'
  <2>1. Awaits(n) BY DEF Owned
  <2>2. \A by : Meant(n, by)' <=> Meant(n, by) BY DEF Meant
  <2>3. CASE n = m BY <2>3 DEF Awaits
  <2>4. CASE n # m /\ turn[n].request = None BY <2>1, <2>4 DEF Awaits
  <2>5. CASE n # m /\ turn[n].request # None
    <3>1. turn[n].request # turn[m].request BY <2>5 DEF Owned, Alone
    <3>2. turn'[n] = turn[n] /\ request'[turn[n].request] = request[turn[n].request]
      BY <2>5, <3>1, <1>1
    <3>3. QED BY <2>1, <2>2, <3>2 DEF Awaits
  <2>6. QED BY <2>3, <2>4, <2>5
<1>3. \A n \in Messages : turn'[n].request # None => turn'[n].request = turn[n].request
  OBVIOUS
<1>4. Alone' BY <1>3 DEF Owned, Alone
<1>5. \A c \in Chats : pending[c] # None => request'[pending[c]] = request[pending[c]]
  BY DEF Kinds
<1>6. Pending' BY <1>3, <1>5 DEF Owned, Pending
<1>7. QED BY <1>2, <1>4, <1>6 DEF Owned

LEMMA ProceedsOwned ==
  ASSUME Base, Owned, NEW m \in Messages, Proceeds(m) \/ TimesOut(m) PROVE Owned'
<1> USE DEF Base
<1>1. CASE Cancel(m)
  BY <1>1, CancelMoves, OwnedMoves DEF Moved, Cancel, given
<1>2. CASE Acquire(m)
  BY <1>2, AcquireMoves, OwnedMoves DEF Moved, Acquire, given
<1>3. CASE Resume(m)
  BY <1>3, ResumeMoves, OwnedMoves DEF Moved, Resume, given
<1>0. CASE PassGate(m)
  BY <1>0, PassMoves, OwnedMoves DEF Moved, PassGate, Others, given
<1>4. CASE WantToWrite(m) BY <1>4, WantOwned
<1>5. CASE Register(m) BY <1>5, RegisterOwned
<1>6. CASE AskingFails(m)
  <2>1. /\ turn[m].pc \in {"storing", "asking"} /\ turn'[m].pc = "ending"
        /\ turn'[m].request = None /\ \A n \in Messages \ {m} : turn'[n] = turn[n]
    BY <1>6, AskingFailsMoves DEF Moved
  <2>2. UNCHANGED <<pending, text>> BY <1>6 DEF AskingFails
  <2>3. \A q \in Requests \ {turn[m].request} : request'[q] = request[q]
    BY <1>6 DEF AskingFails, Kinds
  <2>4. CASE At(m, "storing")
    <3>1. request[turn[m].request].stage = "storing" BY <2>4 DEF At, Owned, Awaits
    <3>2. \A c \in Chats : pending[c] # None => pending[c] # turn[m].request
      BY <3>1 DEF Owned, Pending
    <3>3. QED BY <2>1, <2>2, <2>3, <3>2, GivesUpOwned
  <2>5. CASE ~At(m, "storing")
    <3>1. request' = request BY <1>6, <2>5 DEF AskingFails
    <3>2. QED BY <2>1, <2>2, <2>3, <3>1, GivesUpOwned
  <2>6. QED BY <2>4, <2>5
<1>7. CASE Write(m) \/ Forgo(m)
  <2>1. /\ turn'[m].pc \notin {"storing", "asking"}
        /\ turn'[m].request = None /\ \A n \in Messages \ {m} : turn'[n] = turn[n]
    BY <1>7, WriteMoves, ForgoMoves DEF Moved
  <2>2. UNCHANGED <<pending, text>> BY <1>7 DEF Write, Forgo, Others, given
  <2>3. \A q \in Requests \ {turn[m].request} : request'[q] = request[q]
    BY <1>7 DEF Write, Forgo, Settled, Kinds
  <2>4. At(m, "asking") => request[turn[m].request].stage # "asked"
    BY <1>7 DEF Write, Forgo, Allows, At
  <2>e. ~At(m, "asking") => turn[m].request = None
    BY <1>7, WriteMoves, ForgoMoves DEF At, Owned, Awaits
  <2>5. \A c \in Chats : pending[c] # None => pending[c] # turn[m].request
    BY <2>4, <2>e DEF Owned, Pending
  <2>6. QED BY <2>1, <2>2, <2>3, <2>5, GivesUpOwned
<1>8. CASE Release(m)
  <2>1. \A n \in Messages : /\ turn'[n].request = turn[n].request
                            /\ \/ turn'[n].pc = turn[n].pc
                               \/ {turn[n].pc, turn'[n].pc} \cap {"storing", "asking"} = {}
    BY <1>8, ReleaseMoves
  <2>2. UNCHANGED <<request, pending, text>> BY <1>8 DEF Release, given
  <2>3. QED BY <2>1, <2>2, OwnedMoves
<1>9. CASE Leave(m)
  BY <1>9, LeaveMoves, OwnedRenews DEF Moved, Leave, given
<1>10. CASE TimesOut(m)
  <2>1. /\ turn'[m].pc # turn[m].pc => turn[m].pc = "running" /\ turn'[m].pc = "ending"
        /\ turn'[m].request = turn[m].request
        /\ \A n \in Messages \ {m} : turn'[n] = turn[n]
    <3>1. turn'[m].pc # turn[m].pc => turn[m].pc = "running" /\ turn'[m].pc = "ending"
      BY <1>10 DEF TimesOut, At, Kinds, Turns
    <3>2. QED BY <1>10, <3>1, TimesOutMoves DEF Moved
  <2>2. UNCHANGED <<request, pending, text>> BY <1>10 DEF TimesOut, Others, given
  <2>3. QED BY <2>1, <2>2, OwnedMoves
<1>11. QED
  BY <1>0, <1>1, <1>2, <1>3, <1>4, <1>5, <1>6, <1>7, <1>8, <1>9, <1>10 DEF Proceeds

LEMMA ReceivesOwned ==
  ASSUME Base, Owned, NEW l \in Where, Receives(l) PROVE Owned'
<1> USE DEF Base
<1>1. CASE LookUp(l) \/ Refuse(l)
  BY <1>1, OwnedMoves DEF LookUp, Refuse, given
<1>2. CASE Answer(l)
  <2> DEFINE c == l[1]
             by == Msg(l)
  <2>1. lane[l] # <<>> BY <1>2 DEF Answer, HeadIs
  <2>2. by \in Messages /\ c \in Chats /\ 1 \in 1 .. Len(lane[l]) /\ by = lane[l][1].msg
    BY <2>1, HeadOf
  <2>3. ChatOf[by] = c BY <2>2 DEF Lined
  <2>4. UNCHANGED <<turn, text>> /\ pending[c] # None BY <1>2 DEF Answer, given
  <2> HIDE DEF c, by
  <2>5. CASE text[by] \in Yes /\ Resolve(c, ApprovedBy(by))
    <3>1. ApprovedBy(by).stage = "approved" /\ ApprovedBy(by).by = by
      BY DEF ApprovedBy, NoAnswer
    <3>2. \A m \in Messages : ChatOf[m] = c => Meant(m, by)
      BY <2>2, <2>3, <2>5 DEF Meant
    <3>3. QED BY <2>2, <2>4, <2>5, <3>1, <3>2, OwnedResolves
  <2>6. CASE Resolve(c, Closed)
    <3>1. Closed.stage = "closed" BY DEF Closed, NoAnswer
    <3>2. QED BY <2>2, <2>4, <2>6, <3>1, OwnedResolves
  <2>7. QED BY <1>2, <2>5, <2>6 DEF Answer, c, by
<1>3. CASE Count(l)
  <2>1. UNCHANGED <<request, pending, text>> BY <1>3 DEF Count, given
  <2>2. QED BY <1>3, <2>1, CountMoves, OwnedRenews DEF Moved
<1>4. CASE Chain(l)
  <2>1. UNCHANGED <<request, pending, text>> BY <1>4 DEF Chain, given
  <2>2. Msg(l) \in Messages /\ turn[Msg(l)].pc = "noting" BY <1>4, HeadNotes DEF Chain
  <2>3. QED BY <1>4, <2>1, <2>2, ChainMoves, OwnedMoves DEF Moved
<1>5. CASE NotingFails(l)
  <2>1. UNCHANGED <<request, pending, text>> BY <1>5 DEF NotingFails
  <2>2. Msg(l) \in Messages /\ turn[Msg(l)].pc = "noting" BY <1>5, HeadNotes DEF NotingFails
  <2>3. QED BY <1>5, <2>1, <2>2, NotingFailsMoves, OwnedRenews DEF Moved
<1>6. QED BY <1>1, <1>2, <1>3, <1>4, <1>5 DEF Receives

LEMMA InitOwned == Init => Owned
BY DEF Init, Owned, Awaits, Alone, Pending, NoTurn

LEMMA NextOwned == ASSUME Base, Owned, [Next]_vars PROVE Owned'
<1> USE DEF Base
<1>1. CASE \E l \in Where : Receives(l) BY <1>1, ReceivesOwned
<1>2. CASE \E m \in Messages : Proceeds(m) \/ TimesOut(m) BY <1>2, ProceedsOwned
<1>3. ASSUME UNCHANGED <<turn, request, pending, text>> PROVE Owned' BY <1>3, OwnedMoves
<1>4. CASE \E m \in Messages : Arrive(m) BY <1>3, <1>4 DEF Arrive
<1>5. CASE \E c \in Chats : Expire(c) \/ Decide(c)
  <2>1. PICK c \in Chats : Expire(c) \/ Decide(c) BY <1>5
  <2>2. UNCHANGED <<turn, text>> /\ pending[c] # None BY <2>1 DEF Expire, Decide, Others, given
  <2>3. CASE Resolve(c, Closed)
    <3>1. Closed.stage = "closed" BY DEF Closed, NoAnswer
    <3>2. QED BY <2>2, <2>3, <3>1, OwnedResolves
  <2>4. CASE Resolve(c, ApprovedBy(Admin))
    <3>1. ApprovedBy(Admin).stage = "approved" /\ ApprovedBy(Admin).by = Admin
      BY DEF ApprovedBy, NoAnswer
    <3>2. \A m \in Messages : Meant(m, Admin) BY DEF Meant
    <3>3. QED BY <2>2, <2>4, <3>1, <3>2, OwnedResolves
  <2>5. QED BY <2>1, <2>3, <2>4 DEF Expire, Decide
<1>6. CASE Persist BY <1>3, <1>6 DEF Persist, given
<1>7. CASE Restart
  <2>1. /\ \A m \in Messages : turn'[m].pc = "none" /\ turn'[m].request = None
        /\ \A c \in Chats : pending'[c] = None
    BY <1>7 DEF Restart, NoTurn
  <2>2. QED BY <2>1 DEF Owned, Awaits, Alone, Pending
<1>8. CASE UNCHANGED vars BY <1>3, <1>8 DEF vars, given
<1>9. QED BY <1>1, <1>2, <1>4, <1>5, <1>6, <1>7, <1>8 DEF Next, Where

\* Where the gate asks about everything, no turn passes it without a request.
Passed == \A m \in Messages : turn[m].pc = "allowed" => AsksNobody

LEMMA InitPassed == Init => Passed
BY DEF Init, NoTurn, Passed

LEMMA NextPassed == ASSUME Base, Passed, [Next]_vars PROVE Passed'
<1> USE DEF Base
<1>1. ASSUME NEW m \in Messages, Proceeds(m) \/ TimesOut(m) PROVE Passed'
  <2>1. learns' = learns
    BY <1>1 DEF Proceeds, TimesOut, Cancel, Acquire, Resume, PassGate, WantToWrite, Register,
       AskingFails, Write, Forgo, Release, Leave, Others, given
  <2>2. \A n \in Messages : turn'[n].pc = "allowed" => turn[n].pc = "allowed" \/ AsksNobody
    <3>1. CASE PassGate(m) BY <3>1 DEF PassGate
    <3>2. CASE Release(m) BY <3>2, ReleaseMoves
    <3>3. CASE TimesOut(m)
      <4>1. turn'[m].pc \in {turn[m].pc, "ending"} BY <3>3 DEF TimesOut, At, Kinds, Turns
      <4>2. QED BY <3>3, <4>1, TimesOutMoves DEF Moved
    <3>4. CASE ~(PassGate(m) \/ Release(m) \/ TimesOut(m))
      BY <1>1, <3>4, CancelMoves, AcquireMoves, ResumeMoves, WantMoves, RegisterMoves,
         AskingFailsMoves, WriteMoves, ForgoMoves, LeaveMoves DEF Proceeds, Moved
    <3>5. QED BY <3>1, <3>2, <3>3, <3>4
  <2>3. QED BY <2>1, <2>2 DEF Passed, AsksNobody
<1>2. ASSUME NEW l \in Where, Receives(l) PROVE Passed'
  <2>1. learns' = learns
    BY <1>2 DEF Receives, LookUp, Answer, Refuse, Count, Chain, NotingFails, given
  <2>2. CASE Checks(l)
    BY <2>1, <2>2 DEF Checks, LookUp, Answer, Refuse, Passed, AsksNobody
  <2>3. CASE Count(l) BY <2>1, <2>3, CountMoves DEF Moved, Passed, AsksNobody
  <2>4. CASE Chain(l) BY <2>1, <2>4, ChainMoves DEF Moved, Passed, AsksNobody
  <2>5. CASE NotingFails(l) BY <2>1, <2>5, NotingFailsMoves DEF Moved, Passed, AsksNobody
  <2>6. QED BY <1>2, <2>2, <2>3, <2>4, <2>5 DEF Receives, Checks
<1>3. ASSUME UNCHANGED <<turn, learns>> PROVE Passed' BY <1>3 DEF Passed, AsksNobody
<1>4. CASE \E m \in Messages : Arrive(m) BY <1>3, <1>4 DEF Arrive
<1>5. CASE \E c \in Chats : Expire(c) \/ Decide(c)
  BY <1>3, <1>5 DEF Expire, Decide, Others, given
<1>6. CASE Persist BY <1>3, <1>6 DEF Persist, given
<1>7. CASE Restart BY <1>7 DEF Restart, NoTurn, Passed
<1>8. CASE UNCHANGED vars BY <1>3, <1>8 DEF vars, given
<1>9. QED BY <1>1, <1>2, <1>4, <1>5, <1>6, <1>7, <1>8 DEF Next, Where

\* A write was approved by one who may, or is one that this kernel asks nobody about.
LEMMA WriteMeant ==
  ASSUME Base, Owned, Passed, NEW m \in Messages, Write(m)
  PROVE  MayWrite(m)
<1>1. CASE turn[m].pc = "asking"
  <2>1. request[turn[m].request].stage = "approved" BY <1>1 DEF Write, At, Allows
  <2>2. turn[m].request # None /\ Meant(m, request[turn[m].request].by)
    BY <1>1, <2>1 DEF Owned, Awaits
  <2>3. QED BY <2>2 DEF MayWrite
<1>2. CASE turn[m].pc = "allowed"
  BY <1>2 DEF Owned, Awaits, Passed, MayWrite
<1>3. QED BY <1>1, <1>2 DEF Write, At


----------------------------------------------------------------------------
\* The turns of a chat form a line: each one but the first is queued behind the
\* one before it, and the last one is the tail, behind which the one that is
\* being noted will come.
Chained == Busy \cup {"queued"}
IsLine(c, q) ==
  /\ q \in Seq(Messages)
  /\ \A m \in Messages :
       (ChatOf[m] = c /\ turn[m].pc \in Chained) <=> \E i \in 1 .. Len(q) : q[i] = m
  /\ \A i, j \in 1 .. Len(q) : q[i] = q[j] => i = j
  /\ \A i \in 2 .. Len(q) : turn[q[i]].pc = "queued" /\ turn[q[i]].after = q[i - 1]
  /\ q # <<>> => tail[c] = q[Len(q)]
  /\ \A m \in Messages : ChatOf[m] = c /\ turn[m].pc = "noting" => turn[m].after = tail[c]
InLine == \A c \in Chats : \E q \in Seq(Messages) : IsLine(c, q)

LEMMA Chaining ==
  /\ Chained = {"waiting", "woken", "ending", "closing", "running", "storing", "asking",
                "allowed", "queued"}
  /\ Busy = {"waiting", "woken", "ending", "closing", "running", "storing", "asking",
             "allowed"}
  /\ Loop = {"running", "storing", "asking", "allowed"}
BY DEF Chained, Busy, Loop

\* Who is busy or may begin is the first of its line.
LEMMA FirstOfLine ==
  ASSUME NEW c, NEW q, IsLine(c, q), NEW i \in 1 .. Len(q),
         turn[q[i]].pc \in Busy \/ Ready(q[i])
  PROVE  i = 1
<1>1. SUFFICES ASSUME i # 1 PROVE FALSE OBVIOUS
<1>2. q \in Seq(Messages) /\ Len(q) \in Nat BY DEF IsLine
<1>3. i \in 2 .. Len(q) /\ i - 1 \in 1 .. Len(q) BY <1>1, <1>2
<1>4. turn[q[i]].pc = "queued" /\ turn[q[i]].after = q[i - 1] BY <1>3 DEF IsLine
<1>5. q[i - 1] \in Messages BY <1>2, <1>3
<1>6. turn[q[i - 1]].pc \in Chained BY <1>3, <1>5 DEF IsLine
<1>7. q[i - 1] # None BY <1>5, Apart
<1>8. Ready(q[i]) BY <1>4, Chaining
<1>9. turn[q[i - 1]].pc = "done" BY <1>4, <1>7, <1>8 DEF Ready, At
<1>10. QED BY <1>6, <1>9, Chaining

\* The first of the line is busy and stays so.
LEMMA LineWorks ==
  ASSUME NEW c \in Chats, NEW q, IsLine(c, q), tail'[c] = tail[c],
         \A n \in Messages : \/ turn'[n] = turn[n]
                             \/ (turn[n].pc \in Busy \/ Ready(n)) /\ turn'[n].pc \in Busy
  PROVE  IsLine(c, q)'
<1>1. q \in Seq(Messages) /\ Len(q) \in Nat /\ \A i \in 1 .. Len(q) : q[i] \in Messages
  BY DEF IsLine
<1>2. \A n \in Messages : turn'[n].pc \in Chained <=> turn[n].pc \in Chained
  BY Chaining DEF Ready, At
<1>3. ASSUME NEW i \in 2 .. Len(q) PROVE turn'[q[i]] = turn[q[i]]
  <2>1. i \in 1 .. Len(q) /\ i # 1 BY <1>1
  <2>2. ~(turn[q[i]].pc \in Busy \/ Ready(q[i])) BY <2>1, FirstOfLine
  <2>3. QED BY <1>1, <2>1, <2>2
<1>4. ASSUME NEW n \in Messages, turn'[n].pc = "noting" PROVE turn'[n] = turn[n]
  BY <1>4, Chaining
<1>5. /\ \A m \in Messages :
           (ChatOf[m] = c /\ turn'[m].pc \in Chained) <=> \E i \in 1 .. Len(q) : q[i] = m
      /\ \A i, j \in 1 .. Len(q) : q[i] = q[j] => i = j
  BY <1>2 DEF IsLine
<1>6. \A i \in 2 .. Len(q) : turn'[q[i]].pc = "queued" /\ turn'[q[i]].after = q[i - 1]
  BY <1>3 DEF IsLine
<1>7. \A m \in Messages : ChatOf[m] = c /\ turn'[m].pc = "noting" => turn'[m].after = tail'[c]
  BY <1>4 DEF IsLine
<1>8. q # <<>> => tail'[c] = q[Len(q)] BY DEF IsLine
<1>9. QED BY <1>1, <1>5, <1>6, <1>7, <1>8 DEF IsLine

\* Nothing of it changes in another chat, and turns that are in no line may change
\* as long as they stay out of it.
LEMMA LineStays ==
  ASSUME NEW c \in Chats, NEW q, IsLine(c, q), tail'[c] = tail[c],
         \A n \in Messages : ChatOf[n] = c =>
           \/ turn'[n] = turn[n]
           \/ /\ turn[n].pc \notin Chained /\ turn'[n].pc \notin Chained
              /\ turn'[n].pc = "noting" => turn'[n].after = tail[c]
  PROVE  IsLine(c, q)'
<1>1. q \in Seq(Messages) /\ Len(q) \in Nat /\ \A i \in 1 .. Len(q) : q[i] \in Messages
  BY DEF IsLine
<1>2. \A n \in Messages : ChatOf[n] = c => (turn'[n].pc \in Chained <=> turn[n].pc \in Chained)
  OBVIOUS
<1>3. ASSUME NEW i \in 2 .. Len(q) PROVE turn'[q[i]] = turn[q[i]]
  <2>1. i \in 1 .. Len(q) /\ q[i] \in Messages BY <1>1
  <2>2. ChatOf[q[i]] = c /\ turn[q[i]].pc \in Chained BY <2>1 DEF IsLine
  <2>3. QED BY <2>1, <2>2
<1>4. /\ \A m \in Messages :
           (ChatOf[m] = c /\ turn'[m].pc \in Chained) <=> \E i \in 1 .. Len(q) : q[i] = m
      /\ \A i, j \in 1 .. Len(q) : q[i] = q[j] => i = j
  BY <1>2 DEF IsLine
<1>5. \A i \in 2 .. Len(q) : turn'[q[i]].pc = "queued" /\ turn'[q[i]].after = q[i - 1]
  BY <1>3 DEF IsLine
<1>6. \A m \in Messages : ChatOf[m] = c /\ turn'[m].pc = "noting" => turn'[m].after = tail'[c]
  BY DEF IsLine
<1>7. q # <<>> => tail'[c] = q[Len(q)] BY DEF IsLine
<1>8. QED BY <1>1, <1>4, <1>5, <1>6, <1>7 DEF IsLine

LEMMA ReceivesInLine ==
  ASSUME Base, InLine, NEW l \in Where, Receives(l) PROVE InLine'
<1> USE DEF Base
<1>1. CASE LookUp(l) \/ Answer(l) \/ Refuse(l)
  <2>1. UNCHANGED <<turn, tail>> BY <1>1 DEF LookUp, Answer, Refuse
  <2>2. QED BY <2>1 DEF InLine, IsLine
<1>2. CASE Count(l)
  <2>1. /\ Msg(l) \in Messages /\ ChatOf[Msg(l)] = l[1] /\ turn[Msg(l)].pc = "none"
        /\ turn'[Msg(l)].pc = "noting" /\ turn'[Msg(l)].after = tail[l[1]]
        /\ \A n \in Messages \ {Msg(l)} : turn'[n] = turn[n]
    BY <1>2, CountMoves DEF Moved
  <2>2. tail' = tail BY <1>2 DEF Count
  <2>3. ASSUME NEW c \in Chats PROVE \E q \in Seq(Messages) : IsLine(c, q)'
    <3>1. PICK q \in Seq(Messages) : IsLine(c, q) BY DEF InLine
    <3>2. \A n \in Messages : ChatOf[n] = c =>
           \/ turn'[n] = turn[n]
           \/ /\ turn[n].pc \notin Chained /\ turn'[n].pc \notin Chained
              /\ turn'[n].pc = "noting" => turn'[n].after = tail[c]
      BY <2>1, Chaining
    <3>3. IsLine(c, q)' BY <2>2, <3>1, <3>2, LineStays
    <3>4. QED BY <3>3
  <2>4. QED BY <2>3 DEF InLine
<1>3. CASE NotingFails(l)
  <2>1. /\ Msg(l) \in Messages /\ turn[Msg(l)].pc = "noting" /\ turn'[Msg(l)].pc = "done"
        /\ \A n \in Messages \ {Msg(l)} : turn'[n] = turn[n]
    BY <1>3, NotingFailsMoves, HeadNotes DEF Moved, NotingFails
  <2>2. tail' = tail BY <1>3 DEF NotingFails
  <2>3. ASSUME NEW c \in Chats PROVE \E q \in Seq(Messages) : IsLine(c, q)'
    <3>1. PICK q \in Seq(Messages) : IsLine(c, q) BY DEF InLine
    <3>2. \A n \in Messages : ChatOf[n] = c =>
           \/ turn'[n] = turn[n]
           \/ /\ turn[n].pc \notin Chained /\ turn'[n].pc \notin Chained
              /\ turn'[n].pc = "noting" => turn'[n].after = tail[c]
      BY <2>1, Chaining
    <3>3. IsLine(c, q)' BY <2>2, <3>1, <3>2, LineStays
    <3>4. QED BY <3>3
  <2>4. QED BY <2>3 DEF InLine
<1>4. CASE Chain(l)
  <2> DEFINE m == Msg(l)
             d == l[1]
  <2>1. /\ m \in Messages /\ ChatOf[m] = d /\ d \in Chats /\ turn[m].pc = "noting"
        /\ turn'[m].pc = "queued" /\ turn'[m].after = turn[m].after
        /\ \A n \in Messages \ {m} : turn'[n] = turn[n]
    BY <1>4, ChainMoves, HeadNotes DEF Moved, Chain
  <2>2. tail' = [tail EXCEPT ![d] = m] BY <1>4 DEF Chain
  <2>3. tail'[d] = m /\ \A c \in Chats \ {d} : tail'[c] = tail[c] BY <2>1, <2>2 DEF Kinds
  <2>4. \A n \in Messages \ {m} : ChatOf[n] = d => turn[n].pc # "noting"
    <3>1. Held(<<d, "messages">>, m) BY <2>1 DEF Known
    <3>2. ASSUME NEW n \in Messages \ {m}, ChatOf[n] = d, turn[n].pc = "noting" PROVE FALSE
      <4>1. Held(<<d, "messages">>, n) BY <3>2 DEF Known
      <4>2. QED BY <3>1, <4>1 DEF Held
    <3>3. QED BY <3>2
  <2> HIDE DEF m, d
  <2>5. ASSUME NEW c \in Chats \ {d} PROVE \E q \in Seq(Messages) : IsLine(c, q)'
    <3>1. PICK q \in Seq(Messages) : IsLine(c, q) BY DEF InLine
    <3>2. \A n \in Messages : ChatOf[n] = c => turn'[n] = turn[n] BY <2>1
    <3>3. IsLine(c, q)' BY <2>3, <3>1, <3>2, LineStays
    <3>4. QED BY <3>3
  <2>6. \E q \in Seq(Messages) : IsLine(d, q)'
    <3>1. PICK q \in Seq(Messages) : IsLine(d, q) BY <2>1 DEF InLine
    <3>0. Append(q, m) \in Seq(Messages) BY <2>1, AppendProperties
    <3>1a. PICK p \in Seq(Messages) : p = Append(q, m) BY <3>0
    <3>2. /\ Len(p) = Len(q) + 1 /\ Len(q) \in Nat
          /\ \A i \in 1 .. Len(q) : p[i] = q[i]
      BY <2>1, <3>1a, AppendProperties
    <3>3. p[Len(q) + 1] = m BY <2>1, <3>1a, AppendProperties
    <3>4. \A i \in 1 .. Len(p) : i \in 1 .. Len(q) \/ i = Len(q) + 1 BY <3>2
    <3>5. \A i \in 1 .. Len(q) : i \in 1 .. Len(p) /\ q[i] \in Messages BY <3>2
    <3>6. Len(q) + 1 \in 1 .. Len(p) BY <3>2
    <3>7. \A i \in 1 .. Len(q) : q[i] # m
      BY <2>1, <3>1, Chaining DEF IsLine
    <3>8. ASSUME NEW n \in Messages
          PROVE  (ChatOf[n] = d /\ turn'[n].pc \in Chained) <=> \E i \in 1 .. Len(p) : p[i] = n
      <4>1. CASE n = m BY <4>1, <2>1, <3>3, <3>6, Chaining
      <4>2. CASE n # m
        <5>1. (ChatOf[n] = d /\ turn'[n].pc \in Chained) <=> \E i \in 1 .. Len(q) : q[i] = n
          BY <4>2, <2>1, <3>1 DEF IsLine
        <5>2. (\E i \in 1 .. Len(p) : p[i] = n) <=> \E i \in 1 .. Len(q) : q[i] = n
          BY <4>2, <3>2, <3>3, <3>4, <3>5
        <5>3. QED BY <5>1, <5>2
      <4>3. QED BY <4>1, <4>2
    <3>9. \A i, j \in 1 .. Len(p) : p[i] = p[j] => i = j
      BY <3>1, <3>2, <3>3, <3>4, <3>7 DEF IsLine
    <3>10. ASSUME NEW i \in 2 .. Len(p)
           PROVE  turn'[p[i]].pc = "queued" /\ turn'[p[i]].after = p[i - 1]
      <4>1. CASE i = Len(q) + 1
        <5>1. Len(q) \in 1 .. Len(q) /\ i - 1 = Len(q) BY <4>1, <3>2
        <5>2. q # <<>> BY <5>1
        <5>3. turn[m].after = q[Len(q)] BY <2>1, <3>1, <5>2 DEF IsLine
        <5>4. p[i - 1] = q[Len(q)] BY <5>1, <3>2
        <5>5. QED BY <4>1, <5>3, <5>4, <2>1, <3>3
      <4>2. CASE i # Len(q) + 1
        <5>1. i \in 2 .. Len(q) /\ i \in 1 .. Len(q) /\ i - 1 \in 1 .. Len(q) BY <4>2, <3>2
        <5>2. p[i] = q[i] /\ p[i - 1] = q[i - 1] BY <5>1, <3>2
        <5>3. turn'[q[i]] = turn[q[i]] BY <5>1, <3>5, <3>7, <2>1
        <5>4. QED BY <5>1, <5>2, <5>3, <3>1 DEF IsLine
      <4>3. QED BY <4>1, <4>2
    <3>11. tail'[d] = p[Len(p)] BY <2>3, <3>2, <3>3
    <3>12. \A n \in Messages : ChatOf[n] = d => turn'[n].pc # "noting" BY <2>1, <2>4
    <3>13. IsLine(d, p)' BY <3>2, <3>8, <3>9, <3>10, <3>11, <3>12 DEF IsLine
    <3>14. QED BY <3>2, <3>13
  <2>7. QED BY <2>5, <2>6 DEF InLine
<1>5. QED BY <1>1, <1>2, <1>3, <1>4 DEF Receives

\* The first of the line leaves it.
LEMMA LeaveInLine ==
  ASSUME Base, Counted, InLine, NEW m \in Messages, Leave(m) PROVE InLine'
<1> USE DEF Base
<1> DEFINE d == ChatOf[m]
<1>1. /\ d \in Chats /\ turn[m].pc = "closing" /\ turn'[m].pc = "done"
      /\ \A n \in Messages \ {m} : turn'[n] = turn[n]
  BY RobotAssumption, LeaveMoves DEF Moved
<1>2. tail' = IF depth[d] = 1 THEN [tail EXCEPT ![d] = None] ELSE tail BY DEF Leave, Empty
\* Nobody else is in the queue that is forgotten.
<1>3. ASSUME depth[d] = 1, NEW n \in Messages, ChatOf[n] = d, turn[n].pc \in Life PROVE n = m
  <2>1. depth[d] = Cardinality(InQueue(d)) + leaked[d] BY <1>1 DEF Counted, CountersAreTrue
  <2>2. InQueue(d) \in SUBSET Messages /\ n \in InQueue(d) /\ m \in InQueue(d)
    BY <1>1, <1>3, Chaining DEF InQueue, Life
  <2>3. SUFFICES ASSUME n # m PROVE FALSE OBVIOUS
  <2>4. \A k \in Messages \ {m} : k \in InQueue(d) <=> k \in InQueue(d) \ {m} OBVIOUS
  <2>5. /\ Cardinality(InQueue(d) \ {m}) = Cardinality(InQueue(d)) - 1
        /\ Cardinality(InQueue(d)) \in Nat /\ Cardinality(InQueue(d) \ {m}) \in Nat
    BY <2>2, <2>4, OneApart
  <2>6. leaked[d] \in Nat BY <1>1 DEF Kinds
  <2>7. Cardinality(InQueue(d) \ {m}) = 0 BY <1>3, <2>1, <2>5, <2>6
  <2>8. IsFiniteSet(InQueue(d) \ {m}) BY <2>2, RobotAssumption, FS_Subset
  <2>9. InQueue(d) \ {m} = {} BY <2>7, <2>8, FS_EmptySet
  <2>10. QED BY <2>2, <2>3, <2>9
<1> HIDE DEF d
<1>4. ASSUME NEW c \in Chats \ {d} PROVE \E q \in Seq(Messages) : IsLine(c, q)'
  <2>1. PICK q \in Seq(Messages) : IsLine(c, q) BY DEF InLine
  <2>2. \A n \in Messages : ChatOf[n] = c => turn'[n] = turn[n] BY <1>1 DEF d
  <2>3. tail'[c] = tail[c] BY <1>2 DEF Kinds
  <2>4. IsLine(c, q)' BY <2>1, <2>2, <2>3, LineStays
  <2>5. QED BY <2>4
<1>5. \E q \in Seq(Messages) : IsLine(d, q)'
  <2>1. PICK q \in Seq(Messages) : IsLine(d, q) BY <1>1 DEF InLine
  <2>2. Len(q) \in Nat /\ \A i \in 1 .. Len(q) : q[i] \in Messages BY <2>1
  <2>3. PICK k \in 1 .. Len(q) : q[k] = m BY <1>1, <2>1, Chaining DEF IsLine, d
  <2>4. q[1] = m /\ q # <<>> /\ Len(q) >= 1
    <3>1. turn[q[k]].pc \in Busy BY <1>1, <2>3, Chaining
    <3>2. k = 1 BY <2>1, <2>3, <3>1, FirstOfLine
    <3>3. QED BY <2>2, <2>3, <3>2
  <2> DEFINE p == Tail(q)
  <2>5. /\ p \in Seq(Messages) /\ Len(p) = Len(q) - 1
        /\ \A i \in 1 .. Len(p) : p[i] = q[i + 1] /\ i + 1 \in 1 .. Len(q) /\ i + 1 # 1
    BY <2>1, <2>4
  <2> HIDE DEF p
  <2>6. \A i \in 1 .. Len(p) : p[i] \in Messages \ {m}
    <3>1. ASSUME NEW i \in 1 .. Len(p) PROVE p[i] \in Messages \ {m}
      <4>1. p[i] = q[i + 1] /\ i + 1 \in 1 .. Len(q) /\ i + 1 # 1 BY <2>5
      <4>2. 1 \in 1 .. Len(q) BY <2>2, <2>4
      <4>3. q[i + 1] # q[1] BY <4>1, <4>2, <2>1 DEF IsLine
      <4>4. QED BY <4>1, <4>3, <2>2, <2>4
    <3>2. QED BY <3>1
  <2>7. ASSUME NEW n \in Messages
        PROVE  (ChatOf[n] = d /\ turn'[n].pc \in Chained) <=> \E i \in 1 .. Len(p) : p[i] = n
    <3>1. CASE n = m BY <3>1, <1>1, <2>6, Chaining
    <3>2. CASE n # m
      <4>1. (ChatOf[n] = d /\ turn'[n].pc \in Chained) <=> \E i \in 1 .. Len(q) : q[i] = n
        BY <3>2, <1>1, <2>1 DEF IsLine
      <4>2. ASSUME NEW i \in 1 .. Len(q), q[i] = n PROVE \E j \in 1 .. Len(p) : p[j] = n
        <5>1. i # 1 BY <4>2, <3>2, <2>4
        <5>2. i - 1 \in 1 .. Len(p) /\ (i - 1) + 1 = i BY <5>1, <2>2, <2>5
        <5>3. p[i - 1] = q[(i - 1) + 1] BY <5>2, <2>5
        <5>4. p[i - 1] = n BY <5>2, <5>3, <4>2
        <5>5. QED BY <5>2, <5>4
      <4>3. ASSUME NEW j \in 1 .. Len(p), p[j] = n PROVE \E i \in 1 .. Len(q) : q[i] = n
        BY <4>3, <2>5
      <4>4. QED BY <4>1, <4>2, <4>3
    <3>3. QED BY <3>1, <3>2
  <2>8. \A i, j \in 1 .. Len(p) : p[i] = p[j] => i = j
    <3>1. ASSUME NEW i \in 1 .. Len(p), NEW j \in 1 .. Len(p), p[i] = p[j] PROVE i = j
      <4>1. p[i] = q[i + 1] /\ i + 1 \in 1 .. Len(q) BY <2>5
      <4>2. p[j] = q[j + 1] /\ j + 1 \in 1 .. Len(q) BY <2>5
      <4>3. q[i + 1] = q[j + 1] BY <3>1, <4>1, <4>2
      <4>4. i + 1 = j + 1 BY <4>1, <4>2, <4>3, <2>1 DEF IsLine
      <4>5. QED BY <4>4
    <3>2. QED BY <3>1
  <2>9. ASSUME NEW i \in 2 .. Len(p)
        PROVE  turn'[p[i]].pc = "queued" /\ turn'[p[i]].after = p[i - 1]
    <3>1. i \in 1 .. Len(p) /\ i - 1 \in 1 .. Len(p) /\ i + 1 \in 2 .. Len(q)
          /\ (i - 1) + 1 = i /\ (i + 1) - 1 = i
      BY <2>2, <2>5
    <3>2. p[i] = q[i + 1] /\ p[i - 1] = q[(i - 1) + 1] BY <3>1, <2>5
    <3>3. turn[q[i + 1]].pc = "queued" /\ turn[q[i + 1]].after = q[(i + 1) - 1]
      BY <3>1, <2>1 DEF IsLine
    <3>4. turn'[p[i]] = turn[p[i]] BY <3>1, <2>6, <1>1
    <3>5. QED BY <3>1, <3>2, <3>3, <3>4
  <2>10. ASSUME p # <<>> PROVE tail'[d] = p[Len(p)]
    <3>1. Len(p) \in Nat /\ Len(p) >= 1 BY <2>5, <2>10
    <3>2. Len(p) \in 1 .. Len(p) /\ Len(p) + 1 = Len(q) BY <3>1, <2>2, <2>5
    <3>3. p[Len(p)] = q[Len(q)] BY <3>2, <2>5
    <3>4. ChatOf[p[Len(p)]] = d /\ turn[p[Len(p)]].pc \in Life
      <4>1. p[Len(p)] = q[Len(p) + 1] /\ Len(p) + 1 \in 1 .. Len(q) BY <3>2, <2>5
      <4>2. ChatOf[p[Len(p)]] = d /\ turn[p[Len(p)]].pc \in Chained
        BY <4>1, <2>1, <2>2 DEF IsLine
      <4>3. QED BY <4>2 DEF Life, Chained
    <3>5. depth[d] # 1 BY <1>3, <3>2, <3>4, <2>6
    <3>6. tail' = tail BY <3>5, <1>2
    <3>7. QED BY <3>3, <3>6, <2>1, <2>4 DEF IsLine
  <2>11. ASSUME NEW n \in Messages, ChatOf[n] = d, turn'[n].pc = "noting"
         PROVE  turn'[n].after = tail'[d]
    <3>1. n # m BY <2>11, <1>1
    <3>2. turn'[n] = turn[n] BY <3>1, <1>1
    <3>3. turn[n].pc \in Life BY <2>11, <3>2 DEF Life
    <3>4. depth[d] # 1 BY <1>3, <2>11, <3>1, <3>3
    <3>5. tail' = tail BY <3>4, <1>2
    <3>6. QED BY <2>11, <3>2, <3>5, <2>1 DEF IsLine
  <2>12. IsLine(d, p)' BY <2>5, <2>7, <2>8, <2>9, <2>10, <2>11 DEF IsLine
  <2>13. QED BY <2>5, <2>12
<1>6. QED BY <1>4, <1>5 DEF InLine

LEMMA ProceedsInLine ==
  ASSUME Base, Counted, InLine, NEW m \in Messages, Proceeds(m) \/ TimesOut(m) PROVE InLine'
<1> USE DEF Base
<1>w. ASSUME tail' = tail,
             \A n \in Messages : \/ turn'[n] = turn[n]
                                 \/ (turn[n].pc \in Busy \/ Ready(n)) /\ turn'[n].pc \in Busy
      PROVE  InLine'
  <2>1. ASSUME NEW c \in Chats PROVE \E q \in Seq(Messages) : IsLine(c, q)'
    <3>1. PICK q \in Seq(Messages) : IsLine(c, q) BY DEF InLine
    <3>2. IsLine(c, q)' BY <1>w, <3>1, LineWorks
    <3>3. QED BY <3>2
  <2>2. QED BY <2>1 DEF InLine
<1>1. CASE Cancel(m)
  BY <1>1, <1>w, CancelMoves, Chaining DEF Cancel, Moved
<1>2. CASE Acquire(m)
  BY <1>2, <1>w, AcquireMoves, Chaining DEF Acquire, Moved
<1>3. CASE Resume(m)
  BY <1>3, <1>w, ResumeMoves, Chaining DEF Resume, Moved
<1>4. CASE \/ PassGate(m) \/ WantToWrite(m) \/ Register(m) \/ Write(m) \/ Forgo(m)
           \/ TimesOut(m)
  <2>1. /\ turn[m].pc \in Busy /\ turn'[m].pc \in Busy
        /\ \A n \in Messages \ {m} : turn'[n] = turn[n]
    BY <1>4, PassMoves, WantMoves, RegisterMoves, WriteMoves, ForgoMoves, TimesOutMoves, Chaining DEF Moved
  <2>2. tail' = tail BY <1>4 DEF PassGate, WantToWrite, Register, Write, Forgo, TimesOut, Others
  <2>3. QED BY <2>1, <2>2, <1>w
<1>5. CASE AskingFails(m)
  BY <1>5, <1>w, AskingFailsMoves, Chaining DEF AskingFails, Moved
<1>6. CASE Release(m)
  <2>1. \A n \in Messages : \/ turn'[n] = turn[n]
                            \/ turn[n].pc \in Busy /\ turn'[n].pc \in Busy
    BY <1>6, ReleaseMoves, Chaining
  <2>2. tail' = tail BY <1>6 DEF Release
  <2>3. QED BY <2>1, <2>2, <1>w
<1>7. CASE Leave(m) BY <1>7, LeaveInLine
<1>8. QED BY <1>1, <1>2, <1>3, <1>4, <1>5, <1>6, <1>7 DEF Proceeds

\* A queue without turns.
LEMMA NoLine ==
  ASSUME NEW c \in Chats, \A m \in Messages : turn[m].pc = "none" PROVE IsLine(c, <<>>)
<1>1. <<>> \in Seq(Messages) /\ Len(<<>>) = 0 OBVIOUS
<1>2. 1 .. 0 = {} /\ 2 .. 0 = {} OBVIOUS
<1>3. \A m \in Messages : turn[m].pc \notin Chained /\ turn[m].pc # "noting" BY Chaining
<1>4. QED BY <1>1, <1>2, <1>3 DEF IsLine

LEMMA InitInLine == Init => InLine
<1> SUFFICES ASSUME Init PROVE InLine OBVIOUS
<1>1. \A m \in Messages : turn[m].pc = "none" BY DEF Init, NoTurn
<1>2. \A c \in Chats : IsLine(c, <<>>) BY <1>1, NoLine
<1>3. <<>> \in Seq(Messages) OBVIOUS
<1>4. QED BY <1>2, <1>3 DEF InLine

LEMMA NextInLine == ASSUME Base, Counted, InLine, [Next]_vars PROVE InLine'
<1>1. CASE \E l \in Where : Receives(l) BY <1>1, ReceivesInLine
<1>2. CASE \E m \in Messages : Proceeds(m) \/ TimesOut(m) BY <1>2, ProceedsInLine
<1>3. ASSUME UNCHANGED <<turn, tail>> PROVE InLine' BY <1>3 DEF InLine, IsLine
<1>4. CASE \E m \in Messages : Arrive(m) BY <1>3, <1>4 DEF Arrive
<1>5. CASE \E c \in Chats : Expire(c) \/ Decide(c) BY <1>3, <1>5 DEF Expire, Decide, Others
<1>6. CASE Persist BY <1>3, <1>6 DEF Persist
<1>7. CASE Restart
  <2>1. \A m \in Messages : turn'[m].pc = "none" BY <1>7 DEF Restart, NoTurn
  <2>2. <<>> \in Seq(Messages) /\ Len(<<>>) = 0 /\ 1 .. 0 = {} /\ 2 .. 0 = {} OBVIOUS
  <2>3. \A m \in Messages : turn'[m].pc \notin Chained /\ turn'[m].pc # "noting"
    BY <2>1, Chaining
  <2>4. \A c \in Chats : IsLine(c, <<>>)' BY <2>2, <2>3 DEF IsLine
  <2>5. QED BY <2>2, <2>4 DEF InLine
<1>8. CASE UNCHANGED vars BY <1>3, <1>8 DEF vars
<1>9. QED BY <1>1, <1>2, <1>4, <1>5, <1>6, <1>7, <1>8 DEF Next, Where

\* Two turns of a chat are not busy at once.
LEMMA LinesAreOrdered == InLine => OneTurnPerChat
<1> SUFFICES ASSUME InLine, NEW m \in Messages, NEW n \in Messages, ChatOf[m] = ChatOf[n],
                    turn[m].pc \in Busy, turn[n].pc \in Busy
             PROVE  m = n
  BY DEF OneTurnPerChat
<1>1. ChatOf[m] \in Chats BY RobotAssumption
<1>2. PICK q \in Seq(Messages) : IsLine(ChatOf[m], q) BY <1>1 DEF InLine
<1>3. PICK i \in 1 .. Len(q) : q[i] = m BY <1>2, Chaining DEF IsLine
<1>4. PICK j \in 1 .. Len(q) : q[j] = n BY <1>2, Chaining DEF IsLine
<1>5. i = 1 /\ j = 1 BY <1>2, <1>3, <1>4, FirstOfLine
<1>6. QED BY <1>3, <1>4, <1>5


----------------------------------------------------------------------------
\* The theorems.

LEMMA InitActed == Init => ActedOnce
BY DEF Init, ActedOnce

\* All of it together is inductive: who may act needs what the lanes hold, and
\* the line of a chat needs the counter that says when its queue is forgotten.
IInv == Base /\ ActedOnce /\ Counted /\ Owned /\ Passed /\ InLine

LEMMA Inductive == Spec => []IInv
<1>1. Init => IInv
  BY InitBase, InitActed, InitCounted, InitOwned, InitPassed, InitInLine DEF IInv
<1>2. IInv /\ [Next]_vars => IInv'
  BY NextBase, NextActed, NextCounted, NextOwned, NextPassed, NextInLine DEF IInv
<1>3. QED BY <1>1, <1>2, PTL DEF Spec

\* Every variable holds a value of its kind: what the robot counts never falls
\* below zero (release and the end of a turn, robot-core.ts).
THEOREM RobotTypeCorrect == Spec => []TypeOK
<1>1. ASSUME IInv PROVE TypeOK
  <2>1. /\ Kinds /\ Counted BY <1>1 DEF IInv, Base
  <2>2. IsFiniteSet(Messages) BY RobotAssumption
  <2>3. /\ InSlot \in SUBSET Messages /\ Queued \in SUBSET Messages
        /\ \A c \in Chats : InQueue(c) \in SUBSET Messages
    BY DEF InSlot, Queued, InQueue
  <2>4. /\ Cardinality(InSlot) \in Nat /\ Cardinality(Queued) \in Nat
        /\ \A c \in Chats : Cardinality(InQueue(c)) \in Nat
    BY <2>2, <2>3, FS_Subset, FS_CardinalityType
  <2>5. active \in Nat BY <2>1, <2>4 DEF Counted, CountersAreTrue
  <2>6. total \in Nat BY <2>1, <2>4 DEF Counted, Kinds
  <2>7. \A c \in Chats : depth[c] \in Nat
    BY <2>1, <2>4 DEF Counted, CountersAreTrue, Kinds
  <2>8. depth \in [Chats -> Nat] BY <2>1, <2>7 DEF Kinds
  <2>9. QED BY <2>1, <2>5, <2>6, <2>8 DEF TypeOK, Kinds, Where
<1>2. IInv => TypeOK BY <1>1
<1>3. QED BY <1>2, Inductive, PTL

\* A message acts once, turns of a chat never overlap, and the counters are true
\* (handleIncomingMessage, enqueueAgentTurn and acquireGlobalTurn of robot-core.ts).
THEOREM AdmissionHolds == Spec => []Admission
<1>1. ASSUME IInv PROVE Admission
  <2>1. ActsOnce
    <3>1. \A m \in Messages : m \notin forgotten => acts[m] <= 1
      BY <1>1 DEF IInv, ActedOnce
    <3>2. \A m \in Messages : acts[m] \in Nat BY <1>1 DEF IInv, Base, Kinds
    <3>3. QED BY <3>1, <3>2 DEF ActsOnce
  <2>2. OneTurnPerChat BY <1>1, LinesAreOrdered DEF IInv
  <2>3. CountersAreTrue BY <1>1 DEF IInv, Counted
  <2>4. QED BY <2>1, <2>2, <2>3 DEF Admission
<1>2. IInv => Admission BY <1>1
<1>3. QED BY <1>2, Inductive, PTL

\* What is written was approved by the settings page or by a yes from the chat of
\* the turn that writes (RobotConfirmationBridge, resolvePending), unless the gate
\* asks nobody about it: the memory in a kernel whose tools were built so, and
\* documents (build-robot-kernel-tool-registry.ts, workbench-tool-adapter.ts).
THEOREM WritesWereMeant == Spec => WritesAreMeant
<1>1. IInv /\ [Next]_vars => [\A m \in Messages : Write(m) => MayWrite(m)]_vars
  <2>1. IInv => \A m \in Messages : Write(m) => MayWrite(m) BY WriteMeant DEF IInv
  <2>2. QED BY <2>1
<1>2. QED BY <1>1, Inductive, PTL DEF Spec, WritesAreMeant
=============================================================================

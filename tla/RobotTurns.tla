------------------------------ MODULE RobotTurns ------------------------------
(***************************************************************************)
(* The chat robot (robot-core.ts): messages of a chat are checked one by   *)
(* one in the order they arrive, and those that are for the agent become   *)
(* turns, one at a time in a chat and a limited number at a time in all.   *)
(* A turn that wants to write asks its chat first and waits; an answer     *)
(* must overtake the messages that wait, so while a request is pending     *)
(* answers have a lane of their own.                                       *)
(*                                                                         *)
(* Everything is in the memory of the kernel but the marks of the messages *)
(* that were processed, which are saved behind them (kernel-dedup.ts).     *)
(* Replies the robot sends change nothing here and are left out, and with  *)
(* them the commands that are only replied to.                             *)
(***************************************************************************)
EXTENDS Naturals, Sequences, FiniteSets

CONSTANTS
  Chats,          \* provider, account, chat and sender
  Messages,       \* messages, by dedupKey
  ChatOf,         \* of a message
  Writings,       \* what the messages may say, all together
  Requests,       \* confirmation ids
  None,           \* no message, no request, nobody
  Admin,          \* the settings page, which may decide as well
  MaxIngress,     \* MAX_SESSION_INGRESS_DEPTH
  MaxAnswers,     \* MAX_CONFIRMATION_INGRESS_DEPTH
  MaxArrivals,    \* MAX_GLOBAL_INGRESS_DEPTH
  MaxDepth,       \* MAX_SESSION_TURN_DEPTH
  MaxTotal,       \* MAX_GLOBAL_TURN_DEPTH
  MaxTurns,       \* settings.maxConcurrentTurns
  EditsDocs,      \* robotToolPolicy allows siyuan_doc_edit, as it does not at first
  MaxMishaps,     \* bound: messages delivered again, and writes of the history or of
                  \* a confirmation that fail
  MaxRestarts     \* bound: restarts of the kernel

\* What a text is: an answer in words is a command as well, one in digits or
\* letters is not (parseRobotCommand, parseRobotConfirmationReply).
Yes == {"confirm", "1"}
No == {"cancel", "0"}
Commands == {"confirm", "cancel"}
Texts == Yes \cup No \cup {"talk"}

ASSUME RobotAssumption ==
  /\ IsFiniteSet(Messages)
  /\ ChatOf \in [Messages -> Chats] /\ Writings \subseteq [Messages -> Texts]
  /\ None \notin Messages \cup Requests \cup {Admin} /\ Admin \notin Messages
  /\ {MaxIngress, MaxAnswers, MaxArrivals, MaxDepth, MaxTotal,
      MaxMishaps, MaxRestarts} \subseteq Nat
  /\ MaxTurns \in Nat \ {0} /\ EditsDocs \in BOOLEAN

VARIABLES
  text,       \* what each message says
  lane,       \* ingressQueues and confirmationIngressQueues
  processed,  \* RobotDedupCache
  saved,      \* what of it is on file
  turn,       \* the agent turn of each message
  tail,       \* the last turn of each chat's queue
  depth, total,     \* queue.depth and totalTurnDepth
  active, waiters,  \* activeTurns and globalWaiters
  pending,    \* pendingByChat
  request,    \* requests: what the promise of each holds
  learns,     \* profile.autoLearn, as the tools of this kernel were built with it
  delivered, mishaps, restarts,
  acts,       \* history: how often a message had an effect
  forgotten,  \* history: messages whose mark was lost
  leaked      \* history: turns counted in depth that never were

counts == <<depth, total, active, waiters>>
given == <<text, learns, delivered, mishaps, restarts>>
vars == <<lane, processed, saved, turn, tail, counts, pending, request, given,
          acts, forgotten, leaked>>

Lanes == {"messages", "answers"}
Arrived == [msg : Messages, early : BOOLEAN, pc : {"new", "checked", "noting"}]
Turns == [pc : {"none", "noting", "queued", "waiting", "woken", "running", "storing",
                "asking", "allowed", "ending", "closing", "done"},
          after : Messages \cup {None}, request : Requests \cup {None}, late : BOOLEAN]
NoTurn == [pc |-> "none", after |-> None, request |-> None, late |-> FALSE]
\* Rejected and expired make no difference but to the words of the reply, and
\* an approval is used up once.
Answers == [stage : {"new", "storing", "asked", "approved", "closed"},
            by : Messages \cup {None, Admin}]   \* history: who approved it
NoAnswer == [stage |-> "new", by |-> None]

\* Every variable holds a value of its kind.
TypeOK ==
  /\ text \in Writings /\ learns \in BOOLEAN
  /\ lane \in [Chats \X Lanes -> Seq(Arrived)]
  /\ {delivered, processed, saved, forgotten} \subseteq SUBSET Messages
  /\ turn \in [Messages -> Turns] /\ tail \in [Chats -> Messages \cup {None}]
  /\ depth \in [Chats -> Nat] /\ leaked \in [Chats -> Nat]
  /\ {total, active} \subseteq Nat /\ waiters \in Seq(Messages)
  /\ pending \in [Chats -> Requests \cup {None}] /\ request \in [Requests -> Answers]
  /\ acts \in [Messages -> Nat]
  /\ {mishaps, restarts} \subseteq Nat

Init ==
  /\ text \in Writings /\ learns \in BOOLEAN
  /\ lane = [l \in Chats \X Lanes |-> <<>>] /\ processed = {} /\ saved = {}
  /\ turn = [m \in Messages |-> NoTurn] /\ tail = [c \in Chats |-> None]
  /\ depth = [c \in Chats |-> 0] /\ total = 0 /\ active = 0 /\ waiters = <<>>
  /\ pending = [c \in Chats |-> None] /\ request = [r \in Requests |-> NoAnswer]
  /\ delivered = {} /\ mishaps = 0 /\ restarts = 0
  /\ acts = [m \in Messages |-> 0] /\ forgotten = {} /\ leaked = [c \in Chats |-> 0]

Mishap == mishaps < MaxMishaps /\ mishaps' = mishaps + 1
At(m, pc) == turn[m].pc = pc
GoTo(m, pc) == turn' = [turn EXCEPT ![m].pc = pc]

----------------------------------------------------------------------------
\* handleIncomingMessage

Full(l) ==
  IF l[2] = "answers" THEN Len(lane[l]) >= MaxAnswers
  ELSE \/ Len(lane[l]) >= MaxIngress
       \/ Cardinality(UNION {{<<c, i>> : i \in DOMAIN lane[<<c, "messages">>]} : c \in Chats})
            >= MaxArrivals

Arrive(m) ==
  LET c == ChatOf[m]
      early == pending[c] # None
      l == <<c, IF early /\ text[m] # "talk" THEN "answers" ELSE "messages">>
  IN /\ IF m \in delivered THEN Mishap ELSE UNCHANGED mishaps
     /\ delivered' = delivered \cup {m}
     /\ lane' = IF Full(l) THEN lane
                ELSE [lane EXCEPT ![l] = Append(@, [msg |-> m, early |-> early, pc |-> "new"])]
     /\ UNCHANGED <<processed, saved, turn, tail, counts, pending, request, text, learns,
                    restarts, acts, forgotten, leaked>>

\* processIncomingMessage, the head of a lane
HeadIs(l, pc) == lane[l] # <<>> /\ Head(lane[l]).pc = pc
Msg(l) == Head(lane[l]).msg
Drop(l) == lane' = [lane EXCEPT ![l] = Tail(@)]
Stays(l, pc) == lane' = [lane EXCEPT ![l][1].pc = pc]

\* The mark is set with the lookup, before anything is awaited.
\* Faulty variant: it is set later, with the effect.
MarkedLater(m) == processed
Marked(m) == processed \cup {m}
LookUp(l) ==
  /\ HeadIs(l, "new")
  /\ IF Msg(l) \in processed THEN Drop(l) /\ UNCHANGED processed
     ELSE Stays(l, "checked") /\ processed' = Marked(Msg(l))
  /\ UNCHANGED <<saved, turn, tail, counts, pending, request, given, acts, forgotten, leaked>>

\* resolvePending: the promise holds the outcome, and the chat waits no more.
Resolve(c, new) ==
  /\ request' = [request EXCEPT ![pending[c]] = new]
  /\ pending' = [pending EXCEPT ![c] = None]
ApprovedBy(who) == [NoAnswer EXCEPT !.stage = "approved", !.by = who]
Closed == [NoAnswer EXCEPT !.stage = "closed"]

Acts(m) == acts' = [acts EXCEPT ![m] = @ + 1]

\* A message is an answer, is refused because an answer is awaited, is a
\* command, or is for the agent.
Answer(l) ==
  /\ HeadIs(l, "checked") /\ pending[l[1]] # None
  /\ \/ text[Msg(l)] \in Yes /\ Resolve(l[1], ApprovedBy(Msg(l)))
     \/ text[Msg(l)] \in No /\ Resolve(l[1], Closed)
  /\ Acts(Msg(l)) /\ Drop(l)
  /\ UNCHANGED <<processed, saved, turn, tail, counts, given, forgotten, leaked>>

ForAgent(l) ==
  pending[l[1]] = None /\ ~Head(lane[l]).early /\ text[Msg(l)] \notin Commands
QueueFull(c) == depth[c] >= MaxDepth \/ total >= MaxTotal
Refuse(l) ==
  /\ HeadIs(l, "checked")
  /\ IF ForAgent(l) THEN QueueFull(l[1])
     ELSE pending[l[1]] = None \/ text[Msg(l)] = "talk"
  /\ Drop(l)
  /\ UNCHANGED <<processed, saved, turn, tail, counts, pending, request, given, acts,
                 forgotten, leaked>>

\* enqueueAgentTurn: the turn is counted, then noted in the history, then chained
\* behind the turn that was the last one when it was counted.
Count(l) ==
  /\ HeadIs(l, "checked") /\ ForAgent(l) /\ ~QueueFull(l[1])
  /\ depth' = [depth EXCEPT ![l[1]] = @ + 1] /\ total' = total + 1
  /\ turn' = [turn EXCEPT ![Msg(l)] = [NoTurn EXCEPT !.pc = "noting", !.after = tail[l[1]]]]
  /\ Stays(l, "noting") /\ Acts(Msg(l))
  /\ UNCHANGED <<processed, saved, tail, active, waiters, pending, request, given, forgotten, leaked>>
Chain(l) ==
  /\ HeadIs(l, "noting")
  /\ GoTo(Msg(l), "queued") /\ tail' = [tail EXCEPT ![l[1]] = Msg(l)] /\ Drop(l)
  /\ UNCHANGED <<processed, saved, counts, pending, request, given, acts, forgotten, leaked>>
\* A turn that cannot be noted stays counted.
NotingFails(l) ==
  /\ HeadIs(l, "noting") /\ Mishap
  /\ turn' = [turn EXCEPT ![Msg(l)] = [NoTurn EXCEPT !.pc = "done"]] /\ Drop(l)
  /\ leaked' = [leaked EXCEPT ![l[1]] = @ + 1]
  /\ UNCHANGED <<processed, saved, tail, counts, pending, request, text, learns, delivered,
                 restarts, acts, forgotten>>

----------------------------------------------------------------------------
\* A turn

Unchained(m, pc) == turn' = [turn EXCEPT ![m].pc = pc, ![m].after = None]
Ready(m) == At(m, "queued") /\ (turn[m].after # None => At(turn[m].after, "done"))

\* It waited too long, or membership is gone: it has no slot to give back.
\* Faulty variant: it leaves as a turn does that has one.
CancelledInside(m) == Unchained(m, "ending")
Cancelled(m) == Unchained(m, "closing")
Cancel(m) ==
  /\ Ready(m) /\ Cancelled(m)
  /\ UNCHANGED <<lane, processed, saved, tail, counts, pending, request, given, acts, forgotten, leaked>>

\* acquireGlobalTurn
Acquire(m) ==
  /\ Ready(m)
  /\ IF active >= MaxTurns
     THEN Unchained(m, "waiting") /\ waiters' = Append(waiters, m) /\ UNCHANGED active
     ELSE Unchained(m, "running") /\ active' = active + 1 /\ UNCHANGED waiters
  /\ UNCHANGED <<lane, processed, saved, tail, depth, total, pending, request, given, acts,
                 forgotten, leaked>>
\* One that was woken does not look again: another one may have come before it.
Resume(m) ==
  /\ At(m, "woken") /\ GoTo(m, "running") /\ active' = active + 1
  /\ UNCHANGED <<lane, processed, saved, tail, depth, total, waiters, pending, request, given,
                 acts, forgotten, leaked>>

Others == <<lane, processed, saved, tail, counts, given, acts, forgotten, leaked>>
Loop == {"running", "storing", "asking", "allowed"}

\* The gate asks nobody about the memory (remember, update and forget), when the
\* kernel started while the agent was to learn by itself: whether it still is to, only
\* remember looks at, and gives up for what the user did not ask for.  Nor does it
\* about documents: the editor confirms for itself, and in the kernel always does.
AsksNobody == learns \/ EditsDocs
PassGate(m) ==
  /\ At(m, "running") /\ AsksNobody /\ GoTo(m, "allowed")
  /\ UNCHANGED <<Others, pending, request>>

\* It asks about everything else, and about the memory when the agent was not to
\* learn: RobotConfirmationBridge, requestConfirmation.
\* A request that is still pending in the chat is given up.
Fresh == {r \in Requests : request[r].stage = "new"}
WantToWrite(m) ==
  LET r == CHOOSE q \in Fresh : TRUE IN
  /\ At(m, "running") /\ Fresh # {}
  /\ turn' = [turn EXCEPT ![m].pc = "storing", ![m].request = r]
  /\ request' = [q \in Requests |-> IF q = r THEN [NoAnswer EXCEPT !.stage = "storing"]
                                   ELSE IF q = pending[ChatOf[m]] THEN Closed ELSE request[q]]
  /\ pending' = [pending EXCEPT ![ChatOf[m]] = None]
  /\ UNCHANGED Others
\* Registered before the prompt is sent: the answer may be quicker than the reply.
Register(m) ==
  /\ At(m, "storing") /\ GoTo(m, "asking")
  /\ request' = [request EXCEPT ![turn[m].request].stage = "asked"]
  /\ pending' = [pending EXCEPT ![ChatOf[m]] = turn[m].request]
  /\ UNCHANGED Others
\* Storing the request fails, or noting the prompt: then the request is still
\* pending although the turn is over.
AskingFails(m) ==
  /\ turn[m].pc \in {"storing", "asking"} /\ Mishap
  /\ turn' = [turn EXCEPT ![m] = [NoTurn EXCEPT !.pc = "ending"]]
  /\ request' = IF At(m, "storing") THEN [request EXCEPT ![turn[m].request] = Closed] ELSE request
  /\ UNCHANGED <<lane, processed, saved, tail, counts, text, learns, delivered, restarts, acts,
                 forgotten, leaked, pending>>

\* An allowed or approved tool writes, unless the turn was aborted meanwhile.
\* Faulty variant: any outcome will do.
AllowsResolved(r) == request[r].stage # "asked"
Allows(r) == request[r].stage = "approved"
Settled(m) ==
  IF At(m, "asking") THEN [request EXCEPT ![turn[m].request] = Closed] ELSE request
Write(m) ==
  /\ At(m, "allowed") \/ (At(m, "asking") /\ Allows(turn[m].request))
  /\ ~turn[m].late /\ request' = Settled(m)
  /\ turn' = [turn EXCEPT ![m].pc = "running", ![m].request = None]
  /\ UNCHANGED <<Others, pending>>
Forgo(m) ==
  /\ \/ At(m, "allowed") /\ turn[m].late
     \/ /\ At(m, "asking") /\ request[turn[m].request].stage # "asked"
        /\ ~Allows(turn[m].request) \/ turn[m].late
  /\ request' = Settled(m)
  /\ turn' = [turn EXCEPT ![m] = [NoTurn EXCEPT !.pc = IF turn[m].late THEN "ending" ELSE "running"]]
  /\ UNCHANGED <<Others, pending>>

\* The turn's budget of time is over: the loop ends when it looks next.
TimesOut(m) ==
  /\ turn' = IF At(m, "running") THEN [turn EXCEPT ![m].pc = "ending"]
             ELSE [turn EXCEPT ![m].late = TRUE]
  /\ turn[m].pc \in Loop /\ ~turn[m].late
  /\ UNCHANGED <<Others, pending, request>>

\* The agent has answered, or the turn broke: finishAgentTurn, then release.
\* Faulty variant: nobody is woken.
WokenNobody(m) == [turn EXCEPT ![m].pc = "closing"]
Woken(m) == IF waiters = <<>> THEN [turn EXCEPT ![m].pc = "closing"]
            ELSE [turn EXCEPT ![m].pc = "closing", ![Head(waiters)].pc = "woken"]
Release(m) ==
  /\ turn[m].pc \in {"running", "ending"} /\ turn' = Woken(m) /\ active' = active - 1
  /\ waiters' = IF waiters = <<>> THEN waiters ELSE Tail(waiters)
  /\ UNCHANGED <<lane, processed, saved, tail, depth, total, pending, request, given, acts,
                 forgotten, leaked>>

\* The end of a turn is noted, or noting it fails, and the queue is left.
Empty(c) == depth[c] = 1
Leave(m) ==
  LET c == ChatOf[m] IN
  /\ At(m, "closing") /\ turn' = [turn EXCEPT ![m] = [NoTurn EXCEPT !.pc = "done"]]
  /\ depth' = [depth EXCEPT ![c] = @ - 1] /\ total' = total - 1
  /\ tail' = IF Empty(c) THEN [tail EXCEPT ![c] = None] ELSE tail
  /\ UNCHANGED <<lane, processed, saved, active, waiters, pending, request, given, acts,
                 forgotten, leaked>>

----------------------------------------------------------------------------
\* Around it

\* The time of a request runs out.
Expire(c) ==
  /\ pending[c] # None /\ Resolve(c, Closed)
  /\ UNCHANGED <<Others, turn>>

\* approvePendingConfirmation, cancelPendingConfirmation
Decide(c) ==
  /\ pending[c] # None /\ \E new \in {ApprovedBy(Admin), Closed} : Resolve(c, new)
  /\ UNCHANGED <<Others, turn>>

\* KernelRobotDedup.persist writes all marks there are.
Persist ==
  /\ saved # processed /\ saved' = processed
  /\ UNCHANGED <<lane, processed, turn, tail, counts, pending, request, given, acts, forgotten, leaked>>

\* The kernel restarts: the marks on file are restored, stored requests deleted, and
\* the tools built anew.  The settings may have been changed since they were.
Restart ==
  /\ restarts < MaxRestarts /\ restarts' = restarts + 1
  /\ lane' = [l \in Chats \X Lanes |-> <<>>] /\ processed' = saved
  /\ turn' = [m \in Messages |-> NoTurn] /\ tail' = [c \in Chats |-> None]
  /\ depth' = [c \in Chats |-> 0] /\ total' = 0 /\ active' = 0 /\ waiters' = <<>>
  /\ pending' = [c \in Chats |-> None]
  /\ request' = [r \in Requests |-> IF request[r] = NoAnswer THEN NoAnswer ELSE Closed]
  /\ forgotten' = forgotten \cup (processed \ saved) /\ leaked' = [c \in Chats |-> 0]
  /\ learns' \in BOOLEAN
  /\ UNCHANGED <<saved, text, delivered, mishaps, acts>>

Receives(l) ==
  LookUp(l) \/ Answer(l) \/ Refuse(l) \/ Count(l) \/ Chain(l) \/ NotingFails(l)
Proceeds(m) ==
  \/ Cancel(m) \/ Acquire(m) \/ Resume(m) \/ PassGate(m) \/ WantToWrite(m)
  \/ Register(m) \/ AskingFails(m) \/ Write(m) \/ Forgo(m) \/ Release(m) \/ Leave(m)

Next ==
  \/ \E l \in Chats \X Lanes : Receives(l)
  \/ \E m \in Messages : Arrive(m) \/ Proceeds(m) \/ TimesOut(m)
  \/ \E c \in Chats : Expire(c) \/ Decide(c)
  \/ Persist \/ Restart

Spec == Init /\ [][Next]_vars

\* Promises settle, and timers fire: that of a turn's budget, and that of a request.
Fairness ==
  /\ \A c \in Chats : WF_vars(Receives(<<c, "messages">>))
  /\ \A m \in Messages : WF_vars(Proceeds(m))
  /\ WF_vars(\E m \in Messages : TimesOut(m))
  /\ \A c \in Chats : WF_vars(Expire(c))

FairSpec == Spec /\ Fairness

----------------------------------------------------------------------------
\* Correctness

\* What the gate asks about is written only if the settings page approved it, or a
\* yes that came from the chat of the turn that writes, after its request was
\* registered.  What is written without a request is the memory's, in a kernel that
\* started while the agent was to learn by itself, or a document's.
Meant(m, by) ==
  \/ by = Admin
  \/ by \in Messages /\ text[by] \in Yes /\ ChatOf[by] = ChatOf[m]
MayWrite(m) ==
  IF turn[m].request = None THEN AsksNobody ELSE Meant(m, request[turn[m].request].by)
WritesAreMeant == [][\A m \in Messages : Write(m) => MayWrite(m)]_vars

\* A message acts once, whatever the platform repeats and whichever lane its
\* copies are in, unless the kernel died before its mark was on file.  Two turns
\* of a chat never overlap, and the counters that admit turns are true: no slot
\* is idle while a turn waits for one.
ActsOnce == \A m \in Messages : acts[m] > 1 => m \in forgotten

Busy == {"waiting", "woken", "ending", "closing"} \cup Loop
OneTurnPerChat ==
  \A m, n \in Messages :
    m # n /\ ChatOf[m] = ChatOf[n] => turn[m].pc \notin Busy \/ turn[n].pc \notin Busy

InQueue(c) == {m \in Messages : ChatOf[m] = c /\ turn[m].pc \in Busy \cup {"noting", "queued"}}
InSlot == {m \in Messages : turn[m].pc \in Loop \cup {"ending"}}
AboutTo == {m \in Messages : At(m, "woken")}
CountersAreTrue ==
  /\ \A c \in Chats : depth[c] = Cardinality(InQueue(c)) + leaked[c]
  /\ active = Cardinality(InSlot)
  /\ waiters # <<>> => active + Cardinality(AboutTo) >= MaxTurns

Admission == ActsOnce /\ OneTurnPerChat /\ CountersAreTrue

\* Every turn comes to its end, so that time and again none is left: requests
\* expire, and slots are handed on.
TurnsEnd == []<>(\A m \in Messages : turn[m].pc \in {"none", "done"})
=============================================================================

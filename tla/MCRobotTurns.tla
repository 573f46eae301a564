----------------------------- MODULE MCRobotTurns -----------------------------
(* A small instance of RobotTurns for TLC: a question and an answer in one   *)
(* chat, a question in the other one.  The answer is a yes in digits, which   *)
(* may become a turn of its own, or a no in words, which may not.             *)
EXTENDS RobotTurns

CONSTANTS a, b, ask, answer, other

MCChatOf == [m \in Messages |-> IF m = other THEN b ELSE a]
MCWritings == {[m \in Messages |-> IF m = answer THEN t ELSE "talk"] : t \in {"1", "cancel"}}

\* The first kernel does not learn by itself, and one that does comes, where the
\* answer is a yes, by a restart at any point: also before anything has arrived.
MCInit == Init /\ ~learns
MCNext == Next /\ (learns' => text[answer] = "1")
MCSpec == MCInit /\ [][MCNext]_vars /\ Fairness
=============================================================================

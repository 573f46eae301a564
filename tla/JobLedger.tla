------------------------------ MODULE JobLedger ------------------------------
(***************************************************************************)
(* What the run ledger of one automation job promises, however many        *)
(* windows work on it and whenever they die: a run is entered, becomes the *)
(* active one, begins, and ends or is given up, once and for good; the job *)
(* has one active run at a time and takes no other until that one is over; *)
(* and an answer goes out only while its run is under way.                 *)
(***************************************************************************)
CONSTANTS RunIds, None

VARIABLES
  phase,   \* how far each run has come
  active,  \* the run that holds the job, or None
  told     \* runs whose answer went out

vars == <<phase, active, told>>

Over == {"ended", "lost"}

Init == phase = [r \in RunIds |-> "none"] /\ active = None /\ told = {}

Moves(r, to) == phase' = [phase EXCEPT ![r] = to] /\ UNCHANGED <<active, told>>

\* Nothing is entered while a run holds the job.
Enter(r) == phase[r] = "none" /\ active = None /\ Moves(r, "queued")

\* A run that was entered takes the job, unless the job was edited meanwhile.
Claim(r) ==
  /\ phase[r] = "queued" /\ active = None
  /\ active' = r /\ UNCHANGED <<phase, told>>

Begin(r) == active = r /\ phase[r] = "queued" /\ Moves(r, "running")

Tell(r) ==
  /\ active = r /\ phase[r] = "running"
  /\ told' = told \cup {r} /\ UNCHANGED <<phase, active>>

End(r) == active = r /\ phase[r] = "running" /\ Moves(r, "ended")

\* The window is gone; whether the answer went out nobody can say.
Lose(r) == active = r /\ phase[r] \in {"queued", "running"} /\ Moves(r, "lost")

\* The job is free again.
Leave ==
  /\ active # None /\ phase[active] \in Over
  /\ active' = None /\ UNCHANGED <<phase, told>>

Next ==
  \/ Leave
  \/ \E r \in RunIds :
       Enter(r) \/ Claim(r) \/ Begin(r) \/ Tell(r) \/ End(r) \/ Lose(r)

Spec == Init /\ [][Next]_vars
=============================================================================

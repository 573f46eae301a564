---------------------------- MODULE MCEntitlement ----------------------------
(* A small instance of Entitlement for TLC: an account with two licenses and  *)
(* one with none.                                                            *)
EXTENDS Entitlement

CONSTANTS a, b, a1, a2

MCOwner == [l \in Licenses |-> a]

\* The two licenses are alike until something is done with one of them: a1 is
\* the one in the file, if there is one, and a2 the one on offer.
MCInit == Init /\ file # a2 /\ offer[a] # a1

\* One change; or, on the desktop and if nothing fails, a click on the settings page
\* and the account that changes before the page asks for it again, or the file that
\* does while the page has a license removed that is another account's.  On mobile
\* the page redeems and removes only: what else it does is the same on the desktop.
Overtakes ==
  /\ ~mobile /\ check.step = "idle" /\ sync.step = "idle"
  /\ \/ user.step \in {"issued", "active", "cleared", "confirm"} /\ account' # account
     \/ user.step = "purging" /\ file' # file
MCNext ==
  /\ Next
  /\ edits' = MaxEdits => faults' = 0
  /\ edits' = MaxEdits /\ edits < MaxEdits => Overtakes
  /\ mobile => user'.step \notin {"recover", "refresh", "open"}
MCSpec == MCInit /\ [][MCNext]_vars /\ Fairness
=============================================================================

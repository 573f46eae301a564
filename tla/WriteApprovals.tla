---------------------------- MODULE WriteApprovals ----------------------------
(***************************************************************************)
(* What the write protection of the MCP service promises, whatever the     *)
(* service does inside: a write takes one approval of one call with it,    *)
(* while writing is permitted, and an approval that is gone stays gone.    *)
(***************************************************************************)
CONSTANTS Ids, Calls, NoCall

VARIABLES
  permitted,  \* writing is permitted
  grants,     \* what became of each confirmation id
  writing     \* the call that writes, or NoCall

vars == <<permitted, grants, writing>>

Unused == [stage |-> "new", call |-> NoCall]
Gone == [stage |-> "gone", call |-> NoCall]
Asked(call) == [stage |-> "asked", call |-> call]
Approved(call) == [stage |-> "approved", call |-> call]

Init == permitted = FALSE /\ grants = [id \in Ids |-> Unused] /\ writing = NoCall

Permit == permitted' = TRUE /\ UNCHANGED <<grants, writing>>

\* The permission takes every request with it, asked or approved.
Revoke ==
  /\ permitted' = FALSE
  /\ grants' = [id \in Ids |-> IF grants[id] = Unused THEN Unused ELSE Gone]
  /\ UNCHANGED writing

\* Requests lapse: refused, expired, used for another call.
Lapse(ids) ==
  /\ \A id \in ids : grants[id] # Unused
  /\ grants' = [id \in Ids |-> IF id \in ids THEN Gone ELSE grants[id]]
  /\ UNCHANGED <<permitted, writing>>

\* One request moves on, while others may lapse.
Moves(id, ids, grant) ==
  /\ permitted /\ id \notin ids /\ \A other \in ids : grants[other] # Unused
  /\ grants' = [other \in Ids |-> IF other = id THEN grant
                                  ELSE IF other \in ids THEN Gone ELSE grants[other]]
  /\ UNCHANGED permitted

Ask(id, call, ids) ==
  grants[id] = Unused /\ Moves(id, ids, Asked(call)) /\ UNCHANGED writing
Approve(id, call, ids) ==
  grants[id] = Asked(call) /\ Moves(id, ids, Approved(call)) /\ UNCHANGED writing
Write(id, call, ids) ==
  grants[id] = Approved(call) /\ Moves(id, ids, Gone) /\ writing = NoCall /\ writing' = call

EndWrite == writing' = NoCall /\ UNCHANGED <<permitted, grants>>

\* The service ends while it writes.
Stop == /\ permitted' = FALSE /\ writing' = NoCall
        /\ grants' = [id \in Ids |-> IF grants[id] = Unused THEN Unused ELSE Gone]

Next ==
  \/ Permit \/ Revoke \/ EndWrite \/ Stop
  \/ \E ids \in SUBSET Ids :
       \/ Lapse(ids)
       \/ \E id \in Ids, call \in Calls :
            Ask(id, call, ids) \/ Approve(id, call, ids) \/ Write(id, call, ids)

Spec == Init /\ [][Next]_vars
=============================================================================

------------------------------ MODULE MCRuleScan ------------------------------
(* A small instance of RuleScan for TLC: two windows, and the turn of the    *)
(* year between the two occurrences.  Bound: one window keeps its membership *)
(* throughout, the other one loses it and has it back at any time.           *)
EXTENDS RuleScan

CONSTANTS daily, once, w2

MCWindowOf == [c \in Callers |-> c]
MCScanner == [w \in Windows |-> w]
MCOccurs == [r \in Rules |-> IF r = once THEN {1} ELSE {0}]
MCEvents == {<<r, o>> : r \in Rules, o \in 0 .. 1}
MCYearOf == [e \in Events |-> e[2]]

MCInit == Init /\ Available(w2)
MCNext == Next /\ Available(w2)'
MCSpec == MCInit /\ [][MCNext]_vars /\ Fairness
=============================================================================

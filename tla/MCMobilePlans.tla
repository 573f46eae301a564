--------------------------- MODULE MCMobilePlans ---------------------------
(* Small instances of MobilePlans for TLC: two keys of two sources, payloads *)
(* due at different minutes.  Exchanging both keys together with their       *)
(* sources is the symmetry of the safety runs.                               *)
EXTENDS MobilePlans, TLC

CONSTANTS k1, k2, s1, s2, soon, late

MCSourceOf == [k \in Keys |-> IF k = k1 THEN s1 ELSE s2]
MCAt == [p \in Payloads |-> IF p = soon THEN 1 ELSE 4]
MCSwap == {(k1 :> k2) @@ (k2 :> k1) @@ (s1 :> s2) @@ (s2 :> s1)}
=============================================================================

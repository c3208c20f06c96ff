--------------------------- MODULE MCDelegations ---------------------------
(* The small instance of Delegations that TLC checks: one bot hands work   *)
(* twice to a second bot and once to a third, which hands work to the      *)
(* second as well.                                                         *)
EXTENDS DelegationsClaims, TLC

CONSTANTS a, b, c, d1, d2, d3, d4

From1 == (d1 :> a) @@ (d2 :> a) @@ (d3 :> c) @@ (d4 :> a)
To1 == (d1 :> b) @@ (d2 :> b) @@ (d3 :> b) @@ (d4 :> c)
============================================================================

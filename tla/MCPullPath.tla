------------------------------ MODULE MCPullPath ------------------------------
(* Two jobs of two users, one of a type with a short deadline and a converse. *)
EXTENDS PullPath, TLC

CONSTANTS j1, j2, u1, u2

MCTypeOf == (j1 :> "rank") @@ (j2 :> "converse")
MCUserOf == (j1 :> u1) @@ (j2 :> u2)
===============================================================================

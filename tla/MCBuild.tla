------------------------------- MODULE MCBuild -------------------------------
(* Build over a chain of three modules: c imports b, and b imports a.      *)
EXTENDS Build, TLC

CONSTANTS a, b, c

Chain      == (a :> {}) @@ (b :> {a}) @@ (c :> {b})
Private    == (a :> {}) @@ (b :> {}) @@ (c :> {})
Order      == (a :> 1) @@ (b :> 2) @@ (c :> 3)
=============================================================================

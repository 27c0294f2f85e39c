----------------------------- MODULE MCTaskPool -----------------------------
(* Two workers and a caller that schedules four functions, one of them with a *)
(* delay, in any order, on a ring of two slots.                               *)
EXTENDS TaskPool, TLC

CONSTANTS w1, w2, c1, x1, x2, x3, x4

MCWorkers   == {w1, w2}
MCCallers   == {c1}
MCFunctions == {x1, x2, x3, x4}
MCDelay     == x1 :> 2 @@ x2 :> 0 @@ x3 :> 0 @@ x4 :> 0
===============================================================================

---------------------------- MODULE MCWorkerSync ----------------------------
EXTENDS WorkerSync, TLC

CONSTANTS r1, r2, c1, c2

(* One rule changes its schedule, the other is only switched on and off.     *)
MCGiven == r1 :> {c1, c2} @@ r2 :> {c1}
=============================================================================

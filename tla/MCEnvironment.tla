---------------------------- MODULE MCEnvironment ----------------------------
(* Two requests that are told apart: TLC may not use the symmetry of a set *)
(* when it checks liveness.                                                *)
EXTENDS Environment

CONSTANTS r1, r2

MCRequests == {r1, r2}
=============================================================================

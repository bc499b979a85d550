--------------------------- MODULE MCServiceState ---------------------------
(* ServiceState with two callers and the fewest handles the assumption     *)
(* allows.                                                                 *)
EXTENDS ServiceState

CONSTANTS c1, c2, prep, h1, h2, h3, scenario, other, absent, torn, nil

MCCallers == {c1, c2}
MCHandles == {h1, h2, h3}
MCContents == {scenario, other}
=============================================================================

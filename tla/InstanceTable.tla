----------------------------- MODULE InstanceTable -----------------------------
(***************************************************************************)
(* What internal/state promises its callers: one table of instances by     *)
(* name, which every call changes in one step or not at all, whatever      *)
(* other processes do and wherever one is killed.                          *)
(***************************************************************************)
CONSTANTS
  Creators,    \* calls that add, each the container it made
  Destroyers,  \* calls that remove
  Names,
  None         \* no instance has the name

VARIABLES records, call

Calls == Creators \union Destroyers

Init ==
  /\ records = [n \in Names |-> None]
  /\ call = [p \in Calls |-> "open"]

Moves(p, from, to) == call[p] = from /\ call' = [call EXCEPT ![p] = to]

Apply(p) ==
  /\ Moves(p, "open", "applied")
  /\ \E n \in Names :
       records' = [records EXCEPT ![n] = IF p \in Creators THEN p ELSE None]

(* A call that fails has changed nothing, but for a destroy, which reports *)
(* the container of an engine it does not know after removing its record.  *)
Return(p) ==
  /\ \/ Moves(p, "applied", "done")
     \/ Moves(p, "open", "failed")
     \/ p \in Destroyers /\ Moves(p, "applied", "failed")
  /\ UNCHANGED records

Crash(p) ==
  /\ \E from \in {"open", "applied"} : Moves(p, from, "crashed")
  /\ UNCHANGED records

Next == \E p \in Calls : Apply(p) \/ Return(p) \/ Crash(p)

Spec == Init /\ [][Next]_<<records, call>>
=============================================================================

--------------------------- MODULE ResettableStore ---------------------------
(***************************************************************************)
(* What engine/http/state_manager.go promises about the database of one    *)
(* service, whatever files it uses to keep the promise: the state becomes  *)
(* available only as an exact copy of the scenario, changes only while it  *)
(* is available, and is never available again once the service is closed.  *)
(***************************************************************************)
CONSTANTS Contents,     \* what a database may hold
          Scenario,     \* what the scenario document loads into it
          Unavailable   \* no open database

VARIABLES store,        \* what a query would see
          closed        \* Close has returned

TypeOK ==
  /\ store \in Contents \union {Unavailable}
  /\ closed \in BOOLEAN

Init ==
  /\ store = Unavailable
  /\ closed = FALSE

(* Prepare, or a Reset, completes.                                         *)
Publish ==
  /\ ~closed
  /\ store = Unavailable
  /\ store' = Scenario
  /\ UNCHANGED closed

(* A request changes the live state.                                       *)
Mutate ==
  /\ store \in Contents
  /\ store' \in Contents
  /\ UNCHANGED closed

(* A Reset begins.                                                         *)
Withdraw ==
  /\ store' = Unavailable
  /\ UNCHANGED closed

Close ==
  /\ store' = Unavailable
  /\ closed' = TRUE

Next == Publish \/ Mutate \/ Withdraw \/ Close

Spec == Init /\ [][Next]_<<store, closed>>
=============================================================================

------------------------------- MODULE Sandbox -------------------------------
(***************************************************************************)
(* What "fab run" promises about an environment, whatever servers and      *)
(* goroutines it uses: it becomes available as a whole or not at all, its  *)
(* services stay up for as long as it is available, requests are taken     *)
(* only between the moment it is available and the moment it is gone, and  *)
(* nothing of it is left then.                                             *)
(***************************************************************************)
CONSTANTS Members,      \* the services of the environment
          Requests      \* what clients may ask

VARIABLES phase,        \* absent, assembling, available, dismantling or gone
          up,           \* the services that hold an open database
          taken         \* the requests a server has accepted

TypeOK ==
  /\ phase \in {"absent", "assembling", "available", "dismantling", "gone"}
  /\ up \subseteq Members
  /\ taken \subseteq Requests

Init ==
  /\ phase = "absent"
  /\ up = {}
  /\ taken = {}

Assemble ==
  /\ phase = "absent"
  /\ phase' = "assembling"
  /\ UNCHANGED <<up, taken>>

BringUp ==
  /\ phase = "assembling"
  /\ up' \subseteq Members /\ up \subseteq up'
  /\ UNCHANGED <<phase, taken>>

Publish ==
  /\ phase = "assembling"
  /\ up = Members
  /\ phase' = "available"
  /\ UNCHANGED <<up, taken>>

Take ==
  /\ phase \in {"available", "dismantling"}
  /\ \E r \in Requests : taken' = taken \union {r}
  /\ UNCHANGED <<phase, up>>

Dismantle ==
  /\ phase \in {"assembling", "available"}
  /\ phase' = "dismantling"
  /\ up' \subseteq up
  /\ UNCHANGED taken

TakeDown ==
  /\ phase = "dismantling"
  /\ up' \subseteq up
  /\ UNCHANGED <<phase, taken>>

Finish ==
  /\ phase \in {"absent", "dismantling"}
  /\ up = {}
  /\ phase' = "gone"
  /\ UNCHANGED <<up, taken>>

Next == Assemble \/ BringUp \/ Publish \/ Take \/ Dismantle \/ TakeDown \/ Finish

Spec == Init /\ [][Next]_<<phase, up, taken>>
=============================================================================

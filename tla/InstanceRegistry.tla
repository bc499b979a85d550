--------------------------- MODULE InstanceRegistry ---------------------------
(***************************************************************************)
(* The registry of container instances, internal/state, and the two        *)
(* commands that change it, create and destroy of cli/.  Each is a process *)
(* of its own.  It reads state.json without a lock to choose what to do,   *)
(* makes or removes containers, and then enters or removes a record in     *)
(* state.Update: under a lock of the file system it reads the file anew,   *)
(* writes a temporary file and renames it.  Any step may fail and any      *)
(* process may be killed between two steps, which releases its lock.       *)
(*                                                                         *)
(* A destroy of several names is one process per name here: its goroutines *)
(* share nothing but the snapshot, and the lock excludes them as well.     *)
(*                                                                         *)
(* What create makes depends on its target.  Docker gives each run a       *)
(* container of its own, which destroy removes by its id.  In a Kubernetes *)
(* cluster the name determines the objects: dnsLabel brings names to the   *)
(* same text that state.json tells apart, create updates what it finds     *)
(* under it, and destroy deletes whatever carries the labels of its        *)
(* record.  The deployment stands for all objects of an instance.          *)
(***************************************************************************)
CONSTANTS
  Creators,    \* runs of create; each stands for what it makes too
  Destroyers,  \* runs of destroy
  Unknown,     \* those whose container is of an engine this build does not know
  Clustered,   \* those with the Kubernetes target
  Names,
  Objects,     \* by create and name, the objects it writes in its cluster
  Labels,      \* by create and name, the labels it gives them there
  None,        \* no instance has the name
  Nobody,      \* the lock is free
  Torn,        \* a file that is partly written
  Absent       \* no file

ASSUME RegistryAssumption ==
  /\ Creators \intersect Destroyers = {}
  /\ Unknown \subseteq Creators
  /\ Clustered \subseteq Creators \ Unknown
  /\ None \notin Creators \union Names
  /\ Nobody \notin Creators \union Destroyers
  /\ Torn \notin [Names -> Creators \union {None}]
  /\ Absent \notin [Names -> Creators \union {None}]

Processes == Creators \union Destroyers

VARIABLES
  stage,    \* how far a process has come
  name,     \* of the instance it is about
  target,   \* the record a destroy found in its snapshot
  fresh,    \* the store that Update is about to save
  file,     \* state.json; a missing file is an empty store
  tmp,      \* state.json.tmp
  holder,   \* who holds the lock
  running,  \* of each container or deployment, the create that last wrote it
  down      \* processes that were killed

vars == <<stage, name, target, fresh, file, tmp, holder, running, down>>

(* Instances are unique by name and saved in its order.                    *)
Stores == [Names -> Creators \union {None}]

(* Where a process holds the lock.                                         *)
Holding == {"locked", "loaded", "writing", "written", "saved"}

TypeOK ==
  /\ stage \in [Processes ->
       {"start", "named", "cleared", "found", "ready", "done", "refused", "failed"} \union Holding]
  /\ name \in [Processes -> Names \union {None}]
  /\ target \in [Destroyers -> Creators \union {None}]
  /\ fresh \in [Processes -> Stores]
  /\ file \in Stores
  /\ tmp \in Stores \union {Torn, Absent}
  /\ holder \in Processes \union {Nobody}
  /\ running \subseteq Creators
  /\ down \subseteq Processes

Empty == [n \in Names |-> None]

Init ==
  /\ stage = [p \in Processes |-> "start"]
  /\ name = [p \in Processes |-> None]
  /\ target = [d \in Destroyers |-> None]
  /\ fresh = [p \in Processes |-> Empty]
  /\ file = Empty
  /\ tmp = Absent
  /\ holder = Nobody
  /\ running = {}
  /\ down = {}

Goes(p, from, to) ==
  /\ p \notin down /\ stage[p] = from
  /\ stage' = [stage EXCEPT ![p] = to]
  /\ UNCHANGED down

-----------------------------------------------------------------------------
(* What precedes the record.                                               *)

(* runCreate chooses a name its snapshot does not have, or is refused.     *)
ChooseName(c) ==
  /\ file # Torn
  /\ \E n \in Names :
       /\ IF file[n] = None THEN Goes(c, "start", "named") ELSE Goes(c, "start", "refused")
       /\ name' = [name EXCEPT ![c] = n]
  /\ UNCHANGED <<target, fresh, file, tmp, holder, running>>

(* Two creates that write the same thing.                                  *)
Same(c, d) ==
  \/ c = d
  \/ {c, d} \subseteq Clustered /\ Objects[c][name[c]] = Objects[d][name[d]]

Written(c) == {e \in running : Same(c, e)}

(* A container of its own, or the deployment of that name, made or updated.*)
Upsert(c) == running' = (running \ Written(c)) \union {c}

Provision(c) ==
  /\ \/ Goes(c, "named", "ready")
     \/ Goes(c, "cleared", "ready") /\ Written(c) = {}
  /\ Upsert(c)
  /\ UNCHANGED <<name, target, fresh, file, tmp, holder>>

(* upsertDeployment deletes the deployment that it may not update.         *)
Displace(c) ==
  /\ Goes(c, "named", "cleared")
  /\ Written(c) # {}
  /\ running' = running \ Written(c)
  /\ UNCHANGED <<name, target, fresh, file, tmp, holder>>

(* What failed to come up, or whose endpoint could not be had, may stay.   *)
ProvisionFails(c) ==
  /\ Goes(c, "named", "failed") \/ Goes(c, "cleared", "failed")
  /\ Upsert(c) \/ UNCHANGED running
  /\ UNCHANGED <<name, target, fresh, file, tmp, holder>>

(* destroyOne looks its name up in the snapshot of runDestroy.             *)
FindInstance(d) ==
  /\ file # Torn
  /\ \E n \in Names :
       /\ IF file[n] # None THEN Goes(d, "start", "found") ELSE Goes(d, "start", "refused")
       /\ name' = [name EXCEPT ![d] = n]
       /\ target' = [target EXCEPT ![d] = file[n]]
  /\ UNCHANGED <<fresh, file, tmp, holder, running>>

(* What the destroy of a record of c removes: its container by the id, or  *)
(* all of its cluster that carries its labels.                             *)
Selects(c, e) ==
  \/ c = e
  \/ {c, e} \subseteq Clustered /\ Labels[c][name[c]] = Labels[e][name[e]]

Remove(d) == running' = {e \in running : ~Selects(target[d], e)}

(* Mutant: a container that could not be removed is forgotten.             *)
DestroyIgnoresError(d) ==
  /\ Goes(d, "found", "ready")
  /\ Remove(d) \/ UNCHANGED running
  /\ UNCHANGED <<name, target, fresh, file, tmp, holder>>

(* What is gone already is no error; a container of an unknown engine is   *)
(* left alone.                                                             *)
Destroy(d) ==
  /\ Goes(d, "found", "ready")
  /\ IF target[d] \in Unknown THEN UNCHANGED running ELSE Remove(d)
  /\ UNCHANGED <<name, target, fresh, file, tmp, holder>>

DestroyFails(d) ==
  /\ Goes(d, "found", "failed")
  /\ target[d] \notin Unknown
  /\ Remove(d) \/ UNCHANGED running
  /\ UNCHANGED <<name, target, fresh, file, tmp, holder>>

-----------------------------------------------------------------------------
(* state.Update.                                                           *)

(* Mutant: a lock that does not exclude.                                   *)
LockShared(p) ==
  /\ Goes(p, "ready", "locked")
  /\ holder' = p
  /\ UNCHANGED <<name, target, fresh, file, tmp, running>>

Lock(p) ==
  /\ holder = Nobody
  /\ Goes(p, "ready", "locked")
  /\ holder' = p
  /\ UNCHANGED <<name, target, fresh, file, tmp, running>>

(* Store.Add by a create, Store.Remove by a destroy.                       *)
Applied(p, store) == [store EXCEPT ![name[p]] = IF p \in Creators THEN p ELSE None]

LoadFresh(p) ==
  /\ file # Torn
  /\ Goes(p, "locked", "loaded")
  /\ fresh' = [fresh EXCEPT ![p] = Applied(p, file)]
  /\ UNCHANGED <<name, target, file, tmp, holder, running>>

(* Mutant: the file itself is written.                                     *)
TruncateFile(p) ==
  /\ Goes(p, "loaded", "writing")
  /\ file' = Torn
  /\ UNCHANGED <<name, target, fresh, tmp, holder, running>>

(* os.WriteFile empties what a killed process may have left there.         *)
Truncate(p) ==
  /\ Goes(p, "loaded", "writing")
  /\ tmp' = Torn
  /\ UNCHANGED <<name, target, fresh, file, holder, running>>

Write(p) ==
  /\ Goes(p, "writing", "written")
  /\ tmp' = fresh[p]
  /\ UNCHANGED <<name, target, fresh, file, holder, running>>

Rename(p) ==
  /\ tmp # Absent
  /\ Goes(p, "written", "saved")
  /\ file' = tmp /\ tmp' = Absent
  /\ UNCHANGED <<name, target, fresh, holder, running>>

Unlock(p) ==
  /\ Goes(p, "saved", "done")
  /\ holder' = Nobody
  /\ UNCHANGED <<name, target, fresh, file, tmp, running>>

(* An error of any call before the file is renamed; the lock is released.  *)
Fail(p) ==
  /\ \/ Goes(p, "start", "refused")
     \/ \E from \in {"ready", "locked", "loaded", "writing", "written"} : Goes(p, from, "failed")
  /\ holder' = IF holder = p THEN Nobody ELSE holder
  /\ UNCHANGED <<name, target, fresh, file, tmp, running>>

Crash(p) ==
  /\ p \notin down /\ stage[p] \notin {"done", "refused", "failed"}
  /\ down' = down \union {p}
  /\ holder' = IF holder = p THEN Nobody ELSE holder
  /\ UNCHANGED <<stage, name, target, fresh, file, tmp, running>>

Next ==
  \/ \E c \in Creators : ChooseName(c) \/ Displace(c) \/ Provision(c) \/ ProvisionFails(c)
  \/ \E d \in Destroyers : FindInstance(d) \/ Destroy(d) \/ DestroyFails(d)
  \/ \E p \in Processes :
       \/ Lock(p) \/ LoadFresh(p) \/ Truncate(p) \/ Write(p) \/ Rename(p)
       \/ Unlock(p) \/ Fail(p) \/ Crash(p)

Spec == Init /\ [][Next]_vars

-----------------------------------------------------------------------------
(* Properties.                                                             *)

(* What a process has told its caller; a destroy that left a container     *)
(* running says so.                                                        *)
Outcome(p) ==
  IF p \in down THEN "crashed"
  ELSE IF stage[p] \in {"refused", "failed"} THEN "failed"
  ELSE IF stage[p] = "saved" THEN "applied"
  ELSE IF stage[p] = "done"
    THEN IF p \in Destroyers /\ target[p] \in Unknown THEN "failed" ELSE "done"
  ELSE "open"

Outcomes == [p \in Processes |-> Outcome(p)]

Table == INSTANCE InstanceTable WITH
  records <- file,
  call <- Outcomes

(* Concurrent updates lose nothing, as the package comment and the test    *)
(* TestConcurrentUpdatesLoseNothing ask: the file changes by the record of *)
(* one command at a time, of one that has not failed or been killed, and   *)
(* no destroyed record comes back.                                         *)
ImplementsTable == Table!Spec

HasSaved(p) == stage[p] \in {"saved", "done"}

(* A destroy has taken down, or tried to, what c wrote last.               *)
TakenDown(c) ==
  \E d \in Destroyers :
    /\ stage[d] \notin {"start", "found", "refused"}
    /\ target[d] \notin Unknown /\ Selects(target[d], c)

(* Another create has written over what c made.  Its objects are there, or *)
(* it has not brought them up, or they are taken down in their turn.       *)
WrittenOver(c) ==
  \E p \in Creators \ {c} :
    /\ name[p] # None /\ Same(p, c)
    /\ p \in running \/ stage[p] \in {"cleared", "failed"} \/ TakenDown(p)

(* The registry and what runs agree, but for a cause.  A record of which   *)
(* nothing is left is one that a destroy has taken down, of that record or *)
(* of one with its labels, or whose objects another create has written     *)
(* over.  What create has recorded and nobody removed is still in the      *)
(* registry, unless another create took its name at the same time, or a    *)
(* destroy removed the record: of an older instance by that name, or of an *)
(* engine it does not know.                                                *)
RecordsTellContainers ==
  \A c \in Creators :
    /\ (\E n \in Names : file[n] = c) /\ c \notin running => TakenDown(c) \/ WrittenOver(c)
    /\ HasSaved(c) /\ c \in running /\ file[name[c]] # c =>
         \E p \in Processes \ {c} :
           /\ HasSaved(p) /\ name[p] = name[c]
           /\ p \in Destroyers => target[p] # c \/ c \in Unknown
=============================================================================

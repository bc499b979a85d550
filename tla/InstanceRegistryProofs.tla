------------------------ MODULE InstanceRegistryProofs ------------------------
(***************************************************************************)
(* Proofs about InstanceRegistry, for any number of commands, containers   *)
(* and names.                                                              *)
(***************************************************************************)
EXTENDS InstanceRegistry, Naturals, TLAPS

-----------------------------------------------------------------------------
(* The inductive invariant.                                                *)

Past == {"ready", "done"} \union Holding

Mutex ==
  \A p \in Processes : holder = p <=> (p \notin down /\ stage[p] \in Holding)

Stages ==
  /\ \A c \in Creators : stage[c] # "found"
  /\ \A d \in Destroyers : stage[d] \notin {"named", "cleared"}
  /\ \A p \in Processes :
       stage[p] \in {"named", "cleared", "found", "failed"} \union Past => name[p] \in Names

(* Nobody but the holder changes the file, so what it loaded is current.   *)
Freshness ==
  \A p \in Processes : p \notin down =>
    /\ stage[p] \in {"loaded", "writing", "written"} => fresh[p] = Applied(p, file)
    /\ stage[p] = "written" => tmp = fresh[p]

Recorded ==
  \A c \in Creators, n \in Names : file[n] = c => HasSaved(c) /\ name[c] = n

Targets ==
  \A d \in Destroyers :
    /\ target[d] # None => HasSaved(target[d]) /\ name[target[d]] = name[d]
    /\ stage[d] \in {"found", "failed"} \union Past => target[d] # None
    /\ stage[d] \in Past => target[d] \in Unknown \/ target[d] \notin running

(* What create made runs, but for a cause, and it runs only if create made *)
(* it.                                                                     *)
Started ==
  \A c \in Creators :
    /\ stage[c] \in Past => c \in running \/ TakenDown(c) \/ WrittenOver(c)
    /\ c \in running => stage[c] \in Past \union {"failed"}

Untargeted ==
  \A p \in Processes : stage[p] = "start" =>
    name[p] = None /\ (p \in Destroyers => target[p] = None)

(* A record disappears only by another call for its name.                  *)
Kept ==
  \A c \in Creators : HasSaved(c) =>
    \/ file[name[c]] = c
    \/ \E p \in Processes \ {c} : HasSaved(p) /\ name[p] = name[c]

Inv ==
  /\ TypeOK /\ Mutex /\ Stages /\ Freshness
  /\ Recorded /\ Targets /\ Untargeted /\ Started /\ Kept

-----------------------------------------------------------------------------
LEMMA AppliedStays ==
  ASSUME NEW p \in Processes, name'[p] = name[p], file' = file
  PROVE  Applied(p, file)' = Applied(p, file)
  BY DEF Applied

(* While a process holds the lock, no other is between its own Lock and    *)
(* Unlock.                                                                 *)
LEMMA Alone ==
  ASSUME Inv, NEW p \in Processes, p \notin down, stage[p] \in Holding
  PROVE  \A q \in Processes \ {p} : q \in down \/ stage[q] \notin Holding
  BY DEF Inv, Mutex

(* What is renamed is the file with the change of the one that renames.    *)
LEMMA RenameApplies ==
  ASSUME Inv, NEW p \in Processes, Rename(p)
  PROVE  /\ name[p] \in Names
         /\ file' = [file EXCEPT ![name[p]] = IF p \in Creators THEN p ELSE None]
<1>1. p \notin down /\ stage[p] = "written" /\ file' = tmp
  BY DEF Rename, Goes
<1>2. tmp = Applied(p, file) /\ name[p] \in Names
  BY <1>1 DEF Inv, Freshness, Stages, Past, Holding
<1> QED
  BY <1>1, <1>2 DEF Applied

(* What a step never takes back.                                           *)
Onward ==
  /\ \A p \in Processes : name[p] # None => name'[p] = name[p]
  /\ \A d \in Destroyers : stage[d] \notin {"start", "found", "refused"} =>
       stage'[d] \notin {"start", "found", "refused"} /\ target'[d] = target[d]
  /\ \A c \in Creators :
       /\ stage[c] \in Past \union {"failed"} => stage'[c] \in Past \union {"failed"}
       /\ stage[c] = "failed" => stage'[c] = "failed"
       /\ stage[c] = "cleared" => c \in running' \/ stage'[c] \in {"cleared", "failed"}

LEMMA SameStays ==
  ASSUME Inv, Onward, NEW c \in Creators, NEW e \in Creators, name[c] # None, name[e] # None
  PROVE  /\ Same(c, e)' <=> Same(c, e)
         /\ Selects(c, e)' <=> Selects(c, e)
  BY DEF Onward, Same, Selects, Processes

LEMMA TakenDownStays ==
  ASSUME Inv, Onward, NEW c \in Creators, name[c] # None, TakenDown(c)
  PROVE  TakenDown(c)'
<1>1. PICK d \in Destroyers :
        /\ stage[d] \notin {"start", "found", "refused"}
        /\ target[d] \notin Unknown /\ Selects(target[d], c)
  BY DEF TakenDown
<1>2. stage[d] \in {"failed"} \union Past
  BY <1>1 DEF Inv, TypeOK, Stages, Past, Holding, Processes
<1>3. target[d] \in Creators /\ HasSaved(target[d])
  BY <1>2 DEF Inv, Targets, TypeOK
<1>4. name[target[d]] # None
  BY <1>3, RegistryAssumption DEF Inv, Stages, HasSaved, Past, Holding, Processes
<1>5. PICK t \in Creators : t = target[d]
  BY <1>3
<1>6. target'[d] = t /\ Selects(t, c)'
  BY <1>1, <1>4, <1>5, SameStays DEF Onward
<1>7. Selects(target[d], c)'
  BY <1>6 DEF Selects
<1> QED
  BY <1>1, <1>5, <1>6, <1>7 DEF TakenDown, Onward

(* What stops is taken down, or written over by a create that has not      *)
(* ended.                                                                  *)
Replaced(e) ==
  \/ TakenDown(e)'
  \/ \E q \in Creators :
       /\ stage[q] \notin Past /\ name[q] # None /\ Same(q, e)
       /\ q \in running' \/ stage'[q] \in {"cleared", "failed"}

LEMMA WrittenOverStays ==
  ASSUME Inv, Onward, \A e \in running \ running' : Replaced(e),
         NEW c \in Creators, stage[c] \in Past, WrittenOver(c)
  PROVE  WrittenOver(c)'
<1>1. PICK p \in Creators \ {c} :
        /\ name[p] # None /\ Same(p, c)
        /\ p \in running \/ stage[p] \in {"cleared", "failed"} \/ TakenDown(p)
  BY DEF WrittenOver
<1>2. name[c] # None
  BY RegistryAssumption DEF Inv, Stages, Processes
<1>3. name'[p] # None /\ Same(p, c)'
  BY <1>1, <1>2, SameStays DEF Onward, Processes
<1>4. CASE p \in running' \/ stage'[p] \in {"cleared", "failed"} \/ TakenDown(p)'
  BY <1>3, <1>4 DEF WrittenOver
<1>5. CASE p \in running \ running'
  <2>1. CASE TakenDown(p)'
    BY <1>4, <2>1
  <2>2. CASE ~TakenDown(p)'
    <3>1. PICK q \in Creators :
            /\ stage[q] \notin Past /\ name[q] # None /\ Same(q, p)
            /\ q \in running' \/ stage'[q] \in {"cleared", "failed"}
      BY <1>5, <2>2 DEF Replaced
    <3>2. q # c /\ Same(q, c)
      <4>1. q # c
        BY <3>1
      <4>2. /\ {p, c} \subseteq Clustered /\ Objects[p][name[p]] = Objects[c][name[c]]
            /\ q = p \/ ({q, p} \subseteq Clustered /\ Objects[q][name[q]] = Objects[p][name[p]])
        BY <1>1, <3>1 DEF Same
      <4>3. {q, c} \subseteq Clustered /\ Objects[q][name[q]] = Objects[c][name[c]]
        BY <4>2
      <4> QED
        BY <4>1, <4>3 DEF Same
    <3>3. name'[q] # None /\ Same(q, c)'
      BY <1>2, <3>1, <3>2, SameStays DEF Onward, Processes
    <3> QED
      BY <3>1, <3>2, <3>3 DEF WrittenOver
  <2> QED
    BY <2>1, <2>2
<1>6. CASE stage[p] \in {"cleared", "failed"}
  BY <1>4, <1>6 DEF Onward
<1>7. CASE TakenDown(p)
  BY <1>1, <1>4, <1>7, TakenDownStays
<1> QED
  BY <1>1, <1>4, <1>5, <1>6, <1>7

LEMMA StartedStays ==
  ASSUME Inv, Onward, \A e \in running \ running' : Replaced(e),
         \A c \in Creators : stage'[c] \in Past => stage[c] \in Past \/ c \in running',
         \A c \in running' \ running : stage'[c] \in Past \union {"failed"}
  PROVE  Started'
<1>1. ASSUME NEW c \in Creators, stage'[c] \in Past, c \notin running'
      PROVE  TakenDown(c)' \/ WrittenOver(c)'
  <2>1. stage[c] \in Past /\ name[c] # None
    BY <1>1, RegistryAssumption DEF Inv, Stages, Processes
  <2>2. CASE c \in running
    <3>1. CASE TakenDown(c)'
      BY <3>1
    <3>2. CASE ~TakenDown(c)'
      <4>1. PICK q \in Creators :
              /\ stage[q] \notin Past /\ name[q] # None /\ Same(q, c)
              /\ q \in running' \/ stage'[q] \in {"cleared", "failed"}
        BY <1>1, <2>2, <3>2 DEF Replaced
      <4>2. q # c /\ name'[q] # None /\ Same(q, c)'
        BY <2>1, <4>1, SameStays DEF Onward, Processes
      <4> QED
        BY <4>1, <4>2 DEF WrittenOver
    <3> QED
      BY <3>1, <3>2
  <2>3. CASE TakenDown(c)
    BY <2>1, <2>3, TakenDownStays
  <2>4. CASE WrittenOver(c)
    BY <2>1, <2>4, WrittenOverStays
  <2> QED
    BY <2>1, <2>2, <2>3, <2>4 DEF Inv, Started
<1>2. ASSUME NEW c \in Creators, c \in running'
      PROVE  stage'[c] \in Past \union {"failed"}
  BY <1>2 DEF Inv, Started, Onward
<1> QED
  BY <1>1, <1>2 DEF Started

(* A step that starts and stops nothing.                                   *)
LEMMA StartedUnmoved ==
  ASSUME Inv, Onward, running' = running,
         \A c \in Creators : stage'[c] \in Past => stage[c] \in Past
  PROVE  Started'
  BY StartedStays

LEMMA ChooseNameStep ==
  ASSUME Inv, NEW c \in Creators, ChooseName(c)
  PROVE  Inv'
<1>1. TypeOK'
  BY DEF Inv, TypeOK, ChooseName, Goes
<1>2. Mutex'
  BY DEF Inv, TypeOK, Mutex, ChooseName, Goes, Holding, Past, HasSaved
<1>3. Stages'
  BY RegistryAssumption DEF Inv, TypeOK, Stages, ChooseName, Goes, Holding, Past, HasSaved, Mutex, Processes
<1>4. Freshness'
  <2>1. \A q \in Processes : q \notin down' /\ stage'[q] \in {"loaded", "writing", "written"} =>
          q \notin down /\ stage'[q] = stage[q] /\ name'[q] = name[q]
    BY DEF Inv, TypeOK, ChooseName, Goes, Processes
  <2>2. \A q \in Processes : name'[q] = name[q] => Applied(q, file)' = Applied(q, file)
    BY AppliedStays DEF ChooseName
  <2> QED
    BY <2>1, <2>2 DEF Inv, Freshness, ChooseName
<1>5. Recorded'
  BY RegistryAssumption DEF Inv, TypeOK, Recorded, ChooseName, Goes, Holding, Past, HasSaved, Stages, Mutex, Processes
<1>6. Targets'
  BY RegistryAssumption DEF Inv, TypeOK, Targets, ChooseName, Goes, Holding, Past, HasSaved, Stages, Mutex, Processes
<1>7. Untargeted'
  BY RegistryAssumption DEF Inv, TypeOK, Untargeted, ChooseName, Goes, Holding, Past, HasSaved, Stages, Mutex, Processes
<1>8. Started'
  <2>1. Onward
    BY RegistryAssumption DEF Inv, TypeOK, Onward, Past, Holding, Stages, Untargeted, Processes, Goes, ChooseName
  <2>2. running' = running /\ \A e \in Creators : stage'[e] \in Past => stage[e] \in Past
    BY RegistryAssumption DEF Inv, TypeOK, Past, Holding, Stages, Untargeted, Processes, Goes, ChooseName
  <2> QED
    BY <2>1, <2>2, StartedUnmoved
<1>9. Kept'
  BY RegistryAssumption DEF Inv, TypeOK, Kept, ChooseName, Goes, Holding, Past, HasSaved, Stages, Mutex, Processes
<1> QED
  BY <1>1, <1>2, <1>3, <1>4, <1>5, <1>6, <1>7, <1>8, <1>9 DEF Inv

LEMMA ProvisionStep ==
  ASSUME Inv, NEW c \in Creators, Provision(c)
  PROVE  Inv'
<1>0. /\ stage[c] \in {"named", "cleared"} /\ c \notin down
      /\ stage' = [stage EXCEPT ![c] = "ready"]
      /\ UNCHANGED <<name, target, fresh, file, tmp, holder, down>>
  BY DEF Provision, Goes
<1>1. TypeOK'
  BY <1>0 DEF Inv, TypeOK, Provision, Upsert
<1>2. Mutex'
  BY <1>0 DEF Inv, TypeOK, Mutex, Holding, Past, HasSaved
<1>3. Stages'
  BY <1>0 DEF Inv, TypeOK, Stages
<1>4. Freshness'
  BY <1>0 DEF Inv, Freshness, Applied
<1>5. Recorded'
  BY <1>0 DEF Inv, TypeOK, Recorded, Holding, Past, HasSaved
<1>6. Targets'
  BY <1>0, RegistryAssumption DEF Inv, TypeOK, Targets, Provision, Upsert, Holding, Past, HasSaved, Stages, Mutex, Processes
<1>7. Untargeted'
  BY <1>0 DEF Inv, TypeOK, Untargeted
<1>8. Started'
  <2>1. Onward
    BY RegistryAssumption DEF Inv, TypeOK, Onward, Past, Holding, Stages, Untargeted, Processes, Goes, Provision, Upsert
  <2>2. name[c] # None /\ stage[c] \notin Past /\ name' = name
    BY RegistryAssumption DEF Provision, Goes, Inv, Stages, Past, Holding, Processes
  <2>3. \A e \in running \ running' : Same(c, e)
    BY DEF Provision, Upsert, Written
  <2>4. c \in running' \/ stage'[c] \in {"cleared", "failed"}
    BY DEF Provision, Upsert, Goes, Inv, TypeOK, Processes
  <2>5. \A e \in running \ running' : Replaced(e)
    BY <2>2, <2>3, <2>4 DEF Replaced
  <2>6. \A e \in Creators : stage'[e] \in Past => stage[e] \in Past \/ e \in running'
    BY DEF Provision, Upsert, Goes, Inv, TypeOK, Past, Holding, Processes
  <2>7. \A e \in running' \ running : stage'[e] \in Past \union {"failed"}
    BY DEF Provision, Upsert, Goes, Inv, TypeOK, Past, Holding, Processes
  <2> QED
    BY <2>1, <2>5, <2>6, <2>7, StartedStays
<1>9. Kept'
  BY <1>0 DEF Inv, TypeOK, Kept, Holding, Past, HasSaved
<1> QED
  BY <1>1, <1>2, <1>3, <1>4, <1>5, <1>6, <1>7, <1>8, <1>9 DEF Inv

LEMMA DisplaceStep ==
  ASSUME Inv, NEW c \in Creators, Displace(c)
  PROVE  Inv'
<1>1. TypeOK'
  BY DEF Inv, TypeOK, Displace, Goes
<1>2. Mutex'
  BY DEF Inv, TypeOK, Mutex, Displace, Goes, Holding, Past, HasSaved
<1>3. Stages'
  BY DEF Inv, TypeOK, Stages, Displace, Goes
<1>4. Freshness'
  BY DEF Inv, Freshness, Displace, Goes, Applied
<1>5. Recorded'
  BY DEF Inv, TypeOK, Recorded, Displace, Goes, Holding, Past, HasSaved
<1>6. Targets'
  BY RegistryAssumption DEF Inv, TypeOK, Targets, Displace, Goes, Holding, Past, HasSaved, Stages, Processes
<1>7. Untargeted'
  BY DEF Inv, TypeOK, Untargeted, Displace, Goes
<1>8. Started'
  <2>1. Onward
    BY RegistryAssumption DEF Inv, TypeOK, Onward, Past, Holding, Stages, Untargeted, Processes, Goes, Displace
  <2>2. name[c] # None /\ stage[c] \notin Past /\ name' = name
    BY RegistryAssumption DEF Displace, Goes, Inv, Stages, Past, Holding, Processes
  <2>3. \A e \in running \ running' : Same(c, e)
    BY DEF Displace, Written
  <2>4. c \in running' \/ stage'[c] \in {"cleared", "failed"}
    BY DEF Displace, Goes, Inv, TypeOK, Processes
  <2>5. \A e \in running \ running' : Replaced(e)
    BY <2>2, <2>3, <2>4 DEF Replaced
  <2>6. \A e \in Creators : stage'[e] \in Past => stage[e] \in Past \/ e \in running'
    BY DEF Displace, Goes, Inv, TypeOK, Past, Holding, Processes
  <2>7. \A e \in running' \ running : stage'[e] \in Past \union {"failed"}
    BY DEF Displace, Goes, Inv, TypeOK, Past, Holding, Processes
  <2> QED
    BY <2>1, <2>5, <2>6, <2>7, StartedStays
<1>9. Kept'
  BY DEF Inv, TypeOK, Kept, Displace, Goes, Holding, Past, HasSaved
<1> QED
  BY <1>1, <1>2, <1>3, <1>4, <1>5, <1>6, <1>7, <1>8, <1>9 DEF Inv

LEMMA ProvisionFailsStep ==
  ASSUME Inv, NEW c \in Creators, ProvisionFails(c)
  PROVE  Inv'
<1>0. /\ stage[c] \in {"named", "cleared"} /\ c \notin down
      /\ stage' = [stage EXCEPT ![c] = "failed"]
      /\ UNCHANGED <<name, target, fresh, file, tmp, holder, down>>
  BY DEF ProvisionFails, Goes
<1>1. TypeOK'
  BY <1>0 DEF Inv, TypeOK, ProvisionFails, Upsert
<1>2. Mutex'
  BY <1>0 DEF Inv, TypeOK, Mutex, Holding, Past, HasSaved
<1>3. Stages'
  BY <1>0 DEF Inv, TypeOK, Stages
<1>4. Freshness'
  BY <1>0 DEF Inv, Freshness, Applied
<1>5. Recorded'
  BY <1>0 DEF Inv, TypeOK, Recorded, Holding, Past, HasSaved
<1>6. Targets'
  BY <1>0, RegistryAssumption DEF Inv, TypeOK, Targets, ProvisionFails, Upsert, Holding, Past, HasSaved, Stages, Processes
<1>7. Untargeted'
  BY <1>0 DEF Inv, TypeOK, Untargeted
<1>8. Started'
  <2>1. Onward
    BY RegistryAssumption DEF Inv, TypeOK, Onward, Past, Holding, Stages, Untargeted, Processes, Goes, ProvisionFails, Upsert
  <2>2. name[c] # None /\ stage[c] \notin Past /\ name' = name
    BY RegistryAssumption DEF ProvisionFails, Goes, Inv, Stages, Past, Holding, Processes
  <2>3. \A e \in running \ running' : Same(c, e)
    BY DEF ProvisionFails, Upsert, Written
  <2>4. c \in running' \/ stage'[c] \in {"cleared", "failed"}
    BY DEF ProvisionFails, Upsert, Goes, Inv, TypeOK, Processes
  <2>5. \A e \in running \ running' : Replaced(e)
    BY <2>2, <2>3, <2>4 DEF Replaced
  <2>6. \A e \in Creators : stage'[e] \in Past => stage[e] \in Past \/ e \in running'
    BY DEF ProvisionFails, Upsert, Goes, Inv, TypeOK, Past, Holding, Processes
  <2>7. \A e \in running' \ running : stage'[e] \in Past \union {"failed"}
    BY DEF ProvisionFails, Upsert, Goes, Inv, TypeOK, Past, Holding, Processes
  <2> QED
    BY <2>1, <2>5, <2>6, <2>7, StartedStays
<1>9. Kept'
  BY <1>0 DEF Inv, TypeOK, Kept, Holding, Past, HasSaved
<1> QED
  BY <1>1, <1>2, <1>3, <1>4, <1>5, <1>6, <1>7, <1>8, <1>9 DEF Inv

LEMMA FindInstanceStep ==
  ASSUME Inv, NEW d \in Destroyers, FindInstance(d)
  PROVE  Inv'
<1>1. TypeOK'
  BY DEF Inv, TypeOK, FindInstance, Goes, Stores, Processes
<1>2. Mutex'
  BY DEF Inv, TypeOK, Mutex, FindInstance, Goes, Holding, Past, HasSaved
<1>3. Stages'
  BY RegistryAssumption DEF Inv, TypeOK, Stages, FindInstance, Goes, Holding, Past, HasSaved, Mutex, Processes
<1>4. Freshness'
  <2>1. \A q \in Processes : q \notin down' /\ stage'[q] \in {"loaded", "writing", "written"} =>
          q \notin down /\ stage'[q] = stage[q] /\ name'[q] = name[q]
    BY DEF Inv, TypeOK, FindInstance, Goes, Processes
  <2>2. \A q \in Processes : name'[q] = name[q] => Applied(q, file)' = Applied(q, file)
    BY AppliedStays DEF FindInstance
  <2> QED
    BY <2>1, <2>2 DEF Inv, Freshness, FindInstance
<1>5. Recorded'
  BY RegistryAssumption DEF Inv, TypeOK, Recorded, FindInstance, Goes, Holding, Past, HasSaved, Stages, Mutex, Processes
<1>6. Targets'
  BY DEF Inv, TypeOK, Targets, FindInstance, Goes, HasSaved, Holding, Past, Stores, Processes, Recorded
<1>7. Untargeted'
  BY RegistryAssumption DEF Inv, TypeOK, Untargeted, FindInstance, Goes, Holding, Past, HasSaved, Stages, Mutex, Processes
<1>8. Started'
  <2>1. Onward
    BY RegistryAssumption DEF Inv, TypeOK, Onward, Past, Holding, Stages, Untargeted, Processes, Goes, FindInstance
  <2>2. running' = running /\ \A c \in Creators : stage'[c] \in Past => stage[c] \in Past
    BY RegistryAssumption DEF Inv, TypeOK, Past, Holding, Stages, Untargeted, Processes, Goes, FindInstance
  <2> QED
    BY <2>1, <2>2, StartedUnmoved
<1>9. Kept'
  <2>1. \A q \in Processes : HasSaved(q)' <=> HasSaved(q)
    BY DEF FindInstance, Goes, Inv, TypeOK, HasSaved, Processes
  <2>2. \A q \in Processes : HasSaved(q) => name'[q] = name[q]
    BY DEF FindInstance, Goes, Inv, TypeOK, HasSaved, Processes
  <2> QED
    BY <2>1, <2>2 DEF FindInstance, Inv, Kept, Processes
<1> QED
  BY <1>1, <1>2, <1>3, <1>4, <1>5, <1>6, <1>7, <1>8, <1>9 DEF Inv

LEMMA DestroyStep ==
  ASSUME Inv, NEW d \in Destroyers, Destroy(d)
  PROVE  Inv'
<1>1. TypeOK'
  BY DEF Inv, TypeOK, Destroy, Remove, Goes
<1>2. Mutex'
  BY DEF Inv, TypeOK, Mutex, Destroy, Goes, Holding, Past, HasSaved
<1>3. Stages'
  BY DEF Inv, TypeOK, Stages, Destroy, Goes
<1>4. Freshness'
  BY DEF Inv, Freshness, Destroy, Goes, Applied
<1>5. Recorded'
  BY DEF Inv, TypeOK, Recorded, Destroy, Goes, Holding, Past, HasSaved
<1>6. Targets'
  <2>1. running' \subseteq running /\ (target[d] \notin Unknown => target[d] \notin running')
    BY DEF Destroy, Remove, Selects
  <2>2. /\ stage[d] = "found" /\ stage' = [stage EXCEPT ![d] = "ready"]
        /\ name' = name /\ target' = target
    BY DEF Destroy, Goes
  <2> QED
    BY <2>1, <2>2 DEF Inv, TypeOK, Targets, Past, Holding, HasSaved, Processes
<1>7. Untargeted'
  BY DEF Inv, TypeOK, Untargeted, Destroy, Goes
<1>8. Started'
  <2>1. Onward
    BY RegistryAssumption DEF Inv, TypeOK, Onward, Past, Holding, Stages, Untargeted, Processes, Goes, Destroy, Remove
  <2>2. target[d] \in Creators /\ HasSaved(target[d])
    BY DEF Destroy, Goes, Inv, TypeOK, Targets
  <2>3. /\ stage'[d] \notin {"start", "found", "refused"}
        /\ name' = name /\ target' = target
    BY DEF Destroy, Goes, Inv, TypeOK, Processes
  <2>4. ASSUME NEW e \in running \ running'
        PROVE  Replaced(e)
    <3>1. target[d] \notin Unknown /\ Selects(target[d], e)
      BY <2>4 DEF Destroy, Remove
    <3>2. Selects(target[d], e)'
      BY <2>3, <3>1 DEF Selects
    <3> QED
      BY <2>3, <3>1, <3>2 DEF Replaced, TakenDown
  <2>5. \A e \in Creators : stage'[e] \in Past => stage[e] \in Past
    BY RegistryAssumption DEF Destroy, Goes, Inv, TypeOK, Past, Holding, Processes
  <2>6. running' \subseteq running
    BY DEF Destroy, Remove
  <2> QED
    BY <2>1, <2>4, <2>5, <2>6, StartedStays
<1>9. Kept'
  BY DEF Inv, TypeOK, Kept, Destroy, Goes, Holding, Past, HasSaved
<1> QED
  BY <1>1, <1>2, <1>3, <1>4, <1>5, <1>6, <1>7, <1>8, <1>9 DEF Inv

LEMMA DestroyFailsStep ==
  ASSUME Inv, NEW d \in Destroyers, DestroyFails(d)
  PROVE  Inv'
<1>1. TypeOK'
  BY DEF Inv, TypeOK, DestroyFails, Remove, Goes
<1>2. Mutex'
  BY DEF Inv, TypeOK, Mutex, DestroyFails, Goes, Holding, Past, HasSaved
<1>3. Stages'
  BY DEF Inv, TypeOK, Stages, DestroyFails, Goes
<1>4. Freshness'
  BY DEF Inv, Freshness, DestroyFails, Goes, Applied
<1>5. Recorded'
  BY DEF Inv, TypeOK, Recorded, DestroyFails, Goes, Holding, Past, HasSaved
<1>6. Targets'
  BY RegistryAssumption DEF Inv, TypeOK, Targets, DestroyFails, Remove, Selects, Goes, Holding, Past, HasSaved, Stages, Processes
<1>7. Untargeted'
  BY DEF Inv, TypeOK, Untargeted, DestroyFails, Goes
<1>8. Started'
  <2>1. Onward
    BY RegistryAssumption DEF Inv, TypeOK, Onward, Past, Holding, Stages, Untargeted, Processes, Goes, DestroyFails, Remove
  <2>2. target[d] \in Creators /\ HasSaved(target[d])
    BY DEF DestroyFails, Goes, Inv, TypeOK, Targets
  <2>3. /\ stage'[d] \notin {"start", "found", "refused"}
        /\ name' = name /\ target' = target
    BY DEF DestroyFails, Goes, Inv, TypeOK, Processes
  <2>4. ASSUME NEW e \in running \ running'
        PROVE  Replaced(e)
    <3>1. target[d] \notin Unknown /\ Selects(target[d], e)
      BY <2>4 DEF DestroyFails, Remove
    <3>2. Selects(target[d], e)'
      BY <2>3, <3>1 DEF Selects
    <3> QED
      BY <2>3, <3>1, <3>2 DEF Replaced, TakenDown
  <2>5. \A e \in Creators : stage'[e] \in Past => stage[e] \in Past
    BY RegistryAssumption DEF DestroyFails, Goes, Inv, TypeOK, Past, Holding, Processes
  <2>6. running' \subseteq running
    BY DEF DestroyFails, Remove
  <2> QED
    BY <2>1, <2>4, <2>5, <2>6, StartedStays
<1>9. Kept'
  BY DEF Inv, TypeOK, Kept, DestroyFails, Goes, Holding, Past, HasSaved
<1> QED
  BY <1>1, <1>2, <1>3, <1>4, <1>5, <1>6, <1>7, <1>8, <1>9 DEF Inv

LEMMA LockStep ==
  ASSUME Inv, NEW p \in Processes, Lock(p)
  PROVE  Inv'
<1>1. TypeOK'
  BY DEF Inv, TypeOK, Lock, Goes, Holding, Past, HasSaved
<1>2. Mutex'
  BY RegistryAssumption DEF Inv, TypeOK, Mutex, Lock, Goes, Holding, Past, HasSaved, Stages, Processes
<1>3. Stages'
  BY DEF Inv, TypeOK, Stages, Lock, Goes, Holding, Past, HasSaved
<1>4. Freshness'
  BY RegistryAssumption DEF Inv, TypeOK, Freshness, Lock, Goes, Holding, Past, HasSaved, Stages, Mutex, Processes
<1>5. Recorded'
  BY DEF Inv, TypeOK, Recorded, Lock, Goes, Holding, Past, HasSaved
<1>6. Targets'
  BY DEF Inv, TypeOK, Targets, Lock, Goes, Holding, Past, HasSaved
<1>7. Untargeted'
  BY DEF Inv, TypeOK, Untargeted, Lock, Goes
<1>8. Started'
  <2>1. Onward
    BY RegistryAssumption DEF Inv, TypeOK, Onward, Past, Holding, Stages, Untargeted, Processes, Goes, Lock
  <2>2. running' = running /\ \A c \in Creators : stage'[c] \in Past => stage[c] \in Past
    BY RegistryAssumption DEF Inv, TypeOK, Past, Holding, Stages, Untargeted, Processes, Goes, Lock
  <2> QED
    BY <2>1, <2>2, StartedUnmoved
<1>9. Kept'
  BY DEF Inv, TypeOK, Kept, Lock, Goes, Holding, Past, HasSaved
<1> QED
  BY <1>1, <1>2, <1>3, <1>4, <1>5, <1>6, <1>7, <1>8, <1>9 DEF Inv

LEMMA LoadFreshStep ==
  ASSUME Inv, NEW p \in Processes, LoadFresh(p)
  PROVE  Inv'
<1>1. TypeOK'
  BY DEF Inv, TypeOK, LoadFresh, Goes, Applied, Holding, Stores
<1>2. Mutex'
  BY DEF Inv, TypeOK, Mutex, LoadFresh, Goes, Holding, Past, HasSaved
<1>3. Stages'
  BY DEF Inv, TypeOK, Stages, LoadFresh, Goes, Holding, Past, HasSaved
<1>4. Freshness'
  <2>1. stage[p] = "locked" /\ p \notin down /\ p \notin down' /\ stage' = [stage EXCEPT ![p] = "loaded"]
    BY DEF LoadFresh, Goes
  <2>2. \A q \in Processes \ {p} : q \in down' \/ stage'[q] \notin Holding
    BY <2>1, Alone DEF Holding, Inv, TypeOK, LoadFresh, Goes
  <2>3. fresh'[p] = Applied(p, file)' /\ stage'[p] = "loaded"
    BY <2>1, AppliedStays DEF LoadFresh, Inv, TypeOK
  <2> QED
    BY <2>2, <2>3 DEF Freshness, Holding
<1>5. Recorded'
  BY DEF Inv, TypeOK, Recorded, LoadFresh, Goes, Holding, Past, HasSaved
<1>6. Targets'
  BY DEF Inv, TypeOK, Targets, LoadFresh, Goes, Holding, Past, HasSaved
<1>7. Untargeted'
  BY DEF Inv, TypeOK, Untargeted, LoadFresh, Goes
<1>8. Started'
  <2>1. Onward
    BY RegistryAssumption DEF Inv, TypeOK, Onward, Past, Holding, Stages, Untargeted, Processes, Goes, LoadFresh
  <2>2. running' = running /\ \A c \in Creators : stage'[c] \in Past => stage[c] \in Past
    BY RegistryAssumption DEF Inv, TypeOK, Past, Holding, Stages, Untargeted, Processes, Goes, LoadFresh
  <2> QED
    BY <2>1, <2>2, StartedUnmoved
<1>9. Kept'
  BY DEF Inv, TypeOK, Kept, LoadFresh, Goes, Holding, Past, HasSaved
<1> QED
  BY <1>1, <1>2, <1>3, <1>4, <1>5, <1>6, <1>7, <1>8, <1>9 DEF Inv

LEMMA TruncateStep ==
  ASSUME Inv, NEW p \in Processes, Truncate(p)
  PROVE  Inv'
<1>1. TypeOK'
  BY DEF Inv, TypeOK, Truncate, Goes, Holding, Past, HasSaved
<1>2. Mutex'
  BY DEF Inv, TypeOK, Mutex, Truncate, Goes, Holding, Past, HasSaved
<1>3. Stages'
  BY DEF Inv, TypeOK, Stages, Truncate, Goes, Holding, Past, HasSaved
<1>4. Freshness'
  <2>1. stage[p] = "loaded" /\ p \notin down /\ p \notin down' /\ stage' = [stage EXCEPT ![p] = "writing"]
    BY DEF Truncate, Goes
  <2>2. \A q \in Processes \ {p} : q \in down' \/ stage'[q] \notin Holding
    BY <2>1, Alone DEF Holding, Inv, TypeOK, Truncate, Goes
  <2>3. fresh'[p] = Applied(p, file)' /\ stage'[p] = "writing"
    BY <2>1, AppliedStays DEF Truncate, Inv, TypeOK, Freshness
  <2> QED
    BY <2>2, <2>3 DEF Freshness, Holding
<1>5. Recorded'
  BY DEF Inv, TypeOK, Recorded, Truncate, Goes, Holding, Past, HasSaved
<1>6. Targets'
  BY DEF Inv, TypeOK, Targets, Truncate, Goes, Holding, Past, HasSaved
<1>7. Untargeted'
  BY DEF Inv, TypeOK, Untargeted, Truncate, Goes
<1>8. Started'
  <2>1. Onward
    BY RegistryAssumption DEF Inv, TypeOK, Onward, Past, Holding, Stages, Untargeted, Processes, Goes, Truncate
  <2>2. running' = running /\ \A c \in Creators : stage'[c] \in Past => stage[c] \in Past
    BY RegistryAssumption DEF Inv, TypeOK, Past, Holding, Stages, Untargeted, Processes, Goes, Truncate
  <2> QED
    BY <2>1, <2>2, StartedUnmoved
<1>9. Kept'
  BY DEF Inv, TypeOK, Kept, Truncate, Goes, Holding, Past, HasSaved
<1> QED
  BY <1>1, <1>2, <1>3, <1>4, <1>5, <1>6, <1>7, <1>8, <1>9 DEF Inv

LEMMA WriteStep ==
  ASSUME Inv, NEW p \in Processes, Write(p)
  PROVE  Inv'
<1>1. TypeOK'
  BY DEF Inv, TypeOK, Write, Goes, Holding, Past, HasSaved
<1>2. Mutex'
  BY DEF Inv, TypeOK, Mutex, Write, Goes, Holding, Past, HasSaved
<1>3. Stages'
  BY DEF Inv, TypeOK, Stages, Write, Goes, Holding, Past, HasSaved
<1>4. Freshness'
  <2>1. stage[p] = "writing" /\ p \notin down /\ p \notin down' /\ stage' = [stage EXCEPT ![p] = "written"]
    BY DEF Write, Goes
  <2>2. \A q \in Processes \ {p} : q \in down' \/ stage'[q] \notin Holding
    BY <2>1, Alone DEF Holding, Inv, TypeOK, Write, Goes
  <2>3. fresh'[p] = Applied(p, file)' /\ stage'[p] = "written" /\ tmp' = fresh'[p]
    BY <2>1, AppliedStays DEF Write, Inv, TypeOK, Freshness
  <2> QED
    BY <2>2, <2>3 DEF Freshness, Holding
<1>5. Recorded'
  BY DEF Inv, TypeOK, Recorded, Write, Goes, Holding, Past, HasSaved
<1>6. Targets'
  BY DEF Inv, TypeOK, Targets, Write, Goes, Holding, Past, HasSaved
<1>7. Untargeted'
  BY DEF Inv, TypeOK, Untargeted, Write, Goes
<1>8. Started'
  <2>1. Onward
    BY RegistryAssumption DEF Inv, TypeOK, Onward, Past, Holding, Stages, Untargeted, Processes, Goes, Write
  <2>2. running' = running /\ \A c \in Creators : stage'[c] \in Past => stage[c] \in Past
    BY RegistryAssumption DEF Inv, TypeOK, Past, Holding, Stages, Untargeted, Processes, Goes, Write
  <2> QED
    BY <2>1, <2>2, StartedUnmoved
<1>9. Kept'
  BY DEF Inv, TypeOK, Kept, Write, Goes, Holding, Past, HasSaved
<1> QED
  BY <1>1, <1>2, <1>3, <1>4, <1>5, <1>6, <1>7, <1>8, <1>9 DEF Inv

LEMMA RenameStep ==
  ASSUME Inv, NEW p \in Processes, Rename(p)
  PROVE  Inv'
<1>1. TypeOK'
  <2>1. /\ name[p] \in Names /\ file \in Stores
        /\ file' = [file EXCEPT ![name[p]] = IF p \in Creators THEN p ELSE None]
    BY RenameApplies DEF Inv, TypeOK
  <2>2. file' \in Stores
    BY <2>1 DEF Stores
  <2> QED
    BY <2>2 DEF Rename, Goes, Inv, TypeOK, Holding
<1>2. Mutex'
  BY DEF Inv, TypeOK, Mutex, Rename, Goes, Holding, Past, HasSaved
<1>3. Stages'
  BY DEF Inv, TypeOK, Stages, Rename, Goes, Holding, Past, HasSaved
<1>4. Freshness'
  BY RegistryAssumption DEF Inv, TypeOK, Freshness, Rename, Goes, Holding, Past, HasSaved, Stages, Mutex, Processes
<1>5. Recorded'
  <2>1. /\ name[p] \in Names /\ file \in Stores
        /\ file' = [file EXCEPT ![name[p]] = IF p \in Creators THEN p ELSE None]
    BY RenameApplies DEF Inv, TypeOK
  <2>2. /\ stage' = [stage EXCEPT ![p] = "saved"] /\ name' = name
        /\ p \in DOMAIN stage
    BY DEF Rename, Goes, Inv, TypeOK
  <2>3. \A q \in Processes : HasSaved(q) => HasSaved(q)'
    BY <2>2 DEF HasSaved, Inv, TypeOK
  <2>4. HasSaved(p)'
    BY <2>2 DEF HasSaved
  <2>5. ASSUME NEW c \in Creators, NEW n \in Names, file'[n] = c
        PROVE  HasSaved(c)' /\ name'[c] = n
    <3>1. CASE n = name[p]
      BY <2>1, <2>2, <2>4, <2>5, <3>1, RegistryAssumption DEF Stores
    <3>2. CASE n # name[p]
      <4>1. file[n] = c
        BY <2>1, <2>5, <3>2 DEF Stores
      <4> QED
        BY <4>1, <2>2, <2>3 DEF Inv, Recorded, Processes
    <3> QED
      BY <3>1, <3>2
  <2> QED
    BY <2>5 DEF Recorded
<1>6. Targets'
  BY DEF Inv, TypeOK, Targets, Rename, Goes, Holding, Past, HasSaved
<1>7. Untargeted'
  BY DEF Inv, TypeOK, Untargeted, Rename, Goes
<1>8. Started'
  <2>1. Onward
    BY RegistryAssumption DEF Inv, TypeOK, Onward, Past, Holding, Stages, Untargeted, Processes, Goes, Rename
  <2>2. running' = running /\ \A c \in Creators : stage'[c] \in Past => stage[c] \in Past
    BY RegistryAssumption DEF Inv, TypeOK, Past, Holding, Stages, Untargeted, Processes, Goes, Rename
  <2> QED
    BY <2>1, <2>2, StartedUnmoved
<1>9. Kept'
  <2>1. /\ name[p] \in Names /\ file \in Stores
        /\ file' = [file EXCEPT ![name[p]] = IF p \in Creators THEN p ELSE None]
    BY RenameApplies DEF Inv, TypeOK
  <2>2. stage' = [stage EXCEPT ![p] = "saved"] /\ name' = name /\ p \in DOMAIN stage
    BY DEF Rename, Goes, Inv, TypeOK
  <2>3. \A q \in Processes : HasSaved(q)' <=> q = p \/ HasSaved(q)
    BY <2>2 DEF HasSaved, Inv, TypeOK
  <2>4. ASSUME NEW c \in Creators, HasSaved(c)'
        PROVE  \/ file'[name'[c]] = c
               \/ \E q \in Processes \ {c} : HasSaved(q)' /\ name'[q] = name'[c]
    <3>1. CASE c = p
      BY <2>1, <2>2, <3>1 DEF Stores
    <3>2. CASE c # p /\ name[c] = name[p]
      BY <2>2, <2>3, <3>2
    <3>3. CASE c # p /\ name[c] # name[p]
      <4>1. HasSaved(c) /\ file'[name[c]] = file[name[c]]
        BY <2>1, <2>3, <2>4, <3>3 DEF Stores, Processes, HasSaved, Inv, Stages, Past, Holding
      <4> QED
        BY <4>1, <2>2, <2>3 DEF Inv, Kept
    <3> QED
      BY <3>1, <3>2, <3>3
  <2> QED
    BY <2>4 DEF Kept
<1> QED
  BY <1>1, <1>2, <1>3, <1>4, <1>5, <1>6, <1>7, <1>8, <1>9 DEF Inv

LEMMA UnlockStep ==
  ASSUME Inv, NEW p \in Processes, Unlock(p)
  PROVE  Inv'
<1>1. TypeOK'
  BY DEF Inv, TypeOK, Unlock, Goes
<1>2. Mutex'
  BY RegistryAssumption DEF Inv, TypeOK, Mutex, Unlock, Goes, Holding, Past, HasSaved, Stages, Processes
<1>3. Stages'
  BY DEF Inv, TypeOK, Stages, Unlock, Goes, Holding, Past, HasSaved
<1>4. Freshness'
  BY RegistryAssumption DEF Inv, TypeOK, Freshness, Unlock, Goes, Holding, Past, HasSaved, Stages, Mutex, Processes
<1>5. Recorded'
  BY DEF Inv, TypeOK, Recorded, Unlock, Goes, Holding, Past, HasSaved
<1>6. Targets'
  BY DEF Inv, TypeOK, Targets, Unlock, Goes, Holding, Past, HasSaved
<1>7. Untargeted'
  BY DEF Inv, TypeOK, Untargeted, Unlock, Goes
<1>8. Started'
  <2>1. Onward
    BY RegistryAssumption DEF Inv, TypeOK, Onward, Past, Holding, Stages, Untargeted, Processes, Goes, Unlock
  <2>2. running' = running /\ \A c \in Creators : stage'[c] \in Past => stage[c] \in Past
    BY RegistryAssumption DEF Inv, TypeOK, Past, Holding, Stages, Untargeted, Processes, Goes, Unlock
  <2> QED
    BY <2>1, <2>2, StartedUnmoved
<1>9. Kept'
  BY DEF Inv, TypeOK, Kept, Unlock, Goes, Holding, Past, HasSaved
<1> QED
  BY <1>1, <1>2, <1>3, <1>4, <1>5, <1>6, <1>7, <1>8, <1>9 DEF Inv

LEMMA FailStep ==
  ASSUME Inv, NEW p \in Processes, Fail(p)
  PROVE  Inv'
<1>0. PICK to \in {"refused", "failed"} :
        /\ p \notin down /\ stage[p] # "saved"
        /\ IF to = "refused" THEN stage[p] = "start"
           ELSE stage[p] \in {"ready", "locked", "loaded", "writing", "written"}
        /\ stage' = [stage EXCEPT ![p] = to]
        /\ UNCHANGED <<name, target, fresh, file, tmp, running, down>>
  BY DEF Fail, Goes
<1>1. TypeOK'
  BY <1>0 DEF Inv, TypeOK, Fail
<1>2. Mutex'
  BY <1>0, RegistryAssumption DEF Inv, TypeOK, Mutex, Fail, Holding, Past, HasSaved, Stages, Processes
<1>3. Stages'
  BY <1>0 DEF Inv, TypeOK, Stages, Holding, Past, HasSaved
<1>4. Freshness'
  BY <1>0 DEF Inv, Freshness, Applied
<1>5. Recorded'
  BY <1>0 DEF Inv, TypeOK, Recorded, Holding, Past, HasSaved
<1>6. Targets'
  BY <1>0 DEF Inv, TypeOK, Targets, Holding, Past, HasSaved
<1>7. Untargeted'
  BY <1>0 DEF Inv, TypeOK, Untargeted
<1>8. Started'
  <2>1. Onward
    BY RegistryAssumption DEF Inv, TypeOK, Onward, Past, Holding, Stages, Untargeted, Processes, Goes, Fail
  <2>2. running' = running /\ \A c \in Creators : stage'[c] \in Past => stage[c] \in Past
    BY RegistryAssumption DEF Inv, TypeOK, Past, Holding, Stages, Untargeted, Processes, Goes, Fail
  <2> QED
    BY <2>1, <2>2, StartedUnmoved
<1>9. Kept'
  BY <1>0 DEF Inv, TypeOK, Kept, Holding, Past, HasSaved
<1> QED
  BY <1>1, <1>2, <1>3, <1>4, <1>5, <1>6, <1>7, <1>8, <1>9 DEF Inv

LEMMA CrashStep ==
  ASSUME Inv, NEW p \in Processes, Crash(p)
  PROVE  Inv'
<1>1. TypeOK'
  BY DEF Inv, TypeOK, Crash, Goes
<1>2. Mutex'
  BY RegistryAssumption DEF Inv, TypeOK, Mutex, Crash, Goes, Holding, Past, HasSaved, Stages, Processes
<1>3. Stages'
  BY DEF Inv, TypeOK, Stages, Crash, Goes
<1>4. Freshness'
  BY DEF Inv, Freshness, Crash, Applied
<1>5. Recorded'
  BY DEF Inv, TypeOK, Recorded, Crash, Goes, Holding, Past, HasSaved
<1>6. Targets'
  BY DEF Inv, TypeOK, Targets, Crash, Goes, Holding, Past, HasSaved
<1>7. Untargeted'
  BY DEF Inv, TypeOK, Untargeted, Crash, Goes
<1>8. Started'
  <2>1. Onward
    BY RegistryAssumption DEF Inv, TypeOK, Onward, Past, Holding, Stages, Untargeted, Processes, Crash
  <2>2. running' = running /\ \A c \in Creators : stage'[c] \in Past => stage[c] \in Past
    BY RegistryAssumption DEF Inv, TypeOK, Past, Holding, Stages, Untargeted, Processes, Crash
  <2> QED
    BY <2>1, <2>2, StartedUnmoved
<1>9. Kept'
  BY DEF Inv, TypeOK, Kept, Crash, Goes, Holding, Past, HasSaved
<1> QED
  BY <1>1, <1>2, <1>3, <1>4, <1>5, <1>6, <1>7, <1>8, <1>9 DEF Inv

-----------------------------------------------------------------------------
LEMMA InitInv == Init => Inv
<1> SUFFICES ASSUME Init PROVE Inv
  OBVIOUS
<1>1. file \in Stores /\ \A n \in Names : file[n] = None
  BY DEF Init, Empty, Stores
<1>2. TypeOK
  BY <1>1 DEF Init, TypeOK, Empty, Stores
<1>3. \A p \in Processes : stage[p] = "start"
  BY DEF Init
<1>4. Recorded
  BY <1>1, RegistryAssumption DEF Recorded
<1>5. Mutex /\ Stages /\ Freshness /\ Targets /\ Untargeted /\ Started /\ Kept
  BY <1>3, RegistryAssumption DEF Init, Processes, Holding, Past, HasSaved,
     Mutex, Stages, Freshness, Targets, Untargeted, Started, Kept
<1> QED
  BY <1>2, <1>4, <1>5 DEF Inv

LEMMA StepInv == Inv /\ [Next]_vars => Inv'
<1> SUFFICES ASSUME Inv, [Next]_vars PROVE Inv'
  OBVIOUS
<1>1. CASE \E c \in Creators : ChooseName(c) \/ Displace(c) \/ Provision(c) \/ ProvisionFails(c)
  BY <1>1, ChooseNameStep, DisplaceStep, ProvisionStep, ProvisionFailsStep
<1>2. CASE \E d \in Destroyers : FindInstance(d) \/ Destroy(d) \/ DestroyFails(d)
  BY <1>2, FindInstanceStep, DestroyStep, DestroyFailsStep
<1>3. CASE \E p \in Processes :
             \/ Lock(p) \/ LoadFresh(p) \/ Truncate(p) \/ Write(p) \/ Rename(p)
             \/ Unlock(p) \/ Fail(p) \/ Crash(p)
  BY <1>3, LockStep, LoadFreshStep, TruncateStep, WriteStep, RenameStep, UnlockStep,
     FailStep, CrashStep
<1>4. CASE UNCHANGED vars
  <2>1. Started'
    BY <1>4 DEF vars, Inv, Started, TakenDown, WrittenOver, Selects, Same
  <2>2. TypeOK' /\ Mutex' /\ Stages' /\ Untargeted' /\ Recorded' /\ Targets' /\ Kept'
    BY <1>4 DEF vars, Inv, TypeOK, Mutex, Stages, Recorded, Targets, Untargeted, Kept, HasSaved
  <2>3. Freshness'
    BY <1>4 DEF vars, Inv, Freshness, Applied
  <2> QED
    BY <2>1, <2>2, <2>3 DEF Inv
<1> QED
  BY <1>1, <1>2, <1>3, <1>4 DEF Next

LEMMA Invariance == Spec => []Inv
<1>1. Init => Inv
  BY InitInv
<1>2. Inv /\ [Next]_vars => Inv'
  BY StepInv
<1> QED
  BY <1>1, <1>2, PTL DEF Spec

-----------------------------------------------------------------------------
(* The types hold; in particular state.json is never seen half written.    *)
THEOREM TypeCorrect == Spec => []TypeOK
<1>1. Inv => TypeOK
  BY DEF Inv
<1> QED
  BY <1>1, Invariance, PTL

(* The registry and what runs differ only for a cause, whatever names the  *)
(* cluster takes for one and whatever labels it gives them.                *)
THEOREM RecordsAlwaysTellContainers == Spec => []RecordsTellContainers
<1>1. Inv => RecordsTellContainers
  <2> SUFFICES ASSUME Inv, NEW c \in Creators
               PROVE  /\ (\E n \in Names : file[n] = c) /\ c \notin running =>
                           TakenDown(c) \/ WrittenOver(c)
                      /\ HasSaved(c) /\ c \in running /\ file[name[c]] # c =>
                           \E p \in Processes \ {c} :
                             /\ HasSaved(p) /\ name[p] = name[c]
                             /\ p \in Destroyers => target[p] # c \/ c \in Unknown
    BY DEF RecordsTellContainers
  <2>1. (\E n \in Names : file[n] = c) /\ c \notin running =>
          TakenDown(c) \/ WrittenOver(c)
    BY DEF Inv, Recorded, Started, HasSaved, Past, Holding
  <2>2. \A d \in Destroyers : HasSaved(d) => target[d] \in Unknown \/ target[d] \notin running
    BY DEF Inv, Targets, HasSaved, Past, Holding
  <2>3. HasSaved(c) /\ file[name[c]] # c =>
          \E p \in Processes \ {c} : HasSaved(p) /\ name[p] = name[c]
    BY DEF Inv, Kept
  <2> QED
    BY <2>1, <2>2, <2>3
<1> QED
  BY <1>1, Invariance, PTL

-----------------------------------------------------------------------------
(* The lock.                                                               *)

(* Only a live process inside Update holds the lock, and what its next     *)
(* call reads is there.                                                    *)
HolderCanGoOn ==
  \A p \in Processes :
    /\ p \notin down /\ stage[p] \in Holding => holder = p
    /\ holder = p =>
         /\ p \notin down /\ stage[p] \in Holding
         /\ file # Torn
         /\ stage[p] = "written" => tmp # Absent /\ tmp # Torn

(* Two updates never overlap, no killed process keeps the lock, and the    *)
(* one that has it never finds state.json half written or its own          *)
(* temporary file gone.                                                    *)
THEOREM HolderCanGoOnHolds == Spec => []HolderCanGoOn
<1>1. ASSUME Inv, NEW p \in Processes, holder = p
      PROVE  /\ p \notin down /\ stage[p] \in Holding
             /\ file # Torn
             /\ stage[p] = "written" => tmp # Absent /\ tmp # Torn
  <2>1. p \notin down /\ stage[p] \in Holding
    BY <1>1 DEF Inv, Mutex
  <2>2. file # Torn
    BY <1>1, RegistryAssumption DEF Inv, TypeOK, Stores
  <2>3. stage[p] = "written" => tmp \in Stores
    BY <1>1, <2>1 DEF Inv, Freshness, TypeOK
  <2> QED
    BY <2>1, <2>2, <2>3, RegistryAssumption DEF Stores
<1>2. Inv => HolderCanGoOn
  BY <1>1 DEF HolderCanGoOn, Inv, Mutex
<1> QED
  BY <1>2, Invariance, PTL

(* How far a command is from its end.                                      *)
Ahead(p) ==
  CASE stage[p] = "start" -> 9 [] stage[p] = "named" -> 8
    [] stage[p] \in {"cleared", "found"} -> 7
    [] stage[p] = "ready" -> 6 [] stage[p] = "locked" -> 5
    [] stage[p] = "loaded" -> 4 [] stage[p] = "writing" -> 3
    [] stage[p] = "written" -> 2 [] stage[p] = "saved" -> 1
    [] OTHER -> 0

UpdatesAdvance ==
  [][\E p \in Processes :
       /\ \A q \in Processes \ {p} : Ahead(q)' = Ahead(q) /\ (q \in down' <=> q \in down)
       /\ \/ Ahead(p)' < Ahead(p) /\ p \notin down
          \/ Ahead(p)' = Ahead(p) /\ p \notin down /\ p \in down']_vars

LEMMA GoesAdvances ==
  ASSUME Inv, NEW p \in Processes, NEW from, NEW to, Goes(p, from, to),
         \/ from = "start" /\ to \in {"named", "found", "refused"}
         \/ from = "named" /\ to \in {"cleared", "ready", "failed"}
         \/ from \in {"cleared", "found"} /\ to \in {"ready", "failed"}
         \/ from = "ready" /\ to \in {"locked", "failed"}
         \/ from = "locked" /\ to \in {"loaded", "failed"}
         \/ from = "loaded" /\ to \in {"writing", "failed"}
         \/ from = "writing" /\ to \in {"written", "failed"}
         \/ from = "written" /\ to \in {"saved", "failed"}
         \/ from = "saved" /\ to = "done"
  PROVE  /\ \A q \in Processes \ {p} : Ahead(q)' = Ahead(q) /\ (q \in down' <=> q \in down)
         /\ Ahead(p)' < Ahead(p) /\ p \notin down
<1>1. /\ stage[p] = from /\ stage'[p] = to /\ p \notin down /\ down' = down
      /\ \A q \in Processes \ {p} : stage'[q] = stage[q]
  BY DEF Goes, Inv, TypeOK
<1>2. Ahead(p)' < Ahead(p)
  BY <1>1 DEF Ahead
<1> QED
  BY <1>1, <1>2 DEF Ahead

(* A command never turns back: each of its steps brings it nearer to its   *)
(* end, so that no command takes more than nine, whatever the others do,  *)
(* and each that gets the lock gives it up.                                *)
THEOREM UpdatesAdvanceHolds == Spec => UpdatesAdvance
<1> DEFINE Step(p) ==
      /\ \A q \in Processes \ {p} : Ahead(q)' = Ahead(q) /\ (q \in down' <=> q \in down)
      /\ \/ Ahead(p)' < Ahead(p) /\ p \notin down
         \/ Ahead(p)' = Ahead(p) /\ p \notin down /\ p \in down'
<1>0. Creators \subseteq Processes /\ Destroyers \subseteq Processes
  BY DEF Processes
<1>1. ASSUME Inv, NEW c \in Creators, ChooseName(c) PROVE Step(c)
  BY <1>0, <1>1, GoesAdvances DEF ChooseName
<1>2. ASSUME Inv, NEW c \in Creators, Displace(c) \/ Provision(c) \/ ProvisionFails(c)
      PROVE  Step(c)
  BY <1>0, <1>2, GoesAdvances DEF Displace, Provision, ProvisionFails
<1>3. ASSUME Inv, NEW d \in Destroyers, FindInstance(d) PROVE Step(d)
  BY <1>0, <1>3, GoesAdvances DEF FindInstance
<1>4. ASSUME Inv, NEW d \in Destroyers, Destroy(d) \/ DestroyFails(d) PROVE Step(d)
  BY <1>0, <1>4, GoesAdvances DEF Destroy, DestroyFails
<1>5. ASSUME Inv, NEW p \in Processes,
             Lock(p) \/ LoadFresh(p) \/ Truncate(p) \/ Write(p) \/ Rename(p) \/ Unlock(p)
      PROVE  Step(p)
  BY <1>5, GoesAdvances DEF Lock, LoadFresh, Truncate, Write, Rename, Unlock
<1>6. ASSUME Inv, NEW p \in Processes, Fail(p) PROVE Step(p)
  BY <1>6, GoesAdvances DEF Fail
<1>7. ASSUME Inv, NEW p \in Processes, Crash(p) PROVE Step(p)
  BY <1>7 DEF Crash, Ahead
<1> HIDE DEF Step
<1>8. ASSUME Inv, Next PROVE \E p \in Processes : Step(p)
  BY <1>0, <1>1, <1>2, <1>3, <1>4, <1>5, <1>6, <1>7, <1>8 DEF Next
<1>9. Inv /\ [Next]_vars => [\E p \in Processes : Step(p)]_vars
  BY <1>8
<1> QED
  BY <1>9, Invariance, PTL DEF Spec, UpdatesAdvance, Step

-----------------------------------------------------------------------------
(* The refinement.                                                         *)

LEMMA OutcomesMove ==
  ASSUME NEW p \in Processes,
         \A q \in Processes \ {p} : Outcome(q)' = Outcome(q)
  PROVE  Outcomes' = [Outcomes EXCEPT ![p] = Outcome(p)']
  BY DEF Outcomes

LEMMA OutcomesStay ==
  ASSUME \A q \in Processes : Outcome(q)' = Outcome(q)
  PROVE  Outcomes' = Outcomes
  BY DEF Outcomes

(* An outcome depends on the process alone.                                *)
Apart(p) ==
  /\ \A q \in Processes \ {p} : stage'[q] = stage[q] /\ (q \in down' <=> q \in down)
  /\ \A d \in Destroyers \ {p} : target'[d] = target[d]

LEMMA OutcomesApart ==
  ASSUME NEW p \in Processes, Apart(p)
  PROVE  \A q \in Processes \ {p} : Outcome(q)' = Outcome(q)
  BY DEF Apart, Outcome

LEMMA GoesApart ==
  ASSUME Inv, NEW p \in Processes, NEW from, NEW to, Goes(p, from, to), target' = target
  PROVE  Apart(p)
  BY DEF Inv, TypeOK, Goes, Apart

LEMMA Silent ==
  ASSUME NEW p \in Processes, Apart(p), file' = file, Outcome(p)' = Outcome(p)
  PROVE  UNCHANGED <<file, Outcomes>>
  BY OutcomesApart, OutcomesStay

LEMMA Moving ==
  ASSUME NEW p \in Processes, Apart(p), NEW from, NEW to, Outcome(p) = from, Outcome(p)' = to
  PROVE  Table!Moves(p, from, to)
  BY OutcomesApart, OutcomesMove DEF Table!Moves, Outcomes

LEMMA Failing ==
  ASSUME NEW p \in Processes, Apart(p), file' = file, Outcome(p) = "open", Outcome(p)' = "failed"
  PROVE  Table!Return(p)
  BY Moving DEF Table!Return

(* What happens before the file is renamed does not show in the table.     *)
Early == {"start", "named", "cleared", "found", "ready", "locked", "loaded", "writing", "written"}

LEMMA EarlyGoes ==
  ASSUME Inv, NEW p \in Processes, NEW from \in Early, NEW to \in Early \union {"refused", "failed"},
         Goes(p, from, to), Apart(p), file' = file
  PROVE  Table!Return(p) \/ UNCHANGED <<file, Outcomes>>
<1>1. /\ p \notin down /\ p \notin down' /\ stage[p] = from /\ stage'[p] = to
  BY DEF Goes, Inv, TypeOK
<1>2. Outcome(p) = "open"
  BY <1>1 DEF Outcome, Early
<1>3. CASE to \in Early
  BY <1>1, <1>2, <1>3, Silent DEF Outcome, Early
<1>4. CASE to \in {"refused", "failed"}
  BY <1>1, <1>2, <1>4, Failing DEF Outcome
<1> QED
  BY <1>3, <1>4

LEMMA RefinementStep ==
  ASSUME Inv, [Next]_vars
  PROVE  Table!Next \/ UNCHANGED <<file, Outcomes>>
<1> DEFINE silent == UNCHANGED <<file, Outcomes>>
<1>1. ASSUME NEW c \in Creators, ChooseName(c) \/ Displace(c) \/ Provision(c) \/ ProvisionFails(c)
      PROVE  Table!Return(c) \/ silent
  <2>1. /\ file' = file /\ target' = target
        /\ \E from \in Early, to \in Early \union {"refused", "failed"} : Goes(c, from, to)
    BY <1>1 DEF ChooseName, Displace, Provision, ProvisionFails, Early
  <2> QED
    BY <2>1, EarlyGoes, GoesApart DEF Processes
<1>2. ASSUME NEW d \in Destroyers, FindInstance(d) \/ Destroy(d) \/ DestroyFails(d)
      PROVE  Table!Return(d) \/ silent
  <2>1. /\ file' = file
        /\ \E from \in Early, to \in Early \union {"refused", "failed"} : Goes(d, from, to)
    BY <1>2 DEF FindInstance, Destroy, DestroyFails, Early
  <2>2. \A e \in Destroyers \ {d} : target'[e] = target[e]
    BY <1>2 DEF FindInstance, Destroy, DestroyFails, Inv, TypeOK
  <2>3. Apart(d)
    BY <2>1, <2>2 DEF Apart, Goes, Inv, TypeOK
  <2> QED
    BY <2>1, <2>3, EarlyGoes DEF Processes
<1>3. ASSUME NEW p \in Processes,
             Lock(p) \/ LoadFresh(p) \/ Truncate(p) \/ Write(p) \/ Fail(p)
      PROVE  Table!Return(p) \/ silent
  <2>1. /\ file' = file /\ target' = target
        /\ \E from \in Early, to \in Early \union {"refused", "failed"} : Goes(p, from, to)
    BY <1>3 DEF Lock, LoadFresh, Truncate, Write, Fail, Early
  <2> QED
    BY <2>1, EarlyGoes, GoesApart
<1>4. ASSUME NEW p \in Processes, Rename(p)
      PROVE  Table!Apply(p)
  <2>1. Apart(p)
    BY <1>4, GoesApart DEF Rename
  <2>2. Outcome(p) = "open" /\ Outcome(p)' = "applied"
    BY <1>4 DEF Rename, Goes, Inv, TypeOK, Outcome
  <2> QED
    BY <1>4, <2>1, <2>2, Moving, RenameApplies DEF Table!Apply
<1>5. ASSUME NEW p \in Processes, Unlock(p)
      PROVE  Table!Return(p)
  <2>1. Apart(p) /\ file' = file
    BY <1>5, GoesApart DEF Unlock
  <2>2. /\ Outcome(p) = "applied"
        /\ Outcome(p)' = "done" \/ (p \in Destroyers /\ Outcome(p)' = "failed")
    BY <1>5 DEF Unlock, Goes, Inv, TypeOK, Outcome
  <2> QED
    BY <2>1, <2>2, Moving DEF Table!Return
<1>6. ASSUME NEW p \in Processes, Crash(p)
      PROVE  Table!Crash(p)
  <2>1. Apart(p) /\ file' = file
    BY <1>6 DEF Crash, Apart
  <2>2. stage[p] \in Early \union {"saved"} /\ p \notin down /\ p \in down'
    BY <1>6 DEF Crash, Inv, TypeOK, Early, Holding
  <2>3. Outcome(p) \in {"open", "applied"} /\ Outcome(p)' = "crashed"
    BY <2>2 DEF Outcome, Early
  <2> QED
    BY <2>1, <2>3, Moving DEF Table!Crash
<1>7. CASE UNCHANGED vars
  BY <1>7, OutcomesStay DEF vars, Outcome
<1> QED
  BY <1>1, <1>2, <1>3, <1>4, <1>5, <1>6, <1>7 DEF Next, Table!Next, Table!Calls, Processes

(* The registry implements the abstract table: no update is lost, none is  *)
(* half done, and a killed process has changed one record or none.         *)
THEOREM Refinement == Spec => ImplementsTable
<1>1. Init => Table!Init
  <2> SUFFICES ASSUME Init PROVE Table!Init
    OBVIOUS
  <2>1. \A q \in Processes : Outcome(q) = "open"
    BY DEF Init, Outcome
  <2> QED
    BY <2>1 DEF Init, Empty, Outcomes, Table!Init, Table!Calls, Processes
<1>2. Inv /\ [Next]_vars => [Table!Next]_<<file, Outcomes>>
  BY RefinementStep
<1> QED
  BY <1>1, <1>2, Invariance, PTL DEF Spec, ImplementsTable, Table!Spec
=============================================================================

-------------------------- MODULE ServiceStateProofs --------------------------
(***************************************************************************)
(* Proofs about ServiceState, for any callers, handles and contents.       *)
(***************************************************************************)
EXTENDS ServiceState, TLAPS

(* Who runs where: s.mu is held by exactly the caller that is inside the   *)
(* slow part of Reset, and by nobody before Prepare has returned.          *)
MutexInv ==
  /\ pc[Prepare] # "idle"
  /\ \A c \in Callers :
       /\ pc[c] \in Copying \union {"idle"}
       /\ pc[c] # "idle" <=> holder = c
       /\ pc[c] # "idle" => pc[Prepare] = "ready"

(* But for the one on the temporary baseline, the only handle ever open is *)
(* s.db; none is while the files are worked on, nor once the service is    *)
(* closed.                                                                 *)
HandleInv ==
  /\ pc[Prepare] # "load" => open \subseteq {handle}
  /\ (\E p \in Procs : pc[p] \in Copying) => handle = Nil /\ busy = {}
  /\ pc[Prepare] # "ready" => handle = Nil /\ server = Nil /\ busy = {}
  /\ closed => handle = Nil /\ holder = Nil /\ pc[Prepare] = "ready"

(* What each file holds at each point of Prepare and of a copy.            *)
FileInv ==
  /\ pc[Prepare] \in {"inspect", "initialize", "load", "publish"} =>
       file["baseline"] = Absent /\ file["live"] = Absent
  /\ pc[Prepare] = "inspect" =>
       dir # "ours" /\ \A f \in Files : file[f] = Absent
  /\ pc[Prepare] = "publish" => file["baseline.tmp"] = Scenario
  /\ pc[Prepare] \in Copying \union {"ready"} => file["baseline"] = Scenario
  /\ pc[Prepare] \in {"copy", "fill", "rename"} => file["live"] = Absent
  /\ pc[Prepare] = "ready" => file["live"] \in Contents
  /\ \A p \in Procs :
       /\ pc[p] = "fill" => file["live.tmp"] = Torn
       /\ pc[p] = "rename" => file["live.tmp"] = Scenario
       /\ pc[p] = "open" => file["live"] = Scenario
  /\ (\A p \in Procs : pc[p] \notin {"fill", "rename"}) => file["live.tmp"] = Absent
  /\ FailedPrepareLeavesNothing

IInv == TypeOK /\ MutexInv /\ HandleInv /\ FileInv

-----------------------------------------------------------------------------
LEMMA InitIInv == Init => IInv
  BY ConstantsAssumption DEF Init, IInv, TypeOK, MutexInv, HandleInv, FileInv,
     FailedPrepareLeavesNothing, Copying, Procs, Files

(* Prepare's deferred removal, from any point after it made the directory. *)
LEMMA AbandonIInv ==
  ASSUME IInv, Abandon, open' = {},
         pc[Prepare] \in Copying \union {"initialize", "load", "publish"}
  PROVE  IInv'
<1> USE ConstantsAssumption
<1>1. /\ dir' = "absent" /\ pc' = [pc EXCEPT ![Prepare] = "failed"]
      /\ \A f \in Files : file'[f] = Absent
      /\ file' \in [Files -> Contents \union {Absent, Torn}]
      /\ UNCHANGED <<handle, server, busy, holder, result, closed>> /\ open' = {}
  BY DEF Abandon
<1>2. \A c \in Callers : pc[c] = "idle" /\ pc'[c] = "idle"
  BY <1>1 DEF IInv, TypeOK, MutexInv, Copying, Procs
<1>3. pc'[Prepare] = "failed"
  BY <1>1 DEF IInv, TypeOK, Procs
<1>4. TypeOK'
  BY <1>1 DEF IInv, TypeOK, Procs
<1>5. MutexInv'
  BY <1>1, <1>2, <1>3 DEF IInv, MutexInv, Copying
<1>6. HandleInv'
  BY <1>1, <1>2, <1>3 DEF IInv, MutexInv, HandleInv, Copying, Procs
<1>7. FileInv'
  BY <1>1, <1>2, <1>3 DEF FileInv, FailedPrepareLeavesNothing, Copying, Procs, Files
<1> QED
  BY <1>4, <1>5, <1>6, <1>7 DEF IInv

(* A Reset that fails after it closed the database.                        *)
LEMMA GiveUpIInv ==
  ASSUME IInv, NEW c \in Callers, GiveUp(c), pc[c] \in Copying
  PROVE  IInv'
<1> USE ConstantsAssumption
<1>1. /\ file'["live.tmp"] = Absent
      /\ \A f \in Files \ {"live.tmp"} : file'[f] = file[f]
      /\ file' \in [Files -> Contents \union {Absent, Torn}]
  BY DEF GiveUp, IInv, TypeOK, Files
<1>2. /\ pc' = [pc EXCEPT ![c] = "idle"] /\ holder' = Nil
      /\ result' = [result EXCEPT ![c] = "error"]
      /\ UNCHANGED <<dir, handle, open, server, busy, closed>>
  BY DEF GiveUp
<1>3. /\ pc[Prepare] = "ready" /\ pc'[Prepare] = "ready"
      /\ \A d \in Callers : pc'[d] = "idle"
  BY <1>2 DEF IInv, TypeOK, MutexInv, Copying, Procs
<1>4. TypeOK'
  BY <1>1, <1>2 DEF IInv, TypeOK, Procs
<1>5. MutexInv'
  BY <1>2, <1>3 DEF IInv, MutexInv, Copying
<1>6. HandleInv'
  BY <1>2, <1>3 DEF IInv, HandleInv, Copying, Procs
<1>7. FileInv'
  BY <1>1, <1>2, <1>3 DEF IInv, FileInv, FailedPrepareLeavesNothing, Copying, Procs, Files
<1> QED
  BY <1>4, <1>5, <1>6, <1>7 DEF IInv

LEMMA FailIInv ==
  ASSUME IInv, NEW p \in Procs, Fail(p), pc[p] \in Copying
  PROVE  IInv'
<1>1. CASE p = Prepare
  <2>1. open = {}
    BY <1>1, ConstantsAssumption DEF IInv, TypeOK, HandleInv, Copying, Procs
  <2> QED
    BY <1>1, <2>1, AbandonIInv DEF Fail
<1>2. CASE p # Prepare
  BY <1>2, GiveUpIInv DEF Fail, Procs
<1> QED
  BY <1>1, <1>2

(* While one goroutine copies no other does.                               *)
LEMMA OneCopies ==
  ASSUME IInv, NEW p \in Procs, pc[p] \in Copying
  PROVE  /\ \A q \in Procs \ {p} : pc[q] \notin Copying
         /\ pc[Prepare] \in Copying \union {"ready"}
         /\ p # Prepare => pc[Prepare] = "ready" /\ holder = p
         /\ handle = Nil /\ open = {} /\ busy = {}
  BY ConstantsAssumption DEF IInv, TypeOK, MutexInv, HandleInv, Copying, Procs

-----------------------------------------------------------------------------
LEMMA StepIInv == IInv /\ [Next]_vars => IInv'
<1> SUFFICES ASSUME IInv, [Next]_vars
             PROVE  IInv'
  OBVIOUS
<1> USE ConstantsAssumption
<1>1. CASE Inspect
  <2>1. TypeOK'
    BY <1>1 DEF Inspect, Goto, IInv, TypeOK, Procs
  <2>2. MutexInv'
    BY <1>1 DEF Inspect, Goto, IInv, TypeOK, MutexInv, Copying, Procs
  <2>3. HandleInv'
    BY <1>1 DEF Inspect, Goto, IInv, TypeOK, MutexInv, HandleInv, Copying, Procs
  <2>4. FileInv'
    BY <1>1 DEF Inspect, Goto, IInv, TypeOK, MutexInv, HandleInv, FileInv,
       FailedPrepareLeavesNothing, Copying, Procs, Files
  <2> QED
    BY <2>1, <2>2, <2>3, <2>4 DEF IInv
<1>2. CASE Initialize
  <2>1. CASE Abandon /\ UNCHANGED open
    <3>1. pc[Prepare] = "initialize" /\ open = {}
      BY <1>2 DEF Initialize, IInv, TypeOK, HandleInv
    <3> QED
      BY <2>1, <3>1, AbandonIInv
  <2>2. CASE ~(Abandon /\ UNCHANGED open)
    <3>1. /\ file'["baseline.tmp"] = Torn
          /\ \A f \in Files \ {"baseline.tmp"} : file'[f] = file[f]
          /\ file' \in [Files -> Contents \union {Absent, Torn}]
      BY <1>2, <2>2 DEF Initialize, IInv, TypeOK, Files
    <3>2. /\ pc[Prepare] = "initialize" /\ pc' = [pc EXCEPT ![Prepare] = "load"]
          /\ open' \subseteq Handles
          /\ UNCHANGED <<dir, handle, server, busy, holder, result, closed>>
      BY <1>2, <2>2 DEF Initialize, Goto
    <3>3. pc'[Prepare] = "load" /\ \A c \in Callers : pc[c] = "idle" /\ pc'[c] = "idle"
      BY <3>2 DEF IInv, TypeOK, MutexInv, Copying, Procs
    <3>4. TypeOK'
      BY <3>1, <3>2 DEF IInv, TypeOK, Procs
    <3>5. MutexInv'
      BY <3>2, <3>3 DEF IInv, MutexInv, Copying
    <3>6. HandleInv'
      BY <3>2, <3>3 DEF IInv, HandleInv, Copying, Procs
    <3>7. FileInv'
      BY <3>1, <3>2, <3>3 DEF IInv, FileInv, FailedPrepareLeavesNothing, Copying, Procs, Files
    <3> QED
      BY <3>4, <3>5, <3>6, <3>7 DEF IInv
  <2> QED
    BY <2>1, <2>2
<1>3. CASE Load
  <2>1. CASE Abandon
    BY <1>3, <2>1, AbandonIInv DEF Load
  <2>2. CASE ~Abandon
    <3>0. file' = [file EXCEPT !["baseline.tmp"] = Scenario]
      BY <1>3, <2>2 DEF Load
    <3>1. /\ file'["baseline.tmp"] = Scenario
          /\ \A f \in Files \ {"baseline.tmp"} : file'[f] = file[f]
          /\ file' \in [Files -> Contents \union {Absent, Torn}]
      BY <3>0 DEF IInv, TypeOK, Files
    <3>2. /\ pc[Prepare] = "load" /\ pc' = [pc EXCEPT ![Prepare] = "publish"]
          /\ open' = {}
          /\ UNCHANGED <<dir, handle, server, busy, holder, result, closed>>
      BY <1>3, <2>2 DEF Load, Goto
    <3>3. pc'[Prepare] = "publish" /\ \A c \in Callers : pc[c] = "idle" /\ pc'[c] = "idle"
      BY <3>2 DEF IInv, TypeOK, MutexInv, Copying, Procs
    <3>4. TypeOK'
      BY <3>1, <3>2 DEF IInv, TypeOK, Procs
    <3>5. MutexInv'
      BY <3>2, <3>3 DEF IInv, MutexInv, Copying
    <3>6. HandleInv'
      BY <3>2, <3>3 DEF IInv, HandleInv, Copying, Procs
    <3>7. FileInv'
      BY <3>1, <3>2, <3>3 DEF IInv, FileInv, FailedPrepareLeavesNothing, Copying, Procs, Files
    <3> QED
      BY <3>4, <3>5, <3>6, <3>7 DEF IInv
  <2> QED
    BY <2>1, <2>2
<1>4. CASE PublishBaseline
  <2>1. CASE Abandon /\ UNCHANGED open
    <3>1. pc[Prepare] = "publish" /\ open = {}
      BY <1>4 DEF PublishBaseline, IInv, TypeOK, HandleInv
    <3> QED
      BY <2>1, <3>1, AbandonIInv
  <2>2. CASE ~(Abandon /\ UNCHANGED open)
    <3>1. /\ file'["baseline"] = file["baseline.tmp"] /\ file'["baseline.tmp"] = Absent
          /\ \A f \in Files \ {"baseline", "baseline.tmp"} : file'[f] = file[f]
          /\ file' \in [Files -> Contents \union {Absent, Torn}]
      BY <1>4, <2>2 DEF PublishBaseline, IInv, TypeOK, Files
    <3>2. /\ pc[Prepare] = "publish" /\ pc' = [pc EXCEPT ![Prepare] = "copy"]
          /\ UNCHANGED <<dir, handle, open, server, busy, holder, result, closed>>
      BY <1>4, <2>2 DEF PublishBaseline, Goto
    <3>3. pc'[Prepare] = "copy" /\ \A c \in Callers : pc[c] = "idle" /\ pc'[c] = "idle"
      BY <3>2 DEF IInv, TypeOK, MutexInv, Copying, Procs
    <3>4. TypeOK'
      BY <3>1, <3>2 DEF IInv, TypeOK, Copying, Procs
    <3>5. MutexInv'
      BY <3>2, <3>3 DEF IInv, MutexInv, Copying
    <3>6. HandleInv'
      BY <3>2, <3>3 DEF IInv, HandleInv, Copying, Procs
    <3>7. FileInv'
      BY <3>1, <3>2, <3>3 DEF IInv, FileInv, FailedPrepareLeavesNothing, Copying, Procs, Files
    <3> QED
      BY <3>4, <3>5, <3>6, <3>7 DEF IInv
  <2> QED
    BY <2>1, <2>2
<1>5. ASSUME NEW p \in Procs, CreateCopy(p) PROVE IInv'
  <2>1. CASE Fail(p)
    BY <1>5, <2>1, FailIInv DEF CreateCopy, Copying
  <2>2. CASE ~Fail(p)
    <3>1. /\ file'["live.tmp"] = Torn
          /\ \A f \in Files \ {"live.tmp"} : file'[f] = file[f]
          /\ file' \in [Files -> Contents \union {Absent, Torn}]
      BY <1>5, <2>2 DEF CreateCopy, IInv, TypeOK, Files
    <3>2. /\ pc[p] = "copy" /\ pc' = [pc EXCEPT ![p] = "fill"]
          /\ UNCHANGED <<dir, handle, open, server, busy, holder, result, closed>>
      BY <1>5, <2>2 DEF CreateCopy, Goto
    <3>3. /\ pc'[p] = "fill" /\ \A q \in Procs \ {p} : pc'[q] = pc[q] /\ pc[q] \notin Copying
          /\ pc[Prepare] \in Copying \union {"ready"}
          /\ p # Prepare => pc[Prepare] = "ready" /\ holder = p
          /\ handle = Nil /\ open = {} /\ busy = {}
      BY <3>2, OneCopies DEF IInv, TypeOK, Copying, Procs
    <3>4. TypeOK'
      BY <3>1, <3>2 DEF IInv, TypeOK, Copying, Procs
    <3>5. MutexInv'
      BY <3>2, <3>3 DEF IInv, MutexInv, Copying, Procs
    <3>6. HandleInv'
      BY <3>2, <3>3 DEF IInv, HandleInv, Copying, Procs
    <3>7. FileInv'
      BY <3>1, <3>2, <3>3 DEF IInv, FileInv, FailedPrepareLeavesNothing, Copying, Procs, Files
    <3> QED
      BY <3>4, <3>5, <3>6, <3>7 DEF IInv
  <2> QED
    BY <2>1, <2>2
<1>6. ASSUME NEW p \in Procs, FillCopy(p) PROVE IInv'
  <2>1. CASE Fail(p)
    BY <1>6, <2>1, FailIInv DEF FillCopy, Copying
  <2>2. CASE ~Fail(p)
    <3>1. /\ file'["live.tmp"] = file["baseline"]
          /\ \A f \in Files \ {"live.tmp"} : file'[f] = file[f]
          /\ file' \in [Files -> Contents \union {Absent, Torn}]
      BY <1>6, <2>2 DEF FillCopy, IInv, TypeOK, Files
    <3>2. /\ pc[p] = "fill" /\ pc' = [pc EXCEPT ![p] = "rename"]
          /\ UNCHANGED <<dir, handle, open, server, busy, holder, result, closed>>
      BY <1>6, <2>2 DEF FillCopy, Goto
    <3>3. /\ pc'[p] = "rename" /\ \A q \in Procs \ {p} : pc'[q] = pc[q] /\ pc[q] \notin Copying
          /\ pc[Prepare] \in Copying \union {"ready"}
          /\ p # Prepare => pc[Prepare] = "ready" /\ holder = p
          /\ handle = Nil /\ open = {} /\ busy = {}
      BY <3>2, OneCopies DEF IInv, TypeOK, Copying, Procs
    <3>4. TypeOK'
      BY <3>1, <3>2 DEF IInv, TypeOK, Copying, Procs
    <3>5. MutexInv'
      BY <3>2, <3>3 DEF IInv, MutexInv, Copying, Procs
    <3>6. HandleInv'
      BY <3>2, <3>3 DEF IInv, HandleInv, Copying, Procs
    <3>7. FileInv'
      BY <3>1, <3>2, <3>3 DEF IInv, FileInv, FailedPrepareLeavesNothing, Copying, Procs, Files
    <3> QED
      BY <3>4, <3>5, <3>6, <3>7 DEF IInv
  <2> QED
    BY <2>1, <2>2
<1>7. ASSUME NEW p \in Procs, PublishCopy(p) PROVE IInv'
  <2>1. CASE Fail(p)
    BY <1>7, <2>1, FailIInv DEF PublishCopy, Copying
  <2>2. CASE ~Fail(p)
    <3>1. /\ file'["live"] = file["live.tmp"] /\ file'["live.tmp"] = Absent
          /\ \A f \in Files \ {"live", "live.tmp"} : file'[f] = file[f]
          /\ file' \in [Files -> Contents \union {Absent, Torn}]
      BY <1>7, <2>2 DEF PublishCopy, IInv, TypeOK, Files
    <3>2. /\ pc[p] = "rename" /\ pc' = [pc EXCEPT ![p] = "open"]
          /\ UNCHANGED <<dir, handle, open, server, busy, holder, result, closed>>
      BY <1>7, <2>2 DEF PublishCopy, Goto
    <3>3. /\ pc'[p] = "open" /\ \A q \in Procs \ {p} : pc'[q] = pc[q] /\ pc[q] \notin Copying
          /\ pc[Prepare] \in Copying \union {"ready"}
          /\ p # Prepare => pc[Prepare] = "ready" /\ holder = p
          /\ handle = Nil /\ open = {} /\ busy = {}
      BY <3>2, OneCopies DEF IInv, TypeOK, Copying, Procs
    <3>4. TypeOK'
      BY <3>1, <3>2 DEF IInv, TypeOK, Copying, Procs
    <3>5. MutexInv'
      BY <3>2, <3>3 DEF IInv, MutexInv, Copying, Procs
    <3>6. HandleInv'
      BY <3>2, <3>3 DEF IInv, HandleInv, Copying, Procs
    <3>7. FileInv'
      BY <3>1, <3>2, <3>3 DEF IInv, FileInv, FailedPrepareLeavesNothing, Copying, Procs, Files
    <3> QED
      BY <3>4, <3>5, <3>6, <3>7 DEF IInv
  <2> QED
    BY <2>1, <2>2
<1>8. ASSUME NEW p \in Procs, OpenLive(p) PROVE IInv'
  <2>1. CASE Fail(p)
    BY <1>8, <2>1, FailIInv DEF OpenLive, Copying
  <2>2. CASE ~Fail(p)
    <3>1. PICK h \in Handles : handle' = h /\ open' = open \union {h}
      BY <1>8, <2>2 DEF OpenLive
    <3>2. /\ pc[p] = "open"
          /\ pc' = [pc EXCEPT ![p] = IF p = Prepare THEN "ready" ELSE "idle"]
          /\ holder' = Nil
          /\ result' = IF p = Prepare THEN result ELSE [result EXCEPT ![p] = "ok"]
          /\ UNCHANGED <<dir, file, server, busy, closed>>
      BY <1>8, <2>2 DEF OpenLive, Goto
    <3>3. /\ \A q \in Procs \ {p} : pc'[q] = pc[q] /\ pc[q] \notin Copying
          /\ pc[Prepare] \in Copying \union {"ready"}
          /\ p # Prepare => pc[Prepare] = "ready" /\ holder = p
          /\ handle = Nil /\ open = {} /\ busy = {}
      BY <3>2, OneCopies DEF IInv, TypeOK, Copying, Procs
    <3>4. pc'[Prepare] = "ready" /\ \A c \in Callers : pc'[c] = "idle"
      BY <3>2, <3>3 DEF IInv, TypeOK, MutexInv, Copying, Procs
    <3>5. ~closed
      BY <3>2, <3>3 DEF IInv, MutexInv, HandleInv, Copying, Procs
    <3>6. TypeOK'
      BY <3>1, <3>2, <3>3 DEF IInv, TypeOK, Copying, Procs
    <3>7. MutexInv'
      BY <3>2, <3>4 DEF IInv, MutexInv, Copying, Procs
    <3>8. HandleInv'
      BY <3>1, <3>2, <3>3, <3>4, <3>5 DEF IInv, HandleInv, Copying, Procs
    <3>9. FileInv'
      BY <3>2, <3>3, <3>4 DEF IInv, FileInv, FailedPrepareLeavesNothing, Copying, Procs, Files
    <3> QED
      BY <3>6, <3>7, <3>8, <3>9 DEF IInv
  <2> QED
    BY <2>1, <2>2
<1>9. ASSUME NEW c \in Callers, ResetBegins(c) PROVE IInv'
  <2>1. TypeOK'
    BY <1>9 DEF ResetBegins, MayCall, Goto, IInv, TypeOK, Copying, Procs
  <2>2. MutexInv'
    BY <1>9 DEF ResetBegins, MayCall, Goto, IInv, TypeOK, MutexInv, Copying, Procs
  <2>3. HandleInv'
    BY <1>9 DEF ResetBegins, MayCall, Goto, IInv, TypeOK, MutexInv, HandleInv, Copying, Procs
  <2>4. FileInv'
    BY <1>9 DEF ResetBegins, MayCall, Goto, IInv, TypeOK, MutexInv, HandleInv, FileInv,
       FailedPrepareLeavesNothing, Copying, Procs, Files
  <2> QED
    BY <2>1, <2>2, <2>3, <2>4 DEF IInv
<1>10. ASSUME NEW c \in Callers, Close(c) PROVE IInv'
  <2>1. TypeOK'
    BY <1>10 DEF Close, MayCall, Goto, IInv, TypeOK, Copying, Procs
  <2>2. MutexInv'
    BY <1>10 DEF Close, MayCall, Goto, IInv, TypeOK, MutexInv, Copying, Procs
  <2>3. HandleInv'
    BY <1>10 DEF Close, MayCall, Goto, IInv, TypeOK, MutexInv, HandleInv, Copying, Procs
  <2>4. FileInv'
    BY <1>10 DEF Close, MayCall, Goto, IInv, TypeOK, MutexInv, HandleInv, FileInv,
       FailedPrepareLeavesNothing, Copying, Procs, Files
  <2> QED
    BY <2>1, <2>2, <2>3, <2>4 DEF IInv
<1>11. CASE ConstructServer
  BY <1>11 DEF ConstructServer, IInv, TypeOK, MutexInv, HandleInv, FileInv,
     FailedPrepareLeavesNothing, Copying, Procs, Files
<1>12. CASE StatementBegins
  BY <1>12 DEF StatementBegins, IInv, TypeOK, MutexInv, HandleInv, FileInv,
     FailedPrepareLeavesNothing, Copying, Procs, Files
<1>13. CASE StatementEnds
  <2>1. PICK h \in busy, x \in Contents :
          busy' = busy \ {h} /\ file' = [file EXCEPT !["live"] = x]
    BY <1>13 DEF StatementEnds
  <2>2. UNCHANGED <<dir, handle, open, server, holder, pc, result, closed>>
    BY <1>13 DEF StatementEnds
  <2>3. /\ file'["live"] = x /\ \A f \in Files \ {"live"} : file'[f] = file[f]
        /\ file' \in [Files -> Contents \union {Absent, Torn}]
    BY <2>1 DEF IInv, TypeOK, Files
  <2>4. pc[Prepare] = "ready" /\ \A p \in Procs : pc[p] \notin Copying
    BY DEF IInv, HandleInv
  <2>5. TypeOK'
    BY <2>1, <2>2, <2>3 DEF IInv, TypeOK
  <2>6. MutexInv' /\ HandleInv'
    BY <2>1, <2>2 DEF IInv, MutexInv, HandleInv
  <2>7. FileInv'
    BY <2>2, <2>3, <2>4 DEF IInv, FileInv, FailedPrepareLeavesNothing, Copying, Procs, Files
  <2> QED
    BY <2>5, <2>6, <2>7 DEF IInv
<1>14. CASE UNCHANGED vars
  BY <1>14 DEF vars, IInv, TypeOK, MutexInv, HandleInv, FileInv,
     FailedPrepareLeavesNothing, Copying, Procs, Files
<1> QED
  BY <1>1, <1>2, <1>3, <1>4, <1>5, <1>6, <1>7, <1>8, <1>9, <1>10, <1>11, <1>12, <1>13, <1>14 DEF Next

LEMMA Invariance == Spec => []IInv
  BY InitIInv, StepIInv, PTL DEF Spec

-----------------------------------------------------------------------------
(* The variables of Prepare, Reset, Close and the handlers keep their      *)
(* types.                                                                  *)
THEOREM TypeCorrect == Spec => []TypeOK
  BY Invariance, PTL DEF IInv

(* Neither database name ever holds a partial file, and the baseline holds *)
(* nothing but the scenario: copyFileAtomic and the rename of the          *)
(* temporary baseline publish complete files only, and only one of them.   *)
THEOREM NeverTornHolds == Spec => []NeverTorn
<1>1. IInv => NeverTorn
  <2> SUFFICES ASSUME IInv PROVE NeverTorn
    OBVIOUS
  <2>1. CASE pc[Prepare] \in {"inspect", "initialize", "load", "publish", "copy", "fill", "rename"}
    BY <2>1, ConstantsAssumption DEF IInv, FileInv, NeverTorn, Copying
  <2>2. CASE pc[Prepare] \in {"open", "ready"}
    BY <2>2, ConstantsAssumption DEF IInv, FileInv, NeverTorn, Copying, Procs
  <2>3. CASE pc[Prepare] = "failed"
    BY <2>3, ConstantsAssumption
       DEF IInv, FileInv, FailedPrepareLeavesNothing, NeverTorn, Files
  <2> QED
    BY <2>1, <2>2, <2>3 DEF IInv, TypeOK, MutexInv, Copying, Procs
<1> QED
  BY <1>1, Invariance, PTL

(* No open handle and no statement while live.db is copied and replaced.   *)
THEOREM QuiescedHolds == Spec => []QuiescedWhileReplaced
<1>1. IInv => QuiescedWhileReplaced
  BY OneCopies DEF QuiescedWhileReplaced
<1> QED
  BY <1>1, Invariance, PTL

(* No failure leaves the temporary file that would make every later Reset  *)
(* fail on O_EXCL, and a failed Prepare leaves neither files nor handles.  *)
THEOREM NoLeftoversHolds == Spec => []NoLeftovers
<1>1. IInv => NoLeftovers
  BY DEF IInv, FileInv, NoLeftovers, NextCopyPossible
<1> QED
  BY <1>1, Invariance, PTL

(* What Prepare published as the baseline is what every Reset will copy.   *)
THEOREM BaselineHolds == Spec => BaselineImmutable
<1>1. IInv /\ IInv' /\ [Next]_vars =>
        [file["baseline"] # Absent =>
           file'["baseline"] = file["baseline"] \/ pc'[Prepare] = "failed"]_vars
  <2> SUFFICES ASSUME IInv, IInv', [Next]_vars, vars' # vars,
                      file["baseline"] # Absent, pc'[Prepare] # "failed"
               PROVE  file'["baseline"] = file["baseline"]
    OBVIOUS
  <2>1. pc[Prepare] \in Copying \union {"ready", "failed"}
    BY DEF IInv, TypeOK, FileInv, MutexInv, Copying, Procs
  <2>2. pc[Prepare] # "failed"
    BY DEF IInv, FileInv, FailedPrepareLeavesNothing, Files
  <2>3. file["baseline"] = Scenario
    BY <2>1, <2>2 DEF IInv, FileInv
  <2>4. pc'[Prepare] \in Copying \union {"ready"}
    <3>1. CASE Inspect \/ Initialize \/ Load \/ PublishBaseline
      BY <2>1, <3>1 DEF Inspect, Initialize, Load, PublishBaseline, Copying
    <3>2. ASSUME NEW p \in Procs,
                 CreateCopy(p) \/ FillCopy(p) \/ PublishCopy(p) \/ OpenLive(p)
          PROVE  pc'[Prepare] \in Copying \union {"ready"}
      BY <2>1, <2>2, <3>2, ConstantsAssumption
         DEF CreateCopy, FillCopy, PublishCopy, OpenLive, Fail, Abandon, GiveUp, Goto,
             IInv, TypeOK, Copying, Procs
    <3>3. ASSUME NEW c \in Callers, ResetBegins(c) \/ Close(c)
          PROVE  pc'[Prepare] \in Copying \union {"ready"}
      BY <2>1, <2>2, <3>3, ConstantsAssumption
         DEF ResetBegins, Close, Goto, IInv, TypeOK, Copying, Procs
    <3>4. CASE ConstructServer \/ StatementBegins \/ StatementEnds
      BY <2>1, <2>2, <3>4 DEF ConstructServer, StatementBegins, StatementEnds
    <3> QED
      BY <3>1, <3>2, <3>3, <3>4 DEF Next
  <2> QED
    BY <2>3, <2>4 DEF IInv, FileInv
<1> QED
  BY <1>1, Invariance, PTL DEF Spec, BaselineImmutable

-----------------------------------------------------------------------------
(* The file handling implements the abstract store: its state appears only *)
(* as the scenario, and not again after Close.                             *)
LEMMA InitRefines == Init => Store!Init
  BY DEF Init, Store!Init, Visible, Unavailable

(* Nothing is visible while no handle is open.                             *)
LEMMA Invisible ==
  ASSUME IInv, open = {}
  PROVE  Visible = Unavailable
  BY DEF Visible

LEMMA StepRefines ==
  IInv /\ IInv' /\ [Next]_vars => [Store!Next]_<<Visible, closed>>
<1> SUFFICES ASSUME IInv, IInv', [Next]_vars
             PROVE  [Store!Next]_<<Visible, closed>>
  OBVIOUS
<1> USE ConstantsAssumption DEF Unavailable
<1>1. CASE Inspect \/ Initialize \/ Load \/ PublishBaseline
  <2>1. handle' = handle /\ open' \subseteq Handles /\ closed' = closed
    BY <1>1 DEF Inspect, Initialize, Load, PublishBaseline, Abandon, IInv, TypeOK
  <2>2. pc[Prepare] # "ready"
    BY <1>1 DEF Inspect, Initialize, Load, PublishBaseline
  <2>3. handle \notin open /\ handle' \notin open'
    BY <2>1, <2>2 DEF IInv, TypeOK, HandleInv
  <2> QED
    BY <2>1, <2>3 DEF Visible
<1>2. ASSUME NEW p \in Procs, CreateCopy(p) \/ FillCopy(p) \/ PublishCopy(p)
      PROVE  [Store!Next]_<<Visible, closed>>
  <2>1. open = {}
    BY <1>2, OneCopies DEF CreateCopy, FillCopy, PublishCopy, Copying
  <2>2. open' = open /\ closed' = closed
    BY <1>2 DEF CreateCopy, FillCopy, PublishCopy, Fail, Abandon, GiveUp
  <2> QED
    BY <2>1, <2>2 DEF Visible
<1>3. ASSUME NEW p \in Procs, OpenLive(p)
      PROVE  [Store!Next]_<<Visible, closed>>
  <2>1. /\ handle = Nil /\ open = {} /\ pc[p] = "open"
        /\ pc[Prepare] \in Copying \union {"ready"}
        /\ p # Prepare => pc[Prepare] = "ready" /\ holder = p
    BY <1>3, OneCopies DEF OpenLive, Copying
  <2>2. CASE Fail(p)
    BY <2>1, <2>2 DEF Fail, Abandon, GiveUp, Visible
  <2>3. CASE ~Fail(p)
    <3>1. PICK h \in Handles : handle' = h /\ open' = open \union {h}
      BY <1>3, <2>3 DEF OpenLive
    <3>2. file' = file /\ closed' = closed
      BY <1>3, <2>3 DEF OpenLive
    <3>3. Visible = Absent /\ Visible' = Scenario
      BY <2>1, <3>1, <3>2 DEF Visible, IInv, FileInv
    <3>4. ~closed
      BY <2>1 DEF IInv, HandleInv, Procs, Copying
    <3> QED
      BY <3>2, <3>3, <3>4 DEF Store!Next, Store!Publish
  <2> QED
    BY <2>2, <2>3
<1>4. ASSUME NEW c \in Callers, ResetBegins(c)
      PROVE  [Store!Next]_<<Visible, closed>>
  <2>1. handle' \notin open' /\ closed' = closed
    BY <1>4 DEF ResetBegins, MayCall, IInv, TypeOK, HandleInv
  <2> QED
    BY <2>1 DEF Visible, Store!Next, Store!Withdraw
<1>5. ASSUME NEW c \in Callers, Close(c)
      PROVE  [Store!Next]_<<Visible, closed>>
  <2>1. handle' \notin open' /\ closed' = TRUE
    BY <1>5 DEF Close, MayCall, IInv, TypeOK, HandleInv
  <2> QED
    BY <2>1 DEF Visible, Store!Next, Store!Close
<1>6. CASE ConstructServer \/ StatementBegins
  BY <1>6 DEF ConstructServer, StatementBegins, Visible
<1>7. CASE StatementEnds
  <2>1. PICK x \in Contents : file' = [file EXCEPT !["live"] = x]
    BY <1>7 DEF StatementEnds
  <2>2. UNCHANGED <<handle, open, closed, pc>>
    BY <1>7 DEF StatementEnds
  <2>3. pc[Prepare] = "ready"
    BY <1>7 DEF StatementEnds, IInv, HandleInv
  <2>4. file["live"] \in Contents /\ file'["live"] \in Contents
    BY <2>1, <2>3 DEF IInv, TypeOK, FileInv, Files
  <2> QED
    BY <2>2, <2>4 DEF Visible, Store!Next, Store!Mutate
<1>8. CASE UNCHANGED vars
  BY <1>8 DEF vars, Visible
<1> QED
  BY <1>1, <1>2, <1>3, <1>4, <1>5, <1>6, <1>7, <1>8 DEF Next

(* Every behaviour of Prepare, Reset, Close and the handlers, as seen      *)
(* through s.db, is a behaviour of ResettableStore.                        *)
THEOREM Refinement == Spec => ImplementsStore
  BY InitRefines, StepRefines, Invariance, PTL DEF Spec, ImplementsStore, Store!Spec

(* The abstract store, once closed, shows nothing.                         *)
LEMMA StoreClosesForGood ==
  Store!Spec => [](closed => Visible = Unavailable) /\ [][closed => closed']_closed
<1> DEFINE Shut ==
             /\ Visible \in Contents \union {Unavailable}
             /\ closed \in BOOLEAN
             /\ closed => Visible = Unavailable
<1>1. Store!Init => Shut
  BY DEF Store!Init
<1>2. Shut /\ [Store!Next]_<<Visible, closed>> => Shut'
  <2> SUFFICES ASSUME Shut, [Store!Next]_<<Visible, closed>> PROVE Shut'
    OBVIOUS
  <2> USE ConstantsAssumption DEF Unavailable
  <2>1. CASE Store!Publish
    BY <2>1 DEF Store!Publish
  <2>2. CASE Store!Mutate
    BY <2>2 DEF Store!Mutate
  <2>3. CASE Store!Withdraw \/ Store!Close
    BY <2>3 DEF Store!Withdraw, Store!Close
  <2>4. CASE UNCHANGED <<Visible, closed>>
    BY <2>4
  <2> QED
    BY <2>1, <2>2, <2>3, <2>4 DEF Store!Next
<1>3. [Store!Next]_<<Visible, closed>> => [closed => closed']_closed
  BY DEF Store!Next, Store!Publish, Store!Mutate, Store!Withdraw, Store!Close
<1>4. Shut => (closed => Visible = Unavailable)
  OBVIOUS
<1> HIDE DEF Shut
<1> QED
  BY <1>1, <1>2, <1>3, <1>4, PTL DEF Store!Spec

(* A Close that has returned is final: whatever Resets were waiting for    *)
(* the mutex, and whatever handlers still hold the handle, no query sees a *)
(* database again.                                                         *)
THEOREM ClosedForGood ==
  Spec => [](closed => Visible = Unavailable) /\ [][closed => closed']_closed
  BY Refinement, StoreClosesForGood, PTL DEF ImplementsStore
=============================================================================

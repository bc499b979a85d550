---------------------------- MODULE ServiceState ----------------------------
(***************************************************************************)
(* The state of one service: engine/http/state_manager.go.  Prepare builds *)
(* baseline.db from the scenario and copies it to live.db; Reset closes    *)
(* live.db, replaces it by a fresh copy of the baseline and reopens it;    *)
(* Close closes it for good.  Reset and Close run under the mutex of the   *)
(* ServiceState; handlers query live.db through the *sql.DB that their     *)
(* resource server was built around, without the mutex.                    *)
(*                                                                         *)
(* Every operation of the file system or of SQLite may fail, but for the   *)
(* removals of the error paths, whose result the code discards.            *)
(*                                                                         *)
(* sql.DB.Close keeps new statements from starting and does not wait for   *)
(* one that has a connection (the pool has a single one).  The comment on  *)
(* DB makes it the caller's duty to have no request under way when Reset   *)
(* begins; Close has no such precondition.                                 *)
(***************************************************************************)
EXTENDS Naturals, FiniteSets

CONSTANTS Callers,      \* goroutines that call Reset and Close
          Prepare,      \* the goroutine that runs Prepare
          Handles,      \* identities of *sql.DB values
          Contents,     \* what a complete database may hold
          Scenario,     \* what the codec loads from the scenario document
          Absent,       \* the file does not exist
          Torn,         \* the file is being written
          Nil           \* no handle, no holder, no result

ASSUME ConstantsAssumption ==
  /\ Scenario \in Contents
  /\ Absent \notin Contents /\ Torn \notin Contents /\ Absent # Torn
  /\ Nil \notin Handles /\ Nil \notin Callers
  /\ Prepare \notin Callers
  /\ Cardinality(Handles) >= 3   \* one held by s.db, one by the server, one to open

Files == {"baseline", "baseline.tmp", "live", "live.tmp"}
Procs == Callers \union {Prepare}

VARIABLES
  dir,      \* the service directory: absent, made by Prepare, or there before it
  file,     \* what each file of the directory holds
  handle,   \* s.db
  open,     \* the handles that have not been closed: on live.db, or Prepare's on
            \* baseline.tmp while it loads the scenario
  server,   \* the handle the resource server was built around
  busy,     \* the handles whose only connection is executing a statement
  holder,   \* who holds s.mu
  pc,       \* where each goroutine stands
  result,   \* what the last call of each caller returned
  closed    \* a Close has returned: what the callers believe, not a field

vars == <<dir, file, handle, open, server, busy, holder, pc, result, closed>>

Copying == {"copy", "fill", "rename", "open"}

TypeOK ==
  /\ dir \in {"absent", "ours", "foreign"}
  /\ file \in [Files -> Contents \union {Absent, Torn}]
  /\ handle \in Handles \union {Nil}
  /\ open \subseteq Handles
  /\ server \in Handles \union {Nil}
  /\ busy \subseteq Handles
  /\ holder \in Callers \union {Nil}
  /\ pc \in [Procs -> Copying \union
               {"inspect", "initialize", "load", "publish", "ready", "failed", "idle"}]
  /\ result \in [Callers -> {"none", "ok", "error", "service is closed"}]
  /\ closed \in BOOLEAN

Init ==
  /\ dir \in {"absent", "foreign"}
  /\ file = [f \in Files |-> Absent]
  /\ handle = Nil
  /\ open = {}
  /\ server = Nil
  /\ busy = {}
  /\ holder = Nil
  /\ pc = [p \in Procs |-> IF p = Prepare THEN "inspect" ELSE "idle"]
  /\ result = [c \in Callers |-> "none"]
  /\ closed = FALSE

-----------------------------------------------------------------------------
(* Error returns.                                                          *)

(* Prepare's deferred RemoveAll: only the directory it made, with all its  *)
(* files.  It closes no database: each error return does that for itself.  *)
Abandon ==
  /\ dir' = "absent"
  /\ file' = [f \in Files |-> Absent]
  /\ pc' = [pc EXCEPT ![Prepare] = "failed"]
  /\ UNCHANGED <<handle, server, busy, holder, result, closed>>

(* Mutant: copyFileAtomic does not remove its temporary file.              *)
GiveUpKeepsCopy(c) ==
  /\ holder' = Nil
  /\ pc' = [pc EXCEPT ![c] = "idle"]
  /\ result' = [result EXCEPT ![c] = "error"]
  /\ UNCHANGED <<dir, file, handle, open, server, busy, closed>>

(* Reset returns an error after it closed the database: s.db stays nil and *)
(* the deferred removal of the temporary copy has run.                     *)
GiveUp(c) ==
  /\ file' = [file EXCEPT !["live.tmp"] = Absent]
  /\ holder' = Nil
  /\ pc' = [pc EXCEPT ![c] = "idle"]
  /\ result' = [result EXCEPT ![c] = "error"]
  /\ UNCHANGED <<dir, handle, open, server, busy, closed>>

(* An error return of the copy or of the reopening.                        *)
Fail(p) == IF p = Prepare THEN Abandon /\ UNCHANGED open ELSE GiveUp(p)

Goto(p, to) == pc' = [pc EXCEPT ![p] = to]

-----------------------------------------------------------------------------
(* Prepare, up to the copy.                                                *)

(* An existing directory is refused and left alone; an invalid scenario    *)
(* fails before anything is created.                                       *)
Inspect ==
  /\ pc[Prepare] = "inspect"
  /\ \/ /\ Goto(Prepare, "failed")
        /\ UNCHANGED dir
     \/ /\ dir = "absent"
        /\ dir' = "ours"
        /\ Goto(Prepare, "initialize")
  /\ UNCHANGED <<file, handle, open, server, busy, holder, result, closed>>

(* Open the temporary baseline and create the provider's tables; if that   *)
(* fails the handle is closed again.                                       *)
Initialize ==
  /\ pc[Prepare] = "initialize"
  /\ \/ /\ file' = [file EXCEPT !["baseline.tmp"] = Torn]
        /\ \E h \in Handles : open' = {h}
        /\ Goto(Prepare, "load")
        /\ UNCHANGED <<dir, handle, server, busy, holder, result, closed>>
     \/ Abandon /\ UNCHANGED open

(* Mutant: the error return of codec.Load forgets db.Close.                *)
LoadKeepsOpen ==
  /\ pc[Prepare] = "load"
  /\ \/ /\ file' = [file EXCEPT !["baseline.tmp"] = Scenario]
        /\ open' = {}
        /\ Goto(Prepare, "publish")
        /\ UNCHANGED <<dir, handle, server, busy, holder, result, closed>>
     \/ Abandon /\ UNCHANGED open

(* Load the scenario and close the temporary baseline, which happens on    *)
(* the error return as well.                                               *)
Load ==
  /\ pc[Prepare] = "load"
  /\ open' = {}
  /\ \/ /\ file' = [file EXCEPT !["baseline.tmp"] = Scenario]
        /\ Goto(Prepare, "publish")
        /\ UNCHANGED <<dir, handle, server, busy, holder, result, closed>>
     \/ Abandon

PublishBaseline ==
  /\ pc[Prepare] = "publish"
  /\ \/ /\ file' = [file EXCEPT !["baseline"] = file["baseline.tmp"],
                                !["baseline.tmp"] = Absent]
        /\ Goto(Prepare, "copy")
        /\ UNCHANGED <<dir, handle, open, server, busy, holder, result, closed>>
     \/ Abandon /\ UNCHANGED open

-----------------------------------------------------------------------------
(* copyFileAtomic(baseline, live), then openSQLite(live): shared by        *)
(* Prepare and Reset.                                                      *)

(* Mutant: the copy is written over live.db itself.                        *)
CreateCopyInPlace(p) ==
  /\ pc[p] = "copy"
  /\ \/ /\ file' = [file EXCEPT !["live"] = Torn]
        /\ Goto(p, "fill")
        /\ UNCHANGED <<dir, handle, open, server, busy, holder, result, closed>>
     \/ Fail(p)

(* O_CREATE|O_EXCL: a temporary file left behind by anyone is an error.    *)
CreateCopy(p) ==
  /\ pc[p] = "copy"
  /\ \/ /\ file["live.tmp"] = Absent
        /\ file' = [file EXCEPT !["live.tmp"] = Torn]
        /\ Goto(p, "fill")
        /\ UNCHANGED <<dir, handle, open, server, busy, holder, result, closed>>
     \/ Fail(p)

(* io.Copy, Sync and Close of the copy.                                    *)
FillCopy(p) ==
  /\ pc[p] = "fill"
  /\ \/ /\ file' = [file EXCEPT !["live.tmp"] = file["baseline"]]
        /\ Goto(p, "rename")
        /\ UNCHANGED <<dir, handle, open, server, busy, holder, result, closed>>
     \/ Fail(p)

PublishCopy(p) ==
  /\ pc[p] = "rename"
  /\ \/ /\ file' = [file EXCEPT !["live"] = file["live.tmp"], !["live.tmp"] = Absent]
        /\ Goto(p, "open")
        /\ UNCHANGED <<dir, handle, open, server, busy, holder, result, closed>>
     \/ Fail(p)

(* Mutant: a failed reopening returns with the mutex still locked.         *)
OpenLiveKeepsMutex(p) ==
  /\ pc[p] = "open"
  /\ holder' = p
  /\ Goto(p, "idle")
  /\ UNCHANGED <<dir, file, handle, open, server, busy, result, closed>>

(* Open and ping.  sql.Open makes a handle nobody else refers to.          *)
OpenLive(p) ==
  /\ pc[p] = "open"
  /\ \/ /\ \E h \in Handles \ (open \union {handle, server}) :
              /\ handle' = h
              /\ open' = open \union {h}
        /\ holder' = Nil
        /\ Goto(p, IF p = Prepare THEN "ready" ELSE "idle")
        /\ result' = IF p = Prepare THEN result ELSE [result EXCEPT ![p] = "ok"]
        /\ UNCHANGED <<dir, file, server, busy, closed>>
     \/ Fail(p)

-----------------------------------------------------------------------------
(* The methods of a ServiceState, once Prepare has returned it.            *)

MayCall(c) ==
  /\ pc[Prepare] = "ready"
  /\ pc[c] = "idle"
  /\ holder = Nil

(* Mutant: the database is not closed before it is replaced.               *)
ResetBeginsOpen(c) ==
  /\ MayCall(c) /\ busy = {} /\ handle # Nil
  /\ handle' = Nil
  /\ holder' = c
  /\ Goto(c, "copy")
  /\ UNCHANGED <<dir, file, open, server, busy, result, closed>>

(* Reset, up to the copy.  sql.DB.Close makes the handle unusable whether  *)
(* or not it returns an error; on an error Reset leaves it in s.db.        *)
ResetBegins(c) ==
  /\ MayCall(c)
  /\ busy = {}
  /\ open' = open \ {handle}
  /\ \/ /\ handle = Nil
        /\ result' = [result EXCEPT ![c] = "service is closed"]
        /\ UNCHANGED <<handle, holder, pc>>
     \/ /\ handle # Nil
        /\ handle' = Nil
        /\ holder' = c
        /\ Goto(c, "copy")
        /\ UNCHANGED result
     \/ /\ handle # Nil
        /\ result' = [result EXCEPT ![c] = "error"]
        /\ UNCHANGED <<handle, holder, pc>>
  /\ UNCHANGED <<dir, file, server, busy, closed>>

(* Mutant: Close keeps s.db, so that a later Reset opens it again.         *)
CloseKeepsHandle(c) ==
  /\ MayCall(c)
  /\ open' = open \ {handle}
  /\ result' = [result EXCEPT ![c] = "ok"]
  /\ closed' = TRUE
  /\ UNCHANGED <<dir, file, handle, server, busy, holder, pc>>

Close(c) ==
  /\ MayCall(c)
  /\ open' = open \ {handle}
  /\ handle' = Nil
  /\ result' \in {[result EXCEPT ![c] = r] :
                    r \in IF handle = Nil THEN {"ok"} ELSE {"ok", "error"}}
  /\ closed' = TRUE
  /\ UNCHANGED <<dir, file, server, busy, holder, pc>>

(* The resource server is constructed around DB().                         *)
ConstructServer ==
  /\ pc[Prepare] = "ready"
  /\ holder = Nil
  /\ handle # Nil
  /\ server' = handle
  /\ UNCHANGED <<dir, file, handle, open, busy, holder, pc, result, closed>>

(* A request handler runs one statement.  On a closed handle it fails      *)
(* before it starts.                                                       *)
StatementBegins ==
  /\ server \in open \ busy
  /\ busy' = busy \union {server}
  /\ UNCHANGED <<dir, file, handle, open, server, holder, pc, result, closed>>

StatementEnds ==
  /\ \E h \in busy : busy' = busy \ {h}
  /\ \E x \in Contents : file' = [file EXCEPT !["live"] = x]
  /\ UNCHANGED <<dir, handle, open, server, holder, pc, result, closed>>

Next ==
  \/ Inspect \/ Initialize \/ Load \/ PublishBaseline
  \/ \E p \in Procs : CreateCopy(p) \/ FillCopy(p) \/ PublishCopy(p) \/ OpenLive(p)
  \/ \E c \in Callers : ResetBegins(c) \/ Close(c)
  \/ ConstructServer \/ StatementBegins \/ StatementEnds

Spec == Init /\ [][Next]_vars

-----------------------------------------------------------------------------
(* Properties.                                                             *)

(* baseline.db and live.db appear under their names only when complete, so *)
(* that no failure, of Prepare or of a later Reset, exposes a partial one; *)
(* and the baseline that every Reset copies is the scenario as it was      *)
(* loaded, whatever requests have written to its copies.                   *)
NeverTorn == file["baseline"] \in {Absent, Scenario} /\ file["live"] # Torn

(* While live.db is being copied, replaced or reopened no handle on it is  *)
(* open and no statement is executing, so no request can write to the file *)
(* that is about to disappear: what Reset found quiet stays quiet.         *)
QuiescedWhileReplaced ==
  (\E p \in Procs : pc[p] \in Copying) => open = {} /\ busy = {}

(* copyFileAtomic creates live.db.tmp with O_EXCL, so one left behind      *)
(* would make every later Reset of the service fail.                       *)
NextCopyPossible ==
  (\A p \in Procs : pc[p] \notin {"fill", "rename"}) => file["live.tmp"] = Absent

(* A Prepare that fails leaves no file and no open database, neither the   *)
(* temporary baseline nor live.db, and leaves a directory it did not make  *)
(* where it was.                                                           *)
FailedPrepareLeavesNothing ==
  pc[Prepare] = "failed" =>
    /\ dir # "ours"
    /\ \A f \in Files : file[f] = Absent
    /\ open = {}

(* No path out of Prepare or Reset, whichever of their calls fails, leaves *)
(* anything behind that the next call would stumble over.                  *)
NoLeftovers == NextCopyPossible /\ FailedPrepareLeavesNothing

(* The scenario is immutable: once baseline.db is published no request and *)
(* no Reset changes it; only an abandoned Prepare removes it.              *)
BaselineImmutable ==
  [][file["baseline"] # Absent =>
       file'["baseline"] = file["baseline"] \/ pc'[Prepare] = "failed"]_vars

-----------------------------------------------------------------------------
(* Refinement: what a query through s.db sees.                             *)

Unavailable == Absent
Visible == IF handle \in open THEN file["live"] ELSE Unavailable
Store == INSTANCE ResettableStore WITH store <- Visible

(* Every behaviour of the file handling is one of the abstract store: the  *)
(* state becomes visible only as the scenario, and never after Close.      *)
ImplementsStore == Store!Spec
=============================================================================

----------------------------- MODULE Environment -----------------------------
(***************************************************************************)
(* One "fab run": environment/runner.go starts the services in the order   *)
(* of their names and then the proxy, cli/run.go waits for the child or    *)
(* for a signal and closes them in the opposite order, while engine/http   *)
(* and its proxy answer requests, each in a goroutine of its own.          *)
(*                                                                         *)
(* Servers 1..N are the services in the order of their names and N+1 is    *)
(* the proxy, so that Start counts up and Close counts down.  Every        *)
(* fallible call may fail.  What net/http does is modelled from the way    *)
(* src/ uses it: Shutdown closes the listener the accept loop serves,      *)
(* waits for that loop and for the active requests until the context       *)
(* expires, and knows nothing of a hijacked connection; Serve called after *)
(* Shutdown closes its listener and returns.                               *)
(***************************************************************************)
EXTENDS Integers, FiniteSets

CONSTANTS N,            \* number of services of the environment
          Requests      \* requests clients may send

ASSUME NAssumption == N \in Nat \ {0}

Services == 1..N
Proxy == N + 1
Servers == Services \union {Proxy}

VARIABLES
  pc,           \* where the goroutine of the command stands
  k,            \* the server it is starting or closing
  enableProxy,  \* the --proxy flag
  committed,    \* Start returned a Runtime
  interrupted,  \* SIGINT or SIGTERM has arrived
  child,        \* the child command; absent in standalone mode
  dir,          \* the state directory exists
  log,          \* the request log file
  db,           \* the database of each service
  listening,    \* the servers whose listener is open
  loop,         \* the goroutine that calls Serve
  shut,         \* the servers whose Shutdown has begun
  expired,      \* the context of Close has expired
  first,        \* Close has an error to return
  exit,         \* what the command reports
  stage,        \* where each request stands
  via,          \* how it came: direct, plain through the proxy, or in a tunnel
  to,           \* the server whose handler answers it
  outcome,      \* what answered it
  logged        \* the requests whose entry is in the request log

command == <<pc, k, enableProxy, committed, child, exit>>
resources == <<dir, log, db>>
servers == <<listening, loop, shut>>
teardown == <<expired, first>>
requests == <<stage, via, to, outcome, logged>>
vars == <<command, interrupted, resources, servers, teardown, requests>>

Closing == {"shutdown", "drain", "remove", "closelog"}

TypeOK ==
  /\ pc \in Closing \union {"mkdir", "openlog", "prepare", "listen", "proxy", "running", "returned"}
  /\ k \in 0..Proxy
  /\ enableProxy \in BOOLEAN /\ committed \in BOOLEAN /\ interrupted \in BOOLEAN
  /\ child \in {"absent", "ready", "running", "succeeded", "failed"}
  /\ dir \in BOOLEAN
  /\ log \in {"none", "open", "closed"}
  /\ db \in [Services -> {"none", "open", "closed"}]
  /\ listening \in [Servers -> BOOLEAN]
  /\ loop \in [Servers -> {"none", "spawned", "accepting", "exited"}]
  /\ shut \in [Servers -> BOOLEAN]
  /\ expired \in BOOLEAN /\ first \in BOOLEAN
  /\ exit \in {"none", "start", "interrupted", "child", "teardown", "ok"}
  /\ stage \in [Requests -> {"idle", "tunnel", "routing", "handling", "recording", "relaying", "done"}]
  /\ via \in [Requests -> {"none", "direct", "plain", "tunnel"}]
  /\ to \in [Requests -> 0..Proxy]
  /\ outcome \in [Requests -> {"none", "served", "failed", "token", "refused", "unmapped"}]
  /\ logged \subseteq Requests

Init ==
  /\ pc = "mkdir" /\ k = 0
  /\ enableProxy \in BOOLEAN
  /\ committed = FALSE /\ interrupted = FALSE
  /\ child \in {"absent", "ready"}
  /\ dir = FALSE
  /\ log = "none"
  /\ db = [s \in Services |-> "none"]
  /\ listening = [s \in Servers |-> FALSE]
  /\ loop = [s \in Servers |-> "none"]
  /\ shut = [s \in Servers |-> FALSE]
  /\ expired = FALSE /\ first = FALSE
  /\ exit = "none"
  /\ stage = [r \in Requests |-> "idle"]
  /\ via = [r \in Requests |-> "none"]
  /\ to = [r \in Requests |-> 0]
  /\ outcome = [r \in Requests |-> "none"]
  /\ logged = {}

-----------------------------------------------------------------------------
(* Runtime.Close, also run by Start's deferred function when it fails.     *)

(* Close turns to server j and those below; with none left it removes the  *)
(* state directory.                                                        *)
CloseFrom(j) ==
  /\ k' = j
  /\ pc' = IF j = 0 THEN "remove" ELSE "shutdown"

(* The requests whose connection the http.Server of s still tracks.  A     *)
(* plain request stays with the proxy until it has been relayed.           *)
Active(s) ==
  {r \in Requests :
     \/ to[r] = s /\ s # Proxy /\ stage[r] \in {"handling", "recording"}
     \/ s = Proxy /\ via[r] = "plain"
        /\ stage[r] \in {"routing", "handling", "recording", "relaying"}}

(* Mutant: the database is closed before the requests have drained.        *)
ShutdownWithDatabase ==
  /\ pc = "shutdown"
  /\ shut' = [shut EXCEPT ![k] = TRUE]
  /\ listening' = [listening EXCEPT ![k] = @ /\ loop[k] # "accepting"]
  /\ db' = [s \in Services |-> IF s = k THEN "closed" ELSE db[s]]
  /\ pc' = "drain"
  /\ UNCHANGED <<k, enableProxy, committed, child, exit, interrupted,
                 dir, log, loop, teardown, requests>>

(* Shutdown closes the listener Serve is using and none that it is not.    *)
Shutdown ==
  /\ pc = "shutdown"
  /\ shut' = [shut EXCEPT ![k] = TRUE]
  /\ listening' = [listening EXCEPT ![k] = @ /\ loop[k] # "accepting"]
  /\ pc' = "drain"
  /\ UNCHANGED <<k, enableProxy, committed, child, exit, interrupted,
                 resources, loop, teardown, requests>>

(* Mutant: the loop over the services skips one at each turn.              *)
DrainSkips ==
  /\ pc = "drain"
  /\ loop[k] # "accepting"
  /\ Active(k) = {} \/ expired
  /\ first' = (first \/ Active(k) # {})
  /\ db' = [s \in Services |-> IF s = k THEN "closed" ELSE db[s]]
  /\ CloseFrom(k - 2)
  /\ UNCHANGED <<enableProxy, committed, child, exit, interrupted,
                 dir, log, servers, expired, requests>>

(* Shutdown returns, and Service.Close goes on to the server and the       *)
(* database whatever it returned.  An error of sql.DB.Close is reported;   *)
(* the handle is unusable all the same.                                    *)
Drain ==
  /\ pc = "drain"
  /\ loop[k] # "accepting"
  /\ Active(k) = {} \/ expired
  /\ \E closeFails \in BOOLEAN : first' = (first \/ Active(k) # {} \/ (closeFails /\ k # Proxy))
  /\ db' = [s \in Services |-> IF s = k THEN "closed" ELSE db[s]]
  /\ CloseFrom(k - 1)
  /\ UNCHANGED <<enableProxy, committed, child, exit, interrupted,
                 dir, log, servers, expired, requests>>

(* Mutant: the command closes with a context that never expires.           *)
DeadlineNever ==
  /\ pc \in Closing
  /\ expired
  /\ UNCHANGED vars

(* cli/run.go closes with CloseTimeout; Start's deferred Close has no      *)
(* deadline.                                                               *)
Deadline ==
  /\ pc \in Closing
  /\ committed
  /\ expired' = TRUE
  /\ UNCHANGED <<command, interrupted, resources, servers, first, requests>>

RemoveStateDir ==
  /\ pc = "remove"
  /\ \/ dir' = FALSE /\ UNCHANGED first
     \/ first' = TRUE /\ UNCHANGED dir
  /\ pc' = "closelog"
  /\ UNCHANGED <<k, enableProxy, committed, child, exit, interrupted,
                 log, db, servers, expired, requests>>

(* What cli/run.go returns: an error of the child hides one of Close.      *)
Report(error) ==
  IF ~committed THEN "start"
  ELSE IF child = "failed" THEN IF interrupted THEN "interrupted" ELSE "child"
  ELSE IF error THEN "teardown" ELSE "ok"

CloseLog ==
  /\ pc = "closelog"
  /\ log' = IF log = "open" THEN "closed" ELSE log
  /\ \E closeFails \in BOOLEAN : first' = (first \/ (closeFails /\ log = "open"))
  /\ pc' = "returned"
  /\ exit' = Report(first')
  /\ UNCHANGED <<k, enableProxy, committed, child, interrupted,
                 dir, db, servers, expired, requests>>

-----------------------------------------------------------------------------
(* Start.                                                                  *)

(* Nothing is cleaned up when there is not yet a Runtime.                  *)
MakeStateDir ==
  /\ pc = "mkdir"
  /\ \/ dir' = TRUE /\ pc' = "openlog" /\ UNCHANGED exit
     \/ pc' = "returned" /\ exit' = "start" /\ UNCHANGED dir
  /\ UNCHANGED <<k, enableProxy, committed, child, interrupted,
                 log, db, servers, teardown, requests>>

OpenLog ==
  /\ pc = "openlog"
  /\ \/ log' = "open" /\ pc' = "prepare" /\ k' = 1
     \/ CloseFrom(0) /\ UNCHANGED log
  /\ UNCHANGED <<enableProxy, committed, child, exit, interrupted,
                 dir, db, servers, teardown, requests>>

(* The resource and scenario are looked up and StartService prepares the   *)
(* state; see ServiceState for what Prepare does and undoes.               *)
PrepareService ==
  /\ pc = "prepare"
  /\ \/ /\ db' = [db EXCEPT ![k] = "open"]
        /\ pc' = "listen"
        /\ UNCHANGED k
     \/ CloseFrom(k - 1) /\ UNCHANGED db
  /\ UNCHANGED <<enableProxy, committed, child, exit, interrupted,
                 dir, log, servers, teardown, requests>>

(* Server s listens and its goroutine is started.                          *)
Spawn(s) ==
  /\ listening' = [listening EXCEPT ![s] = TRUE]
  /\ loop' = [loop EXCEPT ![s] = "spawned"]
  /\ UNCHANGED <<db, shut>>

(* Mutant: StartService fails without closing the database.                *)
ListenServiceLeaks ==
  /\ pc = "listen"
  /\ \/ /\ Spawn(k)
        /\ IF k < N THEN pc' = "prepare" /\ k' = k + 1 /\ UNCHANGED committed
           ELSE IF enableProxy THEN pc' = "proxy" /\ k' = Proxy /\ UNCHANGED committed
           ELSE pc' = "running" /\ committed' = TRUE /\ UNCHANGED k
     \/ CloseFrom(k - 1) /\ UNCHANGED <<committed, db, servers>>
  /\ UNCHANGED <<enableProxy, child, exit, interrupted, dir, log, teardown, requests>>

(* Mutant: the last service is left out.                                   *)
ListenServiceStopsEarly ==
  /\ pc = "listen"
  /\ Spawn(k)
  /\ IF k < N - 1 THEN pc' = "prepare" /\ k' = k + 1 /\ UNCHANGED committed
     ELSE IF enableProxy THEN pc' = "proxy" /\ k' = Proxy /\ UNCHANGED committed
     ELSE pc' = "running" /\ committed' = TRUE /\ UNCHANGED k
  /\ UNCHANGED <<enableProxy, child, exit, interrupted, dir, log, teardown, requests>>

(* The rest of StartService.  When it fails its deferred function closes   *)
(* the database, and Runtime.Close finds only the services before it.      *)
ListenService ==
  /\ pc = "listen"
  /\ \/ /\ Spawn(k)
        /\ IF k < N THEN pc' = "prepare" /\ k' = k + 1 /\ UNCHANGED committed
           ELSE IF enableProxy THEN pc' = "proxy" /\ k' = Proxy /\ UNCHANGED committed
           ELSE pc' = "running" /\ committed' = TRUE /\ UNCHANGED k
     \/ /\ db' = [db EXCEPT ![k] = "closed"]
        /\ CloseFrom(k - 1)
        /\ UNCHANGED <<committed, servers>>
  /\ UNCHANGED <<enableProxy, child, exit, interrupted, dir, log, teardown, requests>>

StartProxy ==
  /\ pc = "proxy"
  /\ \/ Spawn(k) /\ pc' = "running" /\ committed' = TRUE /\ UNCHANGED k
     \/ CloseFrom(k - 1) /\ UNCHANGED <<committed, db, servers>>
  /\ UNCHANGED <<enableProxy, child, exit, interrupted, dir, log, teardown, requests>>

-----------------------------------------------------------------------------
(* The command while the environment is up.                                *)

Interrupt ==
  /\ pc # "returned"
  /\ interrupted' = TRUE
  /\ UNCHANGED <<command, resources, servers, teardown, requests>>

(* exec.CommandContext starts nothing once the context is done.            *)
StartChild ==
  /\ pc = "running" /\ child = "ready"
  /\ child' \in {"failed"} \union (IF interrupted THEN {} ELSE {"running"})
  /\ UNCHANGED <<pc, k, enableProxy, committed, exit, interrupted,
                 resources, servers, teardown, requests>>

ChildExits ==
  /\ child = "running"
  /\ child' \in {"succeeded", "failed"}
  /\ UNCHANGED <<pc, k, enableProxy, committed, exit, interrupted,
                 resources, servers, teardown, requests>>

(* Mutant: the request log is closed before the servers.                   *)
BeginCloseLogFirst ==
  /\ pc = "running"
  /\ \/ child = "absent" /\ interrupted
     \/ child \in {"succeeded", "failed"}
  /\ log' = "closed"
  /\ CloseFrom(k)
  /\ UNCHANGED <<enableProxy, committed, child, exit, interrupted,
                 dir, db, servers, teardown, requests>>

(* Mutant: the services are closed and the proxy is not.                   *)
BeginCloseSkipsProxy ==
  /\ pc = "running"
  /\ \/ child = "absent" /\ interrupted
     \/ child \in {"succeeded", "failed"}
  /\ CloseFrom(N)
  /\ UNCHANGED <<enableProxy, committed, child, exit, interrupted,
                 resources, servers, teardown, requests>>

(* Mutant: only the directory and the log are closed.                      *)
BeginCloseSkipsServers ==
  /\ pc = "running"
  /\ \/ child = "absent" /\ interrupted
     \/ child \in {"succeeded", "failed"}
  /\ CloseFrom(0)
  /\ UNCHANGED <<enableProxy, committed, child, exit, interrupted,
                 resources, servers, teardown, requests>>

BeginClose ==
  /\ pc = "running"
  /\ \/ child = "absent" /\ interrupted
     \/ child \in {"succeeded", "failed"}
  /\ CloseFrom(k)
  /\ UNCHANGED <<enableProxy, committed, child, exit, interrupted,
                 resources, servers, teardown, requests>>

-----------------------------------------------------------------------------
(* The goroutines that call Serve.                                         *)

BeginServe(s) ==
  /\ loop[s] = "spawned"
  /\ loop' = [loop EXCEPT ![s] = IF shut[s] THEN "exited" ELSE "accepting"]
  /\ listening' = [listening EXCEPT ![s] = @ /\ ~shut[s]]
  /\ UNCHANGED <<command, interrupted, resources, shut, teardown, requests>>

(* Accept fails because of Shutdown, or by itself: the error goes to       *)
(* serveErr, which nothing reads.                                          *)
EndServe(s) ==
  /\ loop[s] = "accepting"
  /\ loop' = [loop EXCEPT ![s] = "exited"]
  /\ listening' = [listening EXCEPT ![s] = FALSE]
  /\ UNCHANGED <<command, interrupted, resources, shut, teardown, requests>>

-----------------------------------------------------------------------------
(* Requests.  Clients learn the URLs when Start has returned.              *)

Advance(r, from, next) ==
  /\ stage[r] = from
  /\ stage' = [stage EXCEPT ![r] = next]
  /\ UNCHANGED <<command, interrupted, resources, servers, teardown>>

(* Mutant: clients are given the URLs before Start has returned.           *)
ReachesEarly(s) == loop[s] = "accepting"

Reaches(s) == committed /\ loop[s] = "accepting"

CallService(r, s) ==
  /\ Reaches(s)
  /\ Advance(r, "idle", "handling")
  /\ via' = [via EXCEPT ![r] = "direct"]
  /\ to' = [to EXCEPT ![r] = s]
  /\ UNCHANGED <<outcome, logged>>

CallProxy(r) ==
  /\ Reaches(Proxy)
  /\ Advance(r, "idle", "routing")
  /\ via' = [via EXCEPT ![r] = "plain"]
  /\ UNCHANGED <<to, outcome, logged>>

(* CONNECT to a declared host: the connection is hijacked and served by a  *)
(* goroutine that no http.Server knows.                                    *)
OpenTunnel(r) ==
  /\ Reaches(Proxy)
  /\ Advance(r, "idle", "tunnel")
  /\ via' = [via EXCEPT ![r] = "tunnel"]
  /\ UNCHANGED <<to, outcome, logged>>

TunnelRequest(r) ==
  /\ Advance(r, "tunnel", "routing")
  /\ UNCHANGED <<via, to, outcome, logged>>

(* The proxy matches a route and forwards to the service.                  *)
Forward(r, s) ==
  /\ loop[s] = "accepting"
  /\ Advance(r, "routing", "handling")
  /\ to' = [to EXCEPT ![r] = s]
  /\ UNCHANGED <<via, outcome, logged>>

(* The service no longer listens: the proxy answers 502.                   *)
Refuse(r, s) ==
  /\ ~listening[s]
  /\ Advance(r, "routing", "relaying")
  /\ outcome' = [outcome EXCEPT ![r] = "refused"]
  /\ UNCHANGED <<via, to, logged>>

(* No route has the path: the proxy answers 403.                           *)
Unmapped(r) ==
  /\ Advance(r, "routing", "relaying")
  /\ outcome' = [outcome EXCEPT ![r] = "unmapped"]
  /\ UNCHANGED <<via, to, logged>>

(* The OAuth route is answered by the proxy itself.                        *)
IssueToken(r) ==
  /\ Advance(r, "routing", "recording")
  /\ to' = [to EXCEPT ![r] = Proxy]
  /\ outcome' = [outcome EXCEPT ![r] = "token"]
  /\ UNCHANGED <<via, logged>>

(* The handler of the resource queries its database.                       *)
Handle(r) ==
  /\ Advance(r, "handling", "recording")
  /\ outcome' = [outcome EXCEPT ![r] = IF db[to[r]] = "open" THEN "served" ELSE "failed"]
  /\ UNCHANGED <<via, to, logged>>

(* The middleware, or the proxy for a token, records what was answered.    *)
(* After Log.Close Record returns without a trace.                         *)
Record(r) ==
  /\ Advance(r, "recording", IF via[r] = "direct" THEN "done" ELSE "relaying")
  /\ logged' = IF log = "open" THEN logged \union {r} ELSE logged
  /\ UNCHANGED <<via, to, outcome>>

Relay(r) ==
  /\ Advance(r, "relaying", "done")
  /\ UNCHANGED <<via, to, outcome, logged>>

-----------------------------------------------------------------------------
Start == MakeStateDir \/ OpenLog \/ PrepareService \/ ListenService \/ StartProxy
Close == Shutdown \/ Drain \/ RemoveStateDir \/ CloseLog
Serve == \E s \in Servers : BeginServe(s) \/ EndServe(s)
Request(r) ==
  \/ \E s \in Services : CallService(r, s) \/ Forward(r, s) \/ Refuse(r, s)
  \/ CallProxy(r) \/ OpenTunnel(r) \/ TunnelRequest(r) \/ Unmapped(r)
  \/ IssueToken(r) \/ Handle(r) \/ Record(r) \/ Relay(r)

Next ==
  \/ Start \/ Close \/ Deadline
  \/ Interrupt \/ StartChild \/ ChildExits \/ BeginClose
  \/ Serve
  \/ \E r \in Requests : Request(r)

Spec == Init /\ [][Next]_vars

(* The command and the Serve goroutines are scheduled, an accept loop ends *)
(* after Shutdown, the timer of CloseTimeout fires and CommandContext      *)
(* kills the child of an interrupted run.  Nothing is assumed of clients,  *)
(* of handlers, of signals or of a child left to itself.                   *)
Fairness ==
  /\ WF_vars(Start \/ StartChild \/ BeginClose)
  /\ WF_vars(Close)
  /\ WF_vars(Deadline)
  /\ WF_vars(interrupted /\ ChildExits)
  /\ \A s \in Servers : WF_vars(BeginServe(s)) /\ WF_vars(shut[s] /\ EndServe(s))

FairSpec == Spec /\ Fairness

-----------------------------------------------------------------------------
(* Safety.                                                                 *)

(* A handler finds its database closed only if Close reports an error: a   *)
(* teardown that reports success took no database from under a request.    *)
NoUseAfterClose == \A r \in Requests : outcome[r] = "failed" => first

(* A service handles the request or its middleware records it.             *)
AtService(r) == to[r] \in Services /\ stage[r] \in {"handling", "recording"}

(* What the command leaves behind when it returns, after a failed Start    *)
(* and after Close alike: no open database, no open log, no server that    *)
(* accepts; a listener only where a Serve goroutine has yet to run and     *)
(* will close it; the state directory, and requests that a service or the  *)
(* proxy tracks, only with an error.  Without one what is still under way  *)
(* is in a tunnel, and with no service.                                    *)
NothingLeftBehind ==
  pc = "returned" =>
    /\ \A s \in Services : db[s] # "open"
    /\ log # "open"
    /\ \A s \in Servers : loop[s] # "accepting"
    /\ \A s \in Servers : listening[s] => loop[s] = "spawned" /\ shut[s]
    /\ dir => first
    /\ \A r \in Requests :
         stage[r] \in {"routing", "handling", "recording", "relaying"} =>
           first \/ (via[r] = "tunnel" /\ ~AtService(r))

(* Every request that was answered is in the request log, but for those a  *)
(* failed teardown cut off and the tokens issued in tunnels, which nobody  *)
(* waits for.                                                              *)
AnsweredIsLogged ==
  \A r \in Requests :
    /\ stage[r] \in {"relaying", "done"}
    /\ outcome[r] \in {"served", "failed", "token"}
    => r \in logged \/ first \/ (via[r] = "tunnel" /\ outcome[r] = "token")

(* Closing the proxy before the services means that a request the proxy    *)
(* still tracks is not refused by a service that Close has taken away,     *)
(* only by one whose accept loop ended on its own or after an error.       *)
PlainIsNotRefused ==
  [][\A r \in Requests :
       outcome'[r] = "refused" /\ outcome[r] # "refused" /\ via[r] = "plain" =>
         first \/ \E s \in Services : loop[s] = "exited" /\ ~shut[s]]_vars

(* Docs: a graceful shutdown drains requests.  A command that reports      *)
(* success has none under way.                                             *)
GracefulDrain ==
  exit = "ok" =>
    \A r \in Requests : stage[r] \notin {"routing", "handling", "recording", "relaying"}

(* Refinement of Sandbox.                                                  *)
Phase ==
  CASE pc = "mkdir" -> "absent"
    [] pc \in {"openlog", "prepare", "listen", "proxy"} -> "assembling"
    [] pc = "running" -> "available"
    [] pc \in Closing -> "dismantling"
    [] OTHER -> "gone"

Abstract == INSTANCE Sandbox WITH
  Members <- Services,
  phase <- Phase,
  up <- {s \in Services : db[s] = "open"},
  taken <- {r \in Requests : stage[r] # "idle"}

(* The environment appears as a whole or not at all, takes requests only   *)
(* while its owner has not been told that it is gone, and goes entirely.   *)
ImplementsSandbox == Abstract!Spec

-----------------------------------------------------------------------------
(* Liveness.                                                               *)

(* Start ends, in particular when its rollback closes the services without *)
(* a deadline.                                                             *)
StartEnds == <>(committed \/ pc = "returned")

(* A signal or the end of the child leads to the end of the command,       *)
(* whatever clients and handlers do.                                       *)
CommandEnds == (interrupted \/ child \in {"succeeded", "failed"}) ~> (pc = "returned")

(* Also the listener of a server that was closed before its goroutine ran  *)
(* is closed in the end.                                                   *)
ListenersClose == (pc = "returned") ~> (\A s \in Servers : ~listening[s])
=============================================================================

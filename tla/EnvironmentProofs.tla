-------------------------- MODULE EnvironmentProofs --------------------------
(***************************************************************************)
(* Proofs about Environment, for any number of services and any requests.  *)
(***************************************************************************)
EXTENDS Environment, TLAPS

Assembling == {"mkdir", "openlog", "prepare", "listen", "proxy"}

(* A server that Start has not reached.                                    *)
Fresh(s) ==
  /\ s \in Services => db[s] = "none"
  /\ loop[s] = "none" /\ ~listening[s] /\ ~shut[s]

(* A server that Start has brought up and Close has not reached.           *)
Up(s) ==
  /\ s \in Services => db[s] = "open"
  /\ loop[s] # "none" /\ ~shut[s]
  /\ listening[s] <=> loop[s] # "exited"

(* A server between its Shutdown and the end of it.                        *)
Draining(s) ==
  /\ s \in Services => db[s] = "open"
  /\ loop[s] # "none" /\ shut[s]
  /\ listening[s] => loop[s] = "spawned"

(* A server that is closed or never was.                                   *)
Down(s) ==
  /\ s \in Services => db[s] # "open"
  /\ loop[s] # "accepting"
  /\ loop[s] = "spawned" => shut[s]
  /\ listening[s] => loop[s] = "spawned"

(* The command works on server k; those below it are up, and those above   *)
(* it are fresh on the way up and down on the way down.                    *)
PositionInv ==
  /\ pc \in {"mkdir", "openlog"} => \A s \in Servers : Fresh(s)
  /\ pc \in {"prepare", "listen"} => k \in Services
  /\ pc = "proxy" => k = Proxy
  /\ pc = "running" => k \in {N, Proxy}
  /\ pc \in {"shutdown", "drain"} => k \in Servers
  /\ pc \in {"prepare", "listen", "proxy", "running", "shutdown", "drain"} =>
       \A s \in Servers : s < k => Up(s)
  /\ pc \in {"prepare", "listen", "proxy", "running"} =>
       \A s \in Servers : s > k => Fresh(s)
  /\ pc \in {"prepare", "proxy"} => Fresh(k)
  /\ pc = "listen" => /\ db[k] = "open"
                      /\ loop[k] = "none" /\ ~listening[k] /\ ~shut[k]
  /\ pc \in {"running", "shutdown"} => Up(k)
  /\ pc = "drain" => Draining(k)
  /\ pc \in {"shutdown", "drain"} => \A s \in Servers : s > k => Down(s)
  /\ pc \in {"remove", "closelog", "returned"} => \A s \in Servers : Down(s)

(* The rest of the command's state.                                        *)
CommandInv ==
  /\ pc \in Assembling => ~committed
  /\ pc = "running" => committed
  /\ pc \in {"mkdir", "openlog"} => log = "none"
  /\ pc \in {"prepare", "listen", "proxy", "running", "shutdown", "drain"} => log = "open"
  /\ pc = "returned" => log # "open"
  /\ pc = "mkdir" => ~dir
  /\ pc \in {"closelog", "returned"} => (dir => first)

(* Shutdown of the proxy has not ended: it still waits for what it tracks. *)
ProxyUp == pc \in {"running", "shutdown", "drain"} /\ k = Proxy

(* How a request came and what answered it fit where it stands.            *)
RequestInv ==
  \A r \in Requests :
    /\ stage[r] # "idle" => committed
    /\ stage[r] = "idle" => outcome[r] = "none"
    /\ stage[r] # "idle" => via[r] # "none"
    /\ stage[r] = "relaying" => via[r] \in {"plain", "tunnel"}
    /\ stage[r] \in {"tunnel", "routing", "handling"} => outcome[r] = "none"
    /\ stage[r] = "tunnel" => via[r] = "tunnel"
    /\ stage[r] = "routing" => via[r] \in {"plain", "tunnel"}
    /\ stage[r] = "handling" => to[r] \in Services
    /\ stage[r] = "recording" =>
         \/ to[r] \in Services /\ outcome[r] \in {"served", "failed"}
         \/ to[r] = Proxy /\ outcome[r] = "token" /\ via[r] \in {"plain", "tunnel"}

(* What a Shutdown waits for: unless Close has an error to report, a       *)
(* request with a handler has that service's database, and a plain request *)
(* has the proxy.                                                          *)
TrackedInv ==
  \A r \in Requests :
    /\ stage[r] \in {"handling", "recording"} /\ to[r] \in Services =>
         first \/ db[to[r]] = "open"
    /\ via[r] = "plain" /\ stage[r] \in {"routing", "handling", "recording", "relaying"} =>
         first \/ ProxyUp

IInv ==
  /\ TypeOK
  /\ PositionInv
  /\ CommandInv
  /\ RequestInv
  /\ TrackedInv
  /\ NoUseAfterClose
  /\ AnsweredIsLogged

-----------------------------------------------------------------------------
LEMMA ServerFacts ==
  /\ N \in Nat /\ N >= 1 /\ Proxy = N + 1 /\ Proxy \in Servers
  /\ Proxy \notin Services /\ Services \subseteq Servers
  /\ \A s : s \in Services <=> s \in Int /\ 1 <= s /\ s <= N
  /\ \A s : s \in Servers <=> s \in Int /\ 1 <= s /\ s <= N + 1
  BY NAssumption DEF Proxy, Services, Servers

LEMMA InitIInv == Init => IInv
<1> SUFFICES ASSUME Init PROVE IInv
  OBVIOUS
<1>1. TypeOK
  <2>1. k \in 0..Proxy
    BY ServerFacts DEF Init
  <2>2. /\ listening \in [Servers -> BOOLEAN] /\ shut \in [Servers -> BOOLEAN]
        /\ dir \in BOOLEAN /\ expired \in BOOLEAN /\ first \in BOOLEAN
        /\ enableProxy \in BOOLEAN /\ committed \in BOOLEAN /\ interrupted \in BOOLEAN
    BY DEF Init
  <2> QED
    BY <2>1, <2>2, ServerFacts DEF Init, TypeOK, Closing
<1>2. PositionInv
  BY ServerFacts DEF Init, PositionInv, Fresh
<1>3. CommandInv /\ RequestInv /\ TrackedInv /\ NoUseAfterClose /\ AnsweredIsLogged
  BY
     DEF Init, CommandInv, RequestInv, TrackedInv, NoUseAfterClose, AnsweredIsLogged,
         Assembling
<1> QED
  BY <1>1, <1>2, <1>3 DEF IInv

(* While a database is open the request log is.                            *)
LEMMA LogIsOpen ==
  ASSUME IInv, NEW s \in Services, db[s] = "open"
  PROVE  log = "open"
<1>1. pc \in Closing \union Assembling \union {"running", "returned"}
  BY DEF IInv, TypeOK, Assembling
<1>2. pc \in {"prepare", "listen", "proxy", "running", "shutdown", "drain"}
  BY <1>1, ServerFacts DEF IInv, PositionInv, Fresh, Down, Closing, Assembling
<1> QED
  BY <1>2 DEF IInv, CommandInv

(* What is said of requests survives a step of the command or of a Serve   *)
(* goroutine.                                                              *)
LEMMA RequestsKept ==
  ASSUME IInv, UNCHANGED requests, committed => committed', first => first'
  PROVE  RequestInv' /\ NoUseAfterClose' /\ AnsweredIsLogged'
<1>1. UNCHANGED <<stage, via, to, outcome, logged>>
  BY DEF requests
<1> QED
  BY <1>1 DEF IInv, RequestInv, NoUseAfterClose, AnsweredIsLogged

(* Before Start returns there is no request.                               *)
LEMMA TrackedByNobody ==
  ASSUME IInv, UNCHANGED requests, ~committed
  PROVE  TrackedInv'
  BY DEF IInv, RequestInv, TrackedInv, requests

(* No database and no proxy is taken away.                                 *)
LEMMA TrackedKept ==
  ASSUME IInv, UNCHANGED requests, first => first', ProxyUp => ProxyUp',
         \A s \in Services : db[s] = "open" => db'[s] = "open"
  PROVE  TrackedInv'
<1>1. UNCHANGED <<stage, via, to>>
  BY DEF requests
<1> QED
  BY <1>1 DEF IInv, TrackedInv

(* What is said of the command and the servers survives a request's step.  *)
LEMMA CommandKept ==
  ASSUME IInv, UNCHANGED <<command, interrupted, resources, servers, teardown>>
  PROVE  PositionInv' /\ CommandInv'
<1>1. UNCHANGED <<pc, k, committed, dir, log, db, listening, loop, shut, first>>
  BY DEF command, resources, servers, teardown
<1> QED
  BY <1>1 DEF IInv, PositionInv, CommandInv, Fresh, Up, Draining, Down

(* A server that accepts while requests may come is up or draining, and so *)
(* its database is open.                                                   *)
LEMMA AcceptingIsUp ==
  ASSUME IInv, NEW s \in Servers, loop[s] = "accepting"
  PROVE  /\ pc \in {"prepare", "listen", "proxy", "running", "shutdown", "drain"}
         /\ s <= k
         /\ s \in Services => db[s] = "open"
<1>1. pc \in Closing \union Assembling \union {"running", "returned"}
  BY DEF IInv, TypeOK, Assembling
<1>2. pc \in {"prepare", "listen", "proxy", "running", "shutdown", "drain"}
  BY <1>1 DEF IInv, PositionInv, Fresh, Down, Closing, Assembling
<1>3. k \in Int /\ s \in Int
  BY ServerFacts DEF IInv, TypeOK
<1>4. s <= k
  BY <1>2, <1>3 DEF IInv, PositionInv, Fresh, Down
<1>5. s < k => Up(s)
  BY <1>2 DEF IInv, PositionInv
<1>6. s = k => Up(s) \/ Draining(s)
  BY <1>2, ServerFacts DEF IInv, PositionInv, Fresh
<1> QED
  BY <1>2, <1>3, <1>4, <1>5, <1>6 DEF Up, Draining

-----------------------------------------------------------------------------
LEMMA StepIInv == IInv /\ [Next]_vars => IInv'
<1> SUFFICES ASSUME IInv, [Next]_vars
             PROVE  IInv'
  OBVIOUS
<1>1. CASE MakeStateDir
  <2>1. UNCHANGED requests /\ (committed => committed') /\ (first => first')
    BY <1>1 DEF MakeStateDir, command, teardown
  <2>2. TypeOK'
    <3>1. dir' \in BOOLEAN
      BY <1>1 DEF MakeStateDir, IInv, TypeOK
    <3> QED
      BY <1>1, <3>1, ServerFacts DEF MakeStateDir, IInv, TypeOK, PositionInv, Closing,
         command, resources, servers, teardown, requests
  <2>3. PositionInv'
    BY <1>1, ServerFacts
       DEF MakeStateDir, IInv, TypeOK, PositionInv, Fresh, Up, Draining, Down,
       command, resources, servers, Closing
  <2>4. CommandInv'
    BY <1>1, ServerFacts
       DEF MakeStateDir, IInv, TypeOK, PositionInv, CommandInv, Assembling, Closing,
       command, resources, servers, teardown
  <2>5. TrackedInv'
    BY <2>1, <1>1, TrackedByNobody DEF MakeStateDir, IInv, CommandInv, Assembling
  <2> QED
    BY <2>1, <2>2, <2>3, <2>4, <2>5, RequestsKept DEF IInv
<1>2. CASE OpenLog
  <2>1. UNCHANGED requests /\ (committed => committed') /\ (first => first')
    BY <1>2 DEF OpenLog, CloseFrom, command, teardown
  <2>2. TypeOK'
    BY <1>2, ServerFacts DEF OpenLog, CloseFrom, IInv, TypeOK, PositionInv, Closing,
       command, resources, servers, teardown, requests
  <2>3. PositionInv'
    BY <1>2, ServerFacts
       DEF OpenLog, CloseFrom, IInv, TypeOK, PositionInv, Fresh, Up, Draining, Down,
       command, resources, servers, Closing
  <2>4. CommandInv'
    BY <1>2, ServerFacts
       DEF OpenLog, CloseFrom, IInv, TypeOK, PositionInv, CommandInv, Assembling, Closing,
       command, resources, servers, teardown
  <2>5. TrackedInv'
    BY <2>1, <1>2, TrackedByNobody DEF OpenLog, CloseFrom, IInv, CommandInv, Assembling
  <2> QED
    BY <2>1, <2>2, <2>3, <2>4, <2>5, RequestsKept DEF IInv
<1>3. CASE PrepareService
  <2>1. UNCHANGED requests /\ (committed => committed') /\ (first => first')
    BY <1>3 DEF PrepareService, CloseFrom, command, teardown
  <2>2. TypeOK'
    BY <1>3, ServerFacts DEF PrepareService, CloseFrom, IInv, TypeOK, PositionInv, Closing,
       command, resources, servers, teardown, requests
  <2>3. PositionInv'
    BY <1>3, ServerFacts
       DEF PrepareService, CloseFrom, IInv, TypeOK, PositionInv, Fresh, Up, Draining, Down,
       command, resources, servers, Closing
  <2>4. CommandInv'
    BY <1>3, ServerFacts
       DEF PrepareService, CloseFrom, IInv, TypeOK, PositionInv, CommandInv, Assembling,
           Closing,
       command, resources, servers, teardown
  <2>5. TrackedInv'
    BY <2>1, <1>3, TrackedByNobody
       DEF PrepareService, CloseFrom, IInv, CommandInv, Assembling
  <2> QED
    BY <2>1, <2>2, <2>3, <2>4, <2>5, RequestsKept DEF IInv
<1>4. CASE ListenService
  <2>1. UNCHANGED requests /\ (committed => committed') /\ (first => first')
    BY <1>4 DEF ListenService, CloseFrom, Spawn, command, teardown
  <2>2. TypeOK'
    <3>1. committed' \in BOOLEAN
      BY <1>4 DEF ListenService, CloseFrom, Spawn, IInv, TypeOK
    <3>2. k' \in 0..Proxy
      BY <1>4, ServerFacts DEF ListenService, CloseFrom, Spawn, IInv, TypeOK, PositionInv
    <3>3. pc' \in Closing \union {"prepare", "proxy", "running"}
      BY <1>4 DEF ListenService, CloseFrom, Spawn, Closing
    <3>4. UNCHANGED servers \/ Spawn(k)
      BY <1>4 DEF ListenService
    <3>5. /\ listening' \in [Servers -> BOOLEAN] /\ shut' \in [Servers -> BOOLEAN]
          /\ loop' \in [Servers -> {"none", "spawned", "accepting", "exited"}]
      BY <3>4 DEF Spawn, servers, IInv, TypeOK
    <3>6. db' \in [Services -> {"none", "open", "closed"}]
      BY <1>4 DEF ListenService, Spawn, IInv, TypeOK
    <3>7. /\ UNCHANGED <<enableProxy, child, exit, interrupted, dir, log>>
          /\ UNCHANGED <<expired, first, stage, via, to, outcome, logged>>
      BY <1>4 DEF ListenService, teardown, requests
    <3> QED
      BY <3>1, <3>2, <3>3, <3>5, <3>6, <3>7 DEF IInv, TypeOK
  <2>3. PositionInv'
    BY <1>4, ServerFacts
       DEF ListenService, CloseFrom, Spawn, IInv, TypeOK, PositionInv, Fresh, Up,
           Draining, Down,
       command, resources, servers, Closing
  <2>4. CommandInv'
    BY <1>4, ServerFacts
       DEF ListenService, CloseFrom, Spawn, IInv, TypeOK, PositionInv, CommandInv,
           Assembling, Closing,
       command, resources, servers, teardown
  <2>5. TrackedInv'
    BY <2>1, <1>4, TrackedByNobody
       DEF ListenService, CloseFrom, Spawn, IInv, CommandInv, Assembling
  <2> QED
    BY <2>1, <2>2, <2>3, <2>4, <2>5, RequestsKept DEF IInv
<1>5. CASE StartProxy
  <2>1. UNCHANGED requests /\ (committed => committed') /\ (first => first')
    BY <1>5 DEF StartProxy, CloseFrom, Spawn, command, teardown
  <2>2. TypeOK'
    <3>1. committed' \in BOOLEAN
      BY <1>5 DEF StartProxy, CloseFrom, Spawn, IInv, TypeOK
    <3>2. k' \in 0..Proxy
      BY <1>5, ServerFacts DEF StartProxy, CloseFrom, Spawn, IInv, TypeOK, PositionInv
    <3>3. pc' \in Closing \union {"prepare", "proxy", "running"}
      BY <1>5 DEF StartProxy, CloseFrom, Spawn, Closing
    <3>4. UNCHANGED servers \/ Spawn(k)
      BY <1>5 DEF StartProxy
    <3>5. /\ listening' \in [Servers -> BOOLEAN] /\ shut' \in [Servers -> BOOLEAN]
          /\ loop' \in [Servers -> {"none", "spawned", "accepting", "exited"}]
      BY <3>4 DEF Spawn, servers, IInv, TypeOK
    <3>6. db' \in [Services -> {"none", "open", "closed"}]
      BY <1>5 DEF StartProxy, Spawn, IInv, TypeOK
    <3>7. /\ UNCHANGED <<enableProxy, child, exit, interrupted, dir, log>>
          /\ UNCHANGED <<expired, first, stage, via, to, outcome, logged>>
      BY <1>5 DEF StartProxy, teardown, requests
    <3> QED
      BY <3>1, <3>2, <3>3, <3>5, <3>6, <3>7 DEF IInv, TypeOK
  <2>3. PositionInv'
    BY <1>5, ServerFacts
       DEF StartProxy, CloseFrom, Spawn, IInv, TypeOK, PositionInv, Fresh, Up, Draining,
           Down,
       command, resources, servers, Closing
  <2>4. CommandInv'
    BY <1>5, ServerFacts
       DEF StartProxy, CloseFrom, Spawn, IInv, TypeOK, PositionInv, CommandInv,
           Assembling, Closing,
       command, resources, servers, teardown
  <2>5. TrackedInv'
    BY <2>1, <1>5, TrackedByNobody
       DEF StartProxy, CloseFrom, Spawn, IInv, CommandInv, Assembling
  <2> QED
    BY <2>1, <2>2, <2>3, <2>4, <2>5, RequestsKept DEF IInv
<1>6. CASE Shutdown
  <2>1. UNCHANGED requests /\ (committed => committed') /\ (first => first')
    BY <1>6 DEF Shutdown, command, teardown
  <2>2. TypeOK'
    BY <1>6, ServerFacts DEF Shutdown, IInv, TypeOK, PositionInv, Closing,
       command, resources, servers, teardown, requests
  <2>3. PositionInv'
    BY <1>6, ServerFacts DEF Shutdown, IInv, TypeOK, PositionInv, Fresh, Up, Draining, Down,
       command, resources, servers, Closing
  <2>4. CommandInv'
    BY <1>6, ServerFacts
       DEF Shutdown, IInv, TypeOK, PositionInv, CommandInv, Assembling, Closing,
       command, resources, servers, teardown
  <2>5. TrackedInv'
    BY <2>1, <1>6, ServerFacts, TrackedKept
       DEF Shutdown, ProxyUp, Closing, command, resources
  <2> QED
    BY <2>1, <2>2, <2>3, <2>4, <2>5, RequestsKept DEF IInv
<1>7. CASE Drain
  <2>1. UNCHANGED requests /\ (committed => committed') /\ (first => first')
    BY <1>7 DEF Drain
  <2>2. TypeOK'
    BY <1>7, ServerFacts DEF Drain, CloseFrom, IInv, TypeOK, PositionInv, Closing,
       resources, servers, teardown, requests
  <2>3. PositionInv'
    BY <1>7, ServerFacts
       DEF Drain, CloseFrom, IInv, TypeOK, PositionInv, Fresh, Up, Draining, Down,
       servers, Closing
  <2>4. CommandInv'
    BY <1>7, ServerFacts DEF Drain, CloseFrom, IInv, TypeOK, PositionInv, CommandInv,
       Assembling, Closing
  <2>5. TrackedInv'
    <3>1. CASE Active(k) # {}
      BY <1>7, <3>1 DEF Drain, TrackedInv
    <3>2. CASE Active(k) = {}
      BY <1>7, <2>1, <3>2, ServerFacts
         DEF Drain, CloseFrom, Active, IInv, TypeOK, PositionInv, TrackedInv, ProxyUp,
             requests
    <3> QED
      BY <3>1, <3>2
  <2> QED
    BY <2>1, <2>2, <2>3, <2>4, <2>5, RequestsKept DEF IInv
<1>8. CASE RemoveStateDir
  <2>1. UNCHANGED requests /\ (committed => committed') /\ (first => first')
    BY <1>8 DEF RemoveStateDir, command, teardown
  <2>2. TypeOK'
    <3>1. dir' \in BOOLEAN /\ first' \in BOOLEAN
      BY <1>8 DEF RemoveStateDir, IInv, TypeOK
    <3> QED
      BY <1>8, <3>1, ServerFacts DEF RemoveStateDir, IInv, TypeOK, PositionInv, Closing,
         command, resources, servers, teardown, requests
  <2>3. PositionInv'
    BY <1>8, ServerFacts
       DEF RemoveStateDir, IInv, TypeOK, PositionInv, Fresh, Up, Draining, Down,
       command, resources, servers, Closing
  <2>4. CommandInv'
    BY <1>8, ServerFacts
       DEF RemoveStateDir, IInv, TypeOK, PositionInv, CommandInv, Assembling, Closing,
       command, resources, servers, teardown
  <2>5. TrackedInv'
    BY <2>1, <1>8, ServerFacts, TrackedKept
       DEF RemoveStateDir, ProxyUp, Closing, command, resources
  <2> QED
    BY <2>1, <2>2, <2>3, <2>4, <2>5, RequestsKept DEF IInv
<1>9. CASE CloseLog
  <2>1. UNCHANGED requests /\ (committed => committed') /\ (first => first')
    BY <1>9 DEF CloseLog, Report, command, teardown
  <2>2. TypeOK'
    BY <1>9, ServerFacts DEF CloseLog, Report, IInv, TypeOK, PositionInv, Closing,
       command, resources, servers, teardown, requests
  <2>3. PositionInv'
    BY <1>9, ServerFacts
       DEF CloseLog, Report, IInv, TypeOK, PositionInv, Fresh, Up, Draining, Down,
       command, resources, servers, Closing
  <2>4. CommandInv'
    BY <1>9, ServerFacts
       DEF CloseLog, Report, IInv, TypeOK, PositionInv, CommandInv, Assembling, Closing,
       command, resources, servers, teardown
  <2>5. TrackedInv'
    BY <2>1, <1>9, ServerFacts, TrackedKept
       DEF CloseLog, Report, ProxyUp, Closing, command, resources
  <2> QED
    BY <2>1, <2>2, <2>3, <2>4, <2>5, RequestsKept DEF IInv
<1>10. CASE Deadline
  <2>1. UNCHANGED requests /\ (committed => committed') /\ (first => first')
    BY <1>10 DEF Deadline, command, teardown
  <2>2. TypeOK'
    BY <1>10, ServerFacts DEF Deadline, IInv, TypeOK, PositionInv, Closing,
       command, resources, servers, teardown, requests
  <2>3. PositionInv'
    BY <1>10, ServerFacts
       DEF Deadline, IInv, TypeOK, PositionInv, Fresh, Up, Draining, Down,
       command, resources, servers, Closing
  <2>4. CommandInv'
    BY <1>10, ServerFacts
       DEF Deadline, IInv, TypeOK, PositionInv, CommandInv, Assembling, Closing,
       command, resources, servers, teardown
  <2>5. TrackedInv'
    BY <2>1, <1>10, ServerFacts, TrackedKept
       DEF Deadline, ProxyUp, Closing, command, resources
  <2> QED
    BY <2>1, <2>2, <2>3, <2>4, <2>5, RequestsKept DEF IInv
<1>11. CASE Interrupt
  <2>1. UNCHANGED requests /\ (committed => committed') /\ (first => first')
    BY <1>11 DEF Interrupt, command, teardown
  <2>2. TypeOK'
    BY <1>11, ServerFacts DEF Interrupt, IInv, TypeOK, PositionInv, Closing,
       command, resources, servers, teardown, requests
  <2>3. PositionInv'
    BY <1>11, ServerFacts
       DEF Interrupt, IInv, TypeOK, PositionInv, Fresh, Up, Draining, Down,
       command, resources, servers, Closing
  <2>4. CommandInv'
    BY <1>11, ServerFacts
       DEF Interrupt, IInv, TypeOK, PositionInv, CommandInv, Assembling, Closing,
       command, resources, servers, teardown
  <2>5. TrackedInv'
    BY <2>1, <1>11, ServerFacts, TrackedKept
       DEF Interrupt, ProxyUp, Closing, command, resources
  <2> QED
    BY <2>1, <2>2, <2>3, <2>4, <2>5, RequestsKept DEF IInv
<1>12. CASE StartChild
  <2>1. UNCHANGED requests /\ (committed => committed') /\ (first => first')
    BY <1>12 DEF StartChild, command, teardown
  <2>2. TypeOK'
    BY <1>12, ServerFacts DEF StartChild, IInv, TypeOK, PositionInv, Closing,
       command, resources, servers, teardown, requests
  <2>3. PositionInv'
    BY <1>12, ServerFacts
       DEF StartChild, IInv, TypeOK, PositionInv, Fresh, Up, Draining, Down,
       command, resources, servers, Closing
  <2>4. CommandInv'
    BY <1>12, ServerFacts
       DEF StartChild, IInv, TypeOK, PositionInv, CommandInv, Assembling, Closing,
       command, resources, servers, teardown
  <2>5. TrackedInv'
    BY <2>1, <1>12, ServerFacts, TrackedKept
       DEF StartChild, ProxyUp, Closing, command, resources
  <2> QED
    BY <2>1, <2>2, <2>3, <2>4, <2>5, RequestsKept DEF IInv
<1>13. CASE ChildExits
  <2>1. UNCHANGED requests /\ (committed => committed') /\ (first => first')
    BY <1>13 DEF ChildExits, command, teardown
  <2>2. TypeOK'
    BY <1>13, ServerFacts DEF ChildExits, IInv, TypeOK, PositionInv, Closing,
       command, resources, servers, teardown, requests
  <2>3. PositionInv'
    BY <1>13, ServerFacts
       DEF ChildExits, IInv, TypeOK, PositionInv, Fresh, Up, Draining, Down,
       command, resources, servers, Closing
  <2>4. CommandInv'
    BY <1>13, ServerFacts
       DEF ChildExits, IInv, TypeOK, PositionInv, CommandInv, Assembling, Closing,
       command, resources, servers, teardown
  <2>5. TrackedInv'
    BY <2>1, <1>13, ServerFacts, TrackedKept
       DEF ChildExits, ProxyUp, Closing, command, resources
  <2> QED
    BY <2>1, <2>2, <2>3, <2>4, <2>5, RequestsKept DEF IInv
<1>14. CASE BeginClose
  <2>1. UNCHANGED requests /\ (committed => committed') /\ (first => first')
    BY <1>14 DEF BeginClose, CloseFrom, command, teardown
  <2>2. TypeOK'
    BY <1>14, ServerFacts DEF BeginClose, CloseFrom, IInv, TypeOK, PositionInv, Closing,
       command, resources, servers, teardown, requests
  <2>3. PositionInv'
    BY <1>14, ServerFacts
       DEF BeginClose, CloseFrom, IInv, TypeOK, PositionInv, Fresh, Up, Draining, Down,
       command, resources, servers, Closing
  <2>4. CommandInv'
    BY <1>14, ServerFacts
       DEF BeginClose, CloseFrom, IInv, TypeOK, PositionInv, CommandInv, Assembling,
           Closing,
       command, resources, servers, teardown
  <2>5. TrackedInv'
    BY <2>1, <1>14, ServerFacts, TrackedKept
       DEF BeginClose, CloseFrom, ProxyUp, Closing, command, resources
  <2> QED
    BY <2>1, <2>2, <2>3, <2>4, <2>5, RequestsKept DEF IInv
<1>15. ASSUME NEW s \in Servers, BeginServe(s) PROVE IInv'
  <2>1. UNCHANGED requests /\ (committed => committed') /\ (first => first')
    BY <1>15 DEF BeginServe, command, teardown
  <2>2. TypeOK'
    BY <1>15, ServerFacts DEF BeginServe, IInv, TypeOK, PositionInv, Closing,
       command, resources, servers, teardown, requests
  <2>3. PositionInv'
    <3>1. UNCHANGED <<pc, k, db, shut>>
      BY <1>15 DEF BeginServe, command, resources
    <3>2. /\ loop[s] = "spawned" /\ loop'[s] = IF shut[s] THEN "exited" ELSE "accepting"
          /\ listening'[s] = (listening[s] /\ ~shut[s])
          /\ \A t \in Servers \ {s} : loop'[t] = loop[t] /\ listening'[t] = listening[t]
      BY <1>15 DEF BeginServe, IInv, TypeOK
    <3>3. ASSUME NEW t \in Servers
          PROVE  /\ Fresh(t) => Fresh(t)'
                 /\ Up(t) => Up(t)'
                 /\ Draining(t) => Draining(t)'
                 /\ Down(t) => Down(t)'
      BY <3>1, <3>2 DEF Fresh, Up, Draining, Down
    <3>4. pc = "listen" => loop[k] = "none"
      BY DEF IInv, PositionInv
    <3> QED
      BY <3>1, <3>2, <3>3, <3>4, ServerFacts DEF IInv, TypeOK, PositionInv
  <2>4. CommandInv'
    BY <1>15, ServerFacts
       DEF BeginServe, IInv, TypeOK, PositionInv, CommandInv, Assembling, Closing,
       command, resources, servers, teardown
  <2>5. TrackedInv'
    BY <2>1, <1>15, ServerFacts, TrackedKept
       DEF BeginServe, ProxyUp, Closing, command, resources
  <2> QED
    BY <2>1, <2>2, <2>3, <2>4, <2>5, RequestsKept DEF IInv
<1>16. ASSUME NEW s \in Servers, EndServe(s) PROVE IInv'
  <2>1. UNCHANGED requests /\ (committed => committed') /\ (first => first')
    BY <1>16 DEF EndServe, command, teardown
  <2>2. TypeOK'
    BY <1>16, ServerFacts DEF EndServe, IInv, TypeOK, PositionInv, Closing,
       command, resources, servers, teardown, requests
  <2>3. PositionInv'
    BY <1>16, ServerFacts
       DEF EndServe, IInv, TypeOK, PositionInv, Fresh, Up, Draining, Down,
       command, resources, servers, Closing
  <2>4. CommandInv'
    BY <1>16, ServerFacts
       DEF EndServe, IInv, TypeOK, PositionInv, CommandInv, Assembling, Closing,
       command, resources, servers, teardown
  <2>5. TrackedInv'
    BY <2>1, <1>16, ServerFacts, TrackedKept
       DEF EndServe, ProxyUp, Closing, command, resources
  <2> QED
    BY <2>1, <2>2, <2>3, <2>4, <2>5, RequestsKept DEF IInv
<1>17. ASSUME NEW r \in Requests, NEW s \in Services, CallService(r, s) PROVE IInv'
  <2>1. UNCHANGED <<command, interrupted, resources, servers, teardown>>
    BY <1>17 DEF CallService, Advance
  <2>2. TypeOK'
    BY <1>17, ServerFacts
       DEF CallService, Advance, Reaches, IInv, TypeOK, command, resources, servers,
           teardown
  <2>3. UNCHANGED <<pc, k, committed, log, db, first>>
    BY <2>1 DEF command, resources, teardown
  <2>4. RequestInv'
    BY <1>17, <2>3, ServerFacts DEF CallService, Advance, Reaches, IInv, TypeOK, RequestInv
  <2>5. TrackedInv'
    BY <1>17, <2>3, ServerFacts, AcceptingIsUp
       DEF CallService, Advance, Reaches, IInv, TypeOK, PositionInv, RequestInv,
           TrackedInv, ProxyUp
  <2>6. NoUseAfterClose'
    BY <1>17, <2>3, ServerFacts
       DEF CallService, Advance, Reaches, IInv, TypeOK, RequestInv, TrackedInv,
           NoUseAfterClose
  <2>7. AnsweredIsLogged'
    BY <1>17, <2>3, ServerFacts
       DEF CallService, Advance, Reaches, IInv, TypeOK, RequestInv, AnsweredIsLogged
  <2> QED
    BY <2>1, <2>2, <2>4, <2>5, <2>6, <2>7, CommandKept DEF IInv
<1>18. ASSUME NEW r \in Requests, CallProxy(r) PROVE IInv'
  <2>1. UNCHANGED <<command, interrupted, resources, servers, teardown>>
    BY <1>18 DEF CallProxy, Advance
  <2>2. TypeOK'
    BY <1>18, ServerFacts
       DEF CallProxy, Advance, Reaches, IInv, TypeOK, command, resources, servers, teardown
  <2>3. UNCHANGED <<pc, k, committed, log, db, first>>
    BY <2>1 DEF command, resources, teardown
  <2>4. RequestInv'
    BY <1>18, <2>3, ServerFacts DEF CallProxy, Advance, Reaches, IInv, TypeOK, RequestInv
  <2>5. TrackedInv'
    <3>1. loop[Proxy] = "accepting" /\ committed
      BY <1>18 DEF CallProxy, Advance, Reaches
    <3>2. ProxyUp
      BY <3>1, ServerFacts, AcceptingIsUp DEF IInv, TypeOK, CommandInv, Assembling, ProxyUp
    <3> QED
      BY <1>18, <2>3, <3>2
         DEF CallProxy, Advance, Reaches, IInv, TypeOK, RequestInv, TrackedInv, ProxyUp
  <2>6. NoUseAfterClose'
    BY <1>18, <2>3, ServerFacts
       DEF CallProxy, Advance, Reaches, IInv, TypeOK, RequestInv, TrackedInv,
           NoUseAfterClose
  <2>7. AnsweredIsLogged'
    BY <1>18, <2>3, ServerFacts
       DEF CallProxy, Advance, Reaches, IInv, TypeOK, RequestInv, AnsweredIsLogged
  <2> QED
    BY <2>1, <2>2, <2>4, <2>5, <2>6, <2>7, CommandKept DEF IInv
<1>19. ASSUME NEW r \in Requests, OpenTunnel(r) PROVE IInv'
  <2>1. UNCHANGED <<command, interrupted, resources, servers, teardown>>
    BY <1>19 DEF OpenTunnel, Advance
  <2>2. TypeOK'
    BY <1>19, ServerFacts
       DEF OpenTunnel, Advance, Reaches, IInv, TypeOK, command, resources, servers, teardown
  <2>3. UNCHANGED <<pc, k, committed, log, db, first>>
    BY <2>1 DEF command, resources, teardown
  <2>4. RequestInv'
    BY <1>19, <2>3, ServerFacts DEF OpenTunnel, Advance, Reaches, IInv, TypeOK, RequestInv
  <2>5. TrackedInv'
    BY <1>19, <2>3, ServerFacts, AcceptingIsUp
       DEF OpenTunnel, Advance, Reaches, IInv, TypeOK, PositionInv, RequestInv,
           TrackedInv, ProxyUp
  <2>6. NoUseAfterClose'
    BY <1>19, <2>3, ServerFacts
       DEF OpenTunnel, Advance, Reaches, IInv, TypeOK, RequestInv, TrackedInv,
           NoUseAfterClose
  <2>7. AnsweredIsLogged'
    BY <1>19, <2>3, ServerFacts
       DEF OpenTunnel, Advance, Reaches, IInv, TypeOK, RequestInv, AnsweredIsLogged
  <2> QED
    BY <2>1, <2>2, <2>4, <2>5, <2>6, <2>7, CommandKept DEF IInv
<1>20. ASSUME NEW r \in Requests, TunnelRequest(r) PROVE IInv'
  <2>1. UNCHANGED <<command, interrupted, resources, servers, teardown>>
    BY <1>20 DEF TunnelRequest, Advance
  <2>2. TypeOK'
    BY <1>20, ServerFacts
       DEF TunnelRequest, Advance, IInv, TypeOK, command, resources, servers, teardown
  <2>3. UNCHANGED <<pc, k, committed, log, db, first>>
    BY <2>1 DEF command, resources, teardown
  <2>4. RequestInv'
    BY <1>20, <2>3, ServerFacts DEF TunnelRequest, Advance, IInv, TypeOK, RequestInv
  <2>5. TrackedInv'
    BY <1>20, <2>3, ServerFacts, AcceptingIsUp
       DEF TunnelRequest, Advance, IInv, TypeOK, PositionInv, RequestInv, TrackedInv,
           ProxyUp
  <2>6. NoUseAfterClose'
    BY <1>20, <2>3, ServerFacts
       DEF TunnelRequest, Advance, IInv, TypeOK, RequestInv, TrackedInv, NoUseAfterClose
  <2>7. AnsweredIsLogged'
    BY <1>20, <2>3, ServerFacts
       DEF TunnelRequest, Advance, IInv, TypeOK, RequestInv, AnsweredIsLogged
  <2> QED
    BY <2>1, <2>2, <2>4, <2>5, <2>6, <2>7, CommandKept DEF IInv
<1>21. ASSUME NEW r \in Requests, NEW s \in Services, Forward(r, s) PROVE IInv'
  <2>1. UNCHANGED <<command, interrupted, resources, servers, teardown>>
    BY <1>21 DEF Forward, Advance
  <2>2. TypeOK'
    BY <1>21, ServerFacts
       DEF Forward, Advance, IInv, TypeOK, command, resources, servers, teardown
  <2>3. UNCHANGED <<pc, k, committed, log, db, first>>
    BY <2>1 DEF command, resources, teardown
  <2>4. RequestInv'
    BY <1>21, <2>3, ServerFacts DEF Forward, Advance, IInv, TypeOK, RequestInv
  <2>5. TrackedInv'
    BY <1>21, <2>3, ServerFacts, AcceptingIsUp
       DEF Forward, Advance, IInv, TypeOK, PositionInv, RequestInv, TrackedInv, ProxyUp
  <2>6. NoUseAfterClose'
    BY <1>21, <2>3, ServerFacts
       DEF Forward, Advance, IInv, TypeOK, RequestInv, TrackedInv, NoUseAfterClose
  <2>7. AnsweredIsLogged'
    BY <1>21, <2>3, ServerFacts
       DEF Forward, Advance, IInv, TypeOK, RequestInv, AnsweredIsLogged
  <2> QED
    BY <2>1, <2>2, <2>4, <2>5, <2>6, <2>7, CommandKept DEF IInv
<1>22. ASSUME NEW r \in Requests, NEW s \in Services, Refuse(r, s) PROVE IInv'
  <2>1. UNCHANGED <<command, interrupted, resources, servers, teardown>>
    BY <1>22 DEF Refuse, Advance
  <2>2. TypeOK'
    BY <1>22, ServerFacts
       DEF Refuse, Advance, IInv, TypeOK, command, resources, servers, teardown
  <2>3. UNCHANGED <<pc, k, committed, log, db, first>>
    BY <2>1 DEF command, resources, teardown
  <2>4. RequestInv'
    BY <1>22, <2>3, ServerFacts DEF Refuse, Advance, IInv, TypeOK, RequestInv
  <2>5. TrackedInv'
    BY <1>22, <2>3, ServerFacts, AcceptingIsUp
       DEF Refuse, Advance, IInv, TypeOK, PositionInv, RequestInv, TrackedInv, ProxyUp
  <2>6. NoUseAfterClose'
    BY <1>22, <2>3, ServerFacts
       DEF Refuse, Advance, IInv, TypeOK, RequestInv, TrackedInv, NoUseAfterClose
  <2>7. AnsweredIsLogged'
    BY <1>22, <2>3, ServerFacts
       DEF Refuse, Advance, IInv, TypeOK, RequestInv, AnsweredIsLogged
  <2> QED
    BY <2>1, <2>2, <2>4, <2>5, <2>6, <2>7, CommandKept DEF IInv
<1>23. ASSUME NEW r \in Requests, Unmapped(r) PROVE IInv'
  <2>1. UNCHANGED <<command, interrupted, resources, servers, teardown>>
    BY <1>23 DEF Unmapped, Advance
  <2>2. TypeOK'
    BY <1>23, ServerFacts
       DEF Unmapped, Advance, IInv, TypeOK, command, resources, servers, teardown
  <2>3. UNCHANGED <<pc, k, committed, log, db, first>>
    BY <2>1 DEF command, resources, teardown
  <2>4. RequestInv'
    BY <1>23, <2>3, ServerFacts DEF Unmapped, Advance, IInv, TypeOK, RequestInv
  <2>5. TrackedInv'
    BY <1>23, <2>3, ServerFacts, AcceptingIsUp
       DEF Unmapped, Advance, IInv, TypeOK, PositionInv, RequestInv, TrackedInv, ProxyUp
  <2>6. NoUseAfterClose'
    BY <1>23, <2>3, ServerFacts
       DEF Unmapped, Advance, IInv, TypeOK, RequestInv, TrackedInv, NoUseAfterClose
  <2>7. AnsweredIsLogged'
    BY <1>23, <2>3, ServerFacts
       DEF Unmapped, Advance, IInv, TypeOK, RequestInv, AnsweredIsLogged
  <2> QED
    BY <2>1, <2>2, <2>4, <2>5, <2>6, <2>7, CommandKept DEF IInv
<1>24. ASSUME NEW r \in Requests, IssueToken(r) PROVE IInv'
  <2>1. UNCHANGED <<command, interrupted, resources, servers, teardown>>
    BY <1>24 DEF IssueToken, Advance
  <2>2. TypeOK'
    BY <1>24, ServerFacts
       DEF IssueToken, Advance, IInv, TypeOK, command, resources, servers, teardown
  <2>3. UNCHANGED <<pc, k, committed, log, db, first>>
    BY <2>1 DEF command, resources, teardown
  <2>4. RequestInv'
    BY <1>24, <2>3, ServerFacts DEF IssueToken, Advance, IInv, TypeOK, RequestInv
  <2>5. TrackedInv'
    BY <1>24, <2>3, ServerFacts, AcceptingIsUp
       DEF IssueToken, Advance, IInv, TypeOK, PositionInv, RequestInv, TrackedInv, ProxyUp
  <2>6. NoUseAfterClose'
    BY <1>24, <2>3, ServerFacts
       DEF IssueToken, Advance, IInv, TypeOK, RequestInv, TrackedInv, NoUseAfterClose
  <2>7. AnsweredIsLogged'
    BY <1>24, <2>3, ServerFacts
       DEF IssueToken, Advance, IInv, TypeOK, RequestInv, AnsweredIsLogged
  <2> QED
    BY <2>1, <2>2, <2>4, <2>5, <2>6, <2>7, CommandKept DEF IInv
<1>25. ASSUME NEW r \in Requests, Handle(r) PROVE IInv'
  <2>1. UNCHANGED <<command, interrupted, resources, servers, teardown>>
    BY <1>25 DEF Handle, Advance
  <2>2. TypeOK'
    BY <1>25, ServerFacts
       DEF Handle, Advance, IInv, TypeOK, command, resources, servers, teardown
  <2>3. UNCHANGED <<pc, k, committed, log, db, first>>
    BY <2>1 DEF command, resources, teardown
  <2>4. RequestInv'
    BY <1>25, <2>3, ServerFacts DEF Handle, Advance, IInv, TypeOK, RequestInv
  <2>5. TrackedInv'
    BY <1>25, <2>3, ServerFacts, AcceptingIsUp
       DEF Handle, Advance, IInv, TypeOK, PositionInv, RequestInv, TrackedInv, ProxyUp
  <2>6. NoUseAfterClose'
    BY <1>25, <2>3, ServerFacts
       DEF Handle, Advance, IInv, TypeOK, RequestInv, TrackedInv, NoUseAfterClose
  <2>7. AnsweredIsLogged'
    BY <1>25, <2>3, ServerFacts
       DEF Handle, Advance, IInv, TypeOK, RequestInv, AnsweredIsLogged
  <2> QED
    BY <2>1, <2>2, <2>4, <2>5, <2>6, <2>7, CommandKept DEF IInv
<1>26. ASSUME NEW r \in Requests, Record(r) PROVE IInv'
  <2>1. UNCHANGED <<command, interrupted, resources, servers, teardown>>
    BY <1>26 DEF Record, Advance
  <2>2. TypeOK'
    BY <1>26, ServerFacts
       DEF Record, Advance, IInv, TypeOK, command, resources, servers, teardown
  <2>3. UNCHANGED <<pc, k, committed, log, db, first>>
    BY <2>1 DEF command, resources, teardown
  <2>4. RequestInv'
    BY <1>26, <2>3, ServerFacts DEF Record, Advance, IInv, TypeOK, RequestInv
  <2>5. TrackedInv'
    BY <1>26, <2>3, ServerFacts
       DEF Record, Advance, IInv, TypeOK, RequestInv, TrackedInv, ProxyUp
  <2>6. NoUseAfterClose'
    BY <1>26, <2>3 DEF Record, Advance, IInv, NoUseAfterClose
  <2>7. first \/ log = "open" \/ (via[r] = "tunnel" /\ outcome[r] = "token")
    <3>1. stage[r] = "recording"
      BY <1>26 DEF Record, Advance
    <3>2. CASE to[r] \in Services
      BY <3>1, <3>2, LogIsOpen DEF IInv, TrackedInv
    <3>3. CASE via[r] = "plain"
      BY <3>1, <3>3 DEF IInv, TrackedInv, ProxyUp, CommandInv
    <3> QED
      BY <3>1, <3>2, <3>3 DEF IInv, RequestInv
  <2>8. AnsweredIsLogged'
    BY <1>26, <2>3, <2>7 DEF Record, Advance, IInv, TypeOK, AnsweredIsLogged
  <2> QED
    BY <2>1, <2>2, <2>4, <2>5, <2>6, <2>8, CommandKept DEF IInv
<1>27. ASSUME NEW r \in Requests, Relay(r) PROVE IInv'
  <2>1. UNCHANGED <<command, interrupted, resources, servers, teardown>>
    BY <1>27 DEF Relay, Advance
  <2>2. TypeOK'
    BY <1>27, ServerFacts
       DEF Relay, Advance, IInv, TypeOK, command, resources, servers, teardown
  <2>3. UNCHANGED <<pc, k, committed, log, db, first>>
    BY <2>1 DEF command, resources, teardown
  <2>4. RequestInv'
    BY <1>27, <2>3, ServerFacts DEF Relay, Advance, IInv, TypeOK, RequestInv
  <2>5. TrackedInv'
    BY <1>27, <2>3, ServerFacts, AcceptingIsUp
       DEF Relay, Advance, IInv, TypeOK, PositionInv, RequestInv, TrackedInv, ProxyUp
  <2>6. NoUseAfterClose'
    BY <1>27, <2>3, ServerFacts
       DEF Relay, Advance, IInv, TypeOK, RequestInv, TrackedInv, NoUseAfterClose
  <2>7. AnsweredIsLogged'
    BY <1>27, <2>3, ServerFacts
       DEF Relay, Advance, IInv, TypeOK, RequestInv, AnsweredIsLogged
  <2> QED
    BY <2>1, <2>2, <2>4, <2>5, <2>6, <2>7, CommandKept DEF IInv
<1>28. CASE UNCHANGED vars
  BY <1>28 DEF vars, command, resources, servers, teardown, requests, IInv, TypeOK,
     PositionInv, CommandInv, RequestInv, TrackedInv, NoUseAfterClose, AnsweredIsLogged,
     Fresh, Up, Draining, Down, ProxyUp
<1> QED
  BY <1>1, <1>2, <1>3, <1>4, <1>5, <1>6, <1>7, <1>8, <1>9, <1>10,
     <1>11, <1>12, <1>13, <1>14, <1>15, <1>16, <1>17, <1>18, <1>19, <1>20,
     <1>21, <1>22, <1>23, <1>24, <1>25, <1>26, <1>27, <1>28
     DEF Next, Start, Close, Serve, Request

LEMMA Invariance == Spec => []IInv
  BY InitIInv, StepIInv, PTL DEF Spec

-----------------------------------------------------------------------------
(* The state of the command, of its servers and of the requests keeps its  *)
(* types.                                                                  *)
THEOREM TypeCorrect == Spec => []TypeOK
  BY Invariance, PTL DEF IInv

(* A handler meets a closed database only in a teardown that reports an    *)
(* error, however many services and requests there are.                    *)
THEOREM NoUseAfterCloseHolds == Spec => []NoUseAfterClose
  BY Invariance, PTL DEF IInv

(* What was answered is in the log, unless teardown failed or a token was  *)
(* issued in a tunnel.                                                     *)
THEOREM AnsweredIsLoggedHolds == Spec => []AnsweredIsLogged
  BY Invariance, PTL DEF IInv

(* A failed Start and a Close alike leave nothing open behind.             *)
THEOREM NothingLeftBehindHolds == Spec => []NothingLeftBehind
<1>1. ASSUME IInv, pc = "returned", NEW r \in Requests,
             stage[r] \in {"routing", "handling", "recording", "relaying"}, ~first
      PROVE  via[r] = "tunnel" /\ ~AtService(r)
  <2>1. ~ProxyUp
    BY <1>1 DEF ProxyUp
  <2>2. via[r] # "plain"
    BY <1>1, <2>1 DEF IInv, TrackedInv
  <2>3. ~AtService(r)
    <3>1. \A s \in Services : db[s] # "open"
      BY <1>1, ServerFacts DEF IInv, PositionInv, Down
    <3> QED
      BY <1>1, <3>1 DEF IInv, TrackedInv, AtService
  <2>4. CASE stage[r] \in {"routing", "relaying"}
    BY <1>1, <2>2, <2>3, <2>4 DEF IInv, RequestInv
  <2>5. CASE stage[r] = "handling"
    BY <1>1, <2>3, <2>5 DEF IInv, RequestInv, AtService
  <2>6. CASE stage[r] = "recording"
    BY <1>1, <2>2, <2>3, <2>6 DEF IInv, RequestInv, AtService
  <2> QED
    BY <1>1, <2>4, <2>5, <2>6
<1>2. IInv => NothingLeftBehind
  BY <1>1, ServerFacts DEF IInv, PositionInv, CommandInv, NothingLeftBehind, Down
<1> QED
  BY <1>2, Invariance, PTL

(* Services are closed after the proxy: a request the proxy tracks is not  *)
(* refused by a service Close took away.                                   *)
THEOREM PlainIsNotRefusedHolds == Spec => PlainIsNotRefused
<1> DEFINE Refused(r) ==
      outcome'[r] = "refused" /\ outcome[r] # "refused" /\ via[r] = "plain" =>
        first \/ \E s \in Services : loop[s] = "exited" /\ ~shut[s]
<1>1. IInv /\ [Next]_vars => [\A r \in Requests : Refused(r)]_vars
  <2> SUFFICES ASSUME IInv, [Next]_vars, NEW r \in Requests, outcome'[r] = "refused",
                      outcome[r] # "refused", via[r] = "plain", ~first
               PROVE  \E s \in Services : loop[s] = "exited" /\ ~shut[s]
    OBVIOUS
  <2>1. PICK s \in Services : Refuse(r, s)
    <3>1. outcome' # outcome
      OBVIOUS
    <3>2. PICK q \in Requests : Request(q)
      BY <3>1 DEF Next, Start, Close, Serve, Deadline, Interrupt, StartChild, ChildExits,
         BeginClose, MakeStateDir, OpenLog, PrepareService, ListenService, StartProxy,
         Shutdown, Drain, RemoveStateDir, CloseLog, BeginServe, EndServe, vars, requests
    <3>3. \E s \in Services : Refuse(q, s)
      BY <3>1, <3>2 DEF Request, CallService, CallProxy, OpenTunnel, TunnelRequest, Forward,
         Unmapped, IssueToken, Handle, Record, Relay, IInv, TypeOK
    <3>4. q = r
      BY <3>3 DEF Refuse, IInv, TypeOK
    <3> QED
      BY <3>3, <3>4
  <2>2. stage[r] = "routing" /\ ~listening[s]
    BY <2>1 DEF Refuse, Advance
  <2>3. ProxyUp
    BY <2>2 DEF IInv, TrackedInv
  <2>4. Up(s)
    BY <2>3, ServerFacts DEF IInv, TypeOK, PositionInv, ProxyUp
  <2> QED
    BY <2>2, <2>4 DEF Up
<1> QED
  BY <1>1, Invariance, PTL DEF Spec, PlainIsNotRefused

-----------------------------------------------------------------------------
(* Teardown.                                                               *)

(* The steps Close has yet to take.                                        *)
Left ==
  CASE pc = "shutdown" -> 2 * k + 2
    [] pc = "drain" -> 2 * k + 1
    [] pc = "remove" -> 2
    [] pc = "closelog" -> 1
    [] OTHER -> 0

Advances ==
  pc \in Closing =>
    /\ pc' \in Closing \union {"returned"}
    /\ Left \in Nat /\ Left' \in Nat
    /\ Close => Left' < Left
    /\ ~ Close => Left' = Left /\ pc' = pc /\ k' = k

TeardownAdvances == [][Advances]_vars

(* Close goes through the servers downwards and never back: each of its    *)
(* steps brings it nearer to its end, and nothing else moves it.           *)
THEOREM TeardownAdvancesHolds == Spec => TeardownAdvances
<1> USE DEF Advances
<1>1. ASSUME IInv, IInv', Next, pc \in Closing
      PROVE  Advances
  <2>1. /\ k \in Nat /\ k' \in Nat
        /\ pc \in {"shutdown", "drain"} => k > 0
    BY <1>1, ServerFacts DEF IInv, TypeOK, PositionInv
  <2>2. Left \in Nat /\ Left' \in Nat
    BY <2>1 DEF Left
  <2>3. CASE Shutdown
    BY <2>1, <2>2, <2>3 DEF Shutdown, Close, Left, Closing
  <2>4. CASE Drain
    <3>1. /\ pc = "drain" /\ k > 0 /\ k' = k - 1
          /\ pc' = IF k - 1 = 0 THEN "remove" ELSE "shutdown"
      BY <2>1, <2>4 DEF Drain, CloseFrom
    <3> QED
      BY <2>1, <2>2, <2>4, <3>1 DEF Close, Left, Closing
  <2>5. CASE RemoveStateDir
    BY <2>2, <2>5 DEF RemoveStateDir, Close, Left, Closing
  <2>6. CASE CloseLog
    BY <2>2, <2>6 DEF CloseLog, Close, Left, Closing
  <2>7. CASE ~Close
    <3>1. CASE Start
      BY <1>1, <3>1 DEF Start, MakeStateDir, OpenLog, PrepareService, ListenService, StartProxy,
         Closing
    <3>2. CASE BeginClose \/ StartChild
      BY <1>1, <3>2 DEF BeginClose, StartChild, Closing
    <3>3. CASE Deadline \/ Interrupt \/ ChildExits \/ Serve
      BY <2>2, <2>7, <3>3
         DEF Deadline, Interrupt, ChildExits, Serve, BeginServe, EndServe, command, Left
    <3>4. ASSUME NEW r \in Requests, Request(r)
          PROVE  UNCHANGED command
      BY <3>4 DEF Request, CallService, CallProxy, OpenTunnel, TunnelRequest, Forward, Refuse,
         Unmapped, IssueToken, Handle, Record, Relay, Advance
    <3>5. UNCHANGED command => Advances
      BY <2>2, <2>7 DEF command, Left
    <3> QED
      BY <1>1, <2>7, <3>1, <3>2, <3>3, <3>4, <3>5 DEF Next
  <2> QED
    BY <2>3, <2>4, <2>5, <2>6, <2>7 DEF Close
<1>2. IInv /\ IInv' /\ [Next]_vars => [Advances]_vars
  BY <1>1
<1> HIDE DEF Advances
<1> QED
  BY <1>2, Invariance, PTL DEF Spec, TeardownAdvances

WaitsForCause ==
  pc = "drain" =>
    /\ shut[k]
    /\ ~committed => Active(k) = {}

(* Close waits only for an accept loop whose listener it has closed, or,   *)
(* when there is a deadline, for requests: the rollback of Start, which    *)
(* has none, never waits for a request.                                    *)
THEOREM WaitsForCauseHolds == Spec => []WaitsForCause
<1>1. IInv => WaitsForCause
  BY DEF IInv, PositionInv, Draining, RequestInv, Active, WaitsForCause
<1> QED
  BY <1>1, Invariance, PTL

-----------------------------------------------------------------------------
(* The command implements Sandbox.                                         *)
Open == {s \in Services : db[s] = "open"}
Taken == {r \in Requests : stage[r] # "idle"}

LEMMA InitRefines == Init => Abstract!Init
<1> SUFFICES ASSUME Init PROVE Abstract!Init
  OBVIOUS
<1>1. Phase = "absent"
  <2>1. pc = "mkdir"
    BY DEF Init
  <2> QED
    BY <2>1 DEF Phase, Closing
<1>2. Open = {} /\ Taken = {}
  BY DEF Init, Open, Taken
<1> QED
  BY <1>1, <1>2 DEF Abstract!Init, Open, Taken

(* A step that keeps the phase, the databases and the requests taken is a  *)
(* stutter; one that only takes a request is a Take.                       *)
LEMMA StepRefines ==
  IInv /\ IInv' /\ [Next]_vars => [Abstract!Next]_<<Phase, Open, Taken>>
<1> SUFFICES ASSUME IInv, IInv', [Next]_vars
             PROVE  [Abstract!Next]_<<Phase, Open, Taken>>
  OBVIOUS
<1> USE DEF Closing
<1>1. CASE MakeStateDir
  <2>1. Open = {} /\ UNCHANGED <<Open, Taken>>
    BY <1>1, ServerFacts DEF MakeStateDir, requests, Open, Taken, IInv, PositionInv, Fresh
  <2>2. Phase = "absent" /\ Phase' \in {"assembling", "gone"}
    BY <1>1 DEF MakeStateDir, Phase
  <2> QED
    BY <2>1, <2>2 DEF Abstract!Next, Abstract!Assemble, Abstract!Finish, Open, Taken
<1>2. CASE OpenLog
  <2>1. UNCHANGED <<Open, Taken>>
    BY <1>2 DEF OpenLog, requests, Open, Taken
  <2>2. Phase = "assembling" /\ Phase' \in {"assembling", "dismantling"}
    BY <1>2 DEF OpenLog, CloseFrom, Phase
  <2> QED
    BY <2>1, <2>2 DEF Abstract!Next, Abstract!Dismantle, Open, Taken
<1>3. CASE PrepareService
  <2>1. Open \subseteq Open' /\ UNCHANGED Taken
    BY <1>3 DEF PrepareService, requests, Open, Taken, IInv, TypeOK
  <2>2. Phase = "assembling" /\ Phase' \in {"assembling", "dismantling"}
    BY <1>3 DEF PrepareService, CloseFrom, Phase
  <2>3. Phase' = "dismantling" => Open' = Open
    BY <1>3 DEF PrepareService, Phase, Open
  <2> QED
    BY <2>1, <2>2, <2>3 DEF Abstract!Next, Abstract!BringUp, Abstract!Dismantle, Open, Taken
<1>4. CASE ListenService
  <2>1. Open' \subseteq Open /\ UNCHANGED Taken
    BY <1>4 DEF ListenService, Spawn, requests, Open, Taken, IInv, TypeOK
  <2>2. Phase = "assembling" /\ Phase' \in {"assembling", "available", "dismantling"}
    BY <1>4 DEF ListenService, CloseFrom, Phase
  <2>3. Phase' # "dismantling" => Open' = Open
    BY <1>4 DEF ListenService, Spawn, CloseFrom, Phase, Open
  <2>4. Phase' = "available" => Open = Services
    <3>1. ASSUME Phase' = "available" PROVE k >= N
      BY <1>4, <3>1, ServerFacts DEF ListenService, CloseFrom, Phase, IInv, TypeOK
    <3>2. \A s \in Services : s <= k => db[s] = "open"
      BY <1>4, ServerFacts DEF ListenService, IInv, TypeOK, PositionInv, Up
    <3> QED
      BY <3>1, <3>2, ServerFacts DEF Open, IInv, TypeOK
  <2> QED
    BY <2>1, <2>2, <2>3, <2>4
       DEF Abstract!Next, Abstract!Publish, Abstract!Dismantle, Open, Taken
<1>5. CASE StartProxy
  <2>1. UNCHANGED <<Open, Taken>>
    BY <1>5 DEF StartProxy, Spawn, requests, Open, Taken
  <2>2. Phase = "assembling" /\ Phase' \in {"available", "dismantling"}
    BY <1>5 DEF StartProxy, CloseFrom, Phase
  <2>3. Open = Services
    BY <1>5, ServerFacts DEF StartProxy, Open, IInv, TypeOK, PositionInv, Up
  <2> QED
    BY <2>1, <2>2, <2>3 DEF Abstract!Next, Abstract!Publish, Abstract!Dismantle, Open, Taken
<1>6. CASE Drain
  <2>1. Open' \subseteq Open /\ UNCHANGED Taken
    BY <1>6 DEF Drain, requests, Open, Taken
  <2>2. Phase = "dismantling" /\ Phase' = "dismantling"
    BY <1>6 DEF Drain, CloseFrom, Phase
  <2> QED
    BY <2>1, <2>2 DEF Abstract!Next, Abstract!TakeDown, Open, Taken
<1>7. CASE CloseLog
  <2>1. Open = {} /\ UNCHANGED <<Open, Taken>>
    BY <1>7, ServerFacts DEF CloseLog, requests, Open, Taken, IInv, PositionInv, Down
  <2>2. Phase = "dismantling" /\ Phase' = "gone"
    BY <1>7 DEF CloseLog, Phase
  <2> QED
    BY <2>1, <2>2 DEF Abstract!Next, Abstract!Finish, Open, Taken
<1>8. CASE BeginClose
  <2>1. UNCHANGED <<Open, Taken>>
    BY <1>8 DEF BeginClose, resources, requests, Open, Taken
  <2>2. Phase = "available" /\ Phase' = "dismantling"
    BY <1>8 DEF BeginClose, CloseFrom, Phase
  <2> QED
    BY <2>1, <2>2 DEF Abstract!Next, Abstract!Dismantle, Open, Taken
<1>9. CASE Shutdown \/ RemoveStateDir \/ Deadline \/ Interrupt \/ StartChild \/ ChildExits \/ Serve
  <2>1. UNCHANGED <<db, stage>>
    BY <1>9 DEF Shutdown, RemoveStateDir, Deadline, Interrupt, StartChild, ChildExits,
       Serve, BeginServe, EndServe, resources, requests
  <2>2. UNCHANGED Phase
    BY <1>9 DEF Shutdown, RemoveStateDir, Deadline, Interrupt, StartChild, ChildExits,
       Serve, BeginServe, EndServe, command, Phase
  <2> QED
    BY <2>1, <2>2 DEF Open, Taken
<1>10. ASSUME NEW r \in Requests, Request(r)
       PROVE  [Abstract!Next]_<<Phase, Open, Taken>>
  <2>1. UNCHANGED <<command, resources>>
    BY <1>10
       DEF Request, CallService, CallProxy, OpenTunnel, TunnelRequest, Forward, Refuse,
       Unmapped, IssueToken, Handle, Record, Relay, Advance
  <2>2. UNCHANGED <<Phase, Open>>
    BY <2>1 DEF command, resources, Phase, Open
  <2>3. \E from, next \in {"idle", "tunnel", "routing", "handling", "recording", "relaying", "done"} :
          /\ stage[r] = from /\ stage' = [stage EXCEPT ![r] = next] /\ next # "idle"
          /\ from = "idle" => Phase \in {"available", "dismantling"}
    <3>1. ASSUME NEW s \in Servers, Reaches(s)
          PROVE  Phase \in {"available", "dismantling"}
      BY <3>1, AcceptingIsUp DEF Reaches, IInv, CommandInv, Assembling, Phase
    <3> QED
      BY <1>10, <3>1, ServerFacts
         DEF Request, CallService, CallProxy, OpenTunnel, TunnelRequest, Forward, Refuse,
             Unmapped, IssueToken, Handle, Record, Relay, Advance
  <2>4. Taken' = Taken \/ (Taken' = Taken \union {r} /\ Phase \in {"available", "dismantling"})
    BY <2>3 DEF Taken, IInv, TypeOK
  <2> QED
    BY <2>2, <2>4 DEF Abstract!Next, Abstract!Take, Open, Taken
<1>11. CASE UNCHANGED vars
  BY <1>11 DEF vars, command, resources, requests, Phase, Open, Taken
<1> QED
  BY <1>1, <1>2, <1>3, <1>4, <1>5, <1>6, <1>7, <1>8, <1>9, <1>10, <1>11
     DEF Next, Start, Close

(* Every run of the command is one of Sandbox: the environment appears as  *)
(* a whole or not at all, takes requests only while it is not gone, and    *)
(* goes entirely.                                                          *)
THEOREM Refinement == Spec => ImplementsSandbox
  BY InitRefines, StepRefines, Invariance, PTL
     DEF Spec, ImplementsSandbox, Abstract!Spec, Open, Taken

(* What Sandbox promises of every environment.                             *)
LEMMA WholeOrNothing ==
  Abstract!Spec =>
    /\ [](/\ Phase = "available" => Open = Services
          /\ Phase \in {"absent", "gone"} => Open = {})
    /\ [][Phase = "gone" => UNCHANGED <<Phase, Open, Taken>>]_<<Phase, Open, Taken>>
<1> DEFINE Whole == /\ Phase = "available" => Open = Services
                    /\ Phase \in {"absent", "gone"} => Open = {}
           v == <<Phase, Open, Taken>>
<1>1. Abstract!Init => Whole
  BY DEF Abstract!Init, Open
<1>2. ASSUME Whole, [Abstract!Next]_v
      PROVE  Whole' /\ [Phase = "gone" => UNCHANGED v]_v
  BY <1>2
     DEF Abstract!Next, Abstract!Assemble, Abstract!BringUp, Abstract!Publish, Abstract!Take,
         Abstract!Dismantle, Abstract!TakeDown, Abstract!Finish, Open, Taken
<1> QED
  BY <1>1, <1>2, PTL DEF Abstract!Spec, Open, Taken

(* While the command runs its child every service has its database; once   *)
(* it has returned no database is open, none is opened again, and no       *)
(* request is taken any more.                                              *)
THEOREM UpAsAWhole ==
  Spec =>
    /\ [](/\ Phase = "available" => Open = Services
          /\ Phase \in {"absent", "gone"} => Open = {})
    /\ [][Phase = "gone" => UNCHANGED <<Phase, Open, Taken>>]_<<Phase, Open, Taken>>
  BY Refinement, WholeOrNothing, PTL DEF ImplementsSandbox
=============================================================================

----------------------------- MODULE ProxyRoutes -----------------------------
(***************************************************************************)
(* Which service answers a request that comes through the proxy.           *)
(* environment/runner.go builds the routing table from the manifest and    *)
(* from the hosts the resources declare, iterating over two Go maps, whose *)
(* order is arbitrary; engine/http/proxy/proxy.go sorts the table and      *)
(* consults it for plain requests, for CONNECT and for the requests inside *)
(* an intercepted tunnel.                                                  *)
(*                                                                         *)
(* A key is a host and a path prefix in the form normalizeRouteKey gives   *)
(* them.  The table is computed by one goroutine before the proxy listens; *)
(* afterwards it is read only.                                             *)
(***************************************************************************)
EXTENDS Naturals

CONSTANTS
  Services,       \* the services of the manifest
  Keys,           \* normalised routes
  Provides,       \* the routes the resource of each service declares
  RouteNames,     \* spellings of routes a manifest may use under proxy.hosts
  Normal,         \* normalizeRouteKey
  Names,          \* spellings of hosts
  Hosts,
  Canonical,      \* canonicalHost
  Paths,
  HostOf,         \* the host of a key
  Under,          \* the paths that begin with the prefix of a key
  PrefixLength,   \* the length of that prefix
  None            \* no service, host or path

ASSUME RoutingAssumption ==
  /\ Provides \in [Services -> SUBSET Keys]
  /\ Normal \in [RouteNames -> Keys]
  /\ Canonical \in [Names -> Hosts]
  /\ HostOf \in [Keys -> Hosts]
  /\ Under \in [Keys -> SUBSET Paths]
  /\ PrefixLength \in [Keys -> Nat]
  /\ None \notin Services /\ None \notin Paths /\ None \notin Hosts

(* Two prefixes of one length that begin the same path are one prefix.     *)
ASSUME PrefixAssumption ==
  \A j \in Keys, l \in Keys :
    HostOf[j] = HostOf[l] /\ PrefixLength[j] = PrefixLength[l] /\ Under[j] \cap Under[l] # {}
      => j = l

VARIABLES
  hosts,        \* proxy.hosts of the manifest
  strict,       \* proxy.unknown_hosts is reject
  passthrough,  \* proxy.passthrough
  pc,
  unread,       \* the entries of proxy.hosts still to be read
  explicit,     \* the service selected for each key
  todo,         \* the services whose routes are still to be claimed
  claimed,      \* the service that claimed each key
  routes,       \* the table: pairs of a key and a service
  tunnels,      \* the hosts of the intercepted tunnels that are open
  last          \* the last request and where it went

manifest == <<hosts, strict, passthrough>>
table == <<unread, explicit, todo, claimed, routes>>
vars == <<manifest, pc, table, tunnels, last>>

Internet == "internet"
Forbidden == "forbidden"
ServiceOr(x) == Services \union {x}

TypeOK ==
  /\ hosts \in [RouteNames -> ServiceOr(None)]
  /\ strict \in BOOLEAN
  /\ passthrough \subseteq Names
  /\ pc \in {"read", "claim", "start", "serving", "refused", "failed"}
  /\ unread \subseteq RouteNames
  /\ explicit \in [Keys -> ServiceOr(None)]
  /\ todo \subseteq Services
  /\ claimed \in [Keys -> ServiceOr(None)]
  /\ routes \subseteq Keys \X Services
  /\ tunnels \subseteq Hosts
  /\ last \in [host : Hosts \union {None}, path : Paths \union {None},
               fate : {"none", "service", Internet, Forbidden}, service : ServiceOr(None)]

Listed == {n \in RouteNames : hosts[n] # None}

Init ==
  /\ hosts \in [RouteNames -> ServiceOr(None)]
  /\ strict \in BOOLEAN
  /\ passthrough \in SUBSET Names
  /\ pc = "read"
  /\ unread = Listed
  /\ explicit = [j \in Keys |-> None]
  /\ todo = Services
  /\ claimed = [j \in Keys |-> None]
  /\ routes = {}
  /\ tunnels = {}
  /\ last = [host |-> None, path |-> None, fate |-> "none", service |-> None]

-----------------------------------------------------------------------------
(* proxyRoutes.                                                            *)

(* One entry of proxy.hosts; a later entry with the same normal form       *)
(* replaces an earlier one.                                                *)
ReadExplicit(n) ==
  /\ pc = "read" /\ n \in unread
  /\ explicit' = [explicit EXCEPT ![Normal[n]] = hosts[n]]
  /\ unread' = unread \ {n}
  /\ UNCHANGED <<manifest, pc, todo, claimed, routes, tunnels, last>>

AllRead ==
  /\ pc = "read" /\ unread = {}
  /\ pc' = "claim"
  /\ UNCHANGED <<manifest, table, tunnels, last>>

(* Mutant: overrides are not consulted.                                    *)
ClaimsAll(s) == Provides[s]

(* The routes service s declares and is not overridden for.                *)
Claims(s) == {j \in Provides[s] : explicit[j] \in {None, s}}

(* Mutant: a route claimed twice is accepted.                              *)
ClaimRoutesTwice(s) ==
  /\ pc = "claim" /\ s \in todo
  /\ claimed' = [j \in Keys |-> IF j \in Claims(s) THEN s ELSE claimed[j]]
  /\ routes' = routes \union {<<j, s>> : j \in Claims(s)}
  /\ todo' = todo \ {s}
  /\ UNCHANGED <<manifest, pc, unread, explicit, tunnels, last>>

(* One turn of the loop over the services, the OAuth route included.       *)
ClaimRoutes(s) ==
  /\ pc = "claim" /\ s \in todo
  /\ \/ /\ \E j \in Claims(s) : claimed[j] \notin {None, s}
        /\ pc' = "refused"
        /\ UNCHANGED <<todo, claimed, routes>>
     \/ /\ \A j \in Claims(s) : claimed[j] \in {None, s}
        /\ claimed' = [j \in Keys |-> IF j \in Claims(s) THEN s ELSE claimed[j]]
        /\ routes' = routes \union {<<j, s>> : j \in Claims(s)}
        /\ todo' = todo \ {s}
        /\ UNCHANGED pc
  /\ UNCHANGED <<manifest, unread, explicit, tunnels, last>>

(* Every explicit route must have been claimed.                            *)
CheckExplicit ==
  /\ pc = "claim" /\ todo = {}
  /\ pc' = IF \E j \in Keys : explicit[j] # None /\ claimed[j] = None
           THEN "refused" ELSE "start"
  /\ UNCHANGED <<manifest, table, tunnels, last>>

(* proxy.Start wants a route, and may fail for other reasons.              *)
StartProxy ==
  /\ pc = "start"
  /\ pc' \in IF routes = {} THEN {"refused"} ELSE {"serving", "failed"}
  /\ UNCHANGED <<manifest, table, tunnels, last>>

-----------------------------------------------------------------------------
(* Proxy.ServeHTTP and serveTunnel.                                        *)

Matching(h, p) == {r \in routes : HostOf[r[1]] = h /\ p \in Under[r[1]]}

(* match returns the first route of the sorted table: one of the longest.  *)
(* The sort is stable, so among equals it is the first that Start was      *)
(* given, which is any: Start was given them in the order of a map.        *)
Best(h, p) ==
  {r \in Matching(h, p) :
     \A q \in Matching(h, p) : PrefixLength[q[1]] <= PrefixLength[r[1]]}

HasHost(h) == \E r \in routes : HostOf[r[1]] = h
CanPassthrough(h) == ~strict \/ \E n \in passthrough : Canonical[n] = h

Goes(h, p, fate, s) == last' = [host |-> h, path |-> p, fate |-> fate, service |-> s]

(* Mutant: a destination that may pass is forwarded before it is matched.  *)
PlainForwardsFirst(n, p) ==
  LET h == Canonical[n] IN
  /\ pc = "serving"
  /\ \/ CanPassthrough(h) /\ Goes(h, p, Internet, None)
     \/ ~CanPassthrough(h) /\ \E r \in Best(h, p) : Goes(h, p, "service", r[2])
  /\ UNCHANGED <<manifest, pc, table, tunnels>>

Plain(n, p) ==
  LET h == Canonical[n] IN
  /\ pc = "serving"
  /\ \/ \E r \in Best(h, p) : Goes(h, p, "service", r[2])
     \/ /\ Matching(h, p) = {}
        /\ Goes(h, p, IF CanPassthrough(h) THEN Internet ELSE Forbidden, None)
  /\ UNCHANGED <<manifest, pc, table, tunnels>>

(* Mutant: the tunnel is served under the host as the client spelled it.   *)
ConnectVerbatim(n) ==
  /\ pc = "serving"
  /\ HasHost(Canonical[n])
  /\ tunnels' = tunnels \union {n}
  /\ UNCHANGED <<manifest, pc, table, last>>

(* A declared host is intercepted; another is tunnelled unread.            *)
Connect(n) ==
  LET h == Canonical[n] IN
  /\ pc = "serving"
  /\ \/ /\ HasHost(h)
        /\ tunnels' = tunnels \union {h}
        /\ UNCHANGED last
     \/ /\ ~HasHost(h)
        /\ Goes(h, None, IF CanPassthrough(h) THEN Internet ELSE Forbidden, None)
        /\ UNCHANGED tunnels
  /\ UNCHANGED <<manifest, pc, table>>

TunnelRequest(h, p) ==
  /\ h \in tunnels
  /\ \/ \E r \in Best(h, p) : Goes(h, p, "service", r[2])
     \/ Matching(h, p) = {} /\ Goes(h, p, Forbidden, None)
  /\ UNCHANGED <<manifest, pc, table, tunnels>>

-----------------------------------------------------------------------------
Next ==
  \/ \E n \in RouteNames : ReadExplicit(n)
  \/ AllRead
  \/ \E s \in Services : ClaimRoutes(s)
  \/ CheckExplicit \/ StartProxy
  \/ \E n \in Names, p \in Paths : Plain(n, p)
  \/ \E n \in Names : Connect(n)
  \/ \E h \in Hosts, p \in Paths : TunnelRequest(h, p)

Spec == Init /\ [][Next]_vars

-----------------------------------------------------------------------------
(* Properties, stated of the manifest and the descriptors alone, so that   *)
(* they do not depend on the order of the maps.                            *)

Providers(j) == {s \in Services : j \in Provides[s]}
Selected(j) == {hosts[n] : n \in {m \in Listed : Normal[m] = j}}

(* A proxy that serves has, for every route some resource declares, one    *)
(* service: the only provider, or where the manifest selects a provider it *)
(* selects, one of several if several spellings of the route select.       *)
RoutesFollowManifest ==
  pc = "serving" =>
    /\ \A j \in Keys : Providers(j) \union Selected(j) # {} =>
         \E s \in Providers(j) :
           /\ {r \in routes : r[1] = j} = {<<j, s>>}
           /\ IF Selected(j) = {} THEN Providers(j) = {s} ELSE s \in Selected(j)
    /\ \A r \in routes : r[1] \in Provides[r[2]]

(* A manifest is refused only for cause: a route two services declare and  *)
(* the manifest does not settle, a selected service that does not declare  *)
(* the route, or no route at all.  No order of the maps refuses another.   *)
RefusedForCause ==
  pc = "refused" =>
    \/ \E j \in Keys : Selected(j) = {} /\ \E s, t \in Providers(j) : s # t
    \/ \E j \in Keys : Selected(j) \ Providers(j) # {}
    \/ \A s \in Services : Provides[s] = {}

(* docs/proxy.md: a route claimed by a resource always takes precedence    *)
(* over forwarding.  What leaves the machine is for a path, or by CONNECT  *)
(* for a host, that no resource of the environment declares, and in strict *)
(* mode for a host the manifest lists.                                     *)
ClaimedStaysLocal ==
  last.fate = Internet =>
    /\ \A s \in Services : \A j \in Provides[s] :
         HostOf[j] = last.host => last.path # None /\ last.path \notin Under[j]
    /\ strict => \E n \in passthrough : Canonical[n] = last.host

(* The comment on package proxy: it intercepts the declared hosts and      *)
(* tunnels every other destination.                                        *)
DeclaredHostIntercepted ==
  last.fate = Internet => \A s \in Services : \A j \in Provides[s] : HostOf[j] # last.host
=============================================================================

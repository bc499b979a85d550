-------------------------- MODULE ProxyRoutesProofs --------------------------
(***************************************************************************)
(* Proofs about ProxyRoutes, for any manifest, any descriptors and any     *)
(* order of the maps.                                                      *)
(***************************************************************************)
EXTENDS ProxyRoutes, TLAPS

(* What is selected is what some entry read so far says.                   *)
ReadInv ==
  /\ unread \subseteq Listed
  /\ pc # "read" => unread = {}
  /\ pc = "read" => todo = Services
  /\ \A j \in Keys : explicit[j] # None => explicit[j] \in Selected(j)
  /\ \A n \in Listed \ unread : explicit[Normal[n]] # None

(* The table holds the claims of the services visited so far, and is the   *)
(* graph of claimed.                                                       *)
ClaimInv ==
  \A j \in Keys, s \in Services :
    /\ <<j, s>> \in routes <=> s \notin todo /\ j \in Claims(s)
    /\ <<j, s>> \in routes <=> claimed[j] = s

StartInv ==
  /\ pc \in {"start", "serving"} =>
       /\ todo = {}
       /\ \A j \in Keys : explicit[j] # None => claimed[j] # None
  /\ pc = "serving" => routes # {}
  /\ pc # "serving" => last.fate = "none" /\ tunnels = {}

Table == <<manifest, table>>

IInv == TypeOK /\ ReadInv /\ ClaimInv /\ StartInv /\ RefusedForCause /\ ClaimedStaysLocal

-----------------------------------------------------------------------------
(* A state whose manifest and table are unchanged keeps what is said of    *)
(* them.                                                                   *)
LEMMA SameTable ==
  ASSUME UNCHANGED Table
  PROVE  /\ Listed' = Listed
         /\ \A j \in Keys : Selected(j)' = Selected(j)
         /\ \A s \in Services : Claims(s)' = Claims(s)
         /\ ClaimInv => ClaimInv'
BY DEF Table, manifest, table, Listed, Selected, Claims, ClaimInv

(* A key has an entry in proxy.hosts exactly if a service is selected.     *)
LEMMA SelectedOfExplicit ==
  ASSUME TypeOK, ReadInv, unread = {}, NEW j \in Keys
  PROVE  /\ explicit[j] = None <=> Selected(j) = {}
         /\ Selected(j) \subseteq Services
<1>1. ASSUME NEW n \in Listed, Normal[n] = j
      PROVE  explicit[j] # None
  BY <1>1 DEF ReadInv
<1>2. Selected(j) # {} => explicit[j] # None
  BY <1>1 DEF Selected
<1>3. Selected(j) \subseteq Services
  BY DEF Selected, Listed, TypeOK, ServiceOr
<1> QED
  BY <1>2, <1>3 DEF ReadInv

(* Once every service has been visited and the explicit routes checked,    *)
(* every declared or selected route has one owner: a provider, and a       *)
(* selected service where there is a selection.                            *)
LEMMA OwnerOfRoute ==
  ASSUME RoutingAssumption, TypeOK, ReadInv, ClaimInv, StartInv,
         pc \in {"start", "serving"},
         NEW j \in Keys, Providers(j) \union Selected(j) # {}
  PROVE  \E s \in Providers(j) :
           /\ {r \in routes : r[1] = j} = {<<j, s>>}
           /\ IF Selected(j) = {} THEN Providers(j) = {s} ELSE s \in Selected(j)
<1>1. unread = {} /\ todo = {}
  BY DEF ReadInv, StartInv
<1>2. /\ explicit[j] = None <=> Selected(j) = {}
      /\ Selected(j) \subseteq Services
  BY <1>1, SelectedOfExplicit
<1>3. claimed[j] # None
  <2>1. CASE explicit[j] # None
    BY <2>1 DEF StartInv
  <2>2. CASE explicit[j] = None
    <3>1. PICK t \in Services : j \in Provides[t]
      BY <2>2, <1>2 DEF Providers
    <3>2. j \in Claims(t)
      BY <3>1, <2>2 DEF Claims
    <3>3. claimed[j] = t
      BY <3>2, <1>1 DEF ClaimInv
    <3> QED
      BY <3>3, <3>1 DEF RoutingAssumption
  <2> QED
    BY <2>1, <2>2
<1>4. PICK s \in Services : claimed[j] = s
  BY <1>3 DEF TypeOK, ServiceOr
<1>5. <<j, s>> \in routes /\ j \in Claims(s)
  BY <1>4 DEF ClaimInv
<1>6. s \in Providers(j)
  BY <1>5 DEF Claims, Providers
<1>7. \A r \in routes : r[1] = j => r = <<j, s>>
  <2> SUFFICES ASSUME NEW r \in routes, r[1] = j
               PROVE  r = <<j, s>>
    OBVIOUS
  <2>1. r = <<j, r[2]>> /\ r[2] \in Services
    BY DEF TypeOK
  <2>2. claimed[j] = r[2]
    BY <2>1 DEF ClaimInv
  <2> QED
    BY <2>1, <2>2, <1>4
<1>8. Selected(j) # {} => s \in Selected(j)
  BY <1>2, <1>5 DEF Claims, ReadInv
<1>9. ASSUME Selected(j) = {}, NEW t \in Providers(j)
      PROVE  t = s
  <2>1. t \in Services /\ j \in Claims(t)
    BY <1>2, <1>9 DEF Claims, Providers
  <2>2. claimed[j] = t
    BY <1>1, <2>1 DEF ClaimInv
  <2> QED
    BY <1>4, <2>2
<1> QED
  BY <1>5, <1>6, <1>7, <1>8, <1>9

(* The table of a proxy that serves is the one the manifest calls for.     *)
LEMMA TableFollowsManifest ==
  RoutingAssumption /\ IInv => RoutesFollowManifest
<1> SUFFICES ASSUME RoutingAssumption, IInv, pc = "serving"
             PROVE  /\ \A j \in Keys : Providers(j) \union Selected(j) # {} =>
                         \E s \in Providers(j) :
                           /\ {r \in routes : r[1] = j} = {<<j, s>>}
                           /\ IF Selected(j) = {} THEN Providers(j) = {s}
                              ELSE s \in Selected(j)
                    /\ \A r \in routes : r[1] \in Provides[r[2]]
  BY DEF RoutesFollowManifest
<1>1. \A j \in Keys : Providers(j) \union Selected(j) # {} =>
        \E s \in Providers(j) :
          /\ {r \in routes : r[1] = j} = {<<j, s>>}
          /\ IF Selected(j) = {} THEN Providers(j) = {s} ELSE s \in Selected(j)
  BY OwnerOfRoute DEF IInv
<1>2. ASSUME NEW r \in routes
      PROVE  r[1] \in Provides[r[2]]
  <2>1. r = <<r[1], r[2]>> /\ r[1] \in Keys /\ r[2] \in Services
    BY DEF IInv, TypeOK
  <2> QED
    BY <2>1 DEF IInv, ClaimInv, Claims
<1> QED
  BY <1>1, <1>2

(* Every route a resource declares is in the table of a proxy that serves, *)
(* so a request without a match is for a path nobody declares.             *)
LEMMA UnmatchedIsUndeclared ==
  ASSUME RoutingAssumption, IInv, pc = "serving",
         NEW s \in Services, NEW j \in Provides[s]
  PROVE  \E r \in routes : r[1] = j
<1>1. j \in Keys /\ Providers(j) # {}
  BY DEF RoutingAssumption, Providers
<1>2. PICK t \in Providers(j) : {r \in routes : r[1] = j} = {<<j, t>>}
  BY <1>1, TableFollowsManifest DEF RoutesFollowManifest
<1> QED
  BY <1>2

-----------------------------------------------------------------------------
LEMMA InitIInv == RoutingAssumption /\ Init => IInv
<1> SUFFICES ASSUME RoutingAssumption, Init
             PROVE  IInv
  OBVIOUS
<1>1. TypeOK
  BY DEF Init, TypeOK, Listed, ServiceOr, Internet, Forbidden
<1>2. ReadInv
  BY DEF Init, ReadInv
<1>3. ClaimInv
  BY DEF Init, ClaimInv, RoutingAssumption
<1>4. StartInv /\ RefusedForCause /\ ClaimedStaysLocal
  BY DEF Init, StartInv, RefusedForCause, ClaimedStaysLocal, Internet
<1> QED
  BY <1>1, <1>2, <1>3, <1>4 DEF IInv

(* While the manifest is being read nothing has been claimed.              *)
LEMMA ReadStep ==
  ASSUME RoutingAssumption, IInv, NEW n \in RouteNames, ReadExplicit(n)
  PROVE  IInv'
<1> USE DEF IInv, ReadExplicit
<1>1. TypeOK'
  BY DEF TypeOK, manifest, ServiceOr
<1>2. Listed' = Listed /\ n \in Listed /\ \A j : Selected(j)' = Selected(j)
  BY DEF ReadInv, Listed, Selected, manifest
<1>3. hosts[n] \in Selected(Normal[n]) /\ hosts[n] # None /\ Normal[n] \in Keys
  BY <1>2 DEF Selected, Listed, RoutingAssumption
<1>4. ReadInv'
  <2>1. \A j \in Keys : explicit'[j] # None => explicit'[j] \in Selected(j)
    BY <1>3 DEF ReadInv, TypeOK
  <2>2. \A m \in Listed \ unread' : explicit'[Normal[m]] # None
    BY <1>3 DEF ReadInv, TypeOK, Listed, RoutingAssumption
  <2> QED
    BY <1>2, <2>1, <2>2 DEF ReadInv
<1>5. ClaimInv'
  BY DEF ClaimInv, ReadInv
<1>6. StartInv' /\ RefusedForCause' /\ ClaimedStaysLocal'
  BY DEF StartInv, RefusedForCause, ClaimedStaysLocal, manifest, Internet
<1> QED
  BY <1>1, <1>4, <1>5, <1>6

LEMMA AllReadStep ==
  ASSUME RoutingAssumption, IInv, AllRead
  PROVE  IInv'
<1> USE DEF IInv, AllRead
<1>1. UNCHANGED Table
  BY DEF Table
<1>2. TypeOK'
  BY DEF TypeOK, manifest, table
<1>3. ReadInv'
  BY <1>1, SameTable DEF ReadInv, table
<1>4. ClaimInv'
  BY <1>1, SameTable
<1>5. StartInv' /\ RefusedForCause' /\ ClaimedStaysLocal'
  BY DEF StartInv, RefusedForCause, ClaimedStaysLocal, manifest, table, Internet
<1> QED
  BY <1>2, <1>3, <1>4, <1>5

(* A second claim means that nothing is selected, else only the selected   *)
(* service would claim.                                                    *)
LEMMA ClaimStep ==
  ASSUME RoutingAssumption, IInv, NEW s \in Services, ClaimRoutes(s)
  PROVE  IInv'
<1> USE DEF IInv
<1>1. pc = "claim" /\ s \in todo /\ unread = {}
  BY DEF ClaimRoutes, ReadInv
<1>2. /\ Listed' = Listed /\ \A j : Selected(j)' = Selected(j)
      /\ \A t : Claims(t)' = Claims(t)
      /\ UNCHANGED <<manifest, unread, explicit, tunnels, last>>
  BY DEF ClaimRoutes, Listed, Selected, Claims, manifest
<1>3. Claims(s) \subseteq Keys
  BY DEF Claims, RoutingAssumption
<1>4. ReadInv'
  BY <1>1, <1>2 DEF ReadInv, ClaimRoutes
<1>5. StartInv' /\ ClaimedStaysLocal'
  BY <1>1, <1>2 DEF StartInv, ClaimedStaysLocal, ClaimRoutes, Internet
<1>6. CASE \E j \in Claims(s) : claimed[j] \notin {None, s} /\ pc' = "refused"
                                /\ UNCHANGED <<todo, claimed, routes>>
  <2>1. PICK j \in Claims(s) : claimed[j] \notin {None, s}
    BY <1>6
  <2>2. j \in Keys
    BY <1>3
  <2>3. PICK t \in Services : claimed[j] = t /\ t # s
    BY <2>1, <2>2 DEF TypeOK, ServiceOr
  <2>4. j \in Claims(t)
    BY <2>2, <2>3 DEF ClaimInv
  <2>5. explicit[j] = None
    BY <2>1, <2>3, <2>4 DEF Claims
  <2>6. Selected(j) = {}
    BY <1>1, <2>2, <2>5, SelectedOfExplicit
  <2>7. s \in Providers(j) /\ t \in Providers(j)
    BY <2>1, <2>4 DEF Claims, Providers
  <2>8. RefusedForCause'
    <3>1. Selected(j)' = {} /\ s \in Providers(j)' /\ t \in Providers(j)' /\ s # t
      BY <1>2, <2>3, <2>6, <2>7 DEF Providers
    <3> QED
      BY <3>1, <2>2 DEF RefusedForCause
  <2>9. TypeOK' /\ ClaimInv'
    BY <1>2, <1>6 DEF TypeOK, ClaimInv, manifest
  <2> QED
    BY <1>4, <1>5, <2>8, <2>9
<1>7. CASE /\ \A j \in Claims(s) : claimed[j] \in {None, s}
           /\ claimed' = [j \in Keys |-> IF j \in Claims(s) THEN s ELSE claimed[j]]
           /\ routes' = routes \union {<<j, s>> : j \in Claims(s)}
           /\ todo' = todo \ {s}
           /\ UNCHANGED pc
  <2>1. TypeOK'
    BY <1>1, <1>2, <1>3, <1>7 DEF TypeOK, ServiceOr, manifest
  <2>2. ASSUME NEW j \in Keys, NEW t \in Services
        PROVE  /\ <<j, t>> \in routes' <=> t \notin todo' /\ j \in Claims(t)
               /\ <<j, t>> \in routes' <=> claimed'[j] = t
    <3>1. <<j, t>> \in routes' <=> <<j, t>> \in routes \/ (t = s /\ j \in Claims(s))
      BY <1>7
    <3>2. claimed'[j] = IF j \in Claims(s) THEN s ELSE claimed[j]
      BY <1>7
    <3>3. t \notin todo' <=> t \notin todo \/ t = s
      BY <1>7
    <3>4. claimed[j] = None => <<j, t>> \notin routes
      BY DEF ClaimInv, RoutingAssumption
    <3> QED
      BY <3>1, <3>2, <3>3, <3>4, <1>1, <1>7 DEF ClaimInv
  <2>3. ClaimInv'
    BY <2>2, <1>2 DEF ClaimInv
  <2>4. RefusedForCause'
    BY <1>1, <1>7 DEF RefusedForCause
  <2> QED
    BY <1>4, <1>5, <2>1, <2>3, <2>4
<1> QED
  BY <1>6, <1>7 DEF ClaimRoutes

(* A selected route that nobody claimed was selected for a service that    *)
(* does not declare it.                                                    *)
LEMMA CheckStep ==
  ASSUME RoutingAssumption, IInv, CheckExplicit
  PROVE  IInv'
<1> USE DEF IInv
<1>1. UNCHANGED Table /\ UNCHANGED <<tunnels, last>> /\ unread = {} /\ todo = {}
  BY DEF CheckExplicit, Table, ReadInv
<1>2. TypeOK'
  BY DEF CheckExplicit, TypeOK, manifest, table
<1>3. ReadInv' /\ ClaimInv'
  BY <1>1, SameTable DEF ReadInv, CheckExplicit, table
<1>4. StartInv' /\ ClaimedStaysLocal'
  BY <1>1 DEF StartInv, ClaimedStaysLocal, CheckExplicit, table, manifest, Internet
<1>5. CASE pc' = "refused"
  <2>1. PICK j \in Keys : explicit[j] # None /\ claimed[j] = None
    BY <1>5 DEF CheckExplicit
  <2>2. explicit[j] \in Selected(j) /\ explicit[j] \in Services
    BY <2>1, <1>1, SelectedOfExplicit DEF ReadInv
  <2>3. explicit[j] \notin Providers(j)
    <3> SUFFICES ASSUME explicit[j] \in Providers(j)
                 PROVE  FALSE
      OBVIOUS
    <3>1. j \in Claims(explicit[j])
      BY DEF Claims, Providers
    <3>2. claimed[j] = explicit[j]
      BY <1>1, <2>2, <3>1 DEF ClaimInv
    <3> QED
      BY <2>1, <3>2
  <2>4. Selected(j)' \ Providers(j)' # {}
    BY <1>1, <2>2, <2>3, SameTable DEF Providers
  <2>5. RefusedForCause'
    BY <2>4 DEF RefusedForCause
  <2> QED
    BY <1>2, <1>3, <1>4, <2>5
<1>6. CASE pc' # "refused"
  BY <1>2, <1>3, <1>4, <1>6 DEF RefusedForCause
<1> QED
  BY <1>5, <1>6

(* A table is empty only if no resource declares a route.                  *)
LEMMA StartStep ==
  ASSUME RoutingAssumption, IInv, StartProxy
  PROVE  IInv'
<1> USE DEF IInv
<1>1. UNCHANGED Table /\ UNCHANGED <<tunnels, last>> /\ pc = "start"
  BY DEF StartProxy, Table
<1>2. TypeOK'
  BY DEF StartProxy, TypeOK, manifest, table
<1>3. ReadInv' /\ ClaimInv'
  BY <1>1, SameTable DEF ReadInv, StartProxy, table
<1>4. StartInv' /\ ClaimedStaysLocal'
  BY <1>1 DEF StartInv, ClaimedStaysLocal, StartProxy, table, manifest, Internet
<1>5. CASE pc' = "refused"
  <2>1. routes = {}
    BY <1>5 DEF StartProxy
  <2>2. ASSUME NEW s \in Services, NEW j \in Provides[s]
        PROVE  FALSE
    <3>1. j \in Keys /\ Providers(j) # {}
      BY DEF RoutingAssumption, Providers
    <3>2. PICK t \in Providers(j) : {r \in routes : r[1] = j} = {<<j, t>>}
      BY <1>1, <3>1, OwnerOfRoute
    <3> QED
      BY <2>1, <3>2
  <2>3. RefusedForCause'
    BY <2>2 DEF RefusedForCause
  <2> QED
    BY <1>2, <1>3, <1>4, <2>3
<1>6. CASE pc' # "refused"
  BY <1>2, <1>3, <1>4, <1>6 DEF RefusedForCause
<1> QED
  BY <1>5, <1>6

(* What is said of a request that a proxy sends nowhere but to the match.  *)
LEMMA DispatchStep ==
  ASSUME RoutingAssumption, IInv, pc = "serving", UNCHANGED <<manifest, pc, table>>,
         TypeOK', ClaimedStaysLocal'
  PROVE  IInv'
<1> USE DEF IInv
<1>1. UNCHANGED Table
  BY DEF Table
<1>2. ReadInv' /\ ClaimInv'
  BY <1>1, SameTable DEF ReadInv, table
<1>3. StartInv' /\ RefusedForCause'
  BY DEF StartInv, RefusedForCause, table
<1> QED
  BY <1>2, <1>3

(* Where a request goes is well typed.                                     *)
LEMMA GoesType ==
  ASSUME TypeOK, RoutingAssumption, UNCHANGED <<manifest, pc, table>>, tunnels' \subseteq Hosts,
         NEW h \in Hosts, NEW p \in Paths \union {None},
         NEW fate \in {"service", Internet, Forbidden}, NEW s \in ServiceOr(None),
         Goes(h, p, fate, s)
  PROVE  TypeOK'
BY DEF TypeOK, Goes, manifest, table

(* A match is answered by a service of the environment.                    *)
LEMMA MatchStep ==
  ASSUME RoutingAssumption, IInv, pc = "serving", UNCHANGED <<manifest, pc, table, tunnels>>,
         NEW h \in Hosts, NEW p \in Paths, NEW r \in Best(h, p), Goes(h, p, "service", r[2])
  PROVE  IInv'
<1>1. r[2] \in ServiceOr(None)
  BY DEF Best, Matching, IInv, TypeOK, ServiceOr
<1>2. tunnels' \subseteq Hosts
  BY DEF IInv, TypeOK
<1>3. TypeOK'
  BY <1>1, <1>2, GoesType DEF IInv
<1>4. ClaimedStaysLocal'
  BY DEF ClaimedStaysLocal, Goes, Internet
<1> QED
  BY <1>3, <1>4, DispatchStep

LEMMA PlainStep ==
  ASSUME RoutingAssumption, IInv, NEW n \in Names, NEW p \in Paths, Plain(n, p)
  PROVE  IInv'
<1> DEFINE h == Canonical[n]
<1>1. /\ pc = "serving" /\ h \in Hosts /\ UNCHANGED <<manifest, pc, table, tunnels>>
      /\ p # None
  BY DEF Plain, RoutingAssumption
<1>2. CASE \E r \in Best(h, p) : Goes(h, p, "service", r[2])
  <2> HIDE DEF h
  <2> QED
    BY <1>1, <1>2, MatchStep
<1>3. CASE Matching(h, p) = {} /\ Goes(h, p, IF CanPassthrough(h) THEN Internet ELSE Forbidden, None)
  <2> HIDE DEF h
  <2>1. PICK fate \in {Internet, Forbidden} :
          Goes(h, p, fate, None) /\ (fate = Internet => CanPassthrough(h))
    BY <1>3 DEF Internet, Forbidden
  <2>2. TypeOK'
    <3>1. tunnels' \subseteq Hosts /\ None \in ServiceOr(None)
      BY <1>1 DEF IInv, TypeOK, ServiceOr
    <3> QED
      BY <1>1, <2>1, <3>1, GoesType DEF IInv
  <2>3. ASSUME NEW s \in Services, NEW j \in Provides[s], HostOf[j] = h
        PROVE  p \notin Under[j]
    <3>1. PICK r \in routes : r[1] = j
      BY <1>1, UnmatchedIsUndeclared
    <3> QED
      BY <1>3, <2>3, <3>1 DEF Matching
  <2>4. fate = Internet /\ strict => \E m \in passthrough : Canonical[m] = h
    BY <2>1 DEF CanPassthrough
  <2>5. ClaimedStaysLocal'
    BY <1>1, <2>1, <2>3, <2>4 DEF ClaimedStaysLocal, Goes, manifest
  <2> QED
    BY <1>1, <2>2, <2>5, DispatchStep
<1> QED
  BY <1>2, <1>3 DEF Plain

LEMMA ConnectStep ==
  ASSUME RoutingAssumption, IInv, NEW n \in Names, Connect(n)
  PROVE  IInv'
<1> DEFINE h == Canonical[n]
<1>1. pc = "serving" /\ h \in Hosts /\ UNCHANGED <<manifest, pc, table>>
  BY DEF Connect, RoutingAssumption
<1>2. CASE tunnels' = tunnels \union {h} /\ UNCHANGED last
  <2>1. TypeOK'
    BY <1>1, <1>2 DEF IInv, TypeOK, manifest, table
  <2>2. ClaimedStaysLocal'
    BY <1>1, <1>2 DEF IInv, ClaimedStaysLocal, manifest
  <2> QED
    BY <1>1, <2>1, <2>2, DispatchStep
<1>3. CASE /\ ~HasHost(h) /\ UNCHANGED tunnels
           /\ Goes(h, None, IF CanPassthrough(h) THEN Internet ELSE Forbidden, None)
  <2> HIDE DEF h
  <2>1. PICK fate \in {Internet, Forbidden} :
          Goes(h, None, fate, None) /\ (fate = Internet => CanPassthrough(h))
    BY <1>3 DEF Internet, Forbidden
  <2>2. TypeOK'
    <3>1. tunnels' \subseteq Hosts /\ None \in ServiceOr(None)
      BY <1>3 DEF IInv, TypeOK, ServiceOr
    <3> QED
      BY <1>1, <2>1, <3>1, GoesType DEF IInv
  <2>3. ASSUME NEW s \in Services, NEW j \in Provides[s]
        PROVE  HostOf[j] # h
    BY <1>1, <1>3, UnmatchedIsUndeclared DEF HasHost
  <2>4. fate = Internet /\ strict => \E m \in passthrough : Canonical[m] = h
    BY <2>1 DEF CanPassthrough
  <2>5. ClaimedStaysLocal'
    BY <1>1, <2>1, <2>3, <2>4 DEF ClaimedStaysLocal, Goes, manifest
  <2> QED
    BY <1>1, <2>2, <2>5, DispatchStep
<1> QED
  BY <1>2, <1>3 DEF Connect

LEMMA TunnelStep ==
  ASSUME RoutingAssumption, IInv, NEW h \in Hosts, NEW p \in Paths, TunnelRequest(h, p)
  PROVE  IInv'
<1>1. pc = "serving" /\ UNCHANGED <<manifest, pc, table, tunnels>>
  BY DEF TunnelRequest, IInv, StartInv
<1>2. CASE \E r \in Best(h, p) : Goes(h, p, "service", r[2])
  BY <1>1, <1>2, MatchStep
<1>3. CASE Goes(h, p, Forbidden, None)
  <2>1. tunnels' \subseteq Hosts /\ None \in ServiceOr(None)
    BY <1>1 DEF IInv, TypeOK, ServiceOr
  <2>2. TypeOK'
    BY <1>1, <1>3, <2>1, GoesType DEF IInv
  <2>3. ClaimedStaysLocal'
    BY <1>3 DEF ClaimedStaysLocal, Goes, Internet, Forbidden
  <2> QED
    BY <1>1, <2>2, <2>3, DispatchStep
<1> QED
  BY <1>2, <1>3 DEF TunnelRequest

LEMMA StutterStep ==
  ASSUME IInv, UNCHANGED vars
  PROVE  IInv'
<1> USE DEF IInv, vars
<1>1. UNCHANGED Table
  BY DEF Table
<1>2. TypeOK'
  BY DEF TypeOK, manifest, table
<1>3. ReadInv' /\ ClaimInv'
  BY <1>1, SameTable DEF ReadInv, table
<1>4. StartInv' /\ ClaimedStaysLocal'
  BY DEF StartInv, ClaimedStaysLocal, table, manifest
<1>5. RefusedForCause'
  BY DEF RefusedForCause, Providers, Selected, Listed, manifest
<1> QED
  BY <1>2, <1>3, <1>4, <1>5

LEMMA StepIInv == RoutingAssumption /\ IInv /\ [Next]_vars => IInv'
<1> SUFFICES ASSUME RoutingAssumption, IInv, [Next]_vars
             PROVE  IInv'
  OBVIOUS
<1>1. CASE \E n \in RouteNames : ReadExplicit(n)
  BY <1>1, ReadStep
<1>2. CASE AllRead
  BY <1>2, AllReadStep
<1>3. CASE \E s \in Services : ClaimRoutes(s)
  BY <1>3, ClaimStep
<1>4. CASE CheckExplicit
  BY <1>4, CheckStep
<1>5. CASE StartProxy
  BY <1>5, StartStep
<1>6. CASE \E n \in Names, p \in Paths : Plain(n, p)
  BY <1>6, PlainStep
<1>7. CASE \E n \in Names : Connect(n)
  BY <1>7, ConnectStep
<1>8. CASE \E h \in Hosts, p \in Paths : TunnelRequest(h, p)
  BY <1>8, TunnelStep
<1>9. CASE UNCHANGED vars
  BY <1>9, StutterStep
<1> QED
  BY <1>1, <1>2, <1>3, <1>4, <1>5, <1>6, <1>7, <1>8, <1>9 DEF Next

(* The invariant holds of every behaviour.                                 *)
THEOREM Invariance == Spec => []IInv
<1>1. Init => IInv
  BY InitIInv, RoutingAssumption
<1>2. IInv /\ [Next]_vars => IInv'
  BY StepIInv, RoutingAssumption
<1> QED
  BY <1>1, <1>2, PTL DEF Spec

-----------------------------------------------------------------------------
(* Every variable keeps its type.                                          *)
THEOREM TypeCorrect == Spec => []TypeOK
<1>1. IInv => TypeOK
  BY DEF IInv
<1> QED
  BY <1>1, Invariance, PTL

(* A proxy that serves gives each declared route to one service, which     *)
(* provides it and which the manifest selects where it selects one, in     *)
(* whatever order the maps are iterated.                                   *)
THEOREM RoutesFollowManifestHolds == Spec => []RoutesFollowManifest
<1>1. IInv => RoutesFollowManifest
  BY TableFollowsManifest, RoutingAssumption
<1> QED
  BY <1>1, Invariance, PTL

(* A manifest is refused only for a reason found in the manifest.          *)
THEOREM RefusedForCauseHolds == Spec => []RefusedForCause
<1>1. IInv => RefusedForCause
  BY DEF IInv
<1> QED
  BY <1>1, Invariance, PTL

(* No two spellings of a route under proxy.hosts select two services.      *)
Unambiguous ==
  \A n, m \in Listed : Normal[n] = Normal[m] => hosts[n] = hosts[m]

(* What the manifest and the descriptors call for.                         *)
CalledFor ==
  {r \in Keys \X Services :
     /\ r[2] \in Providers(r[1])
     /\ Selected(r[1]) = {} \/ r[2] \in Selected(r[1])}

Refusable ==
  \/ \E j \in Keys : Selected(j) = {} /\ \E s, t \in Providers(j) : s # t
  \/ \E j \in Keys : Selected(j) \ Providers(j) # {}
  \/ \A s \in Services : Provides[s] = {}

ManifestDecides ==
  Unambiguous =>
    /\ pc = "serving" => ~Refusable /\ routes = CalledFor
    /\ pc = "refused" => Refusable

(* If no route is selected twice, the manifest alone decides whether the   *)
(* environment starts and what its table is: proxyRoutes gives the same    *)
(* answer in every order of its three maps.                                *)
THEOREM ManifestDecidesHolds == Spec => []ManifestDecides
<1>1. IInv => ManifestDecides
  <2> SUFFICES ASSUME IInv, Unambiguous
               PROVE  /\ pc = "serving" => ~Refusable /\ routes = CalledFor
                      /\ pc = "refused" => Refusable
    BY DEF ManifestDecides
  <2>1. pc = "refused" => Refusable
    BY DEF IInv, RefusedForCause, Refusable
  <2>2. ASSUME pc = "serving"
        PROVE  ~Refusable /\ routes = CalledFor
    <3>1. ASSUME NEW j \in Keys, Providers(j) \union Selected(j) # {}
          PROVE  \E s \in Providers(j) :
                   /\ {r \in routes : r[1] = j} = {<<j, s>>}
                   /\ IF Selected(j) = {} THEN Providers(j) = {s} ELSE s \in Selected(j)
      BY <2>2, <3>1, OwnerOfRoute, RoutingAssumption DEF IInv
    <3>2. ASSUME NEW j \in Keys, NEW s \in Selected(j), NEW t \in Selected(j)
          PROVE  s = t
      BY DEF Selected, Unambiguous
    <3>3. \A j \in Keys : Selected(j) = {} => \A s, t \in Providers(j) : s = t
      BY <3>1
    <3>4. \A j \in Keys : Selected(j) \subseteq Providers(j)
      BY <3>1, <3>2
    <3>5. PICK r \in routes : TRUE
      BY <2>2 DEF IInv, StartInv
    <3>6. r[2] \in Services /\ r[1] \in Provides[r[2]]
      BY <2>2, TableFollowsManifest, RoutingAssumption DEF RoutesFollowManifest, IInv, TypeOK
    <3>7. ~Refusable
      BY <3>3, <3>4, <3>6 DEF Refusable
    <3>8. ASSUME NEW q \in routes
          PROVE  q \in CalledFor
      <4>1. q \in Keys \X Services /\ q[1] \in Provides[q[2]]
        BY <2>2, TableFollowsManifest, RoutingAssumption DEF RoutesFollowManifest, IInv, TypeOK
      <4>2. q[2] \in Providers(q[1])
        BY <4>1 DEF Providers
      <4>3. PICK s \in Providers(q[1]) :
              /\ {x \in routes : x[1] = q[1]} = {<<q[1], s>>}
              /\ IF Selected(q[1]) = {} THEN Providers(q[1]) = {s} ELSE s \in Selected(q[1])
        BY <3>1, <4>1, <4>2
      <4>4. q[2] = s
        BY <4>1, <4>3
      <4> QED
        BY <4>1, <4>2, <4>3, <4>4 DEF CalledFor
    <3>9. ASSUME NEW q \in CalledFor
          PROVE  q \in routes
      <4>1. /\ q \in Keys \X Services /\ q[2] \in Providers(q[1])
            /\ Selected(q[1]) = {} \/ q[2] \in Selected(q[1])
        BY DEF CalledFor
      <4>2. PICK s \in Providers(q[1]) :
              /\ {x \in routes : x[1] = q[1]} = {<<q[1], s>>}
              /\ IF Selected(q[1]) = {} THEN Providers(q[1]) = {s} ELSE s \in Selected(q[1])
        BY <3>1, <4>1
      <4>3. q[2] = s
        BY <3>2, <4>1, <4>2
      <4> QED
        BY <4>1, <4>2, <4>3
    <3> QED
      BY <3>7, <3>8, <3>9
  <2> QED
    BY <2>1, <2>2
<1> QED
  BY <1>1, Invariance, PTL

(* The table has at most one best route for any request that it serves.    *)
MatchIsUnique ==
  pc = "serving" =>
    \A h \in Hosts, p \in Paths : \A q \in Best(h, p), r \in Best(h, p) : q = r

(* A request has at most one best route, so the order in which routes of   *)
(* one length were appended decides nothing.                               *)
THEOREM MatchIsUniqueHolds == Spec => []MatchIsUnique
<1>1. IInv => MatchIsUnique
  <2> SUFFICES ASSUME IInv, NEW h \in Hosts, NEW p \in Paths,
                      NEW q \in Best(h, p), NEW r \in Best(h, p)
               PROVE  q = r
    BY DEF MatchIsUnique
  <2>1. /\ q \in routes /\ q = <<q[1], q[2]>> /\ q[1] \in Keys /\ q[2] \in Services
        /\ r \in routes /\ r = <<r[1], r[2]>> /\ r[1] \in Keys /\ r[2] \in Services
    BY DEF Best, Matching, IInv, TypeOK
  <2>2. q[1] = r[1]
    <3>1. /\ HostOf[q[1]] = HostOf[r[1]] /\ p \in Under[q[1]] \cap Under[r[1]]
          /\ PrefixLength[q[1]] <= PrefixLength[r[1]]
          /\ PrefixLength[r[1]] <= PrefixLength[q[1]]
      BY DEF Best, Matching
    <3>2. PrefixLength[q[1]] = PrefixLength[r[1]]
      BY <2>1, <3>1, RoutingAssumption DEF RoutingAssumption
    <3> QED
      BY <2>1, <3>1, <3>2, PrefixAssumption DEF PrefixAssumption
  <2>3. claimed[q[1]] = q[2] /\ claimed[r[1]] = r[2]
    BY <2>1 DEF IInv, ClaimInv
  <2> QED
    BY <2>1, <2>2, <2>3
<1> QED
  BY <1>1, Invariance, PTL

(* What leaves the machine is for a path no resource of the environment    *)
(* declares, and in strict mode for a host the manifest lets pass.         *)
THEOREM ClaimedStaysLocalHolds == Spec => []ClaimedStaysLocal
<1>1. IInv => ClaimedStaysLocal
  BY DEF IInv
<1> QED
  BY <1>1, Invariance, PTL
=============================================================================

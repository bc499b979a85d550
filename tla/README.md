# fabricate in TLA+

`fab run` starts, from one manifest, local imitations of HTTP providers (Gmail,
HubSpot, Asana, ...): for each service a SQLite database filled from a scenario,
an HTTP server over it, and optionally an intercepting proxy that sends a
client's traffic for the providers' real hosts to those servers. When the child
command ends, everything is taken down again.

This directory holds TLA+ modules translated from that code, TLC configurations
that check them on small instances, and proofs checked by TLAPS for every
instance. Paths below are relative to `src/`; `PROJECT.json` gives the lines
each definition stands for.

    tlc -workers 2 -config Environment.cfg MCEnvironment
    tlapm EnvironmentProofs.tla

## 1. The system

| component | state | operations | talks to |
|---|---|---|---|
| Service state manager, `engine/http/state_manager.go` | directory of a service, `baseline.db`, `live.db`, their temporaries, `s.db`, a mutex | Prepare, DB, Reset, Close | SQLite, file system; the resource holds its handle |
| Service runtime, `engine/http/service.go` | listener, `http.Server`, token, id counter | StartService, the Serve goroutine, Close | state manager, resource, request log |
| Environment lifecycle, `environment/runner.go`, `cli/run.go` | state directory, list of services, proxy, log, child process | Start with rollback, Close, executeRun | everything above |
| Proxy, `engine/http/proxy/proxy.go` | routing table, CA, certificate cache, log | ServeHTTP, connect, serveTunnel, OAuth token | services by HTTP, clients by hijacked connections |
| Routing table, `runner.go` `proxyRoutes`, `proxy.go` `Start`/`match` | pairs of host and prefix with a target | build, sort, match | manifest, resource descriptors |
| Request log, `requestlog/log.go` | file, mutex, closed flag, the captures of a request | Record, Middleware, Find, Close | every handler |
| Manifest, `environment/spec.go`, `environments/`, parts of `cli/run.go` | none | Parse, Validate, resolve, merge child environment | scenario catalog |
| Scenario documents, `scenario/` | none | parse, canonical JSON, digest | codecs |
| Registry, `httpresource/` | table filled once | Register, Get | resources |
| Spec-driven server, `httpresource/specserver` (cloudflare, digitalocean) | table `documents(collection, id, body)` | GET, POST, PUT, PATCH, DELETE by OpenAPI route; Load, Dump, Validate | database of the service, id generator |
| Hand-written resources: gmail, intercom, asana, hubspot, pipedrive, attio, close, mailchimp, mailgun, resend, sendgrid | provider tables | provider endpoints; Load, Dump | database of the service |
| CLI | terminal | list, validate, logs | catalog, log |
| Container instances (`cli/create.go`, `destroy.go`, ... `internal/state`) | `state.json`, its lock, containers, objects of a cluster | create, destroy | docker, Kubernetes (`target/kubetarget`), other processes of the CLI; not registered in `cli/root.go` |
| Engines, profiles, generators, sites, generated bindings | - | - | external processes, build time |

What is hard in it, and therefore worth checking:

- **Start and teardown.** N servers come up one after another; any step can fail
  with earlier servers already accepting. Close counts down with a deadline
  while handlers run, connections are hijacked out of `net/http`'s sight, and a
  Serve goroutine may not even have been scheduled.
- **Replacing a file under open handles.** Reset closes `live.db`, copies the
  baseline over it and reopens it; the resource server keeps the old handle.
- **Map order.** The routing table is computed from two Go maps; ties, overrides
  and conflicts must not depend on the order.
- **Read-modify-write without transactions.** Every handler runs single
  statements; updates read, merge and write back.
- **Partial failure.** Rows inserted by several statements, log records after
  the log was closed, temporary files after a failed copy.
- **Crashes and other processes.** The log calls itself durable though it drops
  the errors of its disk; `state.json` is changed by several processes, any of
  which may be killed while it holds the lock.
- **One thing under two names.** A document's key is a text made of its id by
  one of two conversions that differ for long numbers; in a cluster several
  names of instances stand for the same objects.

`PROJECT.json` lists the hazards one by one, at their lines, with the property
that covers each.

What makes each component correct:

- *State manager*: no partial database under a final name; nothing open while
  the file is replaced; a failure never blocks the next copy; the baseline is
  immutable; to its clients it is a store that is reset to the scenario.
- *Lifecycle*: all or nothing; nothing left behind; no database taken from under
  a handler; every answer logged; the command ends.
- *Routing*: table and refusal follow from the manifest; the best route is
  unique; a claimed route never leaves the machine.
- *Spec-driven server*: what is written is found under its id; generated ids
  replace nothing; a dump loads again under the same keys; an update that no other overtakes is exactly what was
  asked.
- *Resources*: what is stored refers to what exists; a document keeps its id; an
  answered create is whole, a refused one left nothing; pages have no gaps; what
  changes was asked for.
- *Request log*: a line says what was exchanged; an answered request has its
  line.
- *Instances*: one record changes at a time; records and containers agree.

## 2. Modules

| module | what it is | source |
|---|---|---|
| `ServiceState` | Prepare, Reset, Close, handlers' statements | `state_manager.go`, `service.go` |
| `ResettableStore` | what ServiceState promises | abstract |
| `Environment` | a run of the command with N services and the proxy | `runner.go`, `run.go`, `service.go`, `proxy.go`, `log.go` |
| `Sandbox` | what Environment promises | abstract |
| `ProxyRoutes` | building and consulting the routing table | `runner.go`, `proxy.go` |
| `DocumentStore` | the handlers of the spec-driven server | `specserver/*.go` |
| `Mailbox` | modifying, sending and paging in the Gmail resource | `resources/gmail/*.go` |
| `ResourceHandlers` | the write requests of the ten other hand-written resources | `resources/*/server.go`, `schema.sql` |
| `RequestLog` | captures, Record, Close, a failing disk, a killed process | `requestlog/log.go`, `proxy.go` |
| `InstanceRegistry` | create, destroy and `state.Update` as processes, and the objects of a cluster they share | `internal/state/*.go`, `cli/create.go`, `cli/destroy.go`, `target/kubetarget/kubetarget.go` |
| `InstanceTable` | what InstanceRegistry promises | abstract |
| `MC*` | instances for TLC | |
| `*Proofs` | theorems and proofs | |

### ServiceState

`dir`, `file`, `handle` are the directory, the four files and `s.db`; `server`
is the handle the resource was built around; `open` and `busy` say which handles
are not closed, that on the temporary baseline included, and which execute a
statement; `holder` is `s.mu`.

`Inspect`, `Initialize`, `Load`, `PublishBaseline` are the first half of
Prepare; `CreateCopy`, `FillCopy`, `PublishCopy` are `copyFileAtomic`, which
Prepare and Reset share, and `OpenLive` the opening after it. `Initialize` opens
the temporary baseline and `Load` closes it, on its error return as well:
Prepare's deferred cleanup removes files and closes nothing. `ResetBegins` is
Reset up to the copy, `Close` is Close. `Fail` is the deferred cleanup of either
caller. Every call that can fail does so nondeterministically, except the
removals of cleanup paths, whose errors the code discards; a cleanup is one step
with the failure it follows, since no other goroutine can see the files
meanwhile.

A file holds one of a few contents, or is absent, or is `Torn` while being
written. The comment on `DB` obliges the caller to have no request under way
when Reset begins, hence `busy = {}` in the guard of `ResetBegins`; nothing
forbids requests to arrive after it. `sql.DB.Close` does not wait for a running
statement. SQLite's journal is not modelled.

### Environment

Servers are numbered: services 1..N in the order of their names, the proxy N+1,
so that Start counts `k` up and Close counts it down. `pc` and `k` are the
goroutine of the command; `loop[s]` the goroutine that calls Serve; `stage`,
`via`, `to`, `outcome` a request. Start is `MakeStateDir`, `OpenLog`,
`PrepareService`, `ListenService`, `StartProxy`; Runtime.Close is `Shutdown` and
`Drain` for each server, `RemoveStateDir`, `CloseLog`. `CloseFrom` is both the
order of Close and the rollback of a failed Start. `exit` is what executeRun
reports, `first` that Close has an error to return.

Requests come directly to a service, plain through the proxy, or in a CONNECT
tunnel, the latter on a connection no `http.Server` tracks (`Active`). `Handle`
fails if the database of its service is closed. `Record` loses the entry if the
log is closed.

What `net/http` does was read from its use: Shutdown closes the listener Serve
is using, waits for accept loop and tracked connections until the context
expires; Serve after Shutdown closes its listener and returns.

### ProxyRoutes

A manifest is chosen in `Init` (`hosts`, `strict`, `passthrough`);
`ReadExplicit(n)` and `ClaimRoutes(s)` are one turn of each of the two loops, in
any order; `CheckExplicit` and `StartProxy` end the construction. `Plain`,
`Connect`, `TunnelRequest` are the three ways a request is decided. `Best` is
what `match` returns on the table sorted by decreasing prefix length: the sort is
stable, but `Start` is given the routes in the order of a map, so that among
equally long prefixes any may come first. `normalizeRouteKey` and `canonicalHost`
are constant functions; prefixes are given by the set of paths they begin and
their length, with the one assumption that two prefixes of a host of the same
length that begin the same path are equal.

### DocumentStore

`docs` is the table; per request: `route`, `body` with the path's parameters
merged in, the key `id`, and the document `held` between reading and writing.
`behind`, which is not in the code, says that another request has written or
deleted that document since; `UpdatedAsAsked` needs it.
`Receive` is the prologue of `Server.serve`; `Mint` is POST up to its write,
`Find` PUT and PATCH up to theirs, `Upsert` the write, `Delete` DELETE,
`StatementFails` any SQL error. GET changes nothing and is `docs[id]`. One
collection stands for all, as every statement names one. A value has up to three
texts that serve as keys: `Sprint`, what `fmt.Sprint` makes of it, which a POST
files it under; `Scalar`, what it is in JSON, which the answer, a path and the
Load of a dump have; and, as a read decodes numbers to float64 (`Decode`), the
one it had in a scenario before. The three agree for strings and short numbers;
`Sprint` writes a number of seven digits or more in scientific notation, and a
float64 rounds one of more than 53 bits. Ids
of the generator have a random prefix, so clients and scenarios do not know one
before it was answered (`Secret`, `PrefixAssumption`). `Minted` bounds the
number of creations.

### Mailbox

`box` is the messages table, `work[c]` the labels a modification has computed
and is about to write. `ReadLabels` and `WriteLabels` are the SELECT and the
UPDATE of `applyLabels`, which Modify and Trash share, `Send` the INSERT of
MessagesSend. A reader's `walk`, `filter`, `offset`, `page` are its list
requests: `FirstPage` has no token, `NextPage` brings back the one it was given,
the number of entries before the next page. `Entries` is what a filter lists,
for threads the first matching message of each; `Before` is the ORDER BY. The
text part of a query is the set of ids it matches, as the text of a message
never changes; a label in a query is the set of labels it matches, for case and
the prefix `Label_`. `seen`, `kept`, `left`, `came` are not in the code: they
remember for the properties what a walk was given and what happened to its
listing meanwhile, as the field `behind` of a modification remembers that
another wrote the message after it was read.

### ResourceHandlers

The ten resources have nearly one shape: a handler is a sequence of single
statements over `rows`, with no transaction and no lock around them. So each
handler is a function (`CreateTask`, `updateItem`, ...) from its request, the id
it was given and the row it holds to a sequence of statements, and a request `c`
is at statement `at[c]` of its `Program(c)`. Each kind of statement is one
action: `FindRow` (SELECT), `InsertRow`, `UpdateRow`, `TakeId` (`ids.Next`),
`CountId` (pipedrive's MAX+1), `Pass` and `Stop` (a check of the code), and
`Fail`, for any statement may return an error. A statement names what its
absence and its error answer, as the handlers differ there: asana answers 400 to
a task whose link cannot be stored. Primary keys refuse an insert; foreign keys
only where the schema declares them (asana, intercom). A provider is chosen in
`Init`; its tables hold one of `Scenarios`. Of the columns a few are kept that
requests change and that refer to other rows; time stamps are not.

`made` (what a request inserted), `behind` (the row a request has read was
written since) and `cut` (a link failed) are not in the code; the properties
need them. Two things the code does that no property is about: a mailchimp
member is keyed by the hash of the address alone, so the same address in a
second list is refused by the primary key; attio's bindings parse the id of a
record as a UUID, which the ids it mints are not.

### RequestLog

A request is `handling` while its handler reads its body and writes its answer
through the captures `taken` and `given` (buffer, bytes, truncated; of bytes
only their number), `reply` being what `net/http` was given. `Return` ends the
handler, `Lock`, `WriteLine`, `Sync` are Record, `Answer` is the end of the
answer, which `net/http` sends when the middleware has returned: the record
precedes it. `IssueToken` is the token answer of the proxy, which computes the
three fields itself. `WriteLine` may write a line, part of one, or nothing,
`Sync` may fail; the code drops both errors, `lost` remembers them. `Crash` may
take, wholly or partly, whatever was not synced. A line after part of a line is
not `Readable`, since no line break separates them.

Two kinds of request are answered and never recorded: a token request whose
body cannot be read (`RefuseToken`, 502; `AnsweredIsDurable` does not speak of
it), and an unmapped request in a tunnel (403), which is not in this model. A
handler that panics (`Abort`) is not answered.

### InstanceRegistry

Each run of `create` or `destroy` is a process; a creator also names what it
makes. `ChooseName` and `FindInstance` read `state.json` without the lock;
`Provision` and `Destroy` make and remove. What that is depends on the target:
with docker each create has a container of its own, removed by its id. In a
cluster (`Clustered`) the name determines the objects: `dnsLabel` folds letters,
punctuation and length, so that names `state.json` tells apart may have the same
`Objects`, the same `Labels`, or both; create updates what it finds there
(`Upsert`), deleting it first if it may not be updated (`Displace`), and destroy
deletes whatever carries the labels of its record (`Remove`). `running` is the
set of creates whose container, or whose last write of a deployment, is still
there; the deployment stands for all objects of an instance. then both
kinds go through `state.Update`: `Lock`, `LoadFresh` (with Add or Remove
applied), `Truncate` and `Write` of the temporary file, `Rename`, `Unlock`.
`Fail` is an error of any of these calls, `Crash` a kill between any two of
them, upon which the kernel releases the flock. The goroutines of one destroy
share nothing but a snapshot, so they are processes that happened to read at the
same moment. A destroy that does not know the engine of an instance removes its
record and leaves the container (`Unknown`). `InstanceTable` is what the callers
of Update see: one table, changed by each call in one step or not at all. Where
`flock` does not exist (`lock_other.go`) the lock is none, and the refinement
fails, as the comment there says. `cli/root.go` registers neither command in
this version.

## 3. Runs

| run | instance | result | states |
|---|---|---|---|
| `service_state` | 2 callers, 3 handles, 2 contents | passes | 895 |
| `environment` | 2 services, with and without proxy, 2 requests, fairness | passes | 1,187,485 |
| `proxy_routes` | two Gmail and one HubSpot service, every manifest over 4 spellings of 3 routes | passes | 416,832 |
| `document_store` | 2 requests, 2 generated ids, 6 routes, a number with two texts | passes | 1,614,536 |
| `mailbox` | 2 or 3 messages and 3 ids, 2 threads, 1 reader, 2 writers, symmetric, pages of 1 and 2 | passes | 538,384 |
| `resources` | 10 providers, 3 requests each, symmetric | passes | 733,838 |
| `request_log` | a service request and a token request, limit 2, bodies of 0, 2 and 4 | passes | 2,255,104 |
| `instance_registry` | a create of an unknown engine, 2 creates in one cluster, 1 destroy, 3 names, symmetric | passes | 1,552,337 |
| `environment_drain` | 1 service, 1 request | `GracefulDrain` violated | |
| `proxy_routes_declared` | as `proxy_routes` | `DeclaredHostIntercepted` violated | |
| `resources_dump` | as `resources` | `DumpReloads` violated | |
| `document_store_persists` | as `document_store` | `WritePersists` violated | |

**Bounds.** Three handles are the fewest that let a handle be held by `s.db`,
another by the resource, and a third be opened. Two callers let a Close race a
Reset. Two services give the rollback an earlier service and the teardown an
order; a request in flight at each lets both kinds of drain overlap. Two
services of one resource make a conflict, two spellings of a route an ambiguity,
and a third resource a manifest that is right. Two requests overlap every read
with every write of the other, and the second generated id is minted while a
client uses the first; one long number, once as a client sends it and once as a
scenario writes it, makes each pair of the three texts differ, and both texts
are also keys another request may name. Three messages make a full page of two and one more, or a
thread whose first message changes under the reader, and with one of the three
yet to be sent a listing that grows; readers change nothing, so one shows all,
and two writers overtake each other and move entries both ways between any two
of its requests. Three
requests on the tables of a provider let one delay between a read and a write of
another while the third changes the same row; every scenario has a row of each
table the requests refer to, and every request set one that is asked twice, one
that refers to nothing, and one that is refused. A limit of two with pieces of
nought to three bytes crosses the limit inside a piece, at its end and not at
all; two requests make a line that follows a broken one. Two creates and a
destroy are the fewest with which a destroy removes the record of another
container, or the objects another record names. The three names of the cluster
share their objects, and two of them their labels: the first pair that
`state.json` tells apart and a cluster does not, the third a create that takes
objects over and changes their labels. The theorems below remove the bounds from the safety properties.

**What the passing runs show.** Prepare and Reset publish no partial file, leave
no temporary that would block the next copy, never write under an open handle,
and as a whole behave like `ResettableStore`. A run of the command implements
`Sandbox`; a teardown that reports success has taken no database from a handler,
has logged what was answered, and refused no plain request, and the only
requests still under way when it returns are those in tunnels. Routing table and
refusal depend on the manifest only, up to a choice the manifest leaves open:
a route two of whose spellings select different services gets either, a route
nobody selects gets its only provider. Documents created by the server replace
nothing; a dump loads every document under its key again and every answer can be
read back, but for documents a client or a scenario named by a long number; and
an update that no other
request overtook between its two statements changes the fields it names and no
others. A walk through pages of
messages or threads misses an entry only if one left the listing meanwhile,
repeats one only if one came, and is refused its token only if the listing
shrank; a message changes by the requests that modify it and by nothing else.
Whatever ten kinds of handlers do at once and wherever they fail, no
reference dangles, no document changes its id, an answered create has all its
rows, and a refused request left nothing but for one kind of asana task; a
column changes to what was asked, or by a request that read the row before
another wrote it (that last case is the lost update of every read-modify-write
handler, intercom's excepted). The log never lies, and an answered request has
its line on disk unless the log was closed or the disk refused. The registry is
a table. A record names something that is gone only if a destroy has taken it
down and not yet removed the record, if the destroy was of another record with
the same labels in the cluster, or if another create wrote over the objects;
something recorded runs without its record only if two creates chose one name
from their snapshots, a destroy removed a record that had been replaced under
it, or the engine was unknown.

**What the failing runs show**, each a divergence of the code from its
documents, quoted in `PROJECT.json` under `findings`:

1. A plain request for an unclaimed path of a declared host is forwarded to the
   provider, while CONNECT to the same host intercepts it.
2. A teardown reports success while a tunnelled request is being answered.
3. An asana task created with a workspace and no projects dumps to a scenario
   that `Validate` refuses. `RefusedDumpHasCauseHolds` (section 4) says that
   nothing else a client does makes `Validate` miss a project.
4. A document that a POST names by a number of seven digits or more is filed
   under its scientific notation, `1.2345678e+07`, and not found under the id of
   its answer, 12345678. `WriteIsFoundHolds` says that nothing else a client
   writes is lost to it. A dump files such a document under its digits again,
   as `DumpReloads` excepts.

Three more things happen in these models that a reader may want to know of, and
that no run is spent on: a Reset that fails after closing its database leaves
`s.db` nil, so a retry is refused (nothing calls Reset again); two spellings of
a route that select different services are accepted and map order decides; of
two instances in a cluster whose names differ only in letter case or punctuation
the destroy of one takes the objects of both. Known from the code, and not in
the model `Mailbox`, which has neither labels' names nor headers: a Gmail
message with a label nobody created, or without a To header, dumps to what
`Validate` refuses.

Overlapping updates of one document, message or row do lose one another in these
models, as `Find` and `Upsert`, or `ReadLabels` and `WriteLabels`, are two
statements of the code; no document of the repository promises otherwise.
`UpdatedAsAsked`, `ModifiedAsAsked` and `ChangedAsAsked` say which requests this
can happen to: those another wrote behind, between their read and their write.
All the others do exactly what they were asked, whatever happens to other
documents at the same time.

**Deadlock** is not checked: the command ends, callers of a failed Prepare have
nothing to call, the number of generated ids is bounded, and each request or
command of the other modules is made once, so each model may rightly stop.

**Fairness** (`FairSpec` of Environment) is weak fairness of: the goroutine of
the command, in Start and in Close; the timer of `CloseTimeout` (five seconds, a
context deadline); each Serve goroutine, to begin and to end once Shutdown was
called; and the end of a child whose context is cancelled, which
`exec.CommandContext` kills. The Go scheduler and the kernel provide these.
Nothing is assumed of clients, handlers, signals or a child left to itself: a
handler may hang forever, and `CommandEnds` holds all the same, because of the
deadline. Start's rollback has no deadline; `StartEnds` holds because clients
cannot know the URLs before Start returns (its mutant drops that condition).

## 4. Theorems

All for every value of the constants satisfying the assumptions of the modules,
every number of services, callers, handles and requests.

**`ServiceStateProofs`** (assumption: `ConstantsAssumption`). The state
invariants of the run, that a published baseline changes only with an abandoned
Prepare (`BaselineHolds`), and the refinement of `ResettableStore`, from which
`ClosedForGood` follows: once Close has returned, no query sees a database
again, whatever was under way. The inductive invariant is `MutexInv` (the mutex is held by exactly the caller
inside the slow part of Reset), `HandleInv` (but for the temporary baseline's
the only open handle is `s.db`, none while files are worked on or once the
service is closed) and `FileInv`
(what each file holds at each point). `NeverTorn` alone is not inductive: that
`PublishCopy` renames a complete file needs `FileInv`, which in turn needs that
no two goroutines copy at a time. That a closed store stays closed is proved of
`ResettableStore` alone (`StoreClosesForGood`) and carried over by the
refinement, for any number of Resets that wait for the mutex.

**`EnvironmentProofs`** (`NAssumption`: at least one service). The five safety
properties and the refinement of `Sandbox`. `PositionInv` says that of the
servers those below `k` are up and those above fresh on the way up, down on the
way down; `CommandInv` ties log, directory and child to `pc`; `RequestInv` ties
a request's way to its stage; `TrackedInv` says what a Shutdown has waited for.
`NoUseAfterClose` follows from `TrackedInv`, which a step of `Drain` keeps
because of its guard.

Three more theorems are about teardown as a whole. `TeardownAdvancesHolds`:
every step of Close lowers the measure `Left`, and nothing else moves it, so
that a teardown of N servers has at most 2N + 2 steps. `WaitsForCauseHolds`: the
one step that may have to wait, `Drain`, does so for an accept loop whose
listener is already closed, or, only where a deadline bounds it, for requests;
the rollback of Start, which has no deadline, never waits for a request.
Together they are the safety half of `CommandEnds` and `StartEnds`, for any
number of services; that an enabled step is taken is the fairness TLC checks.
`UpAsAWhole` is concluded from the refinement: every service is open while the
child runs, none after the command returned.

**`ProxyRoutesProofs`** (`RoutingAssumption`, `PrefixAssumption`). The four
invariants of the run, that at most one longest route matches a request
(`MatchIsUniqueHolds`), and the converse of `RefusedForCause`: if no route is
selected twice, the manifest alone decides whether the proxy starts and with
which table (`ManifestDecidesHolds`), so that the order of the maps is never
observable. `ReadInv` relates `explicit` to the entries read,
`ClaimInv` makes `routes` the graph of `claimed` over the services visited;
independence of map order is that both mention sets, never a sequence.

**`DocumentStoreProofs`** (`DocumentAssumption`, `PrefixAssumption`; of the
conversions only that a text is its own text in each, so they may disagree about
any number). The invariants are `Writing` (a request about to write has a
document whose id prints as its key, and is that text unless a POST named it) and `Unknown` (no key
and no document carries an id nobody was told). `WriteIsFoundHolds` follows from
the first; `DumpReloadsHolds` from it and from how a document came to its key
(`FiledStep`): by the generator or a path, under its own text; by a POST, under
what `Sprint` writes; by a scenario, under what was written there, which a
float64 may have rounded since. `UpdatedAsAskedHolds` needs neither: `Merged`
says that an update about to write holds the document that is in the table now,
merged with its body, unless it is `behind`; a step of another request keeps
that because either its key is another or it puts this one behind.

**`MailboxProofs`** (`MailboxAssumption`: finitely many ids, pages are not
empty). The three properties of walks, and `ModifiedAsAskedHolds`. `Progress` says of a walk under way that
what was listed all the time and stands before the token has been given (if
nothing left), and that what was given stands before the token (if nothing
came); it is kept because ranks only grow when a listing only grows
(`RankGrows`), and it gives the properties at the last page because a rank is
below the size of the listing (`RankBound`). `WorkInv` adds that what is
modified is in the table, and that the labels about to be written are those the
message has now, changed as asked, unless the modification is `behind`.

**`ResourceHandlersProofs`** (`ResourceAssumption`: scenarios are what Load
produces, requests are of their provider). The six properties, for any number of
requests. The first half is about the handlers as programs: each is `Well`, a
sequence in which every statement is keyed, refers and answers as it must; the
second half knows nothing of a handler but that. `Inv` says that what a request
has passed is still there and what it inserted is its own (`Passed`, `Made`,
`Apart`), that it holds the row it read or is `behind` (`Holding`), that ids are
given once (`Given`), and who made a link (`LinksMade`). The properties need
these: that `RefusedLeavesNothing` survives a step of *another* request rests on
`Apart`. Each action is first brought to one of three shapes, begins, advances
or ends (`Effect`), and every conjunct is proved once for each shape.
`RefusedDumpHasCauseHolds` bounds the third finding: `Reloads` can fail only for
an asana task without a link, and such a task was made by a `CreateTask` that
named no project, or that was not answered 2xx.

**`RequestLogProofs`** (`LogAssumption`). The three invariants, for any limit,
any lengths and any number of requests. `Captured` says that the captures agree
with what went through them, `Written` that a line is a copy of captures that no
longer change, `Mutex` who holds the mutex, `Pending` that what is neither on
disk nor known to be lost is the last line, `Kept` that a request that lost
nothing has a whole line. `Pending` is why a line that was lost spoils only the
one after it, and `AnsweredIsDurable` need except no more.

**`InstanceRegistryProofs`** (`RegistryAssumption`). Both invariants and the
refinement of `InstanceTable`, for any number of commands, containers and names.
`HolderCanGoOnHolds` is mutual exclusion and what a crash cannot spoil: the
holder is alive, never reads a torn `state.json` and never finds its temporary
file gone. `UpdatesAdvanceHolds` is the measure `Ahead`: no step of a command
brings it back, so each ends after at most nine; what remains of liveness is
only whether the kernel lets it have the lock.
`Mutex` gives `Freshness` (what the holder loaded is the file with its change,
and its temporary file is that), so a `Rename` is one change of one record.
`Recorded`, `Targets`, `Started`, `Untargeted` and `Kept` relate records,
snapshots and what runs, for any names, objects and labels: a record disappears
only by another command for its name, and what a create made disappears only by
a destroy that selects it or a create that writes the same objects. The causes
are about the past, so each must be shown to stay one (`TakenDownStays`,
`WrittenOverStays`); that a create which wrote over another may itself be taken
down later is why `WrittenOver` speaks of that as well.

Only model-checked: liveness (`StartEnds`, `CommandEnds`, `ListenersClose`),
since proofs about fairness and `ENABLED` are out of the prover's reach (the
measures above are as far as it goes), and of course the violations.

## 5. Not modelled, and why

- Bytes: HTTP parsing, TLS, certificates and their cache, logging, formatting.
- Panics of a handler but for what they do to the log.
- A crash of `fab run` other than for its log: nothing is recovered from disk at
  the next start; a state directory left by one is refused by `Inspect`
  (`foreign`).
- Passthrough tunnels, which only copy bytes.
- Token authentication and refused requests of the spec server, as they change
  nothing; requests of the resources that only read, Gmail's lists excepted;
  decoding of bodies and forms.
- Redaction and the decoding of logged bodies, and `Find`: functions of a text
  or a directory listing.
- Environment manifests, scenario envelopes and canonical JSON: text in, text
  out; a model would only repeat them. The choices a valid manifest leaves are
  in `ProxyRoutes`.
- Power loss under `state.json`: Save renames without syncing. The model's crash
  is that of a process.
- Generated bindings, 62 of the 83 thousand lines of Go: they decode and
  dispatch and keep no state. Build-time tools, sites, examples.
- Engines, and of the Kubernetes target the contents of objects, waiting for
  them and their credentials: external processes behind commands that
  `cli/root.go` does not register.

## 6. Plan

Done: the eleven modules of section 2, with proofs. What is left, in order of
use:

1. A composition of `ServiceState` and `Environment` in place of the single step
   `PrepareService`, and of `RequestLog` in place of `Record`, with their
   proofs.
2. The certificate authority of the proxy: a cache of leaf certificates under a
   mutex.
3. Liveness of the registry: whether each command gets the lock depends on the
   kernel serving the waiters of a flock, which nothing promises.

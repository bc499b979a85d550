--------------------------- MODULE ResourceHandlers ---------------------------
(***************************************************************************)
(* The write requests of the ten resources whose handlers are written by   *)
(* hand over tables of their own, resources/<name>/server.go (Gmail, the   *)
(* eleventh, is module Mailbox).  A handler is the sequence of statements  *)
(* it executes; it holds no transaction and no lock between two of them,   *)
(* so those of other requests come in between, and any of them may fail:   *)
(* the context of a request ends when its client goes away.                *)
(*                                                                         *)
(* One service, of one provider, is served.  A row is named by its table,  *)
(* the first column of a two-column primary key (0 where there is none)    *)
(* and its id.  Ids and values are numbers, 0 for null and for a column    *)
(* that is not there; name, notes and status stand for what requests       *)
(* store, id for the id inside a stored document.  Time stamps are left    *)
(* out, and so are the requests that only read.                            *)
(***************************************************************************)
EXTENDS Integers, Sequences

CONSTANTS
  Calls,      \* requests, each made once
  Providers,
  Scenarios,  \* what Load may have filled the tables of a provider with
  Requests,   \* what a provider may be asked
  FirstId     \* ids.Next is above every id of a scenario

(* Those served by one handler for many tables, and the others.            *)
Collections ==
  {"contacts", "companies", "deals", "tickets", "organizations", "persons",
   "leads", "opportunities", "lists", "campaigns", "emails", "batches"}

Tables ==
  Collections \union
  {"metadata", "workspaces", "users", "projects", "tasks", "task_projects", "stories",
   "conversations", "conversation_parts", "objects", "records", "members", "messages",
   "events", "domains"}

Columns == {"id", "name", "notes", "status", "parent", "user"}
Row == [Columns -> Nat]
Blank == [col \in Columns |-> 0]
Keys == Tables \X Nat \X Nat
Key(table, first, id) == <<table, first, id>>

Absent == [key |-> Key("metadata", 0, 0), row |-> Blank]

(* What the schemas declare, some of them as foreign keys.                 *)
References(k, row) ==
  CASE k[1] = "projects" -> {Key("workspaces", 0, row.parent)}
    [] k[1] = "tasks" ->
         {Key("workspaces", 0, row.parent)}
         \union {Key("users", 0, u) : u \in {row.user} \ {0}}
    [] k[1] = "task_projects" -> {Key("tasks", 0, k[2]), Key("projects", 0, k[3])}
    [] k[1] = "stories" -> {Key("tasks", 0, row.parent), Key("users", 0, row.user)}
    [] k[1] = "conversations" -> {Key("contacts", 0, row.parent)}
    [] k[1] = "conversation_parts" -> {Key("conversations", 0, row.parent)}
    [] k[1] = "records" -> {Key("objects", 0, k[2])}
    [] k[1] = "events" -> {Key("messages", row.parent, k[3])}
    [] OTHER -> {}

(* The foreign keys are declared by two schemas.                           *)
Enforcing == {"asana", "intercom"}

(* The providers whose rows are documents, stored with their id inside.    *)
Typed == {"asana", "intercom", "hubspot"}

(* What Load puts into the tables.                                         *)
IsTables(t) == DOMAIN t \subseteq Keys /\ t \in [DOMAIN t -> Row]

(* asana's Validate requires a project of every task.                      *)
Linked(t, task) == \E k \in DOMAIN t : k[1] = "task_projects" /\ k[2] = task[3]

Loaded(p, t) ==
  /\ IsTables(t)
  /\ \A k \in DOMAIN t :
       /\ k[2] < FirstId /\ k[3] < FirstId
       /\ k[1] = "tasks" => Linked(t, k)
       /\ p \in Enforcing => References(k, t[k]) \subseteq DOMAIN t
       /\ p \notin Typed => t[k].id = k[3]

(* The handlers that write.                                                *)
Operations ==
  [asana |-> {"CreateTask", "UpdateTask", "CreateStoryForTask"},
   intercom |-> {"CreateContact", "UpdateConversation", "ReplyConversation"},
   hubspot |-> {"createObject", "updateObject"},
   pipedrive |-> {"AddDeal", "updateItem"},
   close |-> {"createItem", "updateItem"},
   attio |-> {"PostRecord", "PatchRecord"},
   mailchimp |-> {"createItem", "PostListsIdMembers", "PostCampaignsIdActionsSend"},
   mailgun |-> {"PostMessages"},
   resend |-> {"createItem"},
   sendgrid |-> {"createItem", "SendMail"}]

(* op is the handler, table the collection it is asked about, path the id  *)
(* in the URL (the hash of the address, for a new member), scope the       *)
(* domain, object or list in the URL, valid whether the body passes the    *)
(* handler's own check, set the columns its body names.  A reply names no  *)
(* admin, so that the current one is looked up.                            *)
IsRequest(p, r) ==
  /\ r.op \in Operations[p] /\ r.table \in Collections
  /\ r.path \in Nat /\ r.scope \in Nat /\ r.workspace \in Nat
  /\ r.projects \in Seq(Nat)
  /\ r.valid \in BOOLEAN
  /\ DOMAIN r.set \subseteq Columns /\ r.set \in [DOMAIN r.set -> Nat]

ASSUME ResourceAssumption ==
  /\ FirstId \in Nat \ {0}
  /\ Providers \subseteq DOMAIN Operations
  /\ \A p \in Providers : \A t \in Scenarios[p] : Loaded(p, t)
  /\ \A p \in Providers : \A r \in Requests[p] : IsRequest(p, r)

VARIABLES
  provider,
  rows,      \* the tables
  minted,    \* how many ids ids.Next has given
  req,       \* what each call asks
  at,        \* the statement it executes next, 0 before it begins
  new,       \* the id it was given for its new row
  held,      \* the row it has read and is changing
  outcome,   \* none, ok, refused (4xx) or failed (5xx)
  made,      \* the rows it has inserted
  behind,    \* the row it holds has been written since it read it
  cut        \* one of its statements failed

call == <<req, at, new, held, outcome>>
history == <<made, behind, cut>>
vars == <<provider, rows, minted, call, history>>

-----------------------------------------------------------------------------
(* The statements.                                                         *)

(* Find answers absent when the row is not there; a statement that fails   *)
(* ends the request with error.                                            *)
Statement(do, key, cols, absent, error) ==
  [do |-> do, key |-> key, cols |-> cols, absent |-> absent, error |-> error]

NoKey == Absent.key
Find(key, absent, error) == Statement("find", key, Blank, absent, error)
Read(key, absent, error) == Statement("read", key, Blank, absent, error)
Reread(key) == Find(key, "failed", "failed")
Touch(key) == Statement("touch", key, Blank, "failed", "failed")
Check(ok, absent) == Statement(IF ok THEN "pass" ELSE "stop", NoKey, Blank, absent, "failed")
Mint == Statement("mint", NoKey, Blank, "failed", "failed")
NextInt(table) == Statement("next", Key(table, 0, 0), Blank, "failed", "failed")
Insert(key, cols, error) == Statement("insert", key, cols, "failed", error)
Update(key, cols) == Statement("update", key, cols, "failed", "failed")

Over(f, g) ==
  [col \in DOMAIN f \union DOMAIN g |-> IF col \in DOMAIN f THEN f[col] ELSE g[col]]
Only(f, S) == [col \in DOMAIN f \intersect S |-> f[col]]

(* mergeMap skips null.                                                    *)
NotNull(f) == Only(f, {col \in DOMAIN f : f[col] # 0})

-----------------------------------------------------------------------------
(* The handlers: what r executes when n is the id of its new row and h the *)
(* row it has read.                                                        *)

(* asana.                                                                  *)
Project(p) == Key("projects", 0, p)

CreateTask(r, n, h) ==
  LET m == Len(r.projects)
      ofProject == r.workspace = 0 /\ m > 0
      workspace == IF ofProject THEN h.parent ELSE r.workspace
      assigned == "user" \in DOMAIN r.set /\ r.set.user # 0
      task == Over([parent |-> workspace], Over(Only(r.set, {"name", "notes", "status", "user"}), Blank))
  IN [i \in 1..(2 * m + 7) |->
        CASE i = 1 -> Check(r.valid /\ (r.workspace # 0 \/ m > 0), "refused")
          [] i = 2 -> IF ofProject THEN Read(Project(r.projects[1]), "refused", "refused")
                                   ELSE Check(TRUE, "refused")
          [] i = 3 -> Find(Key("workspaces", 0, workspace), "refused", "failed")
          [] i \in 4..(m + 3) -> Find(Project(r.projects[i - 3]), "refused", "failed")
          [] i = m + 4 -> IF assigned THEN Find(Key("users", 0, r.set.user), "refused", "refused")
                                      ELSE Check(TRUE, "refused")
          [] i = m + 5 -> Mint
          [] i = m + 6 -> Insert(Key("tasks", 0, n), task, "failed")
          [] i \in (m + 7)..(2 * m + 6) ->
               Insert(Key("task_projects", n, r.projects[i - m - 6]), Blank, "refused")
          [] OTHER -> Reread(Key("tasks", 0, n))]

UpdateTask(r, n, h) ==
  LET task == Key("tasks", 0, r.path)
      assigned == "user" \in DOMAIN r.set /\ r.set.user # 0
  IN <<Read(task, "refused", "failed"),
       Check(r.valid, "refused"),
       IF assigned THEN Find(Key("users", 0, r.set.user), "refused", "refused")
                   ELSE Check(TRUE, "refused"),
       Update(task, Only(Over(r.set, h), {"name", "notes", "status", "user"})),
       Reread(task)>>

CreateStoryForTask(r, n, h) ==
  LET task == Key("tasks", 0, r.path)
  IN <<Find(task, "refused", "failed"),
       Check(r.valid, "refused"),
       Mint,
       Read(Key("metadata", 0, 1), "failed", "failed"),
       Insert(Key("stories", 0, n),
              Over([parent |-> r.path, user |-> h.user], Over(Only(r.set, {"notes"}), Blank)), "failed"),
       Touch(task),
       Reread(Key("users", 0, h.user))>>

(* intercom.                                                               *)
CreateContact(r, n, h) ==
  <<Check(r.valid, "failed"), Mint,
    Insert(Key("contacts", 0, n), Over(Only(r.set, {"name", "notes"}), Blank), "failed"),
    Reread(Key("contacts", 0, n))>>

(* Mutant: the conversation that was read is written back whole.           *)
UpdateWritesBack(r, n, h) ==
  LET conversation == Key("conversations", 0, r.path)
  IN IF "name" \in DOMAIN r.set
     THEN <<Read(conversation, "refused", "failed"),
            Update(conversation, Over(Only(r.set, {"name"}), h)),
            Reread(conversation)>>
     ELSE <<Read(conversation, "refused", "failed"),
            Update(conversation, h),
            Reread(conversation)>>

(* Only the title is written, and the title is not among what was read.    *)
UpdateConversation(r, n, h) ==
  LET conversation == Key("conversations", 0, r.path)
  IN IF "name" \in DOMAIN r.set
     THEN <<Find(conversation, "refused", "failed"),
            Update(conversation, Only(r.set, {"name"})),
            Reread(conversation)>>
     ELSE <<Find(conversation, "refused", "failed")>>

(* Mutant: the body is checked when the part is stored.                    *)
ReplyChecksLate(r, n, h) ==
  LET conversation == Key("conversations", 0, r.path)
  IN <<Find(conversation, "refused", "failed"),
       Find(Key("metadata", 0, 1), "failed", "failed"),
       Mint,
       Insert(Key("conversation_parts", 0, n),
              Over([parent |-> r.path], Over(Only(r.set, {"notes"}), Blank)), "failed"),
       Check(r.valid, "refused"),
       Touch(conversation),
       Reread(conversation)>>

ReplyConversation(r, n, h) ==
  LET conversation == Key("conversations", 0, r.path)
  IN <<Find(conversation, "refused", "failed"),
       Check(r.valid, "refused"),
       Find(Key("metadata", 0, 1), "failed", "failed"),
       Mint,
       Insert(Key("conversation_parts", 0, n),
              Over([parent |-> r.path], Over(Only(r.set, {"notes"}), Blank)), "failed"),
       Touch(conversation),
       Reread(conversation)>>

(* hubspot, whose tables are the object types.                             *)
createObject(r, n, h) ==
  <<Mint, Insert(Key(r.table, 0, n), Over(Only(r.set, {"name", "notes"}), Blank), "failed")>>

updateObject(r, n, h) ==
  <<Read(Key(r.table, 0, r.path), "refused", "failed"),
    Update(Key(r.table, 0, r.path), Over(Only(r.set, {"name", "notes"}), h))>>

(* pipedrive: deals, organizations and persons, the ids of each counted.   *)
AddDeal(r, n, h) ==
  <<NextInt(r.table),
    Insert(Key(r.table, 0, n), Over([id |-> n], Over(NotNull(r.set), Blank)), "failed")>>

(* Mutant: the id a body names is stored.                                  *)
UpdateKeepsId(r, n, h) ==
  <<Read(Key(r.table, 0, r.path), "refused", "failed"),
    Update(Key(r.table, 0, r.path), Over(NotNull(r.set), h))>>

(* pipedrive, and close, whose leads and opportunities are updated so too. *)
updateItem(r, n, h) ==
  <<Read(Key(r.table, 0, r.path), "refused", "failed"),
    Update(Key(r.table, 0, r.path), Over([id |-> r.path], Over(NotNull(r.set), h)))>>

(* A document stored under an id of its own: close, mailchimp's lists and  *)
(* campaigns, resend's emails, sendgrid's batches.                         *)
createItem(r, n, h) ==
  <<Mint, Insert(Key(r.table, 0, n), Over([id |-> n], Over(r.set, Blank)), "failed")>>

(* sendgrid, where whatever status the body names is replaced.             *)
Processed == 98

SendMail(r, n, h) ==
  <<Mint, Insert(Key("messages", 0, n),
                 Over([id |-> n, status |-> Processed], Over(NotNull(r.set), Blank)), "failed")>>

(* attio.                                                                  *)
PostRecord(r, n, h) ==
  <<Find(Key("objects", 0, r.scope), "refused", "failed"), Mint,
    Insert(Key("records", r.scope, n),
           Over([id |-> n], Over(Only(r.set, {"name", "notes"}), Blank)), "failed")>>

PatchRecord(r, n, h) ==
  <<Read(Key("records", r.scope, r.path), "refused", "failed"),
    Update(Key("records", r.scope, r.path), Over(Only(r.set, {"name", "notes"}), h))>>

(* mailchimp.                                                              *)
PostListsIdMembers(r, n, h) ==
  <<Insert(Key("members", 0, r.path),
           Over([id |-> r.path, parent |-> r.scope], Over(r.set, Blank)), "failed")>>

Sent == 99

PostCampaignsIdActionsSend(r, n, h) ==
  <<Read(Key("campaigns", 0, r.path), "refused", "failed"),
    Update(Key("campaigns", 0, r.path), Over([status |-> Sent], h))>>

(* Mutant: the event is stored first.                                      *)
PostEventFirst(r, n, h) ==
  LET stored == Over([id |-> n, parent |-> r.scope], Over(Only(r.set, {"name", "notes"}), Blank))
  IN <<Mint,
       Insert(Key("events", 0, n), stored, "failed"),
       Insert(Key("messages", r.scope, n), stored, "failed")>>

(* mailgun: a message is named by its domain and id, its event by the id.  *)
PostMessages(r, n, h) ==
  LET stored == Over([id |-> n, parent |-> r.scope], Over(Only(r.set, {"name", "notes"}), Blank))
  IN <<Mint,
       Insert(Key("messages", r.scope, n), stored, "failed"),
       Insert(Key("events", 0, n), stored, "failed")>>

Handler(r, n, h) ==
  CASE r.op = "CreateTask" -> CreateTask(r, n, h)
    [] r.op = "UpdateTask" -> UpdateTask(r, n, h)
    [] r.op = "CreateStoryForTask" -> CreateStoryForTask(r, n, h)
    [] r.op = "CreateContact" -> CreateContact(r, n, h)
    [] r.op = "UpdateConversation" -> UpdateConversation(r, n, h)
    [] r.op = "ReplyConversation" -> ReplyConversation(r, n, h)
    [] r.op = "createObject" -> createObject(r, n, h)
    [] r.op = "updateObject" -> updateObject(r, n, h)
    [] r.op = "AddDeal" -> AddDeal(r, n, h)
    [] r.op = "updateItem" -> updateItem(r, n, h)
    [] r.op = "createItem" -> createItem(r, n, h)
    [] r.op = "SendMail" -> SendMail(r, n, h)
    [] r.op = "PostRecord" -> PostRecord(r, n, h)
    [] r.op = "PatchRecord" -> PatchRecord(r, n, h)
    [] r.op = "PostListsIdMembers" -> PostListsIdMembers(r, n, h)
    [] r.op = "PostCampaignsIdActionsSend" -> PostCampaignsIdActionsSend(r, n, h)
    [] r.op = "PostMessages" -> PostMessages(r, n, h)

-----------------------------------------------------------------------------
(* A request is executed.                                                  *)

Init ==
  /\ provider \in Providers
  /\ rows \in Scenarios[provider]
  /\ minted = 0
  /\ req \in [Calls -> Requests[provider]]
  /\ at = [c \in Calls |-> 0]
  /\ new = [c \in Calls |-> 0]
  /\ held = [c \in Calls |-> Absent]
  /\ outcome = [c \in Calls |-> "none"]
  /\ made = [c \in Calls |-> {}]
  /\ behind = [c \in Calls |-> FALSE]
  /\ cut = [c \in Calls |-> FALSE]

(* SQLite checks the foreign keys of a row as it is written.               *)
Enforced(k, row) == provider \in Enforcing => References(k, row) \subseteq DOMAIN rows

Program(c) == Handler(req[c], new[c], held[c].row)
Current(c) == Program(c)[at[c]]
Executes(c, kinds) == outcome[c] = "none" /\ at[c] > 0 /\ Current(c).do \in kinds

Advance(c) ==
  /\ at' = [at EXCEPT ![c] = @ + 1]
  /\ outcome' = IF at[c] + 1 \in DOMAIN Program(c) THEN outcome
                ELSE [outcome EXCEPT ![c] = "ok"]

Answer(c, result) ==
  /\ outcome' = [outcome EXCEPT ![c] = result]
  /\ UNCHANGED at

Begin(c) ==
  /\ at[c] = 0
  /\ at' = [at EXCEPT ![c] = 1]
  /\ UNCHANGED <<provider, rows, minted, req, new, held, outcome, history>>

(* A time stamp is written to a row, or a check of the body passed.        *)
Pass(c) ==
  /\ Executes(c, {"pass", "touch"})
  /\ Advance(c)
  /\ UNCHANGED <<provider, rows, minted, req, new, held, history>>

Stop(c) ==
  /\ Executes(c, {"stop"})
  /\ Answer(c, Current(c).absent)
  /\ UNCHANGED <<provider, rows, minted, req, new, held, history>>

FindRow(c) ==
  LET k == Current(c).key
      keeps == Current(c).do = "read"
  IN /\ Executes(c, {"find", "read"})
     /\ IF k \in DOMAIN rows THEN Advance(c) ELSE Answer(c, Current(c).absent)
     /\ IF k \in DOMAIN rows /\ keeps
        THEN /\ held' = [held EXCEPT ![c] = [key |-> k, row |-> rows[k]]]
             /\ behind' = [behind EXCEPT ![c] = FALSE]
        ELSE UNCHANGED <<held, behind>>
     /\ UNCHANGED <<provider, rows, minted, req, new, made, cut>>

(* ids.Next: a counter no two calls read at once.                          *)
TakeId(c) ==
  /\ Executes(c, {"mint"})
  /\ minted' = minted + 1
  /\ new' = [new EXCEPT ![c] = FirstId + minted]
  /\ Advance(c)
  /\ UNCHANGED <<provider, rows, req, held, history>>

(* nextInt: one above the greatest id of the table.                        *)
CountId(c) ==
  LET ids == {k[3] : k \in {j \in DOMAIN rows : j[1] = Current(c).key[1]}}
  IN /\ Executes(c, {"next"})
     /\ \E n \in {i + 1 : i \in ids \union {0}} :
          /\ \A i \in ids : i < n
          /\ new' = [new EXCEPT ![c] = n]
     /\ Advance(c)
     /\ UNCHANGED <<provider, rows, minted, req, held, history>>

(* Mutant: INSERT OR REPLACE.                                              *)
InsertReplaces(c) ==
  LET k == Current(c).key
  IN /\ Executes(c, {"insert"})
     /\ rows' = [j \in DOMAIN rows \union {k} |-> IF j = k THEN Current(c).cols ELSE rows[j]]
     /\ made' = [made EXCEPT ![c] = @ \union {k}]
     /\ Advance(c)
     /\ UNCHANGED <<provider, minted, req, new, held, behind, cut>>

(* The primary key and the foreign keys may refuse the row.                *)
InsertRow(c) ==
  LET k == Current(c).key
      row == Current(c).cols
  IN /\ Executes(c, {"insert"})
     /\ IF k \notin DOMAIN rows /\ Enforced(k, row)
        THEN /\ rows' = [j \in DOMAIN rows \union {k} |-> IF j = k THEN row ELSE rows[j]]
             /\ made' = [made EXCEPT ![c] = @ \union {k}]
             /\ Advance(c)
        ELSE Answer(c, Current(c).error) /\ UNCHANGED <<rows, made>>
     /\ UNCHANGED <<provider, minted, req, new, held, behind, cut>>

(* Mutant: the columns a statement does not write are emptied.             *)
UpdateEmpties(c) ==
  LET k == Current(c).key
  IN /\ Executes(c, {"update"})
     /\ rows' = [rows EXCEPT ![k] = Current(c).cols]
     /\ behind' = [d \in Calls |-> behind[d] \/ (d # c /\ held[d].key = k)]
     /\ Advance(c)
     /\ UNCHANGED <<provider, minted, req, new, held, made, cut>>

UpdateRow(c) ==
  LET k == Current(c).key
      row == Over(Current(c).cols, rows[k])
  IN /\ Executes(c, {"update"})
     /\ k \in DOMAIN rows
     /\ IF Enforced(k, row)
        THEN /\ rows' = [rows EXCEPT ![k] = row]
             /\ behind' = [d \in Calls |-> behind[d] \/ (d # c /\ held[d].key = k)]
             /\ Advance(c)
        ELSE Answer(c, Current(c).error) /\ UNCHANGED <<rows, behind>>
     /\ UNCHANGED <<provider, minted, req, new, held, made, cut>>

(* The client goes away, or the database fails.                            *)
Fail(c) ==
  /\ Executes(c, {"find", "read", "next", "insert", "update", "touch"})
  /\ Answer(c, Current(c).error)
  /\ cut' = [cut EXCEPT ![c] = TRUE]
  /\ UNCHANGED <<provider, rows, minted, req, new, held, made, behind>>

Execute(c) ==
  \/ Begin(c) \/ Pass(c) \/ Stop(c) \/ FindRow(c) \/ TakeId(c) \/ CountId(c)
  \/ InsertRow(c) \/ UpdateRow(c) \/ Fail(c)

Next == \E c \in Calls : Execute(c)

Spec == Init /\ [][Next]_vars

-----------------------------------------------------------------------------
(* Properties.                                                             *)

(* The variables keep their types: every row has all the columns.          *)
TypeOK ==
  /\ provider \in Providers
  /\ IsTables(rows)
  /\ minted \in Nat
  /\ req \in [Calls -> Requests[provider]]
  /\ at \in [Calls -> Nat]
  /\ new \in [Calls -> Nat]
  /\ held \in [Calls -> [key : Keys, row : Row]]
  /\ outcome \in [Calls -> {"none", "ok", "refused", "failed"}]
  /\ made \in [Calls -> SUBSET Keys]
  /\ behind \in [Calls -> BOOLEAN]
  /\ cut \in [Calls -> BOOLEAN]

(* What a request has stored refers to rows that are there, at every step  *)
(* and wherever a request was left: a mailgun event to its message, an     *)
(* attio record to its object, and all that asana and intercom store.      *)
ReferencesExist ==
  \A k \in DOMAIN rows :
    provider \in Enforcing \/ (\E c \in Calls : k \in made[c])
      => References(k, rows[k]) \subseteq DOMAIN rows

(* A document is stored under the id it holds, whatever id a body names,   *)
(* so that Load puts what Dump took back where it was.                     *)
KeyedByBody ==
  provider \notin Typed => \A k \in DOMAIN rows : rows[k].id = k[3]

Inserts(c) ==
  {Program(c)[i].key : i \in {j \in DOMAIN Program(c) : Program(c)[j].do = "insert"}}

(* A create that was answered has stored every row of its own, and no two  *)
(* have stored the same: of two pipedrive creates that count the same id   *)
(* one is not answered.                                                    *)
AnsweredIsWhole ==
  \A c \in Calls : outcome[c] = "ok" =>
    /\ Inserts(c) \subseteq DOMAIN rows
    /\ \A d \in Calls \ {c} : outcome[d] = "ok" => Inserts(c) \intersect Inserts(d) = {}

Twice(s) == \E i, j \in DOMAIN s : i # j /\ s[i] = s[j]

(* A request that is refused has stored nothing, but for an asana task     *)
(* whose projects name one twice, or one of whose links could not be       *)
(* stored: it is answered 400 and the task stays.                          *)
RefusedLeavesNothing ==
  \A c \in Calls : outcome[c] = "refused" /\ made[c] # {} =>
    req[c].op = "CreateTask" /\ (Twice(req[c].projects) \/ cut[c])

Asked(r) == IF r.op = "PostCampaignsIdActionsSend" THEN [status |-> Sent] ELSE r.set

(* A column changes to what a request asks of it; else the request that    *)
(* writes it back has read the row before another wrote it, which an       *)
(* intercom title is safe from.                                            *)
ChangedAsAsked ==
  [][\A k \in DOMAIN rows : \A col \in Columns : rows'[k][col] # rows[k][col] =>
       \E c \in Calls :
         /\ at'[c] # at[c] /\ Current(c).key = k
         /\ \/ /\ col \in DOMAIN Asked(req[c]) \ {"id"}
               /\ rows'[k][col] = Asked(req[c])[col]
            \/ behind[c] /\ provider # "intercom"]_vars

(* What Load requires of the tables: asana refuses a task of no project.   *)
Reloads ==
  /\ KeyedByBody
  /\ \A k \in DOMAIN rows : k[1] = "tasks" => Linked(rows, k)

(* A dump taken while no request is under way can be loaded.               *)
DumpReloads == (\A c \in Calls : outcome[c] # "none" \/ at[c] = 0) => Reloads
=============================================================================

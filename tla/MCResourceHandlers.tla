-------------------------- MODULE MCResourceHandlers --------------------------
(* A scenario for each provider, and requests that meet in the same rows.  *)
EXTENDS ResourceHandlers, TLC

CONSTANTS c1, c2, c3

MCCalls == {c1, c2, c3}
Symmetry == Permutations(MCCalls)

(* For a handler that is asked about one table only.                       *)
Anywhere == "leads"

Nothing == [col \in {} |-> 0]
Ask(op, table, path, scope, set) ==
  [op |-> op, table |-> table, path |-> path, scope |-> scope, workspace |-> 0,
   projects |-> <<>>, valid |-> TRUE, set |-> set]
Badly(r) == [r EXCEPT !.valid = FALSE]
OfProjects(r, w, ps) == [r EXCEPT !.workspace = w, !.projects = ps]

Stored(k, cols) == k :> Over(cols, Blank)
Doc(table, first, id, cols) == Stored(Key(table, first, id), Over([id |-> id], cols))

Rename(n) == [name |-> n]
Annotate(n) == [notes |-> n]

Writes(table, op) ==
  {Ask(op, table, 1, 1, Rename(1)), Ask(op, table, 1, 1, Annotate(2)), Ask(op, table, 2, 1, Rename(1))}

MCTables ==
  [asana |->
     Stored(Key("workspaces", 0, 1), Nothing) @@ Stored(Key("users", 0, 1), Nothing) @@
     Stored(Key("projects", 0, 1), [parent |-> 1]) @@ Stored(Key("projects", 0, 2), [parent |-> 1]) @@
     Stored(Key("metadata", 0, 1), [user |-> 1]) @@
     Stored(Key("tasks", 0, 1), [parent |-> 1, user |-> 1]) @@ Stored(Key("task_projects", 1, 1), Nothing),
   intercom |->
     Stored(Key("metadata", 0, 1), [user |-> 1]) @@ Stored(Key("contacts", 0, 1), Nothing) @@
     Stored(Key("conversations", 0, 1), [parent |-> 1]),
   hubspot |-> Stored(Key("deals", 0, 1), Rename(3)),
   pipedrive |-> Doc("deals", 0, 1, Rename(3)),
   close |-> Doc("leads", 0, 1, Rename(3)),
   attio |-> Doc("objects", 0, 1, Nothing) @@ Doc("records", 1, 1, Rename(3)),
   mailchimp |-> Doc("lists", 0, 1, Nothing) @@ Doc("campaigns", 0, 1, Rename(3)) @@ Doc("members", 0, 1, [parent |-> 1]),
   mailgun |-> Doc("domains", 0, 1, Nothing),
   resend |-> Doc("emails", 0, 1, Nothing),
   sendgrid |-> Doc("batches", 0, 1, Nothing)]

MCProviders == DOMAIN MCTables
MCScenarios == [p \in MCProviders |-> {MCTables[p]}]

Create == Ask("CreateTask", Anywhere, 0, 0, Rename(1))
Story == Ask("CreateStoryForTask", Anywhere, 1, 0, Annotate(1))
Reply == Ask("ReplyConversation", Anywhere, 1, 0, Annotate(1))
MCRequests ==
  [asana |->
     {OfProjects(Create, 0, <<1, 2>>), OfProjects(Create, 0, <<1, 1>>), OfProjects(Create, 1, <<2, 3>>),
      OfProjects(Create, 1, <<>>), OfProjects(Create, 0, <<>>), OfProjects(Create, 0, <<3>>), Badly(OfProjects(Create, 1, <<1>>)),
      OfProjects([Create EXCEPT !.set = [user |-> 2]], 1, <<1>>), Story, Badly(Story),
      Ask("UpdateTask", Anywhere, 1, 0, [user |-> 0]), Ask("UpdateTask", Anywhere, 1, 0, [user |-> 1, parent |-> 2])}
     \union Writes(Anywhere, "UpdateTask"),
   intercom |->
     {Reply, Badly(Reply), [Reply EXCEPT !.path = 2],
      Ask("CreateContact", "contacts", 0, 0, Rename(1)), Badly(Ask("CreateContact", "contacts", 0, 0, Nothing))}
     \union Writes(Anywhere, "UpdateConversation"),
   hubspot |-> Writes("deals", "updateObject") \union {Ask("createObject", "deals", 0, 0, Rename(1))},
   pipedrive |-> Writes("deals", "updateItem")
     \union {Ask("AddDeal", "deals", 0, 0, [id |-> 1, name |-> 1]), Ask("updateItem", "deals", 1, 0, [id |-> 5])},
   close |-> Writes("leads", "updateItem")
     \union {Ask("createItem", "leads", 0, 0, [id |-> 1]), Ask("updateItem", "leads", 1, 0, [name |-> 0])},
   attio |-> Writes(Anywhere, "PatchRecord")
     \union {Ask("PostRecord", Anywhere, 0, 1, Rename(1)), Ask("PostRecord", Anywhere, 0, 2, Rename(1))},
   mailchimp |->
     {Ask("createItem", "lists", 0, 0, Rename(1)), Ask("createItem", "campaigns", 0, 0, [status |-> 5]),
      Ask("PostListsIdMembers", Anywhere, 1, 1, Nothing), Ask("PostListsIdMembers", Anywhere, 2, 1, Nothing),
      Ask("PostListsIdMembers", Anywhere, 2, 2, Nothing),
      Ask("PostCampaignsIdActionsSend", "campaigns", 1, 0, Nothing)},
   mailgun |-> {Ask("PostMessages", Anywhere, 0, d, Rename(1)) : d \in 1..2},
   resend |-> {Ask("createItem", "emails", 0, 0, [id |-> 1, name |-> v]) : v \in 0..1},
   sendgrid |->
     {Ask("createItem", "batches", 0, 0, Nothing), Ask("SendMail", Anywhere, 0, 0, [id |-> 1, status |-> 1])}]
=============================================================================

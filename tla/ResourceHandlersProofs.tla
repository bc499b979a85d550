------------------------ MODULE ResourceHandlersProofs ------------------------
(***************************************************************************)
(* Proofs about module ResourceHandlers.  The first half is about the      *)
(* handlers as sequences of statements, one lemma for each (Well); the     *)
(* second about their interleavings, and uses of a handler only that it is *)
(* well formed.                                                            *)
(***************************************************************************)
EXTENDS ResourceHandlers, TLAPS

-----------------------------------------------------------------------------
(* Columns.                                                                *)

Partial(f) == DOMAIN f \subseteq Columns /\ f \in [DOMAIN f -> Nat]

LEMMA BlankIsRow == Blank \in Row
  BY DEF Blank, Row

LEMMA RowIsPartial == ASSUME NEW f \in Row PROVE Partial(f)
  BY DEF Partial, Row

LEMMA OnlyIsPartial == ASSUME NEW f, Partial(f), NEW S PROVE Partial(Only(f, S))
  BY DEF Partial, Only

LEMMA NotNullIsPartial == ASSUME NEW f, Partial(f) PROVE Partial(NotNull(f))
  BY OnlyIsPartial DEF NotNull

LEMMA OverIsPartial ==
  ASSUME NEW f, NEW g, Partial(f), Partial(g) PROVE Partial(Over(f, g))
  BY DEF Partial, Over

LEMMA OverIsRow ==
  ASSUME NEW f, NEW g \in Row, Partial(f) PROVE Over(f, g) \in Row
  BY DEF Partial, Over, Row

LEMMA LiteralIsPartial ==
  ASSUME NEW n \in Nat, NEW v \in Nat
  PROVE /\ Partial([id |-> n]) /\ Partial([parent |-> n]) /\ Partial([status |-> n])
        /\ Partial([id |-> n, parent |-> v]) /\ Partial([id |-> n, status |-> v])
        /\ Partial([parent |-> n, user |-> v])
  BY DEF Partial, Columns

LEMMA KeyType ==
  ASSUME NEW t \in Tables, NEW a \in Nat, NEW b \in Nat
  PROVE Key(t, a, b) \in Keys
  BY DEF Key, Keys

-----------------------------------------------------------------------------
(* What makes a handler well formed.  P is the program of a request r to   *)
(* provider p that was given the id n and has read the row h, L its        *)
(* length, and Q the program of the same request given n2 and h2.          *)

Steps(r) ==
  CASE r.op = "CreateTask" -> 2 * Len(r.projects) + 7
    [] r.op \in {"CreateStoryForTask", "ReplyConversation"} -> 7
    [] r.op = "UpdateTask" -> 5
    [] r.op = "CreateContact" -> 4
    [] r.op = "UpdateConversation" -> IF "name" \in DOMAIN r.set THEN 3 ELSE 1
    [] r.op \in {"PostRecord", "PostMessages"} -> 3
    [] r.op = "PostListsIdMembers" -> 1
    [] OTHER -> 2

IsStatement(s) ==
  /\ s.do \in {"pass", "stop", "find", "read", "touch", "mint", "next", "insert", "update"}
  /\ s.key \in Keys
  /\ Partial(s.cols)
  /\ s.absent \in {"refused", "failed"} /\ s.error \in {"refused", "failed"}
  /\ s.do = "insert" => s.cols \in Row

IsProgram(P, L) == DOMAIN P = 1..L /\ \A i \in 1..L : IsStatement(P[i])

(* What was executed before an id is given, or a row read, does not depend *)
(* on it; a row is read once.                                              *)
Stable(P, Q, L, sameN, sameH) ==
  /\ \A i \in 1..L : P[i].do = Q[i].do
  /\ sameH => \A i, j \in 1..L : i <= j /\ P[j].do \in {"mint", "next"} => P[i] = Q[i]
  /\ sameN => \A i, j \in 1..L : i <= j /\ P[j].do = "read" =>
                P[i] = Q[i] /\ (i < j => P[i].do # "read")

(* A document is stored with its id; where the database checks references, *)
(* ids come from ids.Next.                                                 *)
Keyed(p, P, L) ==
  /\ p \notin Typed => \A i \in 1..L : P[i].do = "insert" => P[i].cols["id"] = P[i].key[3]
  /\ p \in Enforcing => \A i \in 1..L : P[i].do # "next"

(* One row is updated.  A column is written as asked, or written back as   *)
(* read.                                                                   *)
Writing(p, r, P, L, h) ==
  \A j \in 1..L : P[j].do = "update" =>
    /\ \A i \in 1..(j - 1) : P[i].do # "update"
    /\ \A col \in DOMAIN P[j].cols :
       \/ col \in DOMAIN Asked(r) \ {"id"} /\ P[j].cols[col] = Asked(r)[col]
       \/ /\ p # "intercom" /\ P[j].cols[col] = h[col]
          /\ \E i \in 1..(j - 1) : P[i].do = "read" /\ P[i].key = P[j].key
       \/ p \notin Typed /\ col = "id" /\ P[j].cols[col] = P[j].key[3]

Declared ==
  {"projects", "tasks", "task_projects", "stories", "conversations", "conversation_parts", "events"}

(* What is updated has been found; what is referred to, where the database *)
(* does not check it, found or stored.                                     *)
Referring(p, P, L) ==
  /\ \A j \in 1..L : P[j].do = "update" =>
       /\ \E i \in 1..(j - 1) : P[i].do \in {"find", "read"} /\ P[i].key = P[j].key
       /\ p \notin Enforcing => P[j].key[1] \notin Declared
  /\ p \notin Enforcing =>
       \A j \in 1..L : P[j].do = "insert" =>
         \A k \in References(P[j].key, P[j].cols) :
           \E i \in 1..(j - 1) : P[i].do \in {"find", "insert"} /\ P[i].key = k

(* After a row is stored the request is not refused, unless a link is.     *)
Links(s) == s.do = "insert" /\ s.key[1] = "task_projects"

Refusing(P, L) ==
  \A i, j \in 1..L : i < j /\ P[i].do = "insert" /\ ~ Links(P[j]) =>
    P[j].error = "failed" /\ (P[j].do \in {"stop", "find", "read"} => P[j].absent = "failed")

(* Only CreateTask links tasks to projects: its own task, to projects it   *)
(* has found.                                                              *)
Linking(r, P, L, n) ==
  \A j \in 1..L : Links(P[j]) =>
    /\ r.op = "CreateTask" /\ P[j].key[2] = n
    /\ \E i \in 1..(j - 1) : P[i].do = "mint"
    /\ \A k \in References(P[j].key, P[j].cols) :
         \E i \in 1..(j - 1) : P[i].do \in {"find", "insert"} /\ P[i].key = k
    /\ \A i \in 1..(j - 1) :
         P[i].do = "insert" /\ P[i].key = P[j].key => Twice(r.projects)

WellFormed(p, r, P, Q, L, sameN, sameH, n, h) ==
  /\ IsProgram(P, L)
  /\ Stable(P, Q, L, sameN, sameH)
  /\ Keyed(p, P, L)
  /\ Writing(p, r, P, L, h)
  /\ Referring(p, P, L)
  /\ Refusing(P, L)
  /\ Linking(r, P, L, n)

Well(p, r) ==
  \A n, n2 \in Nat : \A h, h2 \in Row :
    WellFormed(p, r, Handler(r, n, h), Handler(r, n2, h2), Steps(r), n = n2, h = h2, n, h)

-----------------------------------------------------------------------------
(* The two shapes most handlers have.                                      *)

(* An id is given, and a row stored under it.                              *)
Creates(p, r, t, first, row) ==
  /\ t \in Collections \union {"messages"}
  /\ first \in {Mint, NextInt(t)}
  /\ row \in [Nat -> Row]
  /\ \A n \in Nat : \A h \in Row :
       Handler(r, n, h) = <<first, Insert(Key(t, 0, n), row[n], "failed")>>
  /\ p \notin Typed => \A n \in Nat : row[n]["id"] = n
  /\ Steps(r) = 2 /\ r.op # "CreateTask" /\ p \notin Enforcing

LEMMA CreateIsWell ==
  ASSUME NEW p, NEW r, NEW t, NEW first, NEW row, Creates(p, r, t, first, row)
  PROVE  Well(p, r)
<1>0. Steps(r) = 2
  BY DEF Creates
<1> SUFFICES ASSUME NEW n \in Nat, NEW n2 \in Nat, NEW h \in Row, NEW h2 \in Row
             PROVE WellFormed(p, r, Handler(r, n, h), Handler(r, n2, h2), 2, n = n2, h = h2, n, h)
  BY <1>0 DEF Well
<1> USE DEF Creates
<1> DEFINE P == Handler(r, n, h)
           Q == Handler(r, n2, h2)
<1>1. /\ P = <<first, Insert(Key(t, 0, n), row[n], "failed")>>
      /\ Q = <<first, Insert(Key(t, 0, n2), row[n2], "failed")>>
  OBVIOUS
<1>2. /\ t \in Tables /\ Key(t, 0, n) \in Keys /\ Key(t, 0, 0) \in Keys /\ NoKey \in Keys
      /\ row[n] \in Row
  BY KeyType DEF Tables, NoKey, Absent
<1>3. IsProgram(P, 2)
  BY <1>1, <1>2, BlankIsRow, RowIsPartial
     DEF IsStatement, Mint, NextInt, Insert, Statement, IsProgram
<1>4. first.do \in {"mint", "next"}
  BY DEF Mint, NextInt, Statement
<1>5. Stable(P, Q, 2, n = n2, h = h2)
  BY <1>1, <1>4 DEF Stable, Insert, Statement
<1>6. References(Key(t, 0, n), row[n]) = {}
  BY DEF References, Key, Collections
<1>7. Keyed(p, P, 2) /\ Writing(p, r, P, 2, h) /\ Referring(p, P, 2)
  <2>1. /\ P[1].do \in {"mint", "next"}
        /\ P[2].do = "insert" /\ P[2].key = Key(t, 0, n) /\ P[2].cols = row[n]
    BY <1>1, <1>4 DEF Insert, Statement
  <2>2. P[2].key[3] = n
    BY <2>1 DEF Key
  <2> HIDE DEF P
  <2>3. Keyed(p, P, 2)
    BY <2>1, <2>2 DEF Keyed
  <2>4. Writing(p, r, P, 2, h)
    BY <2>1 DEF Writing
  <2>5. Referring(p, P, 2)
    BY <2>1, <1>6 DEF Referring
  <2> QED BY <2>3, <2>4, <2>5
<1>8. Refusing(P, 2) /\ Linking(r, P, 2, n)
  BY <1>1, <1>4 DEF Refusing, Linking, Links, Insert, Statement, Key, Collections
<1> QED BY <1>3, <1>5, <1>7, <1>8 DEF WellFormed

(* A row is read, and written back with what was asked.                    *)
Updates(p, r, key, row) ==
  /\ key \in Keys /\ key[1] \notin Declared
  /\ row \in [Row -> Row]
  /\ \A n \in Nat : \A h \in Row :
       Handler(r, n, h) = <<Read(key, "refused", "failed"), Update(key, row[h])>>
  /\ \A h \in Row : \A col \in Columns :
       \/ col \in DOMAIN Asked(r) \ {"id"} /\ row[h][col] = Asked(r)[col]
       \/ row[h][col] = h[col]
       \/ p \notin Typed /\ col = "id" /\ row[h][col] = key[3]
  /\ Steps(r) = 2 /\ r.op # "CreateTask" /\ p \notin Enforcing

LEMMA UpdateIsWell ==
  ASSUME NEW p, NEW r, NEW key, NEW row, Updates(p, r, key, row)
  PROVE  Well(p, r)
<1>0. Steps(r) = 2
  BY DEF Updates
<1> SUFFICES ASSUME NEW n \in Nat, NEW n2 \in Nat, NEW h \in Row, NEW h2 \in Row
             PROVE WellFormed(p, r, Handler(r, n, h), Handler(r, n2, h2), 2, n = n2, h = h2, n, h)
  BY <1>0 DEF Well
<1> USE DEF Updates
<1> DEFINE P == Handler(r, n, h)
           Q == Handler(r, n2, h2)
<1>1. /\ P = <<Read(key, "refused", "failed"), Update(key, row[h])>>
      /\ Q = <<Read(key, "refused", "failed"), Update(key, row[h2])>>
  OBVIOUS
<1>2. row[h] \in Row
  OBVIOUS
<1>3. IsProgram(P, 2)
  BY <1>1, <1>2, BlankIsRow, RowIsPartial DEF IsStatement, Read, Update, Statement, IsProgram
<1>4. Stable(P, Q, 2, n = n2, h = h2)
  BY <1>1 DEF Stable, Read, Update, Statement
<1>5. Keyed(p, P, 2) /\ Refusing(P, 2) /\ Linking(r, P, 2, n)
  BY <1>1 DEF Keyed, Refusing, Linking, Links, Read, Update, Statement
<1>6. /\ P[1].do = "read" /\ P[1].key = key
      /\ P[2].do = "update" /\ P[2].key = key /\ P[2].cols = row[h]
  BY <1>1 DEF Read, Update, Statement
<1>7. DOMAIN row[h] = Columns /\ p # "intercom"
  BY <1>2 DEF Row, Enforcing
<1>8. Writing(p, r, P, 2, h)
  <2>1. \A i \in 1..1 : P[i].do # "update"
    BY <1>6
  <2>2. \A col \in DOMAIN row[h] :
          \/ col \in DOMAIN Asked(r) \ {"id"} /\ row[h][col] = Asked(r)[col]
          \/ row[h][col] = h[col]
          \/ p \notin Typed /\ col = "id" /\ row[h][col] = key[3]
    BY <1>7
  <2> HIDE DEF P, Updates
  <2> QED BY <1>6, <1>7, <2>1, <2>2 DEF Writing
<1>9. Referring(p, P, 2)
  BY <1>6 DEF Referring
<1> QED BY <1>3, <1>4, <1>5, <1>8, <1>9 DEF WellFormed

-----------------------------------------------------------------------------
(* Every handler is well formed.                                           *)

LEMMA createItemIsWell ==
  ASSUME NEW p \in DOMAIN Operations, NEW r, IsRequest(p, r), r.op = "createItem"
  PROVE  Well(p, r)
<1> DEFINE row == [n \in Nat |-> Over([id |-> n], Over(r.set, Blank))]
<1>1. \A n \in Nat : row[n] \in Row /\ row[n]["id"] = n
  <2> SUFFICES ASSUME NEW n \in Nat PROVE row[n] \in Row /\ row[n]["id"] = n
    OBVIOUS
  <2>1. Partial(r.set) BY DEF IsRequest, Partial
  <2>2. row[n] \in Row BY <2>1, BlankIsRow, LiteralIsPartial, OverIsRow
  <2> QED BY <2>2 DEF Over
<1>2. \A n \in Nat : \A h \in Row :
        Handler(r, n, h) = <<Mint, Insert(Key(r.table, 0, n), row[n], "failed")>>
  BY DEF Handler, createItem
<1>3. r.table \in Collections /\ p \notin Enforcing
  BY DEF IsRequest, Operations, Enforcing
<1>4. Steps(r) = 2
  BY DEF Steps
<1> HIDE DEF row
<1>5. row \in [Nat -> Row]
  BY <1>1 DEF row
<1>6. Creates(p, r, r.table, Mint, row)
  BY <1>1, <1>2, <1>3, <1>4, <1>5 DEF Creates
<1> QED BY <1>6, CreateIsWell

LEMMA SendMailIsWell ==
  ASSUME NEW p \in DOMAIN Operations, NEW r, IsRequest(p, r), r.op = "SendMail"
  PROVE  Well(p, r)
<1> DEFINE row == [n \in Nat |-> Over([id |-> n, status |-> Processed], Over(NotNull(r.set), Blank))]
<1>1. \A n \in Nat : row[n] \in Row /\ row[n]["id"] = n
  <2> SUFFICES ASSUME NEW n \in Nat PROVE row[n] \in Row /\ row[n]["id"] = n
    OBVIOUS
  <2>1. Partial(r.set) BY DEF IsRequest, Partial
  <2>2. Partial([id |-> n, status |-> Processed]) BY LiteralIsPartial DEF Processed
  <2>3. row[n] \in Row BY <2>1, <2>2, NotNullIsPartial, BlankIsRow, OverIsRow
  <2> QED BY <2>3 DEF Over
<1>2. \A n \in Nat : \A h \in Row :
        Handler(r, n, h) = <<Mint, Insert(Key("messages", 0, n), row[n], "failed")>>
  BY DEF Handler, SendMail
<1>3. p \notin Enforcing
  BY DEF IsRequest, Operations, Enforcing
<1>4. Steps(r) = 2
  BY DEF Steps
<1> HIDE DEF row
<1>5. row \in [Nat -> Row]
  BY <1>1 DEF row
<1>6. Creates(p, r, "messages", Mint, row)
  BY <1>1, <1>2, <1>3, <1>4, <1>5 DEF Creates
<1> QED BY <1>6, CreateIsWell

LEMMA AddDealIsWell ==
  ASSUME NEW p \in DOMAIN Operations, NEW r, IsRequest(p, r), r.op = "AddDeal"
  PROVE  Well(p, r)
<1> DEFINE row == [n \in Nat |-> Over([id |-> n], Over(NotNull(r.set), Blank))]
<1>1. \A n \in Nat : row[n] \in Row /\ row[n]["id"] = n
  <2> SUFFICES ASSUME NEW n \in Nat PROVE row[n] \in Row /\ row[n]["id"] = n
    OBVIOUS
  <2>1. Partial(r.set) BY DEF IsRequest, Partial
  <2>2. row[n] \in Row BY <2>1, NotNullIsPartial, BlankIsRow, LiteralIsPartial, OverIsRow
  <2> QED BY <2>2 DEF Over
<1>2. \A n \in Nat : \A h \in Row :
        Handler(r, n, h) = <<NextInt(r.table), Insert(Key(r.table, 0, n), row[n], "failed")>>
  BY DEF Handler, AddDeal
<1>3. r.table \in Collections /\ p \notin Enforcing
  BY DEF IsRequest, Operations, Enforcing
<1>4. Steps(r) = 2
  BY DEF Steps
<1> HIDE DEF row
<1>5. row \in [Nat -> Row]
  BY <1>1 DEF row
<1>6. Creates(p, r, r.table, NextInt(r.table), row)
  BY <1>1, <1>2, <1>3, <1>4, <1>5 DEF Creates
<1> QED BY <1>6, CreateIsWell

LEMMA createObjectIsWell ==
  ASSUME NEW p \in DOMAIN Operations, NEW r, IsRequest(p, r), r.op = "createObject"
  PROVE  Well(p, r)
<1> DEFINE row == [n \in Nat |-> Over(Only(r.set, {"name", "notes"}), Blank)]
<1>1. \A n \in Nat : row[n] \in Row
  <2>1. Partial(r.set) BY DEF IsRequest, Partial
  <2> QED BY <2>1, OnlyIsPartial, BlankIsRow, OverIsRow
<1>2. \A n \in Nat : \A h \in Row :
        Handler(r, n, h) = <<Mint, Insert(Key(r.table, 0, n), row[n], "failed")>>
  BY DEF Handler, createObject
<1>3. r.table \in Collections /\ p \notin Enforcing /\ p \in Typed
  BY DEF IsRequest, Operations, Enforcing, Typed
<1>4. Steps(r) = 2
  BY DEF Steps
<1> HIDE DEF row
<1>5. row \in [Nat -> Row]
  BY <1>1 DEF row
<1>6. Creates(p, r, r.table, Mint, row)
  BY <1>1, <1>2, <1>3, <1>4, <1>5 DEF Creates
<1> QED BY <1>6, CreateIsWell

LEMMA updateItemIsWell ==
  ASSUME NEW p \in DOMAIN Operations, NEW r, IsRequest(p, r), r.op = "updateItem"
  PROVE  Well(p, r)
<1> DEFINE key == Key(r.table, 0, r.path)
           row == [h \in Row |-> Over([id |-> r.path], Over(NotNull(r.set), h))]
<1>1. Partial(r.set) /\ r.path \in Nat /\ r.table \in Collections
  BY DEF IsRequest, Partial
<1>2. \A h \in Row : row[h] \in Row
  BY <1>1, NotNullIsPartial, LiteralIsPartial, OverIsRow
<1>3. \A n \in Nat : \A h \in Row :
        Handler(r, n, h) = <<Read(key, "refused", "failed"), Update(key, row[h])>>
  BY DEF Handler, updateItem
<1>4. p \notin Enforcing /\ p \notin Typed
  BY DEF IsRequest, Operations, Enforcing, Typed
<1>5. \A h \in Row : \A col \in Columns :
        \/ col \in DOMAIN Asked(r) \ {"id"} /\ row[h][col] = Asked(r)[col]
        \/ row[h][col] = h[col]
        \/ p \notin Typed /\ col = "id" /\ row[h][col] = key[3]
  BY <1>1, <1>4 DEF Over, NotNull, Only, Partial, Asked, Key, Row
<1>6. Steps(r) = 2
  BY DEF Steps
<1>7. key \in Keys /\ key[1] \notin Declared
  BY <1>1, KeyType DEF Key, Tables, Collections, Declared
<1> HIDE DEF row
<1>8. row \in [Row -> Row]
  BY <1>2 DEF row
<1> HIDE DEF key
<1>9. Updates(p, r, key, row)
  BY <1>3, <1>4, <1>5, <1>6, <1>7, <1>8 DEF Updates
<1> QED BY <1>9, UpdateIsWell

LEMMA updateObjectIsWell ==
  ASSUME NEW p \in DOMAIN Operations, NEW r, IsRequest(p, r), r.op = "updateObject"
  PROVE  Well(p, r)
<1> DEFINE key == Key(r.table, 0, r.path)
           row == [h \in Row |-> Over(Only(r.set, {"name", "notes"}), h)]
<1>1. Partial(r.set) /\ r.path \in Nat /\ r.table \in Collections
  BY DEF IsRequest, Partial
<1>2. \A h \in Row : row[h] \in Row
  BY <1>1, OnlyIsPartial, OverIsRow
<1>3. \A n \in Nat : \A h \in Row :
        Handler(r, n, h) = <<Read(key, "refused", "failed"), Update(key, row[h])>>
  BY DEF Handler, updateObject
<1>4. p \notin Enforcing
  BY DEF IsRequest, Operations, Enforcing
<1>5. \A h \in Row : \A col \in Columns :
        \/ col \in DOMAIN Asked(r) \ {"id"} /\ row[h][col] = Asked(r)[col]
        \/ row[h][col] = h[col]
        \/ p \notin Typed /\ col = "id" /\ row[h][col] = key[3]
  BY <1>1 DEF Over, Only, Partial, Asked, Row
<1>6. Steps(r) = 2
  BY DEF Steps
<1>7. key \in Keys /\ key[1] \notin Declared
  BY <1>1, KeyType DEF Key, Tables, Collections, Declared
<1> HIDE DEF row
<1>8. row \in [Row -> Row]
  BY <1>2 DEF row
<1> HIDE DEF key
<1>9. Updates(p, r, key, row)
  BY <1>3, <1>4, <1>5, <1>6, <1>7, <1>8 DEF Updates
<1> QED BY <1>9, UpdateIsWell

LEMMA PatchRecordIsWell ==
  ASSUME NEW p \in DOMAIN Operations, NEW r, IsRequest(p, r), r.op = "PatchRecord"
  PROVE  Well(p, r)
<1> DEFINE key == Key("records", r.scope, r.path)
           row == [h \in Row |-> Over(Only(r.set, {"name", "notes"}), h)]
<1>1. Partial(r.set) /\ r.path \in Nat /\ r.scope \in Nat
  BY DEF IsRequest, Partial
<1>2. \A h \in Row : row[h] \in Row
  BY <1>1, OnlyIsPartial, OverIsRow
<1>3. \A n \in Nat : \A h \in Row :
        Handler(r, n, h) = <<Read(key, "refused", "failed"), Update(key, row[h])>>
  BY DEF Handler, PatchRecord
<1>4. p \notin Enforcing
  BY DEF IsRequest, Operations, Enforcing
<1>5. \A h \in Row : \A col \in Columns :
        \/ col \in DOMAIN Asked(r) \ {"id"} /\ row[h][col] = Asked(r)[col]
        \/ row[h][col] = h[col]
        \/ p \notin Typed /\ col = "id" /\ row[h][col] = key[3]
  BY <1>1 DEF Over, Only, Partial, Asked, Row
<1>6. Steps(r) = 2
  BY DEF Steps
<1>7. key \in Keys /\ key[1] \notin Declared
  BY <1>1, KeyType DEF Key, Tables, Declared
<1> HIDE DEF row
<1>8. row \in [Row -> Row]
  BY <1>2 DEF row
<1> HIDE DEF key
<1>9. Updates(p, r, key, row)
  BY <1>3, <1>4, <1>5, <1>6, <1>7, <1>8 DEF Updates
<1> QED BY <1>9, UpdateIsWell

LEMMA SendCampaignIsWell ==
  ASSUME NEW p \in DOMAIN Operations, NEW r, IsRequest(p, r), r.op = "PostCampaignsIdActionsSend"
  PROVE  Well(p, r)
<1> DEFINE key == Key("campaigns", 0, r.path)
           row == [h \in Row |-> Over([status |-> Sent], h)]
<1>1. r.path \in Nat /\ Sent \in Nat
  BY DEF IsRequest, Sent
<1>2. \A h \in Row : row[h] \in Row
  BY <1>1, LiteralIsPartial, OverIsRow
<1>3. \A n \in Nat : \A h \in Row :
        Handler(r, n, h) = <<Read(key, "refused", "failed"), Update(key, row[h])>>
  BY DEF Handler, PostCampaignsIdActionsSend
<1>4. p \notin Enforcing
  BY DEF IsRequest, Operations, Enforcing
<1>5. \A h \in Row : \A col \in Columns :
        \/ col \in DOMAIN Asked(r) \ {"id"} /\ row[h][col] = Asked(r)[col]
        \/ row[h][col] = h[col]
        \/ p \notin Typed /\ col = "id" /\ row[h][col] = key[3]
  BY <1>1 DEF Over, Asked, Row
<1>6. Steps(r) = 2
  BY DEF Steps
<1>7. key \in Keys /\ key[1] \notin Declared
  BY <1>1, KeyType DEF Key, Tables, Collections, Declared
<1> HIDE DEF row
<1>8. row \in [Row -> Row]
  BY <1>2 DEF row
<1> HIDE DEF key
<1>9. Updates(p, r, key, row)
  BY <1>3, <1>4, <1>5, <1>6, <1>7, <1>8 DEF Updates
<1> QED BY <1>9, UpdateIsWell

LEMMA PostListsIdMembersIsWell ==
  ASSUME NEW p \in DOMAIN Operations, NEW r, IsRequest(p, r), r.op = "PostListsIdMembers"
  PROVE  Well(p, r)
<1> DEFINE key == Key("members", 0, r.path)
           row == Over([id |-> r.path, parent |-> r.scope], Over(r.set, Blank))
<1>1. Steps(r) = 1
  BY DEF Steps
<1>2. Partial(r.set) /\ r.path \in Nat /\ r.scope \in Nat
  BY DEF IsRequest, Partial
<1>3. row \in Row
  BY <1>2, BlankIsRow, LiteralIsPartial, OverIsRow
<1>4. key \in Keys /\ key[3] = r.path /\ row["id"] = r.path /\ References(key, row) = {}
  BY <1>2, KeyType DEF Tables, Key, Over, References
<1> SUFFICES ASSUME NEW n \in Nat, NEW n2 \in Nat, NEW h \in Row, NEW h2 \in Row
             PROVE WellFormed(p, r, Handler(r, n, h), Handler(r, n2, h2), 1, n = n2, h = h2, n, h)
  BY <1>1 DEF Well
<1> DEFINE P == Handler(r, n, h)
           Q == Handler(r, n2, h2)
<1>5. P = <<Insert(key, row, "failed")>> /\ Q = P
  BY DEF Handler, PostListsIdMembers
<1>6. P[1].do = "insert" /\ P[1].key = key /\ P[1].cols = row /\ key[1] = "members"
  BY <1>5 DEF Insert, Statement, Key
<1> HIDE DEF row, key
<1>7. IsProgram(P, 1)
  BY <1>3, <1>4, <1>5, RowIsPartial DEF IsStatement, Insert, Statement, IsProgram
<1> HIDE DEF P, Q
<1>8. Stable(P, Q, 1, n = n2, h = h2)
  BY <1>5, <1>6 DEF Stable
<1>9. Keyed(p, P, 1) /\ Writing(p, r, P, 1, h) /\ Referring(p, P, 1)
  BY <1>4, <1>6 DEF Keyed, Writing, Referring
<1>10. Refusing(P, 1) /\ Linking(r, P, 1, n)
  BY <1>6 DEF Refusing, Linking, Links
<1> QED BY <1>7, <1>8, <1>9, <1>10 DEF WellFormed, P, Q

LEMMA PostRecordIsWell ==
  ASSUME NEW p \in DOMAIN Operations, NEW r, IsRequest(p, r), r.op = "PostRecord"
  PROVE  Well(p, r)
<1>1. Steps(r) = 3
  BY DEF Steps
<1>2. Partial(r.set) /\ r.scope \in Nat
  BY DEF IsRequest, Partial
<1> SUFFICES ASSUME NEW n \in Nat, NEW n2 \in Nat, NEW h \in Row, NEW h2 \in Row
             PROVE WellFormed(p, r, Handler(r, n, h), Handler(r, n2, h2), 3, n = n2, h = h2, n, h)
  BY <1>1 DEF Well
<1> DEFINE P == Handler(r, n, h)
           Q == Handler(r, n2, h2)
           object == Key("objects", 0, r.scope)
           key == Key("records", r.scope, n)
           row == Over([id |-> n], Over(Only(r.set, {"name", "notes"}), Blank))
           row2 == Over([id |-> n2], Over(Only(r.set, {"name", "notes"}), Blank))
<1>3. row \in Row
  BY <1>2, BlankIsRow, LiteralIsPartial, OnlyIsPartial, OverIsRow
<1>4. /\ key \in Keys /\ key[3] = n /\ key[1] = "records" /\ row["id"] = n
      /\ object \in Keys /\ NoKey \in Keys
      /\ References(key, row) = {object}
  BY <1>2, KeyType DEF Tables, Key, Over, References, NoKey, Absent
<1>5. /\ P = <<Find(object, "refused", "failed"), Mint, Insert(key, row, "failed")>>
      /\ Q = <<Find(object, "refused", "failed"), Mint, Insert(Key("records", r.scope, n2), row2, "failed")>>
  BY DEF Handler, PostRecord
<1> HIDE DEF row, row2, key, object
<1>6. /\ P[1].do = "find" /\ P[1].key = object /\ P[2].do = "mint"
      /\ P[3].do = "insert" /\ P[3].key = key /\ P[3].cols = row /\ P[3].error = "failed"
      /\ Q[1] = P[1] /\ Q[2] = P[2] /\ Q[3].do = "insert"
  BY <1>5 DEF Find, Mint, Insert, Statement
<1>7. IsProgram(P, 3)
  BY <1>3, <1>4, <1>5, BlankIsRow, RowIsPartial
     DEF IsStatement, Find, Mint, Insert, Statement, IsProgram
<1> HIDE DEF P, Q
<1>8. Stable(P, Q, 3, n = n2, h = h2)
  BY <1>6 DEF Stable
<1>9. Keyed(p, P, 3) /\ Writing(p, r, P, 3, h)
  BY <1>4, <1>6 DEF Keyed, Writing
<1>10. Referring(p, P, 3)
  BY <1>4, <1>6 DEF Referring
<1>11. Refusing(P, 3) /\ Linking(r, P, 3, n)
  BY <1>4, <1>6 DEF Refusing, Linking, Links
<1> QED BY <1>7, <1>8, <1>9, <1>10, <1>11 DEF WellFormed, P, Q

LEMMA PostMessagesIsWell ==
  ASSUME NEW p \in DOMAIN Operations, NEW r, IsRequest(p, r), r.op = "PostMessages"
  PROVE  Well(p, r)
<1>1. Steps(r) = 3
  BY DEF Steps
<1>2. Partial(r.set) /\ r.scope \in Nat
  BY DEF IsRequest, Partial
<1> SUFFICES ASSUME NEW n \in Nat, NEW n2 \in Nat, NEW h \in Row, NEW h2 \in Row
             PROVE WellFormed(p, r, Handler(r, n, h), Handler(r, n2, h2), 3, n = n2, h = h2, n, h)
  BY <1>1 DEF Well
<1> DEFINE P == Handler(r, n, h)
           Q == Handler(r, n2, h2)
           message == Key("messages", r.scope, n)
           event == Key("events", 0, n)
           row == Over([id |-> n, parent |-> r.scope], Over(Only(r.set, {"name", "notes"}), Blank))
           row2 == Over([id |-> n2, parent |-> r.scope], Over(Only(r.set, {"name", "notes"}), Blank))
<1>3. row \in Row
  BY <1>2, BlankIsRow, LiteralIsPartial, OnlyIsPartial, OverIsRow
<1>4. row["id"] = n /\ row["parent"] = r.scope
  BY <1>3 DEF Over
<1>5. /\ message \in Keys /\ message[3] = n /\ message[1] = "messages"
      /\ event \in Keys /\ event[3] = n /\ event[1] = "events" /\ NoKey \in Keys
      /\ References(message, row) = {} /\ References(event, row) = {message}
  BY <1>2, <1>4, KeyType DEF Tables, Key, References, NoKey, Absent
<1>6. /\ P = <<Mint, Insert(message, row, "failed"), Insert(event, row, "failed")>>
      /\ Q = <<Mint, Insert(Key("messages", r.scope, n2), row2, "failed"),
               Insert(Key("events", 0, n2), row2, "failed")>>
  BY DEF Handler, PostMessages
<1> HIDE DEF row, row2, message, event
<1>7. /\ P[1].do = "mint"
      /\ P[2].do = "insert" /\ P[2].key = message /\ P[2].cols = row
      /\ P[3].do = "insert" /\ P[3].key = event /\ P[3].cols = row /\ P[3].error = "failed"
      /\ Q[1] = P[1] /\ Q[2].do = "insert" /\ Q[3].do = "insert"
  BY <1>6 DEF Mint, Insert, Statement
<1>8. IsProgram(P, 3)
  BY <1>3, <1>5, <1>6, BlankIsRow, RowIsPartial
     DEF IsStatement, Mint, Insert, Statement, IsProgram
<1> HIDE DEF P, Q
<1>9. Stable(P, Q, 3, n = n2, h = h2)
  BY <1>7 DEF Stable
<1>10. Keyed(p, P, 3) /\ Writing(p, r, P, 3, h)
  BY <1>4, <1>5, <1>7 DEF Keyed, Writing
<1>11. Referring(p, P, 3)
  BY <1>5, <1>7 DEF Referring
<1>12. Refusing(P, 3) /\ Linking(r, P, 3, n)
  BY <1>5, <1>7 DEF Refusing, Linking, Links
<1> QED BY <1>8, <1>9, <1>10, <1>11, <1>12 DEF WellFormed, P, Q

(* Asana and intercom, whose tables have columns of their own and whose    *)
(* references the database checks.                                         *)
LEMMA CheckedByDatabase ==
  ASSUME NEW p \in DOMAIN Operations, NEW r, IsRequest(p, r),
         r.op \in {"CreateTask", "UpdateTask", "CreateStoryForTask",
                   "CreateContact", "UpdateConversation", "ReplyConversation"}
  PROVE  /\ p \in Typed /\ p \in Enforcing
         /\ r.op \in {"CreateTask", "UpdateTask", "CreateStoryForTask"} <=> p # "intercom"
  BY DEF IsRequest, Operations, Typed, Enforcing

LEMMA CreateContactIsWell ==
  ASSUME NEW p \in DOMAIN Operations, NEW r, IsRequest(p, r), r.op = "CreateContact"
  PROVE  Well(p, r)
<1>1. Steps(r) = 4
  BY DEF Steps
<1>2. Partial(r.set) /\ r.valid \in BOOLEAN /\ p \in Typed /\ p \in Enforcing
  BY CheckedByDatabase DEF IsRequest, Partial
<1> SUFFICES ASSUME NEW n \in Nat, NEW n2 \in Nat, NEW h \in Row, NEW h2 \in Row
             PROVE WellFormed(p, r, Handler(r, n, h), Handler(r, n2, h2), 4, n = n2, h = h2, n, h)
  BY <1>1 DEF Well
<1> DEFINE P == Handler(r, n, h)
           Q == Handler(r, n2, h2)
           key == Key("contacts", 0, n)
           row == Over(Only(r.set, {"name", "notes"}), Blank)
<1>3. row \in Row
  BY <1>2, BlankIsRow, OnlyIsPartial, OverIsRow
<1>4. key \in Keys /\ key[1] = "contacts" /\ NoKey \in Keys
  BY KeyType DEF Tables, Collections, Key, NoKey, Absent
<1>5. /\ P = <<Check(r.valid, "failed"), Mint, Insert(key, row, "failed"), Reread(key)>>
      /\ Q = <<Check(r.valid, "failed"), Mint, Insert(Key("contacts", 0, n2), row, "failed"),
               Reread(Key("contacts", 0, n2))>>
  BY DEF Handler, CreateContact
<1> HIDE DEF row, key
<1>6. /\ P[1].do \in {"pass", "stop"} /\ P[2].do = "mint" /\ P[3].do = "insert" /\ P[4].do = "find"
      /\ P[3].key = key /\ P[4].error = "failed" /\ P[4].absent = "failed"
      /\ Q[1] = P[1] /\ Q[2] = P[2] /\ Q[3].do = "insert" /\ Q[4].do = "find"
  BY <1>5 DEF Check, Mint, Insert, Reread, Find, Statement
<1>7. IsProgram(P, 4)
  BY <1>3, <1>4, <1>5, BlankIsRow, RowIsPartial
     DEF IsStatement, Check, Mint, Insert, Reread, Find, Statement, IsProgram
<1> HIDE DEF P, Q
<1>8. Stable(P, Q, 4, n = n2, h = h2)
  BY <1>6 DEF Stable
<1>9. Keyed(p, P, 4) /\ Writing(p, r, P, 4, h) /\ Referring(p, P, 4)
  BY <1>2, <1>6 DEF Keyed, Writing, Referring
<1>10. Refusing(P, 4) /\ Linking(r, P, 4, n)
  BY <1>4, <1>6 DEF Refusing, Linking, Links
<1> QED BY <1>7, <1>8, <1>9, <1>10 DEF WellFormed, P, Q

LEMMA UpdateConversationIsWell ==
  ASSUME NEW p \in DOMAIN Operations, NEW r, IsRequest(p, r), r.op = "UpdateConversation"
  PROVE  Well(p, r)
<1> DEFINE L == IF "name" \in DOMAIN r.set THEN 3 ELSE 1
           key == Key("conversations", 0, r.path)
           cols == Only(r.set, {"name"})
<1>1. Steps(r) = L
  BY DEF Steps
<1>2. Partial(cols) /\ r.path \in Nat /\ p \in Typed /\ p \in Enforcing
  <2>1. Partial(r.set) BY DEF IsRequest, Partial
  <2> QED BY <2>1, OnlyIsPartial, CheckedByDatabase DEF IsRequest
<1> SUFFICES ASSUME NEW n \in Nat, NEW n2 \in Nat, NEW h \in Row, NEW h2 \in Row
             PROVE WellFormed(p, r, Handler(r, n, h), Handler(r, n2, h2), L, n = n2, h = h2, n, h)
  BY <1>1 DEF Well
<1> DEFINE P == Handler(r, n, h)
           Q == Handler(r, n2, h2)
<1>3. key \in Keys
  BY <1>2, KeyType DEF Tables
<1>4. \A col \in DOMAIN cols : col \in DOMAIN Asked(r) \ {"id"} /\ cols[col] = Asked(r)[col]
  BY DEF Only, Asked
<1>5. P = Q
  BY DEF Handler, UpdateConversation
<1>6. CASE "name" \in DOMAIN r.set
  <2>1. P = <<Find(key, "refused", "failed"), Update(key, cols), Reread(key)>>
    BY <1>6 DEF Handler, UpdateConversation
  <2> HIDE DEF cols, key
  <2>2. /\ P[1].do = "find" /\ P[1].key = key /\ P[3].do = "find"
        /\ P[2].do = "update" /\ P[2].key = key /\ P[2].cols = cols
    BY <2>1 DEF Find, Update, Reread, Statement
  <2>3. IsProgram(P, 3)
    BY <1>2, <1>3, <2>1, BlankIsRow, RowIsPartial
       DEF IsStatement, Update, Reread, Find, Statement, IsProgram
  <2> HIDE DEF P, Q
  <2>4. Stable(P, Q, 3, n = n2, h = h2) /\ Keyed(p, P, 3)
    BY <1>2, <1>5, <2>2 DEF Stable, Keyed
  <2>5. Writing(p, r, P, 3, h) /\ Referring(p, P, 3)
    BY <1>2, <1>4, <2>2 DEF Writing, Referring
  <2>6. Refusing(P, 3) /\ Linking(r, P, 3, n)
    BY <2>2 DEF Refusing, Linking, Links
  <2> QED BY <1>6, <2>3, <2>4, <2>5, <2>6 DEF WellFormed, P, Q
<1>7. CASE "name" \notin DOMAIN r.set
  <2>1. P = <<Find(key, "refused", "failed")>>
    BY <1>7 DEF Handler, UpdateConversation
  <2> HIDE DEF cols, key
  <2>2. P[1].do = "find"
    BY <2>1 DEF Find, Statement
  <2>3. IsProgram(P, 1)
    BY <1>3, <2>1, BlankIsRow, RowIsPartial DEF IsStatement, Find, Statement, IsProgram
  <2> HIDE DEF P, Q
  <2>4. Stable(P, Q, 1, n = n2, h = h2) /\ Keyed(p, P, 1) /\ Writing(p, r, P, 1, h)
    BY <1>2, <1>5, <2>2 DEF Stable, Keyed, Writing
  <2>5. Referring(p, P, 1) /\ Refusing(P, 1) /\ Linking(r, P, 1, n)
    BY <1>2, <2>2 DEF Referring, Refusing, Linking, Links
  <2> QED BY <1>7, <2>3, <2>4, <2>5 DEF WellFormed, P, Q
<1> QED BY <1>6, <1>7

LEMMA ReplyConversationIsWell ==
  ASSUME NEW p \in DOMAIN Operations, NEW r, IsRequest(p, r), r.op = "ReplyConversation"
  PROVE  Well(p, r)
<1>1. Steps(r) = 7
  BY DEF Steps
<1>2. /\ Partial(r.set) /\ r.path \in Nat /\ r.valid \in BOOLEAN
      /\ p \in Typed /\ p \in Enforcing
  BY CheckedByDatabase DEF IsRequest, Partial
<1> SUFFICES ASSUME NEW n \in Nat, NEW n2 \in Nat, NEW h \in Row, NEW h2 \in Row
             PROVE WellFormed(p, r, Handler(r, n, h), Handler(r, n2, h2), 7, n = n2, h = h2, n, h)
  BY <1>1 DEF Well
<1> DEFINE P == Handler(r, n, h)
           Q == Handler(r, n2, h2)
           conversation == Key("conversations", 0, r.path)
           metadata == Key("metadata", 0, 1)
           part == Key("conversation_parts", 0, n)
           row == Over([parent |-> r.path], Over(Only(r.set, {"notes"}), Blank))
<1>3. row \in Row
  BY <1>2, BlankIsRow, LiteralIsPartial, OnlyIsPartial, OverIsRow
<1>4. /\ conversation \in Keys /\ metadata \in Keys /\ NoKey \in Keys
      /\ part \in Keys /\ part[1] = "conversation_parts"
  BY <1>2, KeyType DEF Tables, Key, NoKey, Absent
<1>5. /\ P = <<Find(conversation, "refused", "failed"), Check(r.valid, "refused"),
               Find(metadata, "failed", "failed"), Mint, Insert(part, row, "failed"),
               Touch(conversation), Reread(conversation)>>
      /\ Q = <<Find(conversation, "refused", "failed"), Check(r.valid, "refused"),
               Find(metadata, "failed", "failed"), Mint,
               Insert(Key("conversation_parts", 0, n2), row, "failed"),
               Touch(conversation), Reread(conversation)>>
  BY DEF Handler, ReplyConversation
<1> HIDE DEF row, part, conversation, metadata
<1>6. /\ P[1].do = "find" /\ P[2].do \in {"pass", "stop"} /\ P[3].do = "find" /\ P[4].do = "mint"
      /\ P[5].do = "insert" /\ P[5].key = part
      /\ P[6].do = "touch" /\ P[6].error = "failed"
      /\ P[7].do = "find" /\ P[7].error = "failed" /\ P[7].absent = "failed"
      /\ Q[1] = P[1] /\ Q[2] = P[2] /\ Q[3] = P[3] /\ Q[4] = P[4] /\ Q[5].do = "insert"
      /\ Q[6] = P[6] /\ Q[7] = P[7]
  BY <1>5 DEF Check, Mint, Insert, Touch, Reread, Find, Statement
<1>7. IsProgram(P, 7)
  BY <1>3, <1>4, <1>5, BlankIsRow, RowIsPartial
     DEF IsStatement, Check, Mint, Insert, Touch, Reread, Find, Statement, IsProgram
<1> HIDE DEF P, Q
<1>8. Stable(P, Q, 7, n = n2, h = h2)
  BY <1>6 DEF Stable
<1>9. Keyed(p, P, 7) /\ Writing(p, r, P, 7, h) /\ Referring(p, P, 7)
  BY <1>2, <1>6 DEF Keyed, Writing, Referring
<1>10. Refusing(P, 7) /\ Linking(r, P, 7, n)
  BY <1>4, <1>6 DEF Refusing, Linking, Links
<1> QED BY <1>7, <1>8, <1>9, <1>10 DEF WellFormed, P, Q

LEMMA UpdateTaskIsWell ==
  ASSUME NEW p \in DOMAIN Operations, NEW r, IsRequest(p, r), r.op = "UpdateTask"
  PROVE  Well(p, r)
<1>1. Steps(r) = 5
  BY DEF Steps
<1>2. /\ Partial(r.set) /\ r.path \in Nat /\ r.valid \in BOOLEAN
      /\ p \in Typed /\ p \in Enforcing /\ p # "intercom"
  BY CheckedByDatabase DEF IsRequest, Partial
<1> SUFFICES ASSUME NEW n \in Nat, NEW n2 \in Nat, NEW h \in Row, NEW h2 \in Row
             PROVE WellFormed(p, r, Handler(r, n, h), Handler(r, n2, h2), 5, n = n2, h = h2, n, h)
  BY <1>1 DEF Well
<1> DEFINE P == Handler(r, n, h)
           Q == Handler(r, n2, h2)
           task == Key("tasks", 0, r.path)
           user == IF "user" \in DOMAIN r.set /\ r.set.user # 0
                   THEN Find(Key("users", 0, r.set.user), "refused", "refused")
                   ELSE Check(TRUE, "refused")
           cols == Only(Over(r.set, h), {"name", "notes", "status", "user"})
           cols2 == Only(Over(r.set, h2), {"name", "notes", "status", "user"})
<1>3. Partial(cols)
  BY <1>2, RowIsPartial, OverIsPartial, OnlyIsPartial
<1>4. task \in Keys /\ NoKey \in Keys
  BY <1>2, KeyType DEF Tables, Key, NoKey, Absent
<1>5. IsStatement(user) /\ user.do \in {"find", "pass"}
  <2>1. CASE "user" \in DOMAIN r.set /\ r.set.user # 0
    <3>1. r.set.user \in Nat BY <1>2, <2>1 DEF Partial
    <3>2. Key("users", 0, r.set.user) \in Keys BY <3>1, KeyType DEF Tables
    <3> QED BY <2>1, <3>2, BlankIsRow, RowIsPartial DEF IsStatement, Find, Statement
  <2>2. CASE ~("user" \in DOMAIN r.set /\ r.set.user # 0)
    BY <1>4, <2>2, BlankIsRow, RowIsPartial DEF IsStatement, Check, Statement
  <2> QED BY <2>1, <2>2
<1>6. \A col \in DOMAIN cols :
         \/ col \in DOMAIN Asked(r) \ {"id"} /\ cols[col] = Asked(r)[col]
         \/ cols[col] = h[col]
  BY DEF Over, Only, Asked
<1>7. /\ P = <<Read(task, "refused", "failed"), Check(r.valid, "refused"), user,
               Update(task, cols), Reread(task)>>
      /\ Q = <<Read(task, "refused", "failed"), Check(r.valid, "refused"), user,
               Update(task, cols2), Reread(task)>>
  BY DEF Handler, UpdateTask
<1> HIDE DEF cols, cols2, user, task
<1>8. /\ P[1].do = "read" /\ P[1].key = task /\ P[2].do \in {"pass", "stop"} /\ P[3] = user
      /\ P[4].do = "update" /\ P[4].key = task /\ P[4].cols = cols /\ P[5].do = "find"
      /\ Q[1] = P[1] /\ Q[2] = P[2] /\ Q[3] = P[3] /\ Q[4].do = "update" /\ Q[5] = P[5]
  BY <1>7 DEF Check, Read, Update, Reread, Find, Statement
<1>9. IsProgram(P, 5)
  BY <1>3, <1>4, <1>5, <1>7, BlankIsRow, RowIsPartial
     DEF IsStatement, Check, Read, Update, Reread, Find, Statement, IsProgram
<1> HIDE DEF P, Q
<1>10. Stable(P, Q, 5, n = n2, h = h2)
  BY <1>5, <1>8 DEF Stable
<1>11. Keyed(p, P, 5)
  BY <1>2, <1>5, <1>8 DEF Keyed
<1>12. Writing(p, r, P, 5, h)
  BY <1>2, <1>5, <1>6, <1>8 DEF Writing
<1>13. Referring(p, P, 5)
  BY <1>2, <1>5, <1>8 DEF Referring
<1>14. Refusing(P, 5) /\ Linking(r, P, 5, n)
  BY <1>5, <1>8 DEF Refusing, Linking, Links
<1> QED BY <1>9, <1>10, <1>11, <1>12, <1>13, <1>14 DEF WellFormed, P, Q

LEMMA CreateStoryForTaskIsWell ==
  ASSUME NEW p \in DOMAIN Operations, NEW r, IsRequest(p, r), r.op = "CreateStoryForTask"
  PROVE  Well(p, r)
<1>1. Steps(r) = 7
  BY DEF Steps
<1>2. /\ Partial(r.set) /\ r.path \in Nat /\ r.valid \in BOOLEAN
      /\ p \in Typed /\ p \in Enforcing
  BY CheckedByDatabase DEF IsRequest, Partial
<1> SUFFICES ASSUME NEW n \in Nat, NEW n2 \in Nat, NEW h \in Row, NEW h2 \in Row
             PROVE WellFormed(p, r, Handler(r, n, h), Handler(r, n2, h2), 7, n = n2, h = h2, n, h)
  BY <1>1 DEF Well
<1> DEFINE P == Handler(r, n, h)
           Q == Handler(r, n2, h2)
           task == Key("tasks", 0, r.path)
           metadata == Key("metadata", 0, 1)
           story == Key("stories", 0, n)
           user == Key("users", 0, h.user)
           row == Over([parent |-> r.path, user |-> h.user], Over(Only(r.set, {"notes"}), Blank))
           story2 == Key("stories", 0, n2)
           user2 == Key("users", 0, h2.user)
           row2 == Over([parent |-> r.path, user |-> h2.user], Over(Only(r.set, {"notes"}), Blank))
<1>3. h.user \in Nat
  BY DEF Row, Columns
<1>4. row \in Row
  BY <1>2, <1>3, BlankIsRow, LiteralIsPartial, OnlyIsPartial, OverIsRow
<1>5. /\ task \in Keys /\ metadata \in Keys /\ user \in Keys /\ NoKey \in Keys
      /\ story \in Keys /\ story[1] = "stories"
  BY <1>2, <1>3, KeyType DEF Tables, Key, NoKey, Absent
<1>6. /\ P = <<Find(task, "refused", "failed"), Check(r.valid, "refused"), Mint,
               Read(metadata, "failed", "failed"), Insert(story, row, "failed"),
               Touch(task), Reread(user)>>
      /\ Q = <<Find(task, "refused", "failed"), Check(r.valid, "refused"), Mint,
               Read(metadata, "failed", "failed"), Insert(story2, row2, "failed"),
               Touch(task), Reread(user2)>>
  BY DEF Handler, CreateStoryForTask
<1> HIDE DEF row, row2, story, story2, user, user2, task, metadata
<1>7. /\ P[1].do = "find" /\ P[2].do \in {"pass", "stop"} /\ P[3].do = "mint" /\ P[4].do = "read"
      /\ P[5].do = "insert" /\ P[5].key = story
      /\ P[6].do = "touch" /\ P[6].error = "failed"
      /\ P[7].do = "find" /\ P[7].error = "failed" /\ P[7].absent = "failed"
      /\ Q[1] = P[1] /\ Q[2] = P[2] /\ Q[3] = P[3] /\ Q[4] = P[4] /\ Q[5].do = "insert"
      /\ Q[6] = P[6] /\ Q[7].do = "find"
  BY <1>6 DEF Check, Mint, Read, Insert, Touch, Reread, Find, Statement
<1>8. IsProgram(P, 7)
  BY <1>4, <1>5, <1>6, BlankIsRow, RowIsPartial
     DEF IsStatement, Check, Mint, Read, Insert, Touch, Reread, Find, Statement, IsProgram
<1> HIDE DEF P, Q
<1>9. Stable(P, Q, 7, n = n2, h = h2)
  BY <1>7 DEF Stable
<1>10. Keyed(p, P, 7) /\ Writing(p, r, P, 7, h) /\ Referring(p, P, 7)
  BY <1>2, <1>7 DEF Keyed, Writing, Referring
<1>11. Refusing(P, 7) /\ Linking(r, P, 7, n)
  BY <1>5, <1>7 DEF Refusing, Linking, Links
<1> QED BY <1>8, <1>9, <1>10, <1>11 DEF WellFormed, P, Q

(* What each statement of CreateTask is: m projects are found, the task is *)
(* stored, and m links to them.                                            *)
CreatesTask(P, r, n, m) ==
  /\ DOMAIN P = 1..(2 * m + 7) /\ m \in Nat
  /\ \A i \in 1..(m + 4) : P[i].do \in {"pass", "stop", "find", "read"}
  /\ \A i \in 1..(m + 4) : P[i].do = "read" => i = 2
  /\ \A i \in 1..m : P[i + 3].do = "find" /\ P[i + 3].key = Project(r.projects[i])
  /\ P[m + 5].do = "mint"
  /\ P[m + 6].do = "insert" /\ P[m + 6].key = Key("tasks", 0, n)
  /\ \A i \in 1..m :
       /\ P[i + m + 6].do = "insert" /\ P[i + m + 6].cols = Blank
       /\ P[i + m + 6].key = Key("task_projects", n, r.projects[i])
  /\ P[2 * m + 7].do = "find" /\ P[2 * m + 7].absent = "failed" /\ P[2 * m + 7].error = "failed"

LEMMA CreateTaskStatements ==
  ASSUME NEW p \in DOMAIN Operations, NEW r, IsRequest(p, r), r.op = "CreateTask",
         NEW n \in Nat, NEW h \in Row
  PROVE  /\ CreatesTask(CreateTask(r, n, h), r, n, Len(r.projects))
         /\ IsProgram(CreateTask(r, n, h), 2 * Len(r.projects) + 7)
<1> DEFINE m == Len(r.projects)
           P == CreateTask(r, n, h)
           ofProject == r.workspace = 0 /\ m > 0
           workspace == IF ofProject THEN h.parent ELSE r.workspace
           assigned == "user" \in DOMAIN r.set /\ r.set.user # 0
           task == Over([parent |-> workspace], Over(Only(r.set, {"name", "notes", "status", "user"}), Blank))
           S1 == Check(r.valid /\ (r.workspace # 0 \/ m > 0), "refused")
           S2 == IF ofProject THEN Read(Project(r.projects[1]), "refused", "refused")
                              ELSE Check(TRUE, "refused")
           S3 == Find(Key("workspaces", 0, workspace), "refused", "failed")
           S4(i) == Find(Project(r.projects[i - 3]), "refused", "failed")
           S5 == IF assigned THEN Find(Key("users", 0, r.set.user), "refused", "refused")
                             ELSE Check(TRUE, "refused")
           S6 == Insert(Key("tasks", 0, n), task, "failed")
           S7(i) == Insert(Key("task_projects", n, r.projects[i - m - 6]), Blank, "refused")
           S8 == Reread(Key("tasks", 0, n))
<1>1. /\ m \in Nat /\ \A i \in 1..m : r.projects[i] \in Nat
      /\ Partial(r.set) /\ r.valid \in BOOLEAN /\ r.workspace \in Nat
  BY DEF IsRequest, Partial
<1>2. workspace \in Nat /\ NoKey \in Keys /\ Partial(Blank)
  BY <1>1, BlankIsRow, RowIsPartial, KeyType DEF Row, Columns, NoKey, Absent, Tables
<1>3. /\ DOMAIN P = 1..(2 * m + 7)
      /\ P = [i \in 1..(2 * m + 7) |->
        CASE i = 1 -> S1
          [] i = 2 -> S2
          [] i = 3 -> S3
          [] i \in 4..(m + 3) -> S4(i)
          [] i = m + 4 -> S5
          [] i = m + 5 -> Mint
          [] i = m + 6 -> S6
          [] i \in (m + 7)..(2 * m + 6) -> S7(i)
          [] OTHER -> S8]
  BY DEF CreateTask
<1>4. IsStatement(S1) /\ S1.do \in {"pass", "stop"}
  BY <1>1, <1>2 DEF IsStatement, Check, Statement
<1>5. IsStatement(S2) /\ S2.do \in {"pass", "read"}
  <2>1. CASE ofProject
    <3>1. r.projects[1] \in Nat /\ "projects" \in Tables
      BY <1>1, <2>1 DEF Tables
    <3>2. Project(r.projects[1]) \in Keys
      BY <3>1, KeyType DEF Project
    <3> QED BY <1>2, <2>1, <3>2 DEF IsStatement, Read, Statement
  <2>2. CASE ~ofProject
    BY <1>2, <2>2 DEF IsStatement, Check, Statement
  <2> QED BY <2>1, <2>2
<1>6. IsStatement(S3) /\ S3.do = "find"
  <2>1. Key("workspaces", 0, workspace) \in Keys
    BY <1>2, KeyType DEF Tables
  <2> QED BY <1>2, <2>1 DEF IsStatement, Find, Statement
<1>7. \A i \in 4..(m + 3) :
        IsStatement(S4(i)) /\ S4(i).do = "find" /\ S4(i).key = Project(r.projects[i - 3])
  <2> SUFFICES ASSUME NEW i \in 4..(m + 3)
               PROVE IsStatement(S4(i)) /\ S4(i).do = "find"
                     /\ S4(i).key = Project(r.projects[i - 3])
    OBVIOUS
  <2>1. i - 3 \in 1..m
    BY <1>1
  <2>2. r.projects[i - 3] \in Nat /\ "projects" \in Tables
    BY <1>1, <2>1 DEF Tables
  <2>3. Project(r.projects[i - 3]) \in Keys
    BY <2>2, KeyType DEF Project
  <2> QED BY <1>2, <2>3 DEF IsStatement, Find, Statement
<1>8. IsStatement(S5) /\ S5.do \in {"pass", "find"}
  <2>1. CASE assigned
    <3>1. r.set.user \in Nat BY <1>1, <2>1 DEF Partial
    <3>2. Key("users", 0, r.set.user) \in Keys BY <3>1, KeyType DEF Tables
    <3> QED BY <1>2, <2>1, <3>2 DEF IsStatement, Find, Statement
  <2>2. CASE ~assigned
    BY <1>2, <2>2 DEF IsStatement, Check, Statement
  <2> QED BY <2>1, <2>2
<1>9. IsStatement(Mint) /\ Mint.do = "mint"
  BY <1>2 DEF IsStatement, Mint, Statement
<1>10. IsStatement(S6) /\ S6.do = "insert" /\ S6.key = Key("tasks", 0, n)
  <2>1. task \in Row
    BY <1>1, <1>2, BlankIsRow, LiteralIsPartial, OnlyIsPartial, OverIsRow
  <2>2. Key("tasks", 0, n) \in Keys
    BY KeyType DEF Tables
  <2> HIDE DEF task
  <2> QED BY <2>1, <2>2, RowIsPartial DEF IsStatement, Insert, Statement
<1>11. \A i \in (m + 7)..(2 * m + 6) :
         /\ IsStatement(S7(i)) /\ S7(i).do = "insert" /\ S7(i).cols = Blank
         /\ S7(i).key = Key("task_projects", n, r.projects[i - m - 6])
  <2> SUFFICES ASSUME NEW i \in (m + 7)..(2 * m + 6)
               PROVE /\ IsStatement(S7(i)) /\ S7(i).do = "insert" /\ S7(i).cols = Blank
                     /\ S7(i).key = Key("task_projects", n, r.projects[i - m - 6])
    OBVIOUS
  <2>1. i - m - 6 \in 1..m
    BY <1>1
  <2>2. r.projects[i - m - 6] \in Nat /\ "task_projects" \in Tables
    BY <1>1, <2>1 DEF Tables
  <2>3. Key("task_projects", n, r.projects[i - m - 6]) \in Keys
    BY <2>2, KeyType
  <2> QED BY <1>2, <2>3, BlankIsRow DEF IsStatement, Insert, Statement
<1>12. IsStatement(S8) /\ S8.do = "find" /\ S8.absent = "failed" /\ S8.error = "failed"
  <2>1. Key("tasks", 0, n) \in Keys
    BY KeyType DEF Tables
  <2> QED BY <1>2, <2>1 DEF IsStatement, Reread, Find, Statement
<1> HIDE DEF S1, S2, S3, S4, S5, S6, S7, S8, P
<1>13. /\ P[1] = S1 /\ P[2] = S2 /\ P[3] = S3 /\ \A i \in 4..(m + 3) : P[i] = S4(i)
       /\ P[m + 4] = S5 /\ P[m + 5] = Mint /\ P[m + 6] = S6
       /\ \A i \in (m + 7)..(2 * m + 6) : P[i] = S7(i)
       /\ P[2 * m + 7] = S8
  <2> HIDE DEF m
  <2>0. /\ {1, 2, 3, m + 4, m + 5} \subseteq 1..(2 * m + 7)
        /\ m + 4 # 3 /\ m + 5 # 3 /\ m + 4 # 2 /\ m + 5 # 2 /\ m + 4 # 1 /\ m + 5 # 1
        /\ m + 4 \notin 4..(m + 3) /\ m + 5 \notin 4..(m + 3)
    BY <1>1
  <2>1a. P[1] = S1
    BY <1>1, <1>3, <2>0
  <2>1b. P[2] = S2
    BY <1>1, <1>3, <2>0
  <2>1c. P[3] = S3
    BY <1>1, <1>3, <2>0
  <2>2. \A i \in 4..(m + 3) : P[i] = S4(i)
    BY <1>1, <1>3
  <2>3. P[m + 4] = S5
    BY <1>1, <1>3
  <2>4. P[m + 5] = Mint
    BY <1>1, <1>3, <2>0
  <2>5. P[m + 6] = S6
    BY <1>1, <1>3
  <2>6. \A i \in (m + 7)..(2 * m + 6) : P[i] = S7(i)
    BY <1>1, <1>3
  <2>7. P[2 * m + 7] = S8
    BY <1>1, <1>3
  <2> QED BY <2>1a, <2>1b, <2>1c, <2>2, <2>3, <2>4, <2>5, <2>6, <2>7
<1> HIDE DEF m
<1>14. \A i \in 1..(2 * m + 7) : IsStatement(P[i])
  <2> SUFFICES ASSUME NEW i \in 1..(2 * m + 7) PROVE IsStatement(P[i])
    OBVIOUS
  <2>1. CASE i \in {1, 2, 3, m + 4, m + 5, m + 6, 2 * m + 7}
    BY <1>4, <1>5, <1>6, <1>8, <1>9, <1>10, <1>12, <1>13, <2>1
  <2>2. CASE i \in 4..(m + 3)
    BY <1>7, <1>13, <2>2
  <2>3. CASE i \in (m + 7)..(2 * m + 6)
    BY <1>11, <1>13, <2>3
  <2> QED BY <1>1, <2>1, <2>2, <2>3
<1>15. \A i \in 1..m : P[i + 3] = S4(i + 3) /\ P[i + m + 6] = S7(i + m + 6)
  BY <1>1, <1>13
<1>16. /\ \A i \in 1..m : P[i + 3].do = "find" /\ P[i + 3].key = Project(r.projects[i])
       /\ \A i \in 1..m :
            /\ P[i + m + 6].do = "insert" /\ P[i + m + 6].cols = Blank
            /\ P[i + m + 6].key = Key("task_projects", n, r.projects[i])
  <2> SUFFICES ASSUME NEW i \in 1..m
               PROVE /\ P[i + 3].do = "find" /\ P[i + 3].key = Project(r.projects[i])
                     /\ P[i + m + 6].do = "insert" /\ P[i + m + 6].cols = Blank
                     /\ P[i + m + 6].key = Key("task_projects", n, r.projects[i])
    OBVIOUS
  <2>1. i + 3 \in 4..(m + 3) /\ i + m + 6 \in (m + 7)..(2 * m + 6)
    BY <1>1
  <2>2. (i + 3) - 3 = i /\ (i + m + 6) - m - 6 = i
    BY <1>1
  <2> QED BY <1>7, <1>11, <1>15, <2>1, <2>2
<1>17. \A i \in 1..(m + 4) :
         P[i].do \in {"pass", "stop", "find", "read"} /\ (P[i].do = "read" => i = 2)
  BY <1>1, <1>4, <1>5, <1>6, <1>7, <1>8, <1>13
<1>18. CreatesTask(P, r, n, m)
  BY <1>1, <1>3, <1>9, <1>10, <1>12, <1>13, <1>16, <1>17 DEF CreatesTask
<1>19. IsProgram(P, 2 * m + 7)
  BY <1>3, <1>14 DEF IsProgram
<1> QED BY <1>18, <1>19 DEF m, P

(* The id is used by what is stored, what was read by the third statement. *)
LEMMA CreateTaskDepends ==
  ASSUME NEW r, Len(r.projects) \in Nat,
         NEW n \in Nat, NEW n2 \in Nat, NEW h \in Row, NEW h2 \in Row
  PROVE  /\ \A i \in 1..(Len(r.projects) + 5) :
              \/ CreateTask(r, n, h)[i] = CreateTask(r, n2, h2)[i]
              \/ i = 3 /\ h # h2
         /\ CreateTask(r, n, h)[3].do = "find"
<1> DEFINE m == Len(r.projects)
           ofProject == r.workspace = 0 /\ m > 0
           workspace(x) == IF ofProject THEN x.parent ELSE r.workspace
           task(x) == Over([parent |-> workspace(x)],
                           Over(Only(r.set, {"name", "notes", "status", "user"}), Blank))
           S1 == Check(r.valid /\ (r.workspace # 0 \/ m > 0), "refused")
           S2 == IF ofProject THEN Read(Project(r.projects[1]), "refused", "refused")
                              ELSE Check(TRUE, "refused")
           S3(x) == Find(Key("workspaces", 0, workspace(x)), "refused", "failed")
           S4(i) == Find(Project(r.projects[i - 3]), "refused", "failed")
           S5 == IF "user" \in DOMAIN r.set /\ r.set.user # 0
                 THEN Find(Key("users", 0, r.set.user), "refused", "refused")
                 ELSE Check(TRUE, "refused")
           S6(k, x) == Insert(Key("tasks", 0, k), task(x), "failed")
           S7(k, i) == Insert(Key("task_projects", k, r.projects[i - m - 6]), Blank, "refused")
           S8(k) == Reread(Key("tasks", 0, k))
           T(k, x) == [i \in 1..(2 * m + 7) |->
                        CASE i = 1 -> S1
                          [] i = 2 -> S2
                          [] i = 3 -> S3(x)
                          [] i \in 4..(m + 3) -> S4(i)
                          [] i = m + 4 -> S5
                          [] i = m + 5 -> Mint
                          [] i = m + 6 -> S6(k, x)
                          [] i \in (m + 7)..(2 * m + 6) -> S7(k, i)
                          [] OTHER -> S8(k)]
<1>1. CreateTask(r, n, h) = T(n, h) /\ CreateTask(r, n2, h2) = T(n2, h2)
  BY DEF CreateTask
<1>2. S3(h).do = "find"
  BY DEF Find, Statement
<1> HIDE DEF S1, S2, S3, S4, S5, S6, S7, S8, m
<1>3. m \in Nat
  BY DEF m
<1>4. T(n, h)[3] = S3(h) /\ T(n2, h2)[3] = S3(h2)
  <2>1. 3 \in 1..(2 * m + 7)
    BY <1>3
  <2>2. T(n, h)[3] = S3(h)
    BY <1>3, <2>1
  <2>3. T(n2, h2)[3] = S3(h2)
    BY <1>3, <2>1
  <2> QED BY <2>2, <2>3
<1>5. ASSUME NEW i \in 1..(m + 5), i # 3 PROVE T(n, h)[i] = T(n2, h2)[i]
  <2>1. i \in 1..(2 * m + 7) /\ (i \in {1, 2, m + 4, m + 5} \/ i \in 4..(m + 3))
    BY <1>3, <1>5
  <2>2. CASE i = 1
    BY <1>3, <2>1, <2>2
  <2>3. CASE i = 2
    BY <1>3, <2>1, <2>3
  <2>4. CASE i \in 4..(m + 3)
    BY <1>3, <2>1, <2>4
  <2>5. CASE i = m + 4
    <3>1. i # 1 /\ i # 2 /\ i \notin 4..(m + 3)
      BY <1>3, <2>5
    <3> QED BY <1>3, <1>5, <2>1, <2>5, <3>1
  <2>6. CASE i = m + 5
    <3>1. i # 1 /\ i # 2 /\ i \notin 4..(m + 3) /\ i # m + 4
      BY <1>3, <2>6
    <3> QED BY <1>3, <1>5, <2>1, <2>6, <3>1
  <2> QED BY <2>1, <2>2, <2>3, <2>4, <2>5, <2>6
<1> HIDE DEF T
<1> QED BY <1>1, <1>2, <1>4, <1>5 DEF m

LEMMA CreateTaskIsWell ==
  ASSUME NEW p \in DOMAIN Operations, NEW r, IsRequest(p, r), r.op = "CreateTask"
  PROVE  Well(p, r)
<1> DEFINE m == Len(r.projects)
           L == 2 * m + 7
<1>1. Steps(r) = L
  BY DEF Steps
<1>2. m \in Nat /\ (\A i \in 1..m : r.projects[i] \in Nat) /\ p \in Typed /\ p \in Enforcing
  BY CheckedByDatabase DEF IsRequest
<1> SUFFICES ASSUME NEW n \in Nat, NEW n2 \in Nat, NEW h \in Row, NEW h2 \in Row
             PROVE WellFormed(p, r, Handler(r, n, h), Handler(r, n2, h2), L, n = n2, h = h2, n, h)
  BY <1>1 DEF Well
<1> DEFINE P == Handler(r, n, h)
           Q == Handler(r, n2, h2)
<1>3. P = CreateTask(r, n, h) /\ Q = CreateTask(r, n2, h2)
  BY DEF Handler
<1>4. CreatesTask(P, r, n, m) /\ IsProgram(P, L) /\ CreatesTask(Q, r, n2, m)
  BY <1>3, CreateTaskStatements
<1>5. \A i \in 1..(m + 5) : P[i] = Q[i] \/ (i = 3 /\ h # h2)
  BY <1>2, <1>3, CreateTaskDepends
<1> HIDE DEF P, Q, m
<1>6. /\ \A i \in 1..L : \/ i \in 1..(m + 4) \/ i = m + 5 \/ i = m + 6 \/ i = L
                         \/ i - m - 6 \in 1..m /\ i = (i - m - 6) + m + 6
  BY <1>2
<1>7. P[3].do = Q[3].do
  BY <1>2, <1>3, CreateTaskDepends DEF m
<1>8. \A i \in 1..L : P[i].do = Q[i].do
  <2> SUFFICES ASSUME NEW i \in 1..L PROVE P[i].do = Q[i].do
    OBVIOUS
  <2>1. CASE i \in 1..(m + 5)
    BY <1>5, <1>7, <2>1
  <2>2. CASE i = m + 6 \/ i = L
    BY <1>4, <2>2 DEF CreatesTask
  <2>3. CASE i - m - 6 \in 1..m /\ i = (i - m - 6) + m + 6
    <3> DEFINE j == i - m - 6
    <3>1. j \in 1..m /\ i = j + m + 6 BY <2>3
    <3> HIDE DEF j
    <3> QED BY <1>4, <3>1 DEF CreatesTask
  <2> QED BY <1>2, <1>6, <2>1, <2>2, <2>3
(* Which statements are of which kind.                                     *)
<1>9. \A j \in 1..L :
        /\ P[j].do \notin {"update", "next"}
        /\ P[j].do = "mint" => j = m + 5
        /\ P[j].do = "read" => j = 2
        /\ P[j].do = "insert" => j >= m + 6
        /\ j >= m + 7 => \/ j = L
                         \/ /\ j - m - 6 \in 1..m /\ P[j].do = "insert" /\ P[j].cols = Blank
                            /\ P[j].key = Key("task_projects", n, r.projects[j - m - 6])
  <2> SUFFICES ASSUME NEW j \in 1..L
               PROVE /\ P[j].do \notin {"update", "next"}
                     /\ P[j].do = "mint" => j = m + 5
                     /\ P[j].do = "read" => j = 2
                     /\ P[j].do = "insert" => j >= m + 6
                     /\ j >= m + 7 =>
                          \/ j = L
                          \/ /\ j - m - 6 \in 1..m /\ P[j].do = "insert" /\ P[j].cols = Blank
                             /\ P[j].key = Key("task_projects", n, r.projects[j - m - 6])
    OBVIOUS
  <2>1. CASE j \in 1..(m + 4)
    BY <1>2, <1>4, <2>1 DEF CreatesTask
  <2>2. CASE j = m + 5 \/ j = m + 6 \/ j = L
    BY <1>2, <1>4, <2>2 DEF CreatesTask
  <2>3. CASE j - m - 6 \in 1..m /\ j = (j - m - 6) + m + 6
    <3> DEFINE i == j - m - 6
    <3>1. i \in 1..m /\ j = i + m + 6 BY <2>3
    <3>2. j >= m + 6 BY <1>2, <3>1
    <3> HIDE DEF i
    <3>3. /\ P[j].do = "insert" /\ P[j].cols = Blank
          /\ P[j].key = Key("task_projects", n, r.projects[i])
      BY <1>4, <3>1 DEF CreatesTask
    <3> QED BY <2>3, <3>2, <3>3 DEF i
  <2> QED BY <1>6, <2>1, <2>2, <2>3
<1>10. Stable(P, Q, L, n = n2, h = h2)
  <2>1. ASSUME h = h2, NEW i \in 1..L, NEW j \in 1..L, i <= j, P[j].do \in {"mint", "next"}
        PROVE P[i] = Q[i]
    <3>1. i \in 1..(m + 5) BY <1>2, <1>9, <2>1
    <3> QED BY <1>5, <2>1, <3>1
  <2>2. ASSUME NEW i \in 1..L, NEW j \in 1..L, i <= j, P[j].do = "read"
        PROVE P[i] = Q[i] /\ (i < j => P[i].do # "read")
    <3>1. j = 2 /\ i \in 1..(m + 5) /\ i # 3 BY <1>2, <1>9, <2>2
    <3> QED BY <1>5, <1>9, <2>2, <3>1
  <2> QED BY <1>8, <2>1, <2>2 DEF Stable
<1>11. Keyed(p, P, L) /\ Writing(p, r, P, L, h) /\ Referring(p, P, L)
  BY <1>2, <1>9 DEF Keyed, Writing, Referring
<1>12. Refusing(P, L)
  <2> SUFFICES ASSUME NEW i \in 1..L, NEW j \in 1..L, i < j, P[i].do = "insert", ~ Links(P[j])
               PROVE P[j].error = "failed" /\ (P[j].do \in {"stop", "find", "read"} => P[j].absent = "failed")
    BY DEF Refusing
  <2>1. j >= m + 7 BY <1>2, <1>9
  <2>2. j = L
    BY <1>9, <2>1 DEF Links, Key
  <2> QED BY <1>4, <2>2 DEF CreatesTask
<1>13. Linking(r, P, L, n)
  <2> SUFFICES ASSUME NEW j \in 1..L, Links(P[j])
               PROVE /\ P[j].key[2] = n
                     /\ \E i \in 1..(j - 1) : P[i].do = "mint"
                     /\ \A k \in References(P[j].key, P[j].cols) :
                          \E i \in 1..(j - 1) : P[i].do \in {"find", "insert"} /\ P[i].key = k
                     /\ \A i \in 1..(j - 1) :
                          P[i].do = "insert" /\ P[i].key = P[j].key => Twice(r.projects)
    BY DEF Linking
  <2> DEFINE l == j - m - 6
  <2>1. P[m + 6].do = "insert" /\ P[m + 6].key = Key("tasks", 0, n) /\ P[L].do = "find" /\ P[m + 5].do = "mint"
    BY <1>4 DEF CreatesTask
  <2>2. j >= m + 7
    BY <1>2, <1>9, <2>1 DEF Links, Key
  <2>3. l \in 1..m /\ P[j].key = Key("task_projects", n, r.projects[l])
    BY <1>9, <2>1, <2>2 DEF Links
  <2> HIDE DEF l
  <2>4. References(P[j].key, P[j].cols) = {Key("tasks", 0, n), Project(r.projects[l])}
    BY <2>3 DEF References, Key, Project
  <2>5. m + 5 \in 1..(j - 1) /\ m + 6 \in 1..(j - 1) /\ l + 3 \in 1..(j - 1)
    BY <1>2, <2>2, <2>3 DEF l
  <2>6. P[l + 3].do = "find" /\ P[l + 3].key = Project(r.projects[l])
    BY <1>4, <2>3 DEF CreatesTask
  <2>7. ASSUME NEW i \in 1..(j - 1), P[i].do = "insert", P[i].key = P[j].key
        PROVE Twice(r.projects)
    <3> DEFINE e == i - m - 6
    <3>1. i >= m + 7 /\ i \in 1..L /\ i # L
      BY <1>2, <1>9, <2>1, <2>3, <2>7 DEF Key
    <3>2. e \in 1..m /\ e # l /\ P[i].key = Key("task_projects", n, r.projects[e])
      BY <1>2, <1>9, <3>1 DEF l
    <3>3. r.projects[e] = r.projects[l]
      BY <2>3, <2>7, <3>2 DEF Key
    <3>4. DOMAIN r.projects = 1..m
      BY DEF IsRequest, m
    <3> QED BY <2>3, <3>2, <3>3, <3>4 DEF Twice
  <2>8. P[j].key[2] = n
    BY <2>3 DEF Key
  <2> QED BY <2>1, <2>4, <2>5, <2>6, <2>7, <2>8
<1> QED BY <1>4, <1>10, <1>11, <1>12, <1>13 DEF WellFormed, P, Q

LEMMA AllWell ==
  ASSUME NEW p \in Providers, NEW r \in Requests[p] PROVE Well(p, r)
<1>1. p \in DOMAIN Operations /\ IsRequest(p, r) /\ r.op \in Operations[p]
  BY ResourceAssumption DEF IsRequest
<1>2. r.op \in {"CreateTask", "UpdateTask", "CreateStoryForTask", "CreateContact",
                "UpdateConversation", "ReplyConversation", "createObject", "updateObject",
                "AddDeal", "updateItem", "createItem", "SendMail", "PostRecord", "PatchRecord",
                "PostListsIdMembers", "PostCampaignsIdActionsSend", "PostMessages"}
  BY <1>1 DEF Operations
<1> QED BY <1>1, <1>2, CreateTaskIsWell, UpdateTaskIsWell, CreateStoryForTaskIsWell,
     CreateContactIsWell, UpdateConversationIsWell, ReplyConversationIsWell, createObjectIsWell,
     updateObjectIsWell, AddDealIsWell, updateItemIsWell, createItemIsWell, SendMailIsWell,
     PostRecordIsWell, PatchRecordIsWell, PostListsIdMembersIsWell, SendCampaignIsWell,
     PostMessagesIsWell

LEMMA StepsType ==
  ASSUME NEW p, NEW r, IsRequest(p, r) PROVE Steps(r) \in Nat /\ Steps(r) >= 1
<1>1. Len(r.projects) \in Nat
  BY DEF IsRequest
<1> QED BY <1>1 DEF Steps

-----------------------------------------------------------------------------
(* The interleavings.  First the types, and where each call is.            *)

AtOK(c) ==
  /\ at[c] <= Steps(req[c]) + 1
  /\ outcome[c] = "none" => at[c] <= Steps(req[c])
  /\ outcome[c] = "ok" => at[c] = Steps(req[c]) + 1
  /\ at[c] = 0 => outcome[c] = "none" /\ made[c] = {}

Typing == TypeOK /\ \A c \in Calls : AtOK(c)

LEMMA ProgramType ==
  ASSUME Typing, NEW c \in Calls
  PROVE  /\ Steps(req[c]) \in Nat /\ Steps(req[c]) >= 1
         /\ DOMAIN Program(c) = 1..Steps(req[c])
         /\ \A i \in 1..Steps(req[c]) : IsStatement(Program(c)[i])
         /\ provider \in DOMAIN Operations /\ IsRequest(provider, req[c])
         /\ new[c] \in Nat /\ held[c].row \in Row /\ held[c].key \in Keys /\ at[c] \in Nat
         /\ Well(provider, req[c])
<1>1. /\ provider \in Providers /\ req[c] \in Requests[provider]
      /\ new[c] \in Nat /\ held[c].row \in Row /\ held[c].key \in Keys /\ at[c] \in Nat
  BY DEF Typing, TypeOK
<1>2. provider \in DOMAIN Operations /\ IsRequest(provider, req[c])
  BY <1>1, ResourceAssumption
<1>3. Well(provider, req[c])
  BY <1>1, AllWell
<1>4. WellFormed(provider, req[c], Program(c), Program(c), Steps(req[c]), new[c] = new[c],
                 held[c].row = held[c].row, new[c], held[c].row)
  BY <1>1, <1>3 DEF Well, Program
<1> QED BY <1>1, <1>2, <1>3, <1>4, StepsType DEF WellFormed, IsProgram

LEMMA CurrentType ==
  ASSUME Typing, NEW c \in Calls, outcome[c] = "none", at[c] > 0
  PROVE  /\ at[c] \in 1..Steps(req[c])
         /\ IsStatement(Current(c))
         /\ at[c] + 1 \in DOMAIN Program(c) <=> at[c] < Steps(req[c])
<1>1. at[c] \in 1..Steps(req[c])
  BY ProgramType DEF Typing, AtOK
<1> QED BY <1>1, ProgramType DEF Current

(* What every statement leaves as it is.                                   *)
Frame(c) ==
  /\ provider' = provider /\ req' = req
  /\ DOMAIN rows \subseteq DOMAIN rows'
  /\ \A d \in Calls \ {c} :
       /\ at'[d] = at[d] /\ new'[d] = new[d] /\ held'[d] = held[d] /\ outcome'[d] = outcome[d]
       /\ made'[d] = made[d] /\ cut'[d] = cut[d] /\ (behind[d] => behind'[d])

LEMMA StepFrame ==
  ASSUME TypeOK, NEW c \in Calls, Execute(c) PROVE Frame(c)
<1> USE DEF TypeOK, Frame, history
<1>1. CASE Begin(c)  BY <1>1 DEF Begin
<1>2. CASE Pass(c)  BY <1>2 DEF Pass, Advance
<1>3. CASE Stop(c)  BY <1>3 DEF Stop, Answer
<1>4. CASE FindRow(c)  BY <1>4 DEF FindRow, Advance, Answer
<1>5. CASE TakeId(c)  BY <1>5 DEF TakeId, Advance
<1>6. CASE CountId(c)  BY <1>6 DEF CountId, Advance
<1>7. CASE InsertRow(c)  BY <1>7 DEF InsertRow, Advance, Answer
<1>8. CASE UpdateRow(c)  BY <1>8 DEF UpdateRow, Advance, Answer
<1>9. CASE Fail(c)  BY <1>9 DEF Fail, Answer
<1> QED BY <1>1, <1>2, <1>3, <1>4, <1>5, <1>6, <1>7, <1>8, <1>9 DEF Execute

LEMMA TypingInit == ASSUME Init PROVE Typing
<1>1. TypeOK
  <2>1. IsTables(rows)
    BY ResourceAssumption DEF Init, Loaded
  <2>2. Absent \in [key : Keys, row : Row]
    BY BlankIsRow, KeyType DEF Absent, Tables
  <2> QED BY <2>1, <2>2 DEF Init, TypeOK
<1>2. ASSUME NEW c \in Calls PROVE AtOK(c)
  <2>1. Steps(req[c]) \in Nat
    <3>1. IsRequest(provider, req[c])
      BY ResourceAssumption DEF Init
    <3> QED BY <3>1, StepsType
  <2> QED BY <2>1 DEF Init, AtOK
<1> QED BY <1>1, <1>2 DEF Typing

LEMMA AdvanceTypes ==
  ASSUME Typing, NEW c \in Calls, outcome[c] = "none", at[c] > 0, Advance(c)
  PROVE  /\ at' \in [Calls -> Nat] /\ outcome' \in [Calls -> {"none", "ok", "refused", "failed"}]
         /\ at'[c] = at[c] + 1 /\ at[c] < Steps(req[c]) + 1
         /\ outcome'[c] = "none" => at'[c] <= Steps(req[c])
         /\ outcome'[c] = "ok" => at'[c] = Steps(req[c]) + 1
<1> USE CurrentType, ProgramType
<1>1. at \in [Calls -> Nat] /\ outcome \in [Calls -> {"none", "ok", "refused", "failed"}]
  BY DEF Typing, TypeOK
<1> QED BY <1>1 DEF Advance

LEMMA AnswerTypes ==
  ASSUME Typing, NEW c \in Calls, NEW result \in {"refused", "failed"}, Answer(c, result)
  PROVE  /\ at' = at /\ outcome' \in [Calls -> {"none", "ok", "refused", "failed"}]
         /\ outcome'[c] = result
  BY DEF Typing, TypeOK, Answer

(* The steps of a call that has begun and is not answered.                 *)
LEMMA ExecutesType ==
  ASSUME Typing, NEW c \in Calls, NEW kinds, Executes(c, kinds)
  PROVE  /\ outcome[c] = "none" /\ at[c] > 0 /\ Current(c).do \in kinds
         /\ at[c] \in 1..Steps(req[c]) /\ IsStatement(Current(c))
         /\ Current(c).key \in Keys /\ Partial(Current(c).cols)
         /\ Current(c).absent \in {"refused", "failed"} /\ Current(c).error \in {"refused", "failed"}
  BY CurrentType DEF Executes, IsStatement

LEMMA TypingStep == ASSUME Typing, NEW c \in Calls, Execute(c) PROVE Typing'
<1>1. Frame(c) /\ TypeOK
  BY StepFrame DEF Typing
<1>2. ASSUME NEW d \in Calls \ {c} PROVE AtOK(d)'
  BY <1>1 DEF Frame, Typing, AtOK
<1>3. SUFFICES TypeOK' /\ AtOK(c)'
  BY <1>2 DEF Typing
<1>4. Steps(req[c])' = Steps(req[c]) /\ Steps(req[c]) \in Nat /\ Steps(req[c]) >= 1 /\ at[c] \in Nat
  BY <1>1, ProgramType DEF Frame
<1>5. at[c] = 0 => outcome[c] = "none"
  BY DEF Typing, AtOK
<1> USE DEF history
<1>6. CASE Begin(c)
  <2>1. at' \in [Calls -> Nat] /\ at'[c] = 1
    BY <1>1, <1>6 DEF Begin, TypeOK
  <2> QED BY <1>1, <1>4, <1>5, <1>6, <2>1 DEF Begin, TypeOK, AtOK
<1>7. CASE Pass(c)
  <2>1. outcome[c] = "none" /\ at[c] > 0 /\ Advance(c)
    BY <1>7 DEF Pass, Executes
  <2> QED BY <1>1, <1>4, <1>7, <2>1, AdvanceTypes DEF Pass, TypeOK, AtOK
<1>8. CASE Stop(c)
  <2>1. outcome[c] = "none" /\ at[c] > 0 /\ Current(c).absent \in {"refused", "failed"}
    BY <1>8, ExecutesType DEF Stop
  <2>2. Answer(c, Current(c).absent)
    BY <1>8 DEF Stop
  <2>3. /\ at' = at /\ outcome' \in [Calls -> {"none", "ok", "refused", "failed"}]
        /\ outcome'[c] \in {"refused", "failed"}
    BY <2>1, <2>2, AnswerTypes
  <2> QED BY <1>1, <1>4, <1>8, <2>1, <2>3 DEF Stop, TypeOK, AtOK, Typing
<1>9. CASE FindRow(c)
  <2> DEFINE k == Current(c).key
  <2>1. outcome[c] = "none" /\ at[c] > 0 /\ Current(c).absent \in {"refused", "failed"} /\ k \in Keys
    BY <1>9, ExecutesType DEF FindRow
  <2>2. held' \in [Calls -> [key : Keys, row : Row]] /\ behind' \in [Calls -> BOOLEAN]
    <3>1. k \in DOMAIN rows => [key |-> k, row |-> rows[k]] \in [key : Keys, row : Row]
      BY <1>1, <2>1 DEF TypeOK, IsTables
    <3> QED BY <1>1, <1>9, <3>1 DEF FindRow, TypeOK
  <2>3. CASE Advance(c)
    BY <1>1, <1>4, <1>9, <2>1, <2>2, <2>3, AdvanceTypes DEF FindRow, TypeOK, AtOK
  <2>4. CASE Answer(c, Current(c).absent)
    <3>1. /\ at' = at /\ outcome' \in [Calls -> {"none", "ok", "refused", "failed"}]
          /\ outcome'[c] \in {"refused", "failed"}
      BY <2>1, <2>4, AnswerTypes
    <3> QED BY <1>1, <1>4, <1>9, <2>1, <2>2, <3>1 DEF FindRow, TypeOK, AtOK, Typing
  <2> QED BY <1>9, <2>3, <2>4 DEF FindRow
<1>10. CASE TakeId(c)
  <2>1. outcome[c] = "none" /\ at[c] > 0 /\ Advance(c)
    BY <1>10 DEF TakeId, Executes
  <2>2. new' \in [Calls -> Nat] /\ minted' \in Nat
    BY <1>1, <1>10, ResourceAssumption DEF TakeId, TypeOK
  <2> QED BY <1>1, <1>4, <1>10, <2>1, <2>2, AdvanceTypes DEF TakeId, TypeOK, AtOK
<1>11. CASE CountId(c)
  <2>1. outcome[c] = "none" /\ at[c] > 0 /\ Advance(c)
    BY <1>11 DEF CountId, Executes
  <2>2. new' \in [Calls -> Nat]
    <3> DEFINE ids == {k[3] : k \in {j \in DOMAIN rows : j[1] = Current(c).key[1]}}
    <3>1. \A k \in DOMAIN rows : k[3] \in Nat
      BY <1>1 DEF TypeOK, IsTables, Keys
    <3>2. ids \subseteq Nat
      BY <3>1
    <3> HIDE DEF ids
    <3>3. \A n \in {i + 1 : i \in ids \union {0}} : n \in Nat
      BY <3>2
    <3>4. PICK n \in {i + 1 : i \in ids \union {0}} : new' = [new EXCEPT ![c] = n]
      BY <1>11 DEF CountId, ids
    <3> QED BY <1>1, <3>3, <3>4 DEF TypeOK
  <2> QED BY <1>1, <1>4, <1>11, <2>1, <2>2, AdvanceTypes DEF CountId, TypeOK, AtOK
<1>12. CASE InsertRow(c)
  <2> DEFINE k == Current(c).key
             row == Current(c).cols
  <2>1. /\ outcome[c] = "none" /\ at[c] > 0 /\ Current(c).error \in {"refused", "failed"}
        /\ k \in Keys /\ IsStatement(Current(c)) /\ Current(c).do = "insert"
    BY <1>12, ExecutesType DEF InsertRow
  <2>2. row \in Row
    BY <2>1 DEF IsStatement
  <2>3. IsTables(rows)' /\ made' \in [Calls -> SUBSET Keys]
    <3>1. \/ rows' = rows /\ made' = made
          \/ /\ rows' = [j \in DOMAIN rows \union {k} |-> IF j = k THEN row ELSE rows[j]]
             /\ made' = [made EXCEPT ![c] = @ \union {k}]
      BY <1>12 DEF InsertRow
    <3> HIDE DEF k, row
    <3>2. IsTables(rows) /\ k \in Keys /\ made \in [Calls -> SUBSET Keys]
      BY <1>1, <2>1 DEF TypeOK
    <3>3. made' \in [Calls -> SUBSET Keys]
      BY <3>1, <3>2
    <3>4. IsTables(rows')
      BY <2>2, <3>1, <3>2 DEF IsTables
    <3> QED BY <3>3, <3>4 DEF IsTables
  <2>4. CASE Advance(c)
    BY <1>1, <1>4, <1>12, <2>1, <2>3, <2>4, AdvanceTypes DEF InsertRow, TypeOK, AtOK
  <2>5. CASE Answer(c, Current(c).error)
    <3>1. /\ at' = at /\ outcome' \in [Calls -> {"none", "ok", "refused", "failed"}]
          /\ outcome'[c] \in {"refused", "failed"}
      BY <2>1, <2>5, AnswerTypes
    <3> QED BY <1>1, <1>4, <1>12, <2>1, <2>3, <3>1 DEF InsertRow, TypeOK, AtOK, Typing
  <2> QED BY <1>12, <2>4, <2>5 DEF InsertRow
<1>13. CASE UpdateRow(c)
  <2> DEFINE k == Current(c).key
             row == Over(Current(c).cols, rows[k])
  <2>1. /\ outcome[c] = "none" /\ at[c] > 0 /\ Current(c).error \in {"refused", "failed"}
        /\ Partial(Current(c).cols)
    BY <1>13, ExecutesType DEF UpdateRow
  <2>2. row \in Row
    <3>1. rows[k] \in Row
      BY <1>1, <1>13 DEF UpdateRow, TypeOK, IsTables
    <3> QED BY <2>1, <3>1, OverIsRow
  <2> HIDE DEF row
  <2>3. rows' = rows \/ rows' = [rows EXCEPT ![k] = row]
    BY <1>13 DEF UpdateRow, row
  <2>4. IsTables(rows)' /\ behind' \in [Calls -> BOOLEAN]
    <3>1. IsTables(rows)'
      BY <1>1, <2>2, <2>3 DEF TypeOK, IsTables
    <3>2. behind' = behind \/ behind' = [d \in Calls |-> behind[d] \/ (d # c /\ held[d].key = k)]
      BY <1>13 DEF UpdateRow
    <3> QED BY <1>1, <3>1, <3>2 DEF TypeOK
  <2>5. CASE Advance(c)
    BY <1>1, <1>4, <1>13, <2>1, <2>4, <2>5, AdvanceTypes DEF UpdateRow, TypeOK, AtOK
  <2>6. CASE Answer(c, Current(c).error)
    <3>1. /\ at' = at /\ outcome' \in [Calls -> {"none", "ok", "refused", "failed"}]
          /\ outcome'[c] \in {"refused", "failed"}
      BY <2>1, <2>6, AnswerTypes
    <3> QED BY <1>1, <1>4, <1>13, <2>1, <2>4, <3>1 DEF UpdateRow, TypeOK, AtOK, Typing
  <2> QED BY <1>13, <2>5, <2>6 DEF UpdateRow
<1>14. CASE Fail(c)
  <2>1. outcome[c] = "none" /\ at[c] > 0 /\ Current(c).error \in {"refused", "failed"}
    BY <1>14, ExecutesType DEF Fail
  <2>2. Answer(c, Current(c).error)
    BY <1>14 DEF Fail
  <2>3. /\ at' = at /\ outcome' \in [Calls -> {"none", "ok", "refused", "failed"}]
        /\ outcome'[c] \in {"refused", "failed"}
    BY <2>1, <2>2, AnswerTypes
  <2>4. cut' \in [Calls -> BOOLEAN]
    BY <1>1, <1>14 DEF Fail, TypeOK
  <2> QED BY <1>1, <1>4, <1>14, <2>1, <2>3, <2>4 DEF Fail, TypeOK, AtOK, Typing
<1> QED BY <1>6, <1>7, <1>8, <1>9, <1>10, <1>11, <1>12, <1>13, <1>14 DEF Execute

(* The variables keep their types.                                         *)
THEOREM TypeCorrect == Spec => []TypeOK
<1>1. Init => Typing
  BY TypingInit
<1>2. Typing /\ [Next]_vars => Typing'
  <2>1. ASSUME Typing, Next PROVE Typing'
    BY <2>1, TypingStep DEF Next
  <2>2. ASSUME Typing, UNCHANGED vars PROVE Typing'
    BY <2>2 DEF Typing, TypeOK, AtOK, vars, call, history
  <2> QED BY <2>1, <2>2
<1>3. Typing => TypeOK
  BY DEF Typing
<1> QED BY <1>1, <1>2, <1>3, PTL DEF Spec

-----------------------------------------------------------------------------
(* What a step of c does, whichever it is: it leaves the tables and what c *)
(* holds, or it advances past a statement that did what it says.           *)

Leaves(c) ==
  /\ rows' = rows /\ made' = made /\ minted' = minted
  /\ new' = new /\ held' = held /\ behind' = behind

Finds(c) ==
  /\ Current(c).do = "find" /\ Current(c).key \in DOMAIN rows
  /\ Leaves(c)

Reads(c) ==
  LET k == Current(c).key
  IN /\ Current(c).do = "read" /\ k \in DOMAIN rows
     /\ held' = [held EXCEPT ![c] = [key |-> k, row |-> rows[k]]]
     /\ behind' = [behind EXCEPT ![c] = FALSE]
     /\ rows' = rows /\ made' = made /\ minted' = minted /\ new' = new

Mints(c) ==
  /\ Current(c).do = "mint"
  /\ new' = [new EXCEPT ![c] = FirstId + minted] /\ minted' = minted + 1
  /\ rows' = rows /\ made' = made /\ held' = held /\ behind' = behind

Counts(c) ==
  /\ Current(c).do = "next"
  /\ \A d \in Calls \ {c} : new'[d] = new[d]
  /\ rows' = rows /\ made' = made /\ held' = held /\ behind' = behind /\ minted' = minted

Stores(c) ==
  LET k == Current(c).key
  IN /\ Current(c).do = "insert" /\ k \notin DOMAIN rows /\ Enforced(k, Current(c).cols)
     /\ rows' = [j \in DOMAIN rows \union {k} |-> IF j = k THEN Current(c).cols ELSE rows[j]]
     /\ made' = [made EXCEPT ![c] = @ \union {k}]
     /\ minted' = minted /\ new' = new /\ held' = held /\ behind' = behind

Writes(c) ==
  LET k == Current(c).key
      row == Over(Current(c).cols, rows[k])
  IN /\ Current(c).do = "update" /\ k \in DOMAIN rows /\ Enforced(k, row)
     /\ rows' = [rows EXCEPT ![k] = row]
     /\ behind' = [d \in Calls |-> behind[d] \/ (d # c /\ held[d].key = k)]
     /\ made' = made /\ minted' = minted /\ new' = new /\ held' = held

Passes(c) == Current(c).do \in {"pass", "touch"} /\ Leaves(c)

Advances(c) ==
  /\ outcome[c] = "none" /\ at[c] \in 1..Steps(req[c]) /\ at'[c] = at[c] + 1
  /\ outcome'[c] \in {"none", "ok"}
  /\ cut' = cut
  /\ \/ Passes(c) \/ Finds(c) \/ Reads(c) \/ Mints(c) \/ Counts(c) \/ Stores(c) \/ Writes(c)

Begins(c) == at[c] = 0 /\ at'[c] = 1 /\ outcome' = outcome /\ cut' = cut /\ Leaves(c)

(* The ways a request is refused or fails.                                 *)
Ends(c) ==
  LET s == Current(c)
  IN /\ outcome[c] = "none" /\ at[c] \in 1..Steps(req[c]) /\ at' = at
     /\ Leaves(c)
     /\ \/ cut' = [cut EXCEPT ![c] = TRUE] /\ outcome'[c] = s.error
        \/ /\ cut' = cut /\ s.do \in {"stop", "find", "read"} /\ outcome'[c] = s.absent
        \/ /\ cut' = cut /\ s.do = "insert" /\ outcome'[c] = s.error
           /\ s.key \in DOMAIN rows \/ ~ Enforced(s.key, s.cols)
        \/ /\ cut' = cut /\ s.do = "update" /\ outcome'[c] = s.error

LEMMA Effect ==
  ASSUME Typing, NEW c \in Calls, Execute(c)
  PROVE  Begins(c) \/ Advances(c) \/ Ends(c)
<1> USE DEF history, Leaves
<1>1. TypeOK
  BY DEF Typing
<1>2. \A kinds : Executes(c, kinds) =>
        outcome[c] = "none" /\ at[c] \in 1..Steps(req[c]) /\ at[c] > 0
  BY ExecutesType
<1>3. Advance(c) => at'[c] = at[c] + 1 /\ (outcome[c] = "none" => outcome'[c] \in {"none", "ok"})
  BY <1>1 DEF Advance, TypeOK
<1>4. \A result : Answer(c, result) => at' = at /\ outcome'[c] = result
  BY <1>1 DEF Answer, TypeOK
<1>5. CASE Begin(c)
  <2>1. at'[c] = 1
    BY <1>1, <1>5 DEF Begin, TypeOK
  <2> QED BY <1>5, <2>1 DEF Begin, Begins
<1>6. CASE Pass(c)
  <2>1. Executes(c, {"pass", "touch"}) /\ Advance(c)
    BY <1>6 DEF Pass
  <2>2. Passes(c) /\ cut' = cut
    BY <1>6 DEF Pass, Executes, Passes
  <2> QED BY <1>2, <1>3, <2>1, <2>2 DEF Advances
<1>7. CASE Stop(c)
  <2>1. Executes(c, {"stop"}) /\ Answer(c, Current(c).absent)
    BY <1>7 DEF Stop
  <2>2. Current(c).do = "stop"
    BY <2>1 DEF Executes
  <2> QED BY <1>2, <1>4, <1>7, <2>1, <2>2 DEF Stop, Ends
<1>8. CASE FindRow(c)
  <2>1. Executes(c, {"find", "read"})
    BY <1>8 DEF FindRow
  <2>2. Current(c).do \in {"find", "read"}
    BY <2>1 DEF Executes
  <2>3. CASE Current(c).key \in DOMAIN rows
    <3>1. Finds(c) \/ Reads(c)
      BY <1>8, <2>2, <2>3 DEF FindRow, Finds, Reads
    <3>2. Advance(c) /\ cut' = cut
      BY <1>8, <2>3 DEF FindRow
    <3> QED BY <1>2, <1>3, <2>1, <3>1, <3>2 DEF Advances
  <2>4. CASE Current(c).key \notin DOMAIN rows
    <3>1. Answer(c, Current(c).absent) /\ Leaves(c) /\ cut' = cut
      BY <1>8, <2>4 DEF FindRow
    <3> QED BY <1>2, <1>4, <2>1, <2>2, <3>1 DEF Ends
  <2> QED BY <2>3, <2>4
<1>9. CASE TakeId(c)
  <2>1. Executes(c, {"mint"}) /\ Advance(c)
    BY <1>9 DEF TakeId
  <2>2. Mints(c) /\ cut' = cut
    BY <1>9 DEF TakeId, Executes, Mints
  <2> QED BY <1>2, <1>3, <2>1, <2>2 DEF Advances
<1>10. CASE CountId(c)
  <2>1. Executes(c, {"next"}) /\ Advance(c)
    BY <1>10 DEF CountId
  <2>2. Counts(c) /\ cut' = cut
    BY <1>1, <1>10 DEF CountId, Executes, Counts, TypeOK
  <2> QED BY <1>2, <1>3, <2>1, <2>2 DEF Advances
<1>11. CASE InsertRow(c)
  <2>1. Executes(c, {"insert"})
    BY <1>11 DEF InsertRow
  <2>2. Current(c).do = "insert"
    BY <2>1 DEF Executes
  <2>3. CASE Current(c).key \notin DOMAIN rows /\ Enforced(Current(c).key, Current(c).cols)
    <3>1. Stores(c) /\ cut' = cut /\ Advance(c)
      BY <1>11, <2>2, <2>3 DEF InsertRow, Stores
    <3> QED BY <1>2, <1>3, <2>1, <3>1 DEF Advances
  <2>4. CASE ~(Current(c).key \notin DOMAIN rows /\ Enforced(Current(c).key, Current(c).cols))
    <3>1. Leaves(c) /\ cut' = cut /\ Answer(c, Current(c).error)
      BY <1>11, <2>4 DEF InsertRow
    <3> QED BY <1>2, <1>4, <2>1, <2>2, <2>4, <3>1 DEF Ends
  <2> QED BY <2>3, <2>4
<1>12. CASE UpdateRow(c)
  <2>1. Executes(c, {"update"})
    BY <1>12 DEF UpdateRow
  <2>2. Current(c).do = "update"
    BY <2>1 DEF Executes
  <2>3. CASE Enforced(Current(c).key, Over(Current(c).cols, rows[Current(c).key]))
    <3>1. Writes(c) /\ cut' = cut /\ Advance(c)
      BY <1>12, <2>2, <2>3 DEF UpdateRow, Writes
    <3> QED BY <1>2, <1>3, <2>1, <3>1 DEF Advances
  <2>4. CASE ~ Enforced(Current(c).key, Over(Current(c).cols, rows[Current(c).key]))
    <3>1. Leaves(c) /\ cut' = cut /\ Answer(c, Current(c).error)
      BY <1>12, <2>4 DEF UpdateRow
    <3> QED BY <1>2, <1>4, <2>1, <2>2, <3>1 DEF Ends
  <2> QED BY <2>3, <2>4
<1>13. CASE Fail(c)
  <2>1. Executes(c, {"find", "read", "next", "insert", "update", "touch"})
        /\ Answer(c, Current(c).error)
    BY <1>13 DEF Fail
  <2> QED BY <1>2, <1>4, <1>13, <2>1 DEF Fail, Ends
<1> QED BY <1>5, <1>6, <1>7, <1>8, <1>9, <1>10, <1>11, <1>12, <1>13 DEF Execute

(* What was executed stays what it was.                                    *)
LEMMA ProgramStays ==
  ASSUME Typing, NEW c \in Calls, Execute(c)
  PROVE  /\ \A d \in Calls : Steps(req[d])' = Steps(req[d])
         /\ \A d \in Calls \ {c} : Program(d)' = Program(d)
         /\ \A i \in 1..Steps(req[c]) : i <= at[c] => Program(c)'[i] = Program(c)[i]
         /\ \A i \in 1..Steps(req[c]) : Program(c)'[i].do = Program(c)[i].do
<1>1. Frame(c) /\ Typing'
  BY StepFrame, TypingStep DEF Typing
<1>2. \A d \in Calls \ {c} : Program(d)' = Program(d)
  BY <1>1 DEF Frame, Program
<1> DEFINE L == Steps(req[c])
           Q == Program(c)'
<1>3. Q = Handler(req[c], new'[c], held'[c].row)
  BY <1>1 DEF Program, Frame
<1>4. new'[c] \in Nat /\ held'[c].row \in Row
  BY <1>1 DEF Typing, TypeOK
<1>5. Well(provider, req[c]) /\ new[c] \in Nat /\ held[c].row \in Row /\ L \in Nat /\ at[c] \in Nat
  BY ProgramType
<1>6. WellFormed(provider, req[c], Program(c), Q, L, new[c] = new'[c], held[c].row = held'[c].row,
                 new[c], held[c].row)
  BY <1>3, <1>4, <1>5 DEF Well, Program
<1>7. Stable(Program(c), Q, L, new[c] = new'[c], held[c].row = held'[c].row)
  BY <1>6 DEF WellFormed
<1> HIDE DEF Q, L
<1>8. \A i \in 1..L : Q[i].do = Program(c)[i].do
  BY <1>7 DEF Stable
<1>9. \A i \in 1..L : i <= at[c] => Q[i] = Program(c)[i]
  <2>1. CASE new' = new /\ held' = held
    <3>1. Q = Program(c)
      BY <1>3, <2>1 DEF Program
    <3> QED BY <3>1
  <2>2. CASE Advances(c) /\ (Mints(c) \/ Counts(c))
    <3>1. held' = held /\ at[c] \in 1..L /\ Program(c)[at[c]].do \in {"mint", "next"}
      BY <2>2 DEF Mints, Counts, Current, Advances, L
    <3> QED BY <1>7, <3>1 DEF Stable
  <2>3. CASE Advances(c) /\ Reads(c)
    <3>1. new' = new /\ at[c] \in 1..L /\ Program(c)[at[c]].do = "read"
      BY <2>3 DEF Reads, Current, Advances, L
    <3> QED BY <1>7, <3>1 DEF Stable
  <2>4. \/ new' = new /\ held' = held
        \/ Advances(c) /\ (Mints(c) \/ Counts(c))
        \/ Advances(c) /\ Reads(c)
    <3>1. CASE Begins(c) \/ Ends(c)
      BY <3>1 DEF Begins, Ends, Leaves
    <3>2. CASE Advances(c)
      <4>1. Passes(c) \/ Finds(c) \/ Stores(c) \/ Writes(c) => new' = new /\ held' = held
        BY DEF Passes, Finds, Stores, Writes, Leaves
      <4>2. \/ Passes(c) \/ Finds(c) \/ Reads(c) \/ Mints(c) \/ Counts(c) \/ Stores(c) \/ Writes(c)
        BY <3>2 DEF Advances
      <4> QED BY <3>2, <4>1, <4>2
    <3> QED BY <3>1, <3>2, Effect
  <2> QED BY <2>1, <2>2, <2>3, <2>4
<1>10. \A d \in Calls : Steps(req[d])' = Steps(req[d])
  BY <1>1 DEF Frame
<1> QED BY <1>2, <1>8, <1>9, <1>10 DEF Q, L

-----------------------------------------------------------------------------
(* The inductive invariant.                                                *)

Past(c) == {i \in 1..Steps(req[c]) : i < at[c]}

(* What was found or stored is there.                                      *)
Passed(c) ==
  \A i \in Past(c) :
    /\ Program(c)[i].do \in {"find", "read", "insert"} => Program(c)[i].key \in DOMAIN rows
    /\ Program(c)[i].do = "insert" => Program(c)[i].key \in made[c]

Made(c) ==
  \A k \in made[c] :
    /\ k \in DOMAIN rows
    /\ \E i \in Past(c) : Program(c)[i].do = "insert" /\ Program(c)[i].key = k

(* What was read is held, and is what the row is unless it was written.    *)
Holding(c) ==
  /\ provider \notin Typed => held[c].row["id"] = held[c].key[3]
  /\ \A i \in Past(c) : Program(c)[i].do = "read" =>
       /\ held[c].key = Program(c)[i].key
       /\ \/ held[c].row = rows[held[c].key]
          \/ behind[c]
          \/ \E j \in Past(c) : Program(c)[j].do = "update"

Apart == \A c, d \in Calls : c # d => made[c] \intersect made[d] = {}

(* No two calls are given one id by ids.Next.                              *)
Given ==
  provider \in Enforcing =>
    /\ \A c \in Calls : new[c] = 0 \/ (FirstId <= new[c] /\ new[c] < FirstId + minted)
    /\ \A c, d \in Calls : c # d /\ new[c] = new[d] => new[c] = 0
    /\ \A c \in Calls : \A i \in Past(c) : Program(c)[i].do = "mint" => new[c] # 0

(* A link of a task that was not loaded was stored by a call.              *)
LinksMade ==
  \A k \in DOMAIN rows : k[1] = "task_projects" =>
    k[2] < FirstId \/ \E c \in Calls : k \in made[c]

Calling == \A c \in Calls : Passed(c) /\ Made(c) /\ Holding(c)

Inv ==
  /\ Typing /\ Calling /\ Apart /\ Given /\ LinksMade
  /\ KeyedByBody /\ ReferencesExist /\ RefusedLeavesNothing

LEMMA InvInit == ASSUME Init PROVE Inv
<1>1. Typing
  BY TypingInit
<1>2. Loaded(provider, rows)
  BY ResourceAssumption DEF Init
<1>3. \A c \in Calls : Past(c) = {}
  <2> SUFFICES ASSUME NEW c \in Calls PROVE Past(c) = {}
    OBVIOUS
  <2>1. Steps(req[c]) \in Nat /\ at[c] = 0
    BY <1>1, ProgramType DEF Init
  <2> QED BY <2>1 DEF Past
<1>4. Calling
  BY <1>3 DEF Init, Calling, Passed, Made, Holding, Absent, Blank, Key, Columns
<1>5. Apart /\ Given /\ RefusedLeavesNothing
  BY <1>3 DEF Init, Apart, Given, RefusedLeavesNothing
<1>6. LinksMade /\ KeyedByBody /\ ReferencesExist
  BY <1>2 DEF Init, Loaded, LinksMade, KeyedByBody, ReferencesExist
<1> QED BY <1>1, <1>4, <1>5, <1>6 DEF Inv

(* What a step of c adds to what it has executed.                          *)
LEMMA PastGrows ==
  ASSUME Typing, NEW c \in Calls, Execute(c)
  PROVE  /\ \A d \in Calls \ {c} : Past(d)' = Past(d)
         /\ Past(c) \subseteq Past(c)'
         /\ \A i \in Past(c)' : i \in 1..Steps(req[c]) /\ Program(c)'[i] = Program(c)[i]
         /\ \A i \in Past(c)' :
              \/ i \in Past(c)
              \/ i = at[c] /\ Program(c)[i] = Current(c) /\ Advances(c)
         /\ Advances(c) => at[c] \in Past(c)' /\ at[c] \notin Past(c)
         /\ ~ Advances(c) => Leaves(c)
         /\ \A d \in Calls : made[d] \subseteq made'[d]
<1>1. Frame(c) /\ at[c] \in Nat /\ Steps(req[c]) \in Nat
  BY StepFrame, ProgramType DEF Typing
<1>2. \A d \in Calls : Steps(req[d])' = Steps(req[d])
  BY ProgramStays
<1>3. \A d \in Calls \ {c} : Past(d)' = Past(d)
  BY <1>1, <1>2 DEF Frame, Past
<1>4. /\ Begins(c) => at'[c] = at[c] + 1 /\ at[c] = 0 /\ Leaves(c)
      /\ Ends(c) => at'[c] = at[c] /\ Leaves(c)
      /\ Advances(c) => at'[c] = at[c] + 1 /\ at[c] \in 1..Steps(req[c])
  BY DEF Begins, Ends, Advances
<1>5. \A i \in Past(c)' : i \in 1..Steps(req[c]) /\ i <= at[c]
  BY <1>1, <1>2, <1>4, Effect DEF Past
<1>6. \A i \in Past(c)' : Program(c)'[i] = Program(c)[i]
  BY <1>5, ProgramStays
<1>7. \A i \in Past(c)' :
         \/ i \in Past(c)
         \/ i = at[c] /\ Program(c)[i] = Current(c) /\ Advances(c)
  BY <1>1, <1>2, <1>4, Effect DEF Past, Current
<1>8. Past(c) \subseteq Past(c)' /\ (Advances(c) => at[c] \in Past(c)' /\ at[c] \notin Past(c))
  BY <1>1, <1>2, <1>4, Effect DEF Past
<1>9. ~ Advances(c) => Leaves(c)
  BY <1>4, Effect
<1>10. made[c] \subseteq made'[c]
  <2>1. made \in [Calls -> SUBSET Keys]
    BY DEF Typing, TypeOK
  <2>2. Advances(c) => made' = made \/ Stores(c)
    BY DEF Advances, Passes, Leaves, Finds, Reads, Mints, Counts, Writes
  <2> QED BY <1>9, <2>1, <2>2 DEF Leaves, Stores
<1>11. \A d \in Calls : made[d] \subseteq made'[d]
  BY <1>1, <1>10 DEF Frame
<1> QED BY <1>3, <1>5, <1>6, <1>7, <1>8, <1>9, <1>11

LEMMA PassedStep ==
  ASSUME Typing, Calling, NEW c \in Calls, Execute(c)
  PROVE  \A d \in Calls : Passed(d)'
<1>1. Frame(c)
  BY StepFrame DEF Typing
<1>2. ASSUME NEW d \in Calls \ {c} PROVE Passed(d)'
  <2>1. Past(d)' = Past(d) /\ Program(d)' = Program(d) /\ made[d] \subseteq made'[d]
    BY PastGrows, ProgramStays
  <2>2. Passed(d)
    BY DEF Calling
  <2> QED BY <1>1, <2>1, <2>2 DEF Frame, Passed
<1>3. Passed(c)'
  <2> SUFFICES ASSUME NEW i \in Past(c)'
               PROVE /\ Program(c)'[i].do \in {"find", "read", "insert"} =>
                          Program(c)'[i].key \in DOMAIN rows'
                     /\ Program(c)'[i].do = "insert" => Program(c)'[i].key \in made'[c]
    BY DEF Passed
  <2>1. Program(c)'[i] = Program(c)[i] /\ made[c] \subseteq made'[c]
    BY PastGrows
  <2>2. CASE i \in Past(c)
    BY <1>1, <2>1, <2>2 DEF Calling, Passed, Frame
  <2>3. CASE i = at[c] /\ Program(c)[i] = Current(c) /\ Advances(c)
    <3>1. made \in [Calls -> SUBSET Keys]
      BY DEF Typing, TypeOK
    <3>2. Current(c).do \in {"find", "read"} => Current(c).key \in DOMAIN rows
      BY <2>3 DEF Advances, Passes, Finds, Reads, Mints, Counts, Stores, Writes
    <3>3. Current(c).do = "insert" => Stores(c)
      BY <2>3 DEF Advances, Passes, Finds, Reads, Mints, Counts, Writes
    <3> QED BY <1>1, <2>1, <2>3, <3>1, <3>2, <3>3 DEF Frame, Stores
  <2> QED BY <2>2, <2>3, PastGrows
<1> QED BY <1>2, <1>3

LEMMA MadeStep ==
  ASSUME Typing, Calling, NEW c \in Calls, Execute(c)
  PROVE  \A d \in Calls : Made(d)'
<1>1. Frame(c) /\ made \in [Calls -> SUBSET Keys]
  BY StepFrame DEF Typing, TypeOK
<1>2. ASSUME NEW d \in Calls \ {c} PROVE Made(d)'
  <2>1. Past(d)' = Past(d) /\ Program(d)' = Program(d)
    BY PastGrows, ProgramStays
  <2> QED BY <1>1, <2>1 DEF Frame, Calling, Made
<1>3. Made(c)'
  <2> SUFFICES ASSUME NEW k \in made'[c]
               PROVE /\ k \in DOMAIN rows'
                     /\ \E i \in Past(c)' : Program(c)'[i].do = "insert" /\ Program(c)'[i].key = k
    BY DEF Made
  <2>1. CASE k \in made[c]
    <3>1. PICK i \in Past(c) : Program(c)[i].do = "insert" /\ Program(c)[i].key = k
      BY <2>1 DEF Calling, Made
    <3>2. i \in Past(c)' /\ Program(c)'[i] = Program(c)[i]
      BY PastGrows
    <3> QED BY <1>1, <2>1, <3>1, <3>2 DEF Frame, Calling, Made
  <2>2. CASE k \notin made[c]
    <3>1. Advances(c) /\ Stores(c)
      BY <2>2, PastGrows DEF Advances, Passes, Leaves, Finds, Reads, Mints, Counts, Writes
    <3>2. k = Current(c).key /\ k \in DOMAIN rows' /\ Current(c).do = "insert"
      BY <1>1, <2>2, <3>1 DEF Stores
    <3>3. at[c] \in Past(c)' /\ Program(c)'[at[c]] = Current(c)
      BY <3>1, PastGrows DEF Current
    <3> QED BY <3>2, <3>3
  <2> QED BY <2>1, <2>2
<1> QED BY <1>2, <1>3

LEMMA HoldingStep ==
  ASSUME Typing, Calling, KeyedByBody, NEW c \in Calls, Execute(c)
  PROVE  \A d \in Calls : Holding(d)'
<1>1. Frame(c) /\ behind \in [Calls -> BOOLEAN] /\ IsTables(rows)
  BY StepFrame DEF Typing, TypeOK
<1>2. ASSUME NEW d \in Calls \ {c} PROVE Holding(d)'
  <2>1. /\ Past(d)' = Past(d) /\ Program(d)' = Program(d)
        /\ held'[d] = held[d] /\ (behind[d] => behind'[d]) /\ provider' = provider
    BY <1>1, PastGrows, ProgramStays DEF Frame
  <2>2. \A k \in DOMAIN rows : rows'[k] = rows[k] \/ (k = held[d].key => behind'[d])
    <3>1. CASE Advances(c) /\ Writes(c)
      BY <1>1, <3>1 DEF Writes
    <3>2. CASE Advances(c) /\ Stores(c)
      BY <3>2 DEF Stores
    <3>3. CASE rows' = rows
      BY <3>3
    <3>4. (Advances(c) /\ Writes(c)) \/ (Advances(c) /\ Stores(c)) \/ rows' = rows
      BY PastGrows DEF Advances, Passes, Leaves, Finds, Reads, Mints, Counts
    <3> QED BY <3>1, <3>2, <3>3, <3>4
  <2>3. Holding(d) /\ Passed(d)
    BY DEF Calling
  <2>4. \A i \in Past(d) : Program(d)[i].do = "read" => held[d].key \in DOMAIN rows
    BY <2>3 DEF Holding, Passed
  <2> QED BY <2>1, <2>2, <2>3, <2>4 DEF Holding
<1>3. Holding(c)'
  <2>1. Holding(c) /\ Passed(c)
    BY DEF Calling
  <2>2. provider' = provider /\ \A i \in Past(c)' : Program(c)'[i] = Program(c)[i]
    BY <1>1, PastGrows DEF Frame
  <2>3. CASE Advances(c) /\ Reads(c)
    <3> DEFINE k == Current(c).key
    <3>1. k \in DOMAIN rows /\ rows'[k] = rows[k]
          /\ held'[c] = [key |-> k, row |-> rows[k]]
      BY <2>3 DEF Reads, Typing, TypeOK
    <3>2. provider \notin Typed => held'[c].row["id"] = held'[c].key[3]
      BY <3>1 DEF KeyedByBody
    <3>3. ASSUME NEW i \in Past(c)', Program(c)'[i].do = "read"
          PROVE i = at[c]
      <4>1. Current(c).do = "read" /\ Current(c) = Program(c)[at[c]] /\ at[c] \in 1..Steps(req[c])
        BY <2>3 DEF Reads, Current, Advances
      <4>2. WellFormed(provider, req[c], Program(c), Program(c), Steps(req[c]), new[c] = new[c],
                       held[c].row = held[c].row, new[c], held[c].row)
        BY ProgramType DEF Well, Program
      <4>3. \A j \in 1..Steps(req[c]) : j < at[c] => Program(c)[j].do # "read"
        BY <4>1, <4>2, ProgramType DEF WellFormed, Stable
      <4> QED BY <2>2, <3>3, <4>3, PastGrows DEF Past
    <3>4. \A i \in Past(c)' : Program(c)'[i].do = "read" =>
             held'[c].key = Program(c)'[i].key /\ held'[c].row = rows'[held'[c].key]
      BY <2>2, <3>1, <3>3 DEF Current
    <3> QED BY <2>2, <3>2, <3>4 DEF Holding
  <2>4. CASE ~(Advances(c) /\ Reads(c))
    <3>1. held'[c] = held[c] /\ (behind[c] => behind'[c])
          /\ \A i \in Past(c)' : Program(c)'[i].do = "read" => i \in Past(c)
      <4>1. held' = held
        BY <2>4, PastGrows DEF Advances, Passes, Leaves, Finds, Mints, Counts, Stores, Writes
      <4>2. behind' = behind \/ (Advances(c) /\ Writes(c))
        BY <2>4, PastGrows DEF Advances, Passes, Leaves, Finds, Mints, Counts, Stores
      <4>3. behind[c] => behind'[c]
        BY <1>1, <4>2 DEF Writes
      <4>4. Advances(c) => Current(c).do # "read"
        BY <2>4 DEF Advances, Passes, Finds, Mints, Counts, Stores, Writes
      <4> QED BY <2>2, <4>1, <4>3, <4>4, PastGrows
    <3>2. \/ Advances(c) /\ Writes(c)
          \/ \A k \in DOMAIN rows : rows'[k] = rows[k]
      <4>1. (Advances(c) /\ Writes(c)) \/ (Advances(c) /\ Stores(c)) \/ rows' = rows
        BY PastGrows DEF Advances, Passes, Leaves, Finds, Reads, Mints, Counts
      <4> QED BY <4>1 DEF Stores
    <3>3. Advances(c) /\ Writes(c) => \E j \in Past(c)' : Program(c)'[j].do = "update"
      BY <2>2, PastGrows DEF Writes, Current
    <3>4. Past(c) \subseteq Past(c)'
      BY PastGrows
    <3>5. \A i \in Past(c) : Program(c)[i].do = "read" => held[c].key \in DOMAIN rows
      BY <2>1 DEF Holding, Passed
    <3> QED BY <2>1, <2>2, <3>1, <3>2, <3>3, <3>4, <3>5 DEF Holding
  <2> QED BY <2>3, <2>4
<1> QED BY <1>2, <1>3

LEMMA ApartStep ==
  ASSUME Typing, Calling, Apart, NEW c \in Calls, Execute(c) PROVE Apart'
<1>1. made \in [Calls -> SUBSET Keys]
  BY DEF Typing, TypeOK
<1>2. made' = made \/ (Advances(c) /\ Stores(c))
  BY PastGrows DEF Advances, Passes, Leaves, Finds, Reads, Mints, Counts, Writes
<1>3. CASE made' = made
  BY <1>3 DEF Apart
<1>4. CASE Stores(c)
  <2>1. \A d \in Calls : Current(c).key \notin made[d]
    BY <1>4 DEF Stores, Calling, Made
  <2>2. made'[c] = made[c] \union {Current(c).key} /\ \A d \in Calls \ {c} : made'[d] = made[d]
    BY <1>1, <1>4 DEF Stores
  <2> QED BY <2>1, <2>2 DEF Apart
<1> QED BY <1>2, <1>3, <1>4

LEMMA GivenStep ==
  ASSUME Typing, Given, NEW c \in Calls, Execute(c) PROVE Given'
<1>1. Frame(c) /\ new \in [Calls -> Nat] /\ minted \in Nat /\ FirstId \in Nat \ {0}
  BY StepFrame, ResourceAssumption DEF Typing, TypeOK
<1> SUFFICES ASSUME provider \in Enforcing
             PROVE /\ \A d \in Calls : new'[d] = 0 \/ (FirstId <= new'[d] /\ new'[d] < FirstId + minted')
                   /\ \A d, e \in Calls : d # e /\ new'[d] = new'[e] => new'[d] = 0
                   /\ \A d \in Calls : \A i \in Past(d)' : Program(d)'[i].do = "mint" => new'[d] # 0
  BY <1>1 DEF Frame, Given
<1>2. Advances(c) => ~ Counts(c)
  <2>1. WellFormed(provider, req[c], Program(c), Program(c), Steps(req[c]), new[c] = new[c],
                   held[c].row = held[c].row, new[c], held[c].row)
    BY ProgramType DEF Well, Program
  <2> QED BY <2>1 DEF WellFormed, Keyed, Advances, Counts, Current
<1>3. \/ new' = new /\ minted' = minted
      \/ new' = [new EXCEPT ![c] = FirstId + minted] /\ minted' = minted + 1
  BY <1>2, PastGrows DEF Advances, Passes, Leaves, Finds, Reads, Mints, Stores, Writes
<1>4. \A d \in Calls : new'[d] = 0 \/ (FirstId <= new'[d] /\ new'[d] < FirstId + minted')
  BY <1>1, <1>3 DEF Given
<1>5. \A d, e \in Calls : d # e /\ new'[d] = new'[e] => new'[d] = 0
  BY <1>1, <1>3 DEF Given
<1>6. ASSUME NEW d \in Calls, NEW i \in Past(d)', Program(d)'[i].do = "mint" PROVE new'[d] # 0
  <2>1. new[d] # 0 => new'[d] # 0
    BY <1>1, <1>3
  <2>2. CASE d # c
    BY <1>6, <2>1, <2>2, PastGrows, ProgramStays DEF Given
  <2>3. CASE d = c /\ i \in Past(c)
    BY <1>6, <2>1, <2>3, PastGrows DEF Given
  <2>4. CASE d = c /\ Program(c)[i] = Current(c) /\ Advances(c)
    <3>1. Current(c).do = "mint"
      BY <1>6, <2>4, PastGrows
    <3>2. Mints(c)
      BY <2>4, <3>1 DEF Advances, Passes, Finds, Reads, Counts, Stores, Writes
    <3> QED BY <1>1, <2>4, <3>2 DEF Mints
  <2> QED BY <2>2, <2>3, <2>4, PastGrows
<1> QED BY <1>4, <1>5, <1>6

LEMMA LinksMadeStep ==
  ASSUME Typing, LinksMade, NEW c \in Calls, Execute(c) PROVE LinksMade'
<1> SUFFICES ASSUME NEW k \in DOMAIN rows', k[1] = "task_projects"
             PROVE k[2] < FirstId \/ \E d \in Calls : k \in made'[d]
  BY DEF LinksMade
<1>1. CASE k \in DOMAIN rows
  BY <1>1, PastGrows DEF LinksMade
<1>2. CASE k \notin DOMAIN rows
  <2>1. Stores(c)
    BY <1>2, PastGrows DEF Advances, Passes, Leaves, Finds, Reads, Mints, Counts, Writes
  <2>2. made \in [Calls -> SUBSET Keys]
    BY DEF Typing, TypeOK
  <2> QED BY <1>2, <2>1, <2>2 DEF Stores
<1> QED BY <1>1, <1>2

(* What the program of c says of the statement c executes.                 *)
LEMMA CurrentIsWell ==
  ASSUME Typing, NEW c \in Calls
  PROVE  /\ Keyed(provider, Program(c), Steps(req[c]))
         /\ Writing(provider, req[c], Program(c), Steps(req[c]), held[c].row)
         /\ Referring(provider, Program(c), Steps(req[c]))
         /\ Refusing(Program(c), Steps(req[c]))
         /\ Linking(req[c], Program(c), Steps(req[c]), new[c])
<1>1. WellFormed(provider, req[c], Program(c), Program(c), Steps(req[c]), new[c] = new[c],
                 held[c].row = held[c].row, new[c], held[c].row)
  BY ProgramType DEF Well, Program
<1> QED BY <1>1 DEF WellFormed

(* A column is written as asked, or as it was, or as it was read, if the   *)
(* row has been written since.                                             *)
LEMMA WrittenAsAsked ==
  ASSUME Typing, Calling, KeyedByBody, NEW c \in Calls, Advances(c), Writes(c),
         NEW col \in Columns
  PROVE  LET k == Current(c).key
         IN \/ rows'[k][col] = rows[k][col]
            \/ col \in DOMAIN Asked(req[c]) \ {"id"} /\ rows'[k][col] = Asked(req[c])[col]
            \/ /\ behind[c] /\ provider # "intercom" /\ rows'[k][col] = held[c].row[col]
               /\ held[c].key = k
<1> DEFINE k == Current(c).key
           cols == Current(c).cols
           L == Steps(req[c])
<1>1. /\ Current(c) = Program(c)[at[c]] /\ at[c] \in 1..L
      /\ Current(c).do = "update" /\ k \in DOMAIN rows
      /\ rows' = [rows EXCEPT ![k] = Over(cols, rows[k])]
  BY DEF Advances, Writes, Current
<1>2. rows[k] \in Row /\ DOMAIN rows[k] = Columns
  BY <1>1 DEF Typing, TypeOK, IsTables, Row
<1>3. rows'[k] = Over(cols, rows[k])
  BY <1>1
<1>4. CASE col \notin DOMAIN cols
  BY <1>2, <1>3, <1>4 DEF Over
<1>5. CASE col \in DOMAIN cols
  <2>1. rows'[k][col] = cols[col]
    BY <1>2, <1>3, <1>5 DEF Over
  <2>2. \/ col \in DOMAIN Asked(req[c]) \ {"id"} /\ cols[col] = Asked(req[c])[col]
        \/ /\ provider # "intercom" /\ cols[col] = held[c].row[col]
           /\ \E i \in 1..(at[c] - 1) : Program(c)[i].do = "read" /\ Program(c)[i].key = k
        \/ provider \notin Typed /\ col = "id" /\ cols[col] = k[3]
    BY <1>1, <1>5, CurrentIsWell DEF Writing
  <2>3. ASSUME NEW i \in 1..(at[c] - 1), Program(c)[i].do = "read", Program(c)[i].key = k,
               cols[col] = held[c].row[col]
        PROVE held[c].key = k /\ (rows'[k][col] = rows[k][col] \/ behind[c])
    <3>1. i \in Past(c) /\ L \in Nat /\ at[c] \in Nat
      BY <1>1, <2>3, ProgramType DEF Past
    <3>2. \A j \in Past(c) : Program(c)[j].do # "update"
      BY <1>1, <3>1, CurrentIsWell DEF Writing, Past
    <3>3. held[c].key = k /\ (held[c].row = rows[k] \/ behind[c])
      BY <2>3, <3>1, <3>2 DEF Calling, Holding
    <3> QED BY <2>1, <2>3, <3>3
  <2>4. provider \notin Typed => rows[k]["id"] = k[3]
    BY <1>1 DEF KeyedByBody
  <2> QED BY <2>1, <2>2, <2>3, <2>4
<1> QED BY <1>4, <1>5

LEMMA KeyedByBodyStep ==
  ASSUME Typing, Calling, KeyedByBody, NEW c \in Calls, Execute(c) PROVE KeyedByBody'
<1> SUFFICES ASSUME provider \notin Typed, NEW k \in DOMAIN rows' PROVE rows'[k]["id"] = k[3]
  BY StepFrame DEF Frame, Typing, KeyedByBody
<1>1. CASE rows' = rows
  BY <1>1 DEF KeyedByBody
<1>2. CASE Advances(c) /\ Stores(c)
  <2>1. Current(c).cols["id"] = Current(c).key[3]
    BY <1>2, CurrentIsWell DEF Keyed, Advances, Stores, Current
  <2> QED BY <1>2, <2>1 DEF Stores, KeyedByBody
<1>3. CASE Advances(c) /\ Writes(c)
  <2>1. CASE k # Current(c).key
    BY <1>3, <2>1 DEF Writes, KeyedByBody
  <2>2. CASE k = Current(c).key
    <3>1. "id" \in Columns /\ k \in DOMAIN rows
      BY <1>3, <2>2 DEF Columns, Writes
    <3>2. \/ rows'[k]["id"] = rows[k]["id"]
          \/ held[c].key = k /\ rows'[k]["id"] = held[c].row["id"]
      BY <1>3, <2>2, <3>1, WrittenAsAsked
    <3> QED BY <3>1, <3>2 DEF KeyedByBody, Calling, Holding
  <2> QED BY <2>1, <2>2
<1> QED BY <1>1, <1>2, <1>3, PastGrows DEF Advances, Passes, Leaves, Finds, Reads, Mints, Counts

LEMMA ReferencesExistStep ==
  ASSUME Typing, Calling, ReferencesExist, NEW c \in Calls, Execute(c) PROVE ReferencesExist'
<1>1. Frame(c) /\ made \in [Calls -> SUBSET Keys]
  BY StepFrame DEF Typing, TypeOK
<1> SUFFICES ASSUME NEW k \in DOMAIN rows',
                    provider \in Enforcing \/ (\E d \in Calls : k \in made'[d])
             PROVE References(k, rows'[k]) \subseteq DOMAIN rows'
  BY <1>1 DEF Frame, ReferencesExist
<1> DEFINE now == Current(c)
<1>2. CASE rows' = rows /\ made' = made
  BY <1>2 DEF ReferencesExist
<1>3. CASE Advances(c) /\ Stores(c)
  <2>1. now = Program(c)[at[c]] /\ at[c] \in 1..Steps(req[c]) /\ now.do = "insert"
    BY <1>3 DEF Advances, Stores, Current
  <2> HIDE DEF now
  <2>2. CASE k # now.key
    <3>1. k \in DOMAIN rows /\ rows'[k] = rows[k] /\ \A d \in Calls : k \in made'[d] => k \in made[d]
      BY <1>1, <1>3, <2>2 DEF Stores, now
    <3> QED BY <1>1, <3>1 DEF ReferencesExist, Frame
  <2>3. CASE k = now.key
    <3>1. rows'[k] = now.cols
      BY <1>3, <2>3 DEF Stores, now
    <3>2. CASE provider \in Enforcing
      BY <1>1, <1>3, <2>3, <3>1, <3>2 DEF Stores, Enforced, Frame, now
    <3>3. CASE provider \notin Enforcing
      <4> SUFFICES ASSUME NEW j \in References(k, now.cols) PROVE j \in DOMAIN rows
        BY <1>1, <3>1 DEF Frame
      <4>1. PICK i \in 1..(at[c] - 1) :
               Program(c)[i].do \in {"find", "insert"} /\ Program(c)[i].key = j
        BY <2>1, <2>3, <3>3, CurrentIsWell DEF Referring
      <4>2. i \in Past(c)
        BY <2>1, ProgramType DEF Past
      <4> QED BY <4>1, <4>2 DEF Calling, Passed
    <3> QED BY <3>2, <3>3
  <2> QED BY <2>2, <2>3
<1>4. CASE Advances(c) /\ Writes(c)
  <2>1. now = Program(c)[at[c]] /\ at[c] \in 1..Steps(req[c]) /\ now.do = "update"
    BY <1>4 DEF Advances, Writes, Current
  <2>2. CASE k # now.key
    <3>1. k \in DOMAIN rows /\ rows'[k] = rows[k] /\ made' = made
      BY <1>4, <2>2 DEF Writes
    <3> QED BY <1>1, <3>1 DEF ReferencesExist, Frame
  <2>3. CASE k = now.key
    <3>1. k \in DOMAIN rows /\ rows'[k] = Over(now.cols, rows[k]) /\ made' = made
      BY <1>4, <2>3 DEF Writes
    <3>2. CASE provider \in Enforcing
      BY <1>1, <1>4, <2>3, <3>1, <3>2 DEF Writes, Enforced, Frame
    <3>3. CASE provider \notin Enforcing
      <4>1. k[1] \notin Declared
        BY <2>1, <2>3, <3>3, CurrentIsWell DEF Referring
      <4> HIDE DEF now
      <4>2. References(k, rows'[k]) = References(k, rows[k])
        BY <4>1 DEF References, Declared
      <4> QED BY <1>1, <3>1, <3>3, <4>2 DEF ReferencesExist, Frame
    <3> QED BY <3>2, <3>3
  <2> QED BY <2>2, <2>3
<1> QED BY <1>2, <1>3, <1>4, PastGrows DEF Advances, Passes, Leaves, Finds, Reads, Mints, Counts

(* A link is refused because the request names the project twice: the task *)
(* and the project are there.                                              *)
LEMMA LinkRefused ==
  ASSUME Inv, NEW c \in Calls, Links(Current(c)), at[c] \in 1..Steps(req[c]), outcome[c] = "none",
         Current(c).key \in DOMAIN rows \/ ~ Enforced(Current(c).key, Current(c).cols)
  PROVE  Twice(req[c].projects)
<1> DEFINE k == Current(c).key
<1> USE DEF Inv
<1>1. /\ req[c].op = "CreateTask" /\ k[2] = new[c]
      /\ \E i \in 1..(at[c] - 1) : Program(c)[i].do = "mint"
      /\ \A j \in References(k, Current(c).cols) :
           \E i \in 1..(at[c] - 1) : Program(c)[i].do \in {"find", "insert"} /\ Program(c)[i].key = j
      /\ \A i \in 1..(at[c] - 1) :
           Program(c)[i].do = "insert" /\ Program(c)[i].key = k => Twice(req[c].projects)
  BY CurrentIsWell DEF Linking, Current
<1>2. \A i \in 1..(at[c] - 1) : i \in Past(c)
  BY ProgramType DEF Past
<1>3. Enforced(k, Current(c).cols)
  BY <1>1, <1>2 DEF Enforced, Calling, Passed
<1>4. provider \in Enforcing
  BY <1>1, ProgramType, CheckedByDatabase
<1>5. /\ new[c] # 0 /\ new[c] >= FirstId /\ new[c] \in Nat /\ FirstId \in Nat
      /\ \A d \in Calls \ {c} : new[d] # new[c]
  BY <1>1, <1>2, <1>4, ProgramType, ResourceAssumption DEF Given
<1>6. PICK d \in Calls : k \in made[d]
  <2>1. k \in DOMAIN rows /\ k[1] = "task_projects"
    BY <1>3 DEF Links
  <2>2. ~(k[2] < FirstId)
    BY <1>1, <1>5
  <2> QED BY <2>1, <2>2 DEF LinksMade
<1>7. PICK i \in Past(d) : Program(d)[i].do = "insert" /\ Program(d)[i].key = k
  BY <1>6 DEF Calling, Made
<1>8. k[2] = new[d]
  <2>1. i \in 1..Steps(req[d]) /\ Links(Program(d)[i])
    BY <1>7 DEF Past, Links
  <2> QED BY <1>7, <2>1, CurrentIsWell DEF Linking
<1>9. d = c
  BY <1>1, <1>5, <1>8
<1>10. i \in 1..(at[c] - 1)
  BY <1>9, ProgramType DEF Past
<1> QED BY <1>1, <1>7, <1>9, <1>10

LEMMA RefusedStep ==
  ASSUME Inv, NEW c \in Calls, Execute(c) PROVE RefusedLeavesNothing'
<1> USE DEF Inv
<1>1. Frame(c) /\ cut \in [Calls -> BOOLEAN]
  BY StepFrame DEF Typing, TypeOK
<1>2. ASSUME NEW d \in Calls \ {c}, outcome'[d] = "refused", made'[d] # {}
      PROVE req'[d].op = "CreateTask" /\ (Twice(req'[d].projects) \/ cut'[d])
  BY <1>1, <1>2 DEF Frame, RefusedLeavesNothing
<1>3. ASSUME outcome'[c] = "refused", made'[c] # {}
      PROVE req[c].op = "CreateTask" /\ (Twice(req[c].projects) \/ cut'[c])
  <2>1. CASE Begins(c)
    BY <1>3, <2>1 DEF Begins, Typing, AtOK
  <2>2. CASE Advances(c)
    BY <1>3, <2>2 DEF Advances
  <2>3. CASE Ends(c)
    <3>1. made[c] # {} /\ at[c] \in 1..Steps(req[c]) /\ outcome[c] = "none"
      BY <1>3, <2>3 DEF Ends, Leaves
    <3>2. PICK i \in Past(c) : Program(c)[i].do = "insert"
      BY <3>1 DEF Calling, Made
    <3>3. i \in 1..Steps(req[c]) /\ i < at[c]
      BY <3>2 DEF Past
    <3>4. Links(Current(c))
      <4> SUFFICES ASSUME ~ Links(Current(c)) PROVE FALSE
        OBVIOUS
      <4>1. /\ Current(c).error = "failed"
            /\ Current(c).do \in {"stop", "find", "read"} => Current(c).absent = "failed"
        BY <3>1, <3>2, <3>3, CurrentIsWell DEF Refusing, Current
      <4> QED BY <1>3, <2>3, <4>1 DEF Ends
    <3>5. req[c].op = "CreateTask"
      BY <3>1, <3>4, CurrentIsWell DEF Linking, Current
    <3>6. CASE cut' = [cut EXCEPT ![c] = TRUE]
      BY <1>1, <3>5, <3>6
    <3>7. CASE Current(c).key \in DOMAIN rows \/ ~ Enforced(Current(c).key, Current(c).cols)
      BY <3>1, <3>4, <3>5, <3>7, LinkRefused
    <3> QED BY <2>3, <3>4, <3>6, <3>7 DEF Ends, Links
  <2> QED BY <2>1, <2>2, <2>3, Effect
<1> QED BY <1>1, <1>2, <1>3 DEF RefusedLeavesNothing, Frame

LEMMA InvStep == ASSUME Inv, NEW c \in Calls, Execute(c) PROVE Inv'
<1> USE DEF Inv
<1>1. Typing'
  BY TypingStep
<1>2. Calling'
  BY PassedStep, MadeStep, HoldingStep DEF Calling
<1>3. Apart' /\ Given' /\ LinksMade'
  BY ApartStep, GivenStep, LinksMadeStep
<1>4. KeyedByBody' /\ ReferencesExist' /\ RefusedLeavesNothing'
  BY KeyedByBodyStep, ReferencesExistStep, RefusedStep
<1> QED BY <1>1, <1>2, <1>3, <1>4

LEMMA InvIsInvariant == Spec => []Inv
<1>1. Init => Inv
  BY InvInit
<1>2. Inv /\ [Next]_vars => Inv'
  <2>1. ASSUME Inv, Next PROVE Inv'
    BY <2>1, InvStep DEF Next
  <2>2. ASSUME Inv, UNCHANGED vars PROVE Inv'
    BY <2>2 DEF Inv, Typing, TypeOK, AtOK, Calling, Passed, Made, Holding, Past, Program, Apart,
                Given, LinksMade, KeyedByBody, ReferencesExist, RefusedLeavesNothing,
                vars, call, history
  <2> QED BY <2>1, <2>2
<1> QED BY <1>1, <1>2, PTL DEF Spec

(* What any handler has stored refers to rows that are there: it has found *)
(* them, or stored them itself, or the database checks the reference.      *)
THEOREM ReferencesAlwaysExist == Spec => []ReferencesExist
<1>1. Inv => ReferencesExist
  BY DEF Inv
<1> QED BY <1>1, InvIsInvariant, PTL

(* A document is stored under the id it holds.                             *)
THEOREM AlwaysKeyedByBody == Spec => []KeyedByBody
<1>1. Inv => KeyedByBody
  BY DEF Inv
<1> QED BY <1>1, InvIsInvariant, PTL

(* A create that was answered has stored all of its rows, no other call    *)
(* the same.                                                               *)
THEOREM AnsweredAlwaysWhole == Spec => []AnsweredIsWhole
<1>1. Inv => AnsweredIsWhole
  <2> SUFFICES ASSUME Inv, NEW c \in Calls, outcome[c] = "ok"
               PROVE /\ Inserts(c) \subseteq DOMAIN rows
                     /\ \A d \in Calls \ {c} : outcome[d] = "ok" => Inserts(c) \intersect Inserts(d) = {}
    BY DEF AnsweredIsWhole
  <2>1. \A d \in Calls : outcome[d] = "ok" => Inserts(d) \subseteq made[d] /\ Inserts(d) \subseteq DOMAIN rows
    <3> SUFFICES ASSUME NEW d \in Calls, outcome[d] = "ok",
                        NEW i \in 1..Steps(req[d]), Program(d)[i].do = "insert"
                 PROVE Program(d)[i].key \in made[d] /\ Program(d)[i].key \in DOMAIN rows
      BY ProgramType DEF Inserts, Inv
    <3>1. i \in Past(d)
      BY ProgramType DEF Inv, Typing, AtOK, Past
    <3> QED BY <3>1 DEF Inv, Calling, Passed
  <2> QED BY <2>1 DEF Inv, Apart
<1> QED BY <1>1, InvIsInvariant, PTL

(* A refused request has stored nothing, but for an asana task's links.    *)
THEOREM RefusedAlwaysLeavesNothing == Spec => []RefusedLeavesNothing
<1>1. Inv => RefusedLeavesNothing
  BY DEF Inv
<1> QED BY <1>1, InvIsInvariant, PTL

(* A column changes as asked, or because a request wrote back what it had  *)
(* read before another wrote it.                                           *)
THEOREM AlwaysChangedAsAsked == Spec => ChangedAsAsked
<1> DEFINE A == \A k \in DOMAIN rows : \A col \in Columns : rows'[k][col] # rows[k][col] =>
                  \E c \in Calls :
                    /\ at'[c] # at[c] /\ Current(c).key = k
                    /\ \/ /\ col \in DOMAIN Asked(req[c]) \ {"id"}
                          /\ rows'[k][col] = Asked(req[c])[col]
                       \/ behind[c] /\ provider # "intercom"
<1>1. Inv /\ [Next]_vars => [A]_vars
  <2>1. ASSUME Inv, NEW c \in Calls, Execute(c) PROVE A
    <3> SUFFICES ASSUME NEW k \in DOMAIN rows, NEW col \in Columns, rows'[k][col] # rows[k][col]
                 PROVE /\ at'[c] # at[c] /\ Current(c).key = k
                       /\ \/ /\ col \in DOMAIN Asked(req[c]) \ {"id"}
                             /\ rows'[k][col] = Asked(req[c])[col]
                          \/ behind[c] /\ provider # "intercom"
      OBVIOUS
    <3>1. Typing /\ Calling /\ KeyedByBody
      BY <2>1 DEF Inv
    <3>2. Advances(c) /\ Writes(c)
      <4>1. rows' # rows /\ ~ Stores(c)
        BY DEF Stores
      <4> QED BY <2>1, <3>1, <4>1, PastGrows DEF Advances, Passes, Leaves, Finds, Reads, Mints, Counts
    <3>3. Current(c).key = k
      BY <3>2 DEF Writes
    <3>4. at'[c] # at[c]
      BY <3>1, <3>2, ProgramType DEF Advances
    <3> QED BY <3>1, <3>2, <3>3, <3>4, WrittenAsAsked
  <2> QED BY <2>1 DEF Next
<1> QED BY <1>1, InvIsInvariant, PTL DEF Spec, ChangedAsAsked

-----------------------------------------------------------------------------
(* Why a dump is refused.                                                  *)

LEMMA OnlyCreateTaskStoresTasks ==
  ASSUME Typing, NEW c \in Calls, NEW i \in 1..Steps(req[c]),
         Program(c)[i].do = "insert", Program(c)[i].key[1] = "tasks"
  PROVE  /\ req[c].op = "CreateTask"
         /\ Program(c)[i].key = Key("tasks", 0, new[c])
<1> DEFINE r == req[c]
           n == new[c]
           h == held[c].row
<1>1. /\ provider \in DOMAIN Operations /\ IsRequest(provider, r)
      /\ n \in Nat /\ h \in Row /\ Len(r.projects) \in Nat
      /\ r.table \in Collections /\ r.op \in Operations[provider]
  BY ProgramType DEF IsRequest
<1>2. r.op \in {"CreateTask", "UpdateTask", "CreateStoryForTask", "CreateContact",
                "UpdateConversation", "ReplyConversation", "createObject", "updateObject",
                "AddDeal", "updateItem", "createItem", "SendMail", "PostRecord", "PatchRecord",
                "PostListsIdMembers", "PostCampaignsIdActionsSend", "PostMessages"}
  BY <1>1 DEF Operations
<1>3. r.table # "tasks"
  BY <1>1 DEF Collections
<1>4. ASSUME NEW P, P = Handler(r, n, h), NEW j \in 1..Steps(r),
             P[j].do = "insert", P[j].key[1] = "tasks"
      PROVE  r.op = "CreateTask"
  <2> USE DEF Handler, Steps, Statement, Find, Read, Reread, Touch, Check, Mint, NextInt, Insert,
              Update, Key, NoKey, Absent
  <2>1. r.op \notin {"UpdateTask", "CreateStoryForTask"}
    BY <1>4 DEF UpdateTask, CreateStoryForTask
  <2>2. r.op \notin {"CreateContact", "UpdateConversation", "ReplyConversation"}
    BY <1>4 DEF CreateContact, UpdateConversation, ReplyConversation
  <2>3. r.op \notin {"createObject", "updateObject", "AddDeal", "updateItem", "createItem"}
    BY <1>3, <1>4 DEF createObject, updateObject, AddDeal, updateItem, createItem
  <2>4. r.op \notin {"SendMail", "PostRecord", "PatchRecord", "PostMessages"}
    BY <1>4 DEF SendMail, PostRecord, PatchRecord, PostMessages
  <2>5. r.op \notin {"PostListsIdMembers", "PostCampaignsIdActionsSend"}
    BY <1>4 DEF PostListsIdMembers, PostCampaignsIdActionsSend
  <2> QED BY <1>2, <2>1, <2>2, <2>3, <2>4, <2>5
<1>5. r.op = "CreateTask"
  BY <1>4 DEF Program
<1>6. CreatesTask(Program(c), r, n, Len(r.projects))
  BY <1>1, <1>5, CreateTaskStatements DEF Program, Handler
<1>7. Program(c)[i].key = Key("tasks", 0, n)
  <2>1. i \in 1..(2 * Len(r.projects) + 7)
    BY <1>5 DEF Steps
  <2>2. i = Len(r.projects) + 6
    <3>1. i \in (Len(r.projects) + 7)..(2 * Len(r.projects) + 6) =>
            Program(c)[i].key[1] = "task_projects"
      <4> SUFFICES ASSUME i \in (Len(r.projects) + 7)..(2 * Len(r.projects) + 6)
                   PROVE  Program(c)[i].key[1] = "task_projects"
        OBVIOUS
      <4>1. PICK l \in 1..Len(r.projects) : i = l + Len(r.projects) + 6
        <5>1. LET l == i - Len(r.projects) - 6
              IN  l \in 1..Len(r.projects) /\ i = l + Len(r.projects) + 6
          BY <1>1
        <5> QED BY <5>1
      <4>2. Program(c)[l + Len(r.projects) + 6].key = Key("task_projects", n, r.projects[l])
        BY <1>6, <4>1 DEF CreatesTask
      <4>3. Program(c)[i].key = <<"task_projects", n, r.projects[l]>>
        BY <4>1, <4>2 DEF Key
      <4> HIDE DEF n, r
      <4> QED BY <4>3
    <3>2. i \notin 1..(Len(r.projects) + 4)
      BY <1>6 DEF CreatesTask
    <3>3. i # Len(r.projects) + 5 /\ i # 2 * Len(r.projects) + 7
      BY <1>6 DEF CreatesTask
    <3>4. i \notin (Len(r.projects) + 7)..(2 * Len(r.projects) + 6)
      BY <3>1
    <3> HIDE DEF r
    <3> QED BY <1>1, <2>1, <3>2, <3>3, <3>4
  <2> QED BY <1>6, <2>2 DEF CreatesTask
<1> QED BY <1>5, <1>7

(* A task that was not loaded with a link was stored by a call.            *)
TasksMade ==
  \A k \in DOMAIN rows : k[1] = "tasks" /\ ~ Linked(rows, k) => \E c \in Calls : k \in made[c]

LEMMA TasksMadeStep ==
  ASSUME Typing, TasksMade, NEW c \in Calls, Execute(c) PROVE TasksMade'
<1> SUFFICES ASSUME NEW k \in DOMAIN rows', k[1] = "tasks", ~ Linked(rows', k)
             PROVE \E d \in Calls : k \in made'[d]
  BY DEF TasksMade
<1>1. DOMAIN rows \subseteq DOMAIN rows'
  BY StepFrame DEF Typing, Frame
<1>2. CASE k \in DOMAIN rows
  BY <1>1, <1>2, PastGrows DEF TasksMade, Linked
<1>3. CASE k \notin DOMAIN rows
  <2>1. Stores(c)
    BY <1>3, PastGrows DEF Advances, Passes, Leaves, Finds, Reads, Mints, Counts, Writes
  <2>2. made \in [Calls -> SUBSET Keys]
    BY DEF Typing, TypeOK
  <2> QED BY <1>3, <2>1, <2>2 DEF Stores
<1> QED BY <1>2, <1>3

RefusedDumpHasCause ==
  Reloads \/ \E c \in Calls : \E k \in made[c] :
    /\ req[c].op = "CreateTask" /\ k[1] = "tasks" /\ ~ Linked(rows, k)
    /\ req[c].projects = <<>> \/ outcome[c] # "ok"

(* Load accepts a dump unless it has an asana task without a project, and  *)
(* such a task was made by a CreateTask that named no project, or that was *)
(* not answered: whatever other requests do, of any provider, their dumps  *)
(* reload, and an answered CreateTask that names a project has its link.   *)
THEOREM RefusedDumpHasCauseHolds == Spec => []RefusedDumpHasCause
<1>1. Init => TasksMade
  BY ResourceAssumption DEF Init, Loaded, TasksMade
<1>2. Inv /\ TasksMade /\ [Next]_vars => TasksMade'
  <2>1. ASSUME Inv, TasksMade, Next PROVE TasksMade'
    BY <2>1, TasksMadeStep DEF Next, Inv
  <2>2. ASSUME TasksMade, UNCHANGED vars PROVE TasksMade'
    BY <2>2 DEF TasksMade, Linked, vars, history
  <2> QED BY <2>1, <2>2
<1>3. Inv /\ TasksMade => RefusedDumpHasCause
  <2> SUFFICES ASSUME Inv, TasksMade, ~ Reloads PROVE RefusedDumpHasCause
    BY DEF RefusedDumpHasCause
  <2>1. PICK k \in DOMAIN rows : k[1] = "tasks" /\ ~ Linked(rows, k)
    BY DEF Inv, Reloads
  <2>2. PICK c \in Calls : k \in made[c]
    BY <2>1 DEF TasksMade
  <2>3. Typing /\ Passed(c) /\ Made(c)
    BY DEF Inv, Calling
  <2>4. PICK i \in Past(c) : Program(c)[i].do = "insert" /\ Program(c)[i].key = k
    BY <2>2, <2>3 DEF Made
  <2>5. req[c].op = "CreateTask" /\ k = Key("tasks", 0, new[c])
    BY <2>1, <2>3, <2>4, OnlyCreateTaskStoresTasks DEF Past
  <2>6. ASSUME outcome[c] = "ok", req[c].projects # <<>> PROVE FALSE
    <3> DEFINE m == Len(req[c].projects)
    <3>1. /\ provider \in DOMAIN Operations /\ IsRequest(provider, req[c])
          /\ new[c] \in Nat /\ held[c].row \in Row /\ req[c].projects \in Seq(Nat)
      BY <2>3, ProgramType DEF IsRequest
    <3>2. m \in Nat /\ m >= 1
      BY <2>6, <3>1
    <3>3. CreatesTask(Program(c), req[c], new[c], m)
      BY <2>5, <3>1, CreateTaskStatements DEF Program, Handler
    <3>4. at[c] = 2 * m + 8 /\ Steps(req[c]) = 2 * m + 7
      BY <2>3, <2>5, <2>6, <3>2 DEF Typing, AtOK, Steps
    <3>5. m + 7 \in Past(c)
      BY <3>2, <3>4 DEF Past
    <3>6. /\ Program(c)[m + 7].do = "insert"
          /\ Program(c)[m + 7].key = Key("task_projects", new[c], req[c].projects[1])
      <4>1. 1 \in 1..m /\ 1 + m + 6 = m + 7
        BY <3>2
      <4> QED BY <3>3, <4>1 DEF CreatesTask
    <3>7. Key("task_projects", new[c], req[c].projects[1]) \in DOMAIN rows
      BY <2>3, <3>5, <3>6 DEF Passed
    <3> QED BY <2>1, <2>5, <3>7 DEF Linked, Key
  <2> QED BY <2>1, <2>2, <2>5, <2>6 DEF RefusedDumpHasCause
<1> QED BY <1>1, <1>2, <1>3, InvIsInvariant, PTL DEF Spec
=============================================================================

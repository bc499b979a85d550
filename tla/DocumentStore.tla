---------------------------- MODULE DocumentStore ----------------------------
(***************************************************************************)
(* The spec-driven server of httpresource/specserver: JSON documents in a  *)
(* table keyed by collection and id, behind handlers derived from the      *)
(* OpenAPI document of a provider.  Every request has a goroutine of its   *)
(* own and runs one SQL statement at a time, in no transaction.            *)
(*                                                                         *)
(* Every statement names one collection, so one collection stands for all. *)
(* A body is a function from fields to JSON values; None is an absent      *)
(* field, and clients send no nulls.  GET, and requests refused before the *)
(* first statement (no token, no route, no JSON), change nothing and are   *)
(* left out; what GET finds under an id is docs[id].                       *)
(*                                                                         *)
(* A value has up to three texts that may serve as a key: what fmt.Sprint  *)
(* makes of it, what it is in JSON, and, in a scenario, what it was before *)
(* a read decoded it to a float64.  A number of seven digits or more       *)
(* prints as 1.2345678e+07, and one of more than 53 bits loses digits.     *)
(***************************************************************************)
EXTENDS Naturals, Sequences

CONSTANTS
  Clients,      \* requests under way at the same time
  Texts,        \* ids, as texts in the table and in paths
  Values,       \* JSON values; strings are texts
  Sprint,       \* fmt.Sprint of a value
  Scalar,       \* scalarID of a value of a scenario: a string, or a number as
                \* JSON writes it; None of any other value
  Decoded,      \* what a read makes of a value: numbers are float64
  Fields,
  IdKeys,       \* the fields DocumentID tries, in order
  Routes,       \* method, parameters of the path, name of its last segment
  Bodies,       \* bodies clients send
  Items,        \* documents a scenario may hold
  Minted,       \* the ids the generator returns, in order
  None,         \* no value, and the empty id
  Absent        \* no document

Document == [Fields -> Values \union {None}]
Keys == Texts \union {None}

ASSUME DocumentAssumption ==
  /\ Texts \subseteq Values
  /\ Sprint \in [Values -> Texts] /\ Scalar \in [Values -> Keys]
  /\ Decoded \in [Values -> Values]
  /\ \A t \in Texts : Sprint[t] = t /\ Scalar[t] = t /\ Decoded[t] = t
  /\ IdKeys \in Seq(Fields) /\ Len(IdKeys) > 0 /\ IdKeys[1] = "id"
  /\ Routes \subseteq [method : {"POST", "PUT", "DELETE"},
                       names : SUBSET Fields, last : STRING]
  /\ Bodies \subseteq Document
  /\ \A b \in Bodies, f \in Fields : b[f] # None => Decoded[b[f]] = b[f]
  /\ Items \subseteq Document
  /\ Minted \in Seq(Texts)
  /\ \A i, j \in DOMAIN Minted : Minted[i] = Minted[j] => i = j
  /\ None \notin Values /\ Absent \notin Document

(* The generator's prefix is random: no scenario holds one of its ids.     *)
ASSUME PrefixAssumption ==
  \A b \in Items, f \in Fields, i \in DOMAIN Minted :
    b[f] = None \/ Scalar[b[f]] # Minted[i]

VARIABLES
  docs,     \* the table, its documents as a read decodes them
  minted,   \* how many ids the generator has returned
  stage,    \* where each request stands
  route,    \* the route it took
  body,     \* its body, with the parameters of the path
  id,       \* the key it reads or writes
  own,      \* that key is an id the generator returned for it
  held,     \* the document it is about to write
  behind,   \* another has written that key since it read the document
  reply     \* the status of the last answer

request == <<stage, route, body, id, own, held, behind, reply>>
vars == <<docs, minted, request>>

TypeOK ==
  /\ docs \in [Keys -> Document \union {Absent}]
  /\ minted \in 0..Len(Minted)
  /\ stage \in [Clients -> {"idle", "received", "write"}]
  /\ route \in [Clients -> Routes \union {None}]
  /\ body \in [Clients -> Document]
  /\ id \in [Clients -> Keys]
  /\ own \in [Clients -> BOOLEAN]
  /\ held \in [Clients -> Document]
  /\ behind \in [Clients -> BOOLEAN]
  /\ reply \in [Clients -> {0, 200, 204, 400, 500}]

Empty == [f \in Fields |-> None]

(* DocumentID: the first of the keys that holds an id, or the empty id.    *)
KeyText(b, i) == IF b[IdKeys[i]] = None THEN None ELSE Scalar[b[IdKeys[i]]]
IsFirstKey(b, i) ==
  i \in DOMAIN IdKeys /\ KeyText(b, i) # None /\ \A j \in 1..(i - 1) : KeyText(b, j) = None
DocumentID(b) ==
  IF \E i \in DOMAIN IdKeys : IsFirstKey(b, i)
  THEN KeyText(b, CHOOSE i \in DOMAIN IdKeys : IsFirstKey(b, i))
  ELSE None

(* decodeObject, of an item as it was inserted.                            *)
Decode(b) == [f \in Fields |-> IF b[f] = None THEN None ELSE Decoded[b[f]]]

(* Codec.Load has inserted the items of a scenario under their DocumentID, *)
(* numbers as they are written; of two items with one id the second makes  *)
(* it fail.                                                                *)
Init ==
  /\ \E S \in SUBSET Items :
       /\ \A b, d \in S : DocumentID(b) = DocumentID(d) => b = d
       /\ docs = [t \in Keys |->
            IF \E b \in S : DocumentID(b) = t
            THEN Decode(CHOOSE b \in S : DocumentID(b) = t)
            ELSE Absent]
  /\ minted = 0
  /\ stage = [c \in Clients |-> "idle"]
  /\ route = [c \in Clients |-> None]
  /\ body = [c \in Clients |-> Empty]
  /\ id = [c \in Clients |-> None]
  /\ own = [c \in Clients |-> FALSE]
  /\ held = [c \in Clients |-> Empty]
  /\ behind = [c \in Clients |-> FALSE]
  /\ reply = [c \in Clients |-> 0]

-----------------------------------------------------------------------------
(* The ids no client knows: those the generator has yet to return and      *)
(* those it returned for documents that are not yet written.               *)
Secret ==
  {Minted[i] : i \in (minted + 1)..Len(Minted)}
    \union {id[c] : c \in {d \in Clients : own[d] /\ stage[d] = "write"}}

(* itemIDFromParams; the last resort is any parameter, in map order.       *)
ItemIds(r, params) ==
  IF r.last \in r.names THEN {params[r.last]}
  ELSE IF "id" \in r.names THEN {params["id"]}
  ELSE IF r.names = {} THEN {None}
  ELSE {params[n] : n \in r.names}

(* The parameters of the path become fields the body does not have; of a   *)
(* DELETE the body is not looked at.                                       *)
WithParams(b, r, params) ==
  [f \in Fields |->
     IF r.method # "DELETE" /\ f \in r.names /\ b[f] = None THEN params[f] ELSE b[f]]

(* The id a body names, as text.                                           *)
NamedId(b) == IF b["id"] = None THEN None ELSE Sprint[b["id"]]

Answer(c, status) ==
  /\ stage' = [stage EXCEPT ![c] = "idle"]
  /\ route' = [route EXCEPT ![c] = None]
  /\ body' = [body EXCEPT ![c] = Empty]
  /\ id' = [id EXCEPT ![c] = None]
  /\ own' = [own EXCEPT ![c] = FALSE]
  /\ held' = [held EXCEPT ![c] = Empty]
  /\ reply' = [reply EXCEPT ![c] = status]

Receive(c) ==
  /\ stage[c] = "idle"
  /\ \E r \in Routes : \E params \in [r.names -> Texts \ Secret] :
       \E b \in IF r.method \in {"POST", "PUT"} THEN Bodies ELSE {Empty} :
         /\ NamedId(b) \notin Secret
         /\ route' = [route EXCEPT ![c] = r]
         /\ body' = [body EXCEPT ![c] = WithParams(b, r, params)]
         /\ \E t \in ItemIds(r, params) : id' = [id EXCEPT ![c] = t]
  /\ stage' = [stage EXCEPT ![c] = "received"]
  /\ reply' = [reply EXCEPT ![c] = 0]
  /\ UNCHANGED <<docs, minted, own, held, behind>>

Is(c, method) == stage[c] = "received" /\ route[c].method = method

(* The document PUT and PATCH update.                                      *)
Target(c) == IF id[c] = None THEN NamedId(body[c]) ELSE id[c]

(* A statement that fails changes nothing.                                 *)
StatementFails(c) ==
  /\ \/ stage[c] = "write"
     \/ Is(c, "DELETE")
     \/ Is(c, "PUT") /\ Target(c) # None
  /\ Answer(c, 500)
  /\ behind' = [behind EXCEPT ![c] = FALSE]
  /\ UNCHANGED <<docs, minted>>

(* Mutant: the counter of the generator is read and not advanced.          *)
MintStands(c) ==
  /\ Is(c, "POST") /\ minted < Len(Minted)
  /\ body[c]["id"] = None
  /\ id' = [id EXCEPT ![c] = Minted[minted + 1]]
  /\ held' = [held EXCEPT ![c] = [body[c] EXCEPT !["id"] = Minted[minted + 1]]]
  /\ own' = [own EXCEPT ![c] = TRUE]
  /\ stage' = [stage EXCEPT ![c] = "write"]
  /\ UNCHANGED <<docs, minted, route, body, behind, reply>>

(* Mutant: the generated key is used although the body has an id.          *)
MintAlways(c) ==
  /\ Is(c, "POST") /\ minted < Len(Minted)
  /\ minted' = minted + 1
  /\ id' = [id EXCEPT ![c] = Minted[minted + 1]]
  /\ held' = [held EXCEPT ![c] = IF body[c]["id"] # None THEN body[c]
                                 ELSE [body[c] EXCEPT !["id"] = Minted[minted + 1]]]
  /\ own' = [own EXCEPT ![c] = TRUE]
  /\ stage' = [stage EXCEPT ![c] = "write"]
  /\ UNCHANGED <<docs, route, body, behind, reply>>

(* Mutant: the id of the body is the key as it is, not as text.            *)
MintVerbatim(c) ==
  /\ Is(c, "POST") /\ body[c]["id"] # None
  /\ id' = [id EXCEPT ![c] = body[c]["id"]]
  /\ held' = [held EXCEPT ![c] = body[c]]
  /\ own' = [own EXCEPT ![c] = FALSE]
  /\ stage' = [stage EXCEPT ![c] = "write"]
  /\ UNCHANGED <<docs, minted, route, body, behind, reply>>

(* POST takes an id from the generator in any case.  Bound: as many        *)
(* creations as there are ids in Minted.                                   *)
Mint(c) ==
  /\ Is(c, "POST") /\ minted < Len(Minted)
  /\ minted' = minted + 1
  /\ IF NamedId(body[c]) = None
     THEN /\ own' = [own EXCEPT ![c] = TRUE]
          /\ id' = [id EXCEPT ![c] = Minted[minted + 1]]
          /\ held' = [held EXCEPT ![c] = [body[c] EXCEPT !["id"] = Minted[minted + 1]]]
     ELSE /\ own' = [own EXCEPT ![c] = FALSE]
          /\ id' = [id EXCEPT ![c] = NamedId(body[c])]
          /\ held' = [held EXCEPT ![c] = body[c]]
  /\ stage' = [stage EXCEPT ![c] = "write"]
  /\ UNCHANGED <<docs, route, body, behind, reply>>

(* Mutant: the id of the body may replace that of the path.                *)
MergeKeepsId(old, b, t) == [f \in Fields |-> IF b[f] # None THEN b[f] ELSE old[f]]

(* Mutant: the body replaces the document, for PATCH as well.              *)
MergeReplaces(old, b, t) == [f \in Fields |-> IF f = "id" THEN t ELSE b[f]]

Merge(old, b, t) ==
  [f \in Fields |-> IF f = "id" THEN t ELSE IF b[f] # None THEN b[f] ELSE old[f]]

(* PUT and PATCH, up to the write: the document is read and merged.        *)
Find(c) ==
  LET t == Target(c) IN
  /\ Is(c, "PUT")
  /\ \/ /\ t = None
        /\ Answer(c, 400)
     \/ /\ t # None
        /\ id' = [id EXCEPT ![c] = t]
        /\ held' = [held EXCEPT ![c] =
             Merge(IF docs[t] = Absent THEN Empty ELSE docs[t], body[c], t)]
        /\ stage' = [stage EXCEPT ![c] = "write"]
        /\ UNCHANGED <<route, body, own, reply>>
  /\ UNCHANGED <<docs, minted, behind>>

(* The updates that have read the document c writes or deletes.            *)
Overtakes(c, d) ==
  d # c /\ stage[d] = "write" /\ route[d].method = "PUT" /\ id[d] = id[c]
Overtake(c) ==
  behind' = [d \in Clients |-> Overtakes(c, d) \/ (d # c /\ behind[d])]

(* upsertDocument.                                                         *)
Upsert(c) ==
  /\ stage[c] = "write"
  /\ docs' = [docs EXCEPT ![id[c]] = held[c]]
  /\ Answer(c, 200)
  /\ Overtake(c)
  /\ UNCHANGED minted

(* With no parameter it is the document without an id that goes.           *)
Delete(c) ==
  /\ Is(c, "DELETE")
  /\ docs' = [t \in Keys |-> IF t = id[c] THEN Absent ELSE docs[t]]
  /\ Answer(c, 204)
  /\ Overtake(c)
  /\ UNCHANGED minted

Next ==
  \E c \in Clients :
    \/ Receive(c) \/ StatementFails(c)
    \/ Mint(c) \/ Find(c) \/ Upsert(c)
    \/ Delete(c)

Spec == Init /\ [][Next]_vars

-----------------------------------------------------------------------------
(* Properties.                                                             *)

(* Dump followed by Load inserts every document again under the key it     *)
(* has, and no two of them under one, but for those whose key is a text a  *)
(* dump no longer holds: a POST named it by a number that prints otherwise *)
(* than it dumps (server.go:123), or a scenario by a number that a float64 *)
(* rounds.                                                                 *)
DumpReloads ==
  \A t \in Keys : docs[t] # Absent =>
    \/ DocumentID(docs[t]) = t
    \/ docs[t]["id"] \in Values \ Texts /\ Sprint[docs[t]["id"]] = t
    \/ \E b \in Items : DocumentID(b) = t /\ docs[t] = Decode(b)

(* A document the server named itself replaces no other, however creations *)
(* interleave with each other and with writes to the ids they returned.    *)
CreateReplacesNothing ==
  [][\A c \in Clients :
       stage[c] = "write" /\ own[c] /\ reply'[c] = 200 => docs[id[c]] = Absent]_vars

(* What the last step of c wrote is found, at that moment, under a key.    *)
FoundUnder(c, t) == docs'[t] = held[c]

(* A document the client was answered is found under the id it carries;    *)
(* one that a POST named by a number that prints otherwise than JSON       *)
(* writes it is found under what it prints as, and only such a one.        *)
WriteIsFound ==
  [][\A c \in Clients :
       stage[c] = "write" /\ reply'[c] = 200 =>
         LET named == held[c]["id"] IN
         \/ FoundUnder(c, Scalar[named])
         \/ /\ route[c].method = "POST" /\ Sprint[named] # Scalar[named]
            /\ FoundUnder(c, Sprint[named])]_vars

(* The plan asks for a later read proving the write persisted              *)
(* (docs/http-api-engine-v1-plan.md:1371): the document of an answer would *)
(* be found under its id, whatever the client named it.  It is not, of a   *)
(* POST whose id is a long number: the key is fmt.Sprint of a float64.     *)
WritePersists ==
  [][\A c \in Clients :
       stage[c] = "write" /\ reply'[c] = 200 => FoundUnder(c, Scalar[held[c]["id"]])]_vars

(* An update that no other request overtook between its two statements     *)
(* leaves the document as it was but for the fields it names, and a        *)
(* document that was not there with those alone.  One that was overtaken   *)
(* puts back what it read: the other's fields are lost, or its deletion.   *)
UpdatedAsAsked ==
  [][\A c \in Clients :
       stage[c] = "write" /\ route[c].method = "PUT" /\ reply'[c] = 200 /\ ~behind[c] =>
         \A f \in Fields \ {"id"} :
           docs'[id[c]][f] =
             IF body[c][f] # None THEN body[c][f]
             ELSE IF docs[id[c]] = Absent THEN None ELSE docs[id[c]][f]]_vars
=============================================================================

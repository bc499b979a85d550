------------------------- MODULE DocumentStoreProofs -------------------------
(***************************************************************************)
(* Proofs about DocumentStore, for any number of requests, any routes and  *)
(* any bodies.                                                             *)
(***************************************************************************)
EXTENDS DocumentStore, TLAPS

(* What is about to be written carries the id it is written under, as a    *)
(* text unless a POST has named it.                                        *)
Writing ==
  \A c \in Clients :
    /\ stage[c] = "write" =>
         /\ id[c] \in Texts /\ held[c]["id"] # None /\ Sprint[held[c]["id"]] = id[c]
         /\ held[c]["id"] = id[c] \/ route[c].method = "POST"
    /\ stage[c] # "idle" => reply[c] = 0

(* An id that no client knows is the key of nothing, and only the request  *)
(* it was minted for may write it.                                         *)
Unknown ==
  /\ \A t \in Secret : docs[t] = Absent
  /\ \A c \in Clients : stage[c] = "received" =>
       id[c] \notin Secret /\ NamedId(body[c]) \notin Secret
  /\ \A c \in Clients : stage[c] = "write" /\ ~own[c] => id[c] \notin Secret
  /\ \A c \in Clients : own[c] =>
       stage[c] = "write" /\ \E i \in 1..minted : id[c] = Minted[i]
  /\ \A c, d \in Clients : own[c] /\ own[d] /\ id[c] = id[d] => c = d

(* What an update is about to write is the document of the table with the  *)
(* body merged into it, unless another has written the document since.     *)
Found(t) == IF docs[t] = Absent THEN Empty ELSE docs[t]
Updating(c) == stage[c] = "write" /\ route[c].method = "PUT"
Merged ==
  \A c \in Clients :
    Updating(c) /\ ~behind[c] => held[c] = Merge(Found(id[c]), body[c], id[c])

-----------------------------------------------------------------------------
(* Documents.                                                              *)

LEMMA Basics ==
  /\ "id" \in Fields
  /\ 1 \in DOMAIN IdKeys
  /\ None \notin Texts
  /\ Empty \in Document
  /\ \A i \in 1..Len(Minted) : Minted[i] \in Texts /\ Minted[i] \in Values
BY DocumentAssumption DEF Empty, Document

(* A document with an id is keyed by it.                                   *)
LEMMA NamedKey ==
  ASSUME NEW b \in Document, b["id"] # None, Scalar[b["id"]] # None
  PROVE  DocumentID(b) = Scalar[b["id"]]
<1>1. IsFirstKey(b, 1)
  BY Basics, DocumentAssumption DEF IsFirstKey, KeyText
<1>2. ASSUME NEW i, IsFirstKey(b, i)
      PROVE  i = 1
  <2>1. i \in DOMAIN IdKeys /\ i \in Nat /\ i >= 1
    BY <1>2, DocumentAssumption DEF IsFirstKey
  <2>2. CASE i > 1
    BY <2>1, <2>2, <1>2, DocumentAssumption DEF IsFirstKey, KeyText
  <2> QED
    BY <2>1, <2>2
<1>3. (CHOOSE i \in DOMAIN IdKeys : IsFirstKey(b, i)) = 1
  BY <1>1, <1>2, Basics
<1> QED
  BY <1>1, <1>3, Basics, DocumentAssumption DEF DocumentID, KeyText

LEMMA DecodeType ==
  ASSUME NEW b \in Document
  PROVE  Decode(b) \in Document
BY DocumentAssumption DEF Decode, Document

LEMMA MergeType ==
  ASSUME NEW a \in Document, NEW b \in Document, NEW t \in Texts
  PROVE  /\ Merge(a, b, t) \in Document
         /\ Merge(a, b, t)["id"] = t
BY Basics, DocumentAssumption DEF Merge, Document

LEMMA NamedIdType ==
  ASSUME NEW b \in Document
  PROVE  /\ NamedId(b) \in Keys
         /\ b["id"] # None => b["id"] \in Values /\ NamedId(b) = Sprint[b["id"]]
         /\ NamedId(b) = None <=> b["id"] = None
BY Basics, DocumentAssumption DEF NamedId, Document, Keys

(* What a request becomes when it is received.                             *)
LEMMA ReceivedType ==
  ASSUME NEW r \in Routes, NEW params \in [r.names -> Texts \ Secret],
         NEW b \in Document, NamedId(b) \notin Secret, None \notin Secret
  PROVE  /\ WithParams(b, r, params) \in Document
         /\ NamedId(WithParams(b, r, params)) \notin Secret
         /\ ItemIds(r, params) \subseteq Keys \ Secret
<1>1. r.names \subseteq Fields
  BY DocumentAssumption
<1>2. WithParams(b, r, params) \in Document
  BY <1>1, DocumentAssumption DEF WithParams, Document
<1>3. NamedId(WithParams(b, r, params)) \notin Secret
  <2>1. CASE r.method # "DELETE" /\ "id" \in r.names /\ b["id"] = None
    <3>1. WithParams(b, r, params)["id"] = params["id"] /\ params["id"] \in Texts \ Secret
      BY <2>1, Basics DEF WithParams
    <3> QED
      BY <3>1, DocumentAssumption DEF NamedId
  <2>2. CASE ~(r.method # "DELETE" /\ "id" \in r.names /\ b["id"] = None)
    BY <2>2, Basics DEF WithParams, NamedId
  <2> QED
    BY <2>1, <2>2
<1>4. ItemIds(r, params) \subseteq Keys \ Secret
  BY DEF ItemIds, Keys
<1> QED
  BY <1>2, <1>3, <1>4

LEMMA SecretType ==
  ASSUME TypeOK, Writing
  PROVE  Secret \subseteq Texts
BY Basics DEF Secret, TypeOK, Writing

-----------------------------------------------------------------------------
(* The state of the requests.                                              *)

THEOREM TypeInit == Init => TypeOK
<1> SUFFICES ASSUME Init PROVE TypeOK
  OBVIOUS
<1>1. docs \in [Keys -> Document \union {Absent}]
  <2>1. PICK S \in SUBSET Items :
          docs = [t \in Keys |->
            IF \E b \in S : DocumentID(b) = t
            THEN Decode(CHOOSE b \in S : DocumentID(b) = t)
            ELSE Absent]
    BY DEF Init
  <2>2. ASSUME NEW t \in Keys, \E b \in S : DocumentID(b) = t
        PROVE  Decode(CHOOSE b \in S : DocumentID(b) = t) \in Document
    BY <2>2, DecodeType, DocumentAssumption
  <2> QED
    BY <2>1, <2>2
<1> QED
  BY <1>1, Basics, DocumentAssumption DEF Init, TypeOK, Keys

LEMMA AnswerType ==
  ASSUME TypeOK, NEW c \in Clients, NEW status \in {200, 204, 400, 500},
         Answer(c, status)
  PROVE  /\ stage' \in [Clients -> {"idle", "received", "write"}]
         /\ route' \in [Clients -> Routes \union {None}]
         /\ body' \in [Clients -> Document]
         /\ id' \in [Clients -> Keys]
         /\ own' \in [Clients -> BOOLEAN]
         /\ held' \in [Clients -> Document]
         /\ reply' \in [Clients -> {0, 200, 204, 400, 500}]
BY Basics DEF TypeOK, Answer, Keys

LEMMA OvertakeType ==
  ASSUME NEW c \in Clients, Overtake(c)
  PROVE  behind' \in [Clients -> BOOLEAN]
<1>1. \A d \in Clients : (Overtakes(c, d) \/ (d # c /\ behind[d])) \in BOOLEAN
  OBVIOUS
<1> QED
  BY <1>1, Zenon DEF Overtake

IInv == TypeOK /\ Writing /\ Unknown

LEMMA TypeStep ==
  ASSUME TypeOK, Writing, [Next]_vars
  PROVE  TypeOK'
<1> USE DEF TypeOK
<1>1. ASSUME NEW c \in Clients, Receive(c) PROVE TypeOK'
  <2>1. PICK r \in Routes : \E params \in [r.names -> Texts \ Secret] :
          \E b \in IF r.method \in {"POST", "PUT"} THEN Bodies ELSE {Empty} :
            /\ NamedId(b) \notin Secret
            /\ route' = [route EXCEPT ![c] = r]
            /\ body' = [body EXCEPT ![c] = WithParams(b, r, params)]
            /\ \E t \in ItemIds(r, params) : id' = [id EXCEPT ![c] = t]
    BY <1>1 DEF Receive
  <2>2. PICK params \in [r.names -> Texts \ Secret],
             b \in IF r.method \in {"POST", "PUT"} THEN Bodies ELSE {Empty} :
            /\ NamedId(b) \notin Secret
            /\ route' = [route EXCEPT ![c] = r]
            /\ body' = [body EXCEPT ![c] = WithParams(b, r, params)]
            /\ \E t \in ItemIds(r, params) : id' = [id EXCEPT ![c] = t]
    BY <2>1
  <2>3. b \in Document
    BY <2>2, Basics, DocumentAssumption
  <2>4. None \notin Secret
    BY SecretType, Basics
  <2>5. WithParams(b, r, params) \in Document /\ ItemIds(r, params) \subseteq Keys
    BY <2>2, <2>3, <2>4, ReceivedType
  <2> QED
    BY <1>1, <2>2, <2>5 DEF Receive
<1>2. ASSUME NEW c \in Clients, StatementFails(c) PROVE TypeOK'
  <2>1. behind' \in [Clients -> BOOLEAN]
    BY <1>2 DEF StatementFails
  <2> QED
    BY <1>2, <2>1, AnswerType DEF StatementFails
<1>3. ASSUME NEW c \in Clients, Mint(c) PROVE TypeOK'
  <2>1. Minted[minted + 1] \in Texts /\ minted + 1 \in 0..Len(Minted)
    BY <1>3, Basics, DocumentAssumption DEF Mint
  <2>2. [body[c] EXCEPT !["id"] = Minted[minted + 1]] \in Document
    BY <2>1, DocumentAssumption DEF Document
  <2>3. NamedId(body[c]) \in Keys
    BY NamedIdType
  <2>4. own' \in [Clients -> BOOLEAN]
    <3>1. own' = [own EXCEPT ![c] = TRUE] \/ own' = [own EXCEPT ![c] = FALSE]
      BY <1>3, Zenon DEF Mint
    <3>2. own \in [Clients -> BOOLEAN]
      OBVIOUS
    <3>3. CASE own' = [own EXCEPT ![c] = TRUE]
      BY <3>2, <3>3
    <3>4. CASE own' = [own EXCEPT ![c] = FALSE]
      BY <3>2, <3>4
    <3> QED
      BY <3>1, <3>3, <3>4
  <2>5. id' \in [Clients -> Keys]
    BY <1>3, <2>1, <2>3 DEF Mint, Keys
  <2>6. held' \in [Clients -> Document]
    BY <1>3, <2>2 DEF Mint
  <2> QED
    BY <1>3, <2>1, <2>4, <2>5, <2>6 DEF Mint
<1>4. ASSUME NEW c \in Clients, Find(c) PROVE TypeOK'
  <2>1. CASE Answer(c, 400)
    BY <1>4, <2>1, AnswerType DEF Find
  <2>2. CASE ~Answer(c, 400)
    <3>1. Target(c) \in Texts
      BY <1>4, <2>2, NamedIdType DEF Find, Target, Keys
    <3>2. (IF docs[Target(c)] = Absent THEN Empty ELSE docs[Target(c)]) \in Document
      BY <3>1, Basics DEF Keys
    <3>3. Merge(IF docs[Target(c)] = Absent THEN Empty ELSE docs[Target(c)],
                body[c], Target(c)) \in Document
      BY <3>1, <3>2, MergeType
    <3> QED
      BY <1>4, <2>2, <3>1, <3>3 DEF Find, Keys
  <2> QED
    BY <2>1, <2>2
<1>5. ASSUME NEW c \in Clients, Upsert(c) PROVE TypeOK'
  BY <1>5, AnswerType, OvertakeType DEF Upsert
<1>6. ASSUME NEW c \in Clients, Delete(c) PROVE TypeOK'
  BY <1>6, AnswerType, OvertakeType DEF Delete
<1>7. CASE UNCHANGED vars
  BY <1>7 DEF vars, request
<1> QED
  BY <1>1, <1>2, <1>3, <1>4, <1>5, <1>6, <1>7 DEF Next

THEOREM WritingInit == Init => Writing
BY DEF Init, Writing

LEMMA AnswerWriting ==
  ASSUME TypeOK, Writing, NEW c \in Clients, NEW status, Answer(c, status)
  PROVE  Writing'
BY DEF TypeOK, Writing, Answer

LEMMA WritingStep ==
  ASSUME TypeOK, Writing, [Next]_vars
  PROVE  Writing'
<1> USE DEF TypeOK
<1>1. ASSUME NEW c \in Clients, Receive(c) PROVE Writing'
  <2>1. stage'[c] = "received" /\ reply'[c] = 0
    BY <1>1 DEF Receive
  <2>2. ASSUME NEW d \in Clients, d # c
        PROVE  /\ stage'[d] = stage[d] /\ id'[d] = id[d] /\ held'[d] = held[d]
               /\ reply'[d] = reply[d] /\ route'[d] = route[d]
    BY <1>1, <2>2 DEF Receive
  <2> QED
    BY <2>1, <2>2 DEF Writing
<1>2. ASSUME NEW c \in Clients, StatementFails(c) PROVE Writing'
  BY <1>2, AnswerWriting DEF StatementFails
<1>3. ASSUME NEW c \in Clients, Mint(c) PROVE Writing'
  <2>1. Minted[minted + 1] \in Texts
    BY <1>3, Basics, DocumentAssumption DEF Mint
  <2>2. id'[c] \in Texts /\ held'[c]["id"] # None /\ Sprint[held'[c]["id"]] = id'[c]
    <3>1. CASE NamedId(body[c]) = None
      <4>1. id'[c] = Minted[minted + 1] /\ held'[c] = [body[c] EXCEPT !["id"] = Minted[minted + 1]]
        BY <1>3, <3>1 DEF Mint
      <4>2. held'[c]["id"] = Minted[minted + 1]
        BY <4>1, Basics DEF Document
      <4> QED
        BY <2>1, <4>1, <4>2, Basics, DocumentAssumption
    <3>2. CASE NamedId(body[c]) # None
      BY <1>3, <3>2, NamedIdType DEF Mint, Keys
    <3> QED
      BY <3>1, <3>2
  <2>3. ASSUME NEW d \in Clients, d # c
        PROVE  /\ stage'[d] = stage[d] /\ id'[d] = id[d] /\ held'[d] = held[d]
               /\ reply'[d] = reply[d] /\ route'[d] = route[d]
    BY <1>3, <2>3 DEF Mint
  <2>4. reply'[c] = 0 /\ route'[c].method = "POST"
    BY <1>3 DEF Mint, Is, Writing
  <2> QED
    BY <2>2, <2>3, <2>4 DEF Writing
<1>4. ASSUME NEW c \in Clients, Find(c) PROVE Writing'
  <2>1. CASE Answer(c, 400)
    BY <2>1, AnswerWriting
  <2>2. CASE ~Answer(c, 400)
    <3>1. Target(c) \in Texts
      BY <1>4, <2>2, NamedIdType DEF Find, Target, Keys
    <3>2. (IF docs[Target(c)] = Absent THEN Empty ELSE docs[Target(c)]) \in Document
      BY <3>1, Basics DEF Keys
    <3>3. id'[c] = Target(c) /\ held'[c]["id"] = Target(c)
      <4>1. id' = [id EXCEPT ![c] = Target(c)]
        BY <1>4, <2>2 DEF Find
      <4>2. held'[c] = Merge(IF docs[Target(c)] = Absent THEN Empty ELSE docs[Target(c)],
                             body[c], Target(c))
        BY <1>4, <2>2 DEF Find
      <4>3. Merge(IF docs[Target(c)] = Absent THEN Empty ELSE docs[Target(c)],
                  body[c], Target(c))["id"] = Target(c)
        BY Basics DEF Merge
      <4> QED
        BY <4>1, <4>2, <4>3
    <3>4. ASSUME NEW d \in Clients, d # c
          PROVE  /\ stage'[d] = stage[d] /\ id'[d] = id[d] /\ held'[d] = held[d]
                 /\ reply'[d] = reply[d] /\ route'[d] = route[d]
      BY <1>4, <2>2, <3>4 DEF Find
    <3>5. reply'[c] = 0
      BY <1>4, <2>2 DEF Find, Is, Writing
    <3>6. held'[c]["id"] # None /\ Sprint[held'[c]["id"]] = id'[c]
      BY <3>1, <3>3, Basics, DocumentAssumption
    <3> QED
      BY <3>1, <3>3, <3>4, <3>5, <3>6 DEF Writing
  <2> QED
    BY <2>1, <2>2
<1>5. ASSUME NEW c \in Clients, Upsert(c) PROVE Writing'
  BY <1>5, AnswerWriting DEF Upsert
<1>6. ASSUME NEW c \in Clients, Delete(c) PROVE Writing'
  BY <1>6, AnswerWriting DEF Delete
<1>7. CASE UNCHANGED vars
  BY <1>7 DEF vars, request, Writing
<1> QED
  BY <1>1, <1>2, <1>3, <1>4, <1>5, <1>6, <1>7 DEF Next

-----------------------------------------------------------------------------
(* Ids nobody knows.                                                       *)

(* The scenario holds none of the ids to be minted.                        *)
THEOREM UnknownInit == Init => Unknown
<1> SUFFICES ASSUME Init PROVE Unknown
  OBVIOUS
<1>1. PICK S \in SUBSET Items :
        docs = [t \in Keys |->
          IF \E b \in S : DocumentID(b) = t
          THEN Decode(CHOOSE b \in S : DocumentID(b) = t)
          ELSE Absent]
  BY DEF Init
<1>2. ASSUME NEW b \in S, NEW i \in 1..Len(Minted)
      PROVE  DocumentID(b) # Minted[i]
  <2>1. CASE \E j \in DOMAIN IdKeys : IsFirstKey(b, j)
    <3>1. PICK j \in DOMAIN IdKeys : IsFirstKey(b, j) /\ DocumentID(b) = KeyText(b, j)
      BY <2>1 DEF DocumentID
    <3>2. IdKeys[j] \in Fields /\ b[IdKeys[j]] # None /\ DocumentID(b) = Scalar[b[IdKeys[j]]]
      BY <3>1, DocumentAssumption DEF IsFirstKey, KeyText
    <3> QED
      BY <3>1, <3>2, PrefixAssumption, DocumentAssumption
  <2>2. CASE ~\E j \in DOMAIN IdKeys : IsFirstKey(b, j)
    BY <2>2, Basics DEF DocumentID
  <2> QED
    BY <2>1, <2>2
<1>3. Secret \subseteq {Minted[i] : i \in 1..Len(Minted)}
  BY DEF Init, Secret
<1>4. \A t \in Secret : docs[t] = Absent
  BY <1>1, <1>2, <1>3, Basics DEF Keys
<1> QED
  BY <1>4 DEF Init, Unknown

(* No step makes an id unknown that was known.                             *)
LEMMA AnswerSecret ==
  ASSUME TypeOK, Writing, Unknown, NEW c \in Clients, NEW status, Answer(c, status),
         UNCHANGED minted
  PROVE  /\ Secret' \subseteq Secret
         /\ own[c] => id[c] \notin Secret'
         /\ \A d \in Clients \ {c} :
              /\ stage'[d] = stage[d] /\ id'[d] = id[d]
              /\ own'[d] = own[d] /\ body'[d] = body[d]
         /\ stage'[c] = "idle" /\ ~own'[c]
<1> USE DEF TypeOK
<1>1. /\ \A d \in Clients \ {c} :
              /\ stage'[d] = stage[d] /\ id'[d] = id[d]
              /\ own'[d] = own[d] /\ body'[d] = body[d]
      /\ stage'[c] = "idle" /\ ~own'[c]
  BY DEF Answer
<1>2. Secret' = {Minted[i] : i \in (minted + 1)..Len(Minted)}
          \union {id[d] : d \in {e \in Clients \ {c} : own[e] /\ stage[e] = "write"}}
  BY <1>1 DEF Secret
<1>3. own[c] => id[c] \notin Secret'
  <2> SUFFICES ASSUME own[c] PROVE id[c] \notin Secret'
    OBVIOUS
  <2>1. PICK i \in 1..minted : id[c] = Minted[i]
    BY DEF Unknown
  <2>2. id[c] \notin {Minted[j] : j \in (minted + 1)..Len(Minted)}
    BY <2>1, DocumentAssumption
  <2>3. \A d \in Clients \ {c} : own[d] => id[d] # id[c]
    BY DEF Unknown
  <2> QED
    BY <1>2, <2>2, <2>3
<1> QED
  BY <1>1, <1>2, <1>3 DEF Secret

(* An answer that leaves the table alone on unknown ids keeps the          *)
(* invariant.                                                              *)
LEMMA AnswerUnknown ==
  ASSUME TypeOK, Writing, Unknown, NEW c \in Clients, NEW status, Answer(c, status),
         UNCHANGED minted, \A t \in Secret' : docs'[t] = Absent
  PROVE  Unknown'
<1>1. /\ Secret' \subseteq Secret
      /\ \A d \in Clients \ {c} :
           /\ stage'[d] = stage[d] /\ id'[d] = id[d]
           /\ own'[d] = own[d] /\ body'[d] = body[d]
      /\ stage'[c] = "idle" /\ ~own'[c]
  BY AnswerSecret
<1> QED
  BY <1>1 DEF Unknown, NamedId

LEMMA UnknownStep ==
  ASSUME TypeOK, Writing, Unknown, [Next]_vars
  PROVE  Unknown'
<1> USE DEF TypeOK
<1>1. ASSUME NEW c \in Clients, Receive(c) PROVE Unknown'
  <2>1. PICK r \in Routes : \E params \in [r.names -> Texts \ Secret] :
          \E b \in IF r.method \in {"POST", "PUT"} THEN Bodies ELSE {Empty} :
            /\ NamedId(b) \notin Secret
            /\ route' = [route EXCEPT ![c] = r]
            /\ body' = [body EXCEPT ![c] = WithParams(b, r, params)]
            /\ \E t \in ItemIds(r, params) : id' = [id EXCEPT ![c] = t]
    BY <1>1 DEF Receive
  <2>2. PICK params \in [r.names -> Texts \ Secret],
             b \in IF r.method \in {"POST", "PUT"} THEN Bodies ELSE {Empty} :
            /\ NamedId(b) \notin Secret
            /\ route' = [route EXCEPT ![c] = r]
            /\ body' = [body EXCEPT ![c] = WithParams(b, r, params)]
            /\ \E t \in ItemIds(r, params) : id' = [id EXCEPT ![c] = t]
    BY <2>1
  <2>3. b \in Document /\ None \notin Secret
    BY <2>2, Basics, SecretType, DocumentAssumption
  <2>4. /\ NamedId(WithParams(b, r, params)) \notin Secret
        /\ ItemIds(r, params) \subseteq Keys \ Secret
    BY <2>2, <2>3, ReceivedType
  <2>5. ~own[c] /\ stage[c] = "idle" /\ stage'[c] = "received" /\ own' = own /\ docs' = docs
        /\ minted' = minted
    BY <1>1 DEF Receive, Unknown
  <2>6. \A d \in Clients \ {c} : stage'[d] = stage[d] /\ id'[d] = id[d] /\ body'[d] = body[d]
    BY <1>1, <2>2 DEF Receive
  <2>7. Secret' = Secret
    BY <2>5, <2>6 DEF Secret
  <2>8. id'[c] \notin Secret /\ NamedId(body[c])' \notin Secret
    <3>1. body'[c] = WithParams(b, r, params)
      BY <2>2
    <3> QED
      BY <2>2, <2>4, <3>1 DEF NamedId
  <2> QED
    BY <2>5, <2>6, <2>7, <2>8 DEF Unknown, NamedId
<1>2. ASSUME NEW c \in Clients, StatementFails(c) PROVE Unknown'
  BY <1>2, AnswerSecret, AnswerUnknown DEF StatementFails, Unknown
<1>3. ASSUME NEW c \in Clients, Mint(c) PROVE Unknown'
  <2>1. /\ stage[c] = "received" /\ ~own[c] /\ stage'[c] = "write"
        /\ minted' = minted + 1 /\ minted + 1 \in 1..Len(Minted)
        /\ docs' = docs /\ body' = body
    BY <1>3, DocumentAssumption DEF Mint, Is, Unknown
  <2>2. \A d \in Clients \ {c} : stage'[d] = stage[d] /\ id'[d] = id[d] /\ own'[d] = own[d]
    BY <1>3 DEF Mint
  <2>3. Minted[minted + 1] \in Secret
    BY <2>1 DEF Secret
  <2>4. CASE NamedId(body[c]) = None
    <3>1. own'[c] /\ id'[c] = Minted[minted + 1]
      BY <1>3, <2>4 DEF Mint
    <3>2. Secret' \subseteq Secret
      BY <2>1, <2>2, <2>3, <3>1 DEF Secret
    <3>3. \A d \in Clients \ {c} : own[d] => id[d] # Minted[minted + 1]
      BY <2>1, DocumentAssumption DEF Unknown
    <3>4. \A d \in Clients : own'[d] => stage'[d] = "write" /\ \E i \in 1..minted' : id'[d] = Minted[i]
      BY <2>1, <2>2, <3>1 DEF Unknown
    <3>5. \A d, e \in Clients : own'[d] /\ own'[e] /\ id'[d] = id'[e] => d = e
      BY <2>2, <3>1, <3>3 DEF Unknown
    <3>6. \A d \in Clients : stage'[d] = "write" /\ ~own'[d] => id'[d] \notin Secret'
      BY <2>2, <3>1, <3>2 DEF Unknown
    <3>7. \A d \in Clients : stage'[d] = "received" =>
            id'[d] \notin Secret' /\ NamedId(body[d]) \notin Secret'
      BY <2>1, <2>2, <3>2 DEF Unknown
    <3> QED
      BY <2>1, <3>2, <3>4, <3>5, <3>6, <3>7 DEF Unknown, NamedId
  <2>5. CASE NamedId(body[c]) # None
    <3>1. ~own'[c] /\ id'[c] = NamedId(body[c])
      BY <1>3, <2>5 DEF Mint
    <3>2. Secret' \subseteq Secret
      BY <2>1, <2>2, <3>1 DEF Secret
    <3> QED
      BY <2>1, <2>2, <3>1, <3>2 DEF Unknown, NamedId
  <2> QED
    BY <2>4, <2>5
<1>4. ASSUME NEW c \in Clients, Find(c) PROVE Unknown'
  <2>1. CASE Answer(c, 400)
    BY <1>4, <2>1, AnswerSecret, AnswerUnknown DEF Find, Unknown
  <2>2. CASE ~Answer(c, 400)
    <3>1. /\ stage[c] = "received" /\ ~own[c] /\ stage'[c] = "write" /\ id'[c] = Target(c)
          /\ minted' = minted /\ docs' = docs /\ body' = body /\ own' = own
      BY <1>4, <2>2 DEF Find, Is, Unknown
    <3>2. \A d \in Clients \ {c} : stage'[d] = stage[d] /\ id'[d] = id[d]
      BY <1>4, <2>2 DEF Find
    <3>3. Secret' = Secret
      BY <3>1, <3>2 DEF Secret
    <3>4. Target(c) \notin Secret
      BY <3>1 DEF Target, Unknown
    <3> QED
      BY <3>1, <3>2, <3>3, <3>4 DEF Unknown, NamedId
  <2> QED
    BY <2>1, <2>2
<1>5. ASSUME NEW c \in Clients, Upsert(c) PROVE Unknown'
  <2>1. Answer(c, 200) /\ minted' = minted /\ docs' = [docs EXCEPT ![id[c]] = held[c]]
    BY <1>5 DEF Upsert
  <2>2. Secret' \subseteq Secret /\ id[c] \notin Secret'
    BY <1>5, <2>1, AnswerSecret DEF Upsert, Unknown
  <2> QED
    BY <2>1, <2>2, AnswerUnknown, SecretType, Basics DEF Unknown, Keys
<1>6. ASSUME NEW c \in Clients, Delete(c) PROVE Unknown'
  <2>1. Answer(c, 204) /\ minted' = minted
        /\ docs' = [t \in Keys |-> IF t = id[c] THEN Absent ELSE docs[t]]
    BY <1>6 DEF Delete
  <2> QED
    BY <2>1, AnswerSecret, AnswerUnknown, SecretType DEF Unknown, Keys
<1>7. CASE UNCHANGED vars
  BY <1>7 DEF vars, request, Unknown, Secret, NamedId
<1> QED
  BY <1>1, <1>2, <1>3, <1>4, <1>5, <1>6, <1>7 DEF Next

-----------------------------------------------------------------------------
(* The theorems.                                                           *)

THEOREM Invariance == Spec => []IInv
<1>1. Init => IInv
  BY TypeInit, WritingInit, UnknownInit DEF IInv
<1>2. IInv /\ [Next]_vars => IInv'
  BY TypeStep, WritingStep, UnknownStep DEF IInv
<1> QED
  BY <1>1, <1>2, PTL DEF Spec

(* The types, for any number of requests.                                  *)
THEOREM TypeCorrect == Spec => []TypeOK
<1>1. IInv => TypeOK
  BY DEF IInv
<1> QED
  BY <1>1, Invariance, PTL

(* However requests interleave, a document the server names replaces none. *)
THEOREM CreateReplacesNothingHolds == Spec => CreateReplacesNothing
<1>1. ASSUME IInv, [Next]_vars, NEW c \in Clients, stage[c] = "write", own[c]
      PROVE  docs[id[c]] = Absent
  BY <1>1 DEF IInv, Unknown, Secret
<1>2. IInv /\ [Next]_vars =>
        [\A c \in Clients :
           stage[c] = "write" /\ own[c] /\ reply'[c] = 200 => docs[id[c]] = Absent]_vars
  BY <1>1
<1> QED
  BY <1>2, Invariance, PTL DEF Spec, CreateReplacesNothing

(* A request that was about to write and is answered 200 has written.      *)
LEMMA WriterUpserts ==
  ASSUME IInv, Next, NEW c \in Clients, stage[c] = "write", reply'[c] = 200
  PROVE  Upsert(c)
<1>1. reply[c] = 0
  BY DEF IInv, Writing
<1>2. PICK d \in Clients :
        Receive(d) \/ StatementFails(d) \/ Mint(d) \/ Find(d) \/ Upsert(d) \/ Delete(d)
  BY DEF Next
<1>3. Upsert(d)
  BY <1>1, <1>2 DEF IInv, TypeOK, Receive, StatementFails, Mint, Find, Delete, Answer
<1>4. reply' = [reply EXCEPT ![d] = 200]
  BY <1>3 DEF Upsert, Answer
<1>5. d = c
  BY <1>1, <1>4 DEF IInv, TypeOK
<1> QED
  BY <1>3, <1>5

(* What is written is found under the id the client was answered; what a   *)
(* POST named by a number may be found under what that prints as instead.  *)
THEOREM WriteIsFoundHolds == Spec => WriteIsFound
<1>1. ASSUME IInv, Next, NEW c \in Clients, stage[c] = "write", reply'[c] = 200
      PROVE  LET named == held[c]["id"] IN
             \/ FoundUnder(c, Scalar[named])
             \/ /\ route[c].method = "POST" /\ Sprint[named] # Scalar[named]
                /\ FoundUnder(c, Sprint[named])
  <2>1. id[c] \in Texts /\ Sprint[held[c]["id"]] = id[c] /\ FoundUnder(c, id[c])
    <3>1. Upsert(c)
      BY <1>1, WriterUpserts
    <3> QED
      BY <1>1, <3>1 DEF Upsert, IInv, TypeOK, Writing, Keys, FoundUnder
  <2>2. CASE held[c]["id"] = id[c]
    BY <2>1, <2>2, DocumentAssumption
  <2>3. CASE route[c].method = "POST"
    BY <2>1, <2>3
  <2> QED
    BY <1>1, <2>2, <2>3 DEF IInv, Writing
<1>2. IInv /\ [Next]_vars =>
        [\A c \in Clients : stage[c] = "write" /\ reply'[c] = 200 =>
            LET named == held[c]["id"] IN
            \/ FoundUnder(c, Scalar[named])
            \/ /\ route[c].method = "POST" /\ Sprint[named] # Scalar[named]
               /\ FoundUnder(c, Sprint[named])]_vars
  BY <1>1
<1> QED
  BY <1>2, Invariance, PTL DEF Spec, WriteIsFound

-----------------------------------------------------------------------------
(* Keys.                                                                   *)

LEMMA FiledStep ==
  ASSUME TypeOK, Writing, DumpReloads, [Next]_vars
  PROVE  DumpReloads'
<1>1. ASSUME NEW c \in Clients, Upsert(c) PROVE DumpReloads'
  <2>1. id[c] \in Texts /\ held[c] \in Document /\ held[c]["id"] # None
        /\ Sprint[held[c]["id"]] = id[c]
    BY <1>1 DEF Upsert, Writing, TypeOK
  <2>2. DocumentID(held[c]) = id[c] \/ held[c]["id"] \in Values \ Texts
    <3>1. held[c]["id"] \in Values
      BY <2>1, Basics DEF Document
    <3>2. CASE held[c]["id"] \in Texts
      BY <2>1, <3>2, NamedKey, Basics, DocumentAssumption
    <3> QED
      BY <3>1, <3>2
  <2>3. docs' = [docs EXCEPT ![id[c]] = held[c]]
    BY <1>1 DEF Upsert
  <2>4. ASSUME NEW t \in Keys, docs'[t] # Absent
        PROVE  \/ DocumentID(docs'[t]) = t
               \/ docs'[t]["id"] \in Values \ Texts /\ Sprint[docs'[t]["id"]] = t
               \/ \E b \in Items : DocumentID(b) = t /\ docs'[t] = Decode(b)
    <3>1. CASE t = id[c]
      BY <2>1, <2>2, <2>3, <3>1 DEF TypeOK
    <3>2. CASE t # id[c]
      BY <2>3, <2>4, <3>2 DEF DumpReloads, TypeOK
    <3> QED
      BY <3>1, <3>2
  <2> QED
    BY <2>4 DEF DumpReloads, DocumentID, IsFirstKey, KeyText
<1>2. ASSUME NEW c \in Clients, Delete(c) PROVE DumpReloads'
  <2>1. ASSUME NEW t \in Keys, docs'[t] # Absent
        PROVE  docs[t] # Absent /\ docs'[t] = docs[t]
    BY <1>2, <2>1 DEF Delete
  <2>2. ASSUME NEW t \in Keys, docs'[t] # Absent
        PROVE  \/ DocumentID(docs'[t]) = t
               \/ docs'[t]["id"] \in Values \ Texts /\ Sprint[docs'[t]["id"]] = t
               \/ \E b \in Items : DocumentID(b) = t /\ docs'[t] = Decode(b)
    BY <2>1, <2>2 DEF DumpReloads
  <2> QED
    BY <2>2 DEF DumpReloads, DocumentID, IsFirstKey, KeyText
<1>3. ASSUME UNCHANGED docs PROVE DumpReloads'
  BY <1>3 DEF DumpReloads, DocumentID, IsFirstKey, KeyText
<1> QED
  BY <1>1, <1>2, <1>3 DEF Next, vars, Receive, StatementFails, Mint, Find

(* A dump loads into the same table, but for documents whose id was given  *)
(* as a number that has more texts than one.                               *)
THEOREM DumpReloadsHolds == Spec => []DumpReloads
<1>1. Init => DumpReloads
  <2> SUFFICES ASSUME Init, NEW t \in Keys, docs[t] # Absent
               PROVE  \E b \in Items : DocumentID(b) = t /\ docs[t] = Decode(b)
    BY DEF DumpReloads
  <2>1. PICK S \in SUBSET Items :
          docs = [u \in Keys |->
            IF \E b \in S : DocumentID(b) = u
            THEN Decode(CHOOSE b \in S : DocumentID(b) = u)
            ELSE Absent]
    BY DEF Init
  <2>2. \E b \in S : DocumentID(b) = t
    BY <2>1
  <2>3. DocumentID(CHOOSE b \in S : DocumentID(b) = t) = t
        /\ (CHOOSE b \in S : DocumentID(b) = t) \in Items
    BY <2>2
  <2> QED
    BY <2>1, <2>2, <2>3
<1>2. IInv /\ DumpReloads /\ [Next]_vars => DumpReloads'
  BY FiledStep DEF IInv
<1> QED
  BY <1>1, <1>2, Invariance, PTL DEF Spec

-----------------------------------------------------------------------------
(* Updates.                                                                *)

(* A request whose own state and document stay keeps its part of Merged.   *)
LEMMA MergedStays ==
  ASSUME Merged, NEW d \in Clients,
         /\ stage'[d] = stage[d] /\ route'[d] = route[d] /\ held'[d] = held[d]
         /\ id'[d] = id[d] /\ body'[d] = body[d],
         Updating(d) /\ ~behind'[d] => ~behind[d] /\ docs'[id[d]] = docs[id[d]]
  PROVE  Updating(d)' /\ ~behind'[d] => held'[d] = Merge(Found(id[d])', body'[d], id'[d])
BY DEF Merged, Updating, Found

(* An answer: the others stay, and are overtaken if their document is      *)
(* written.                                                                *)
LEMMA AnswerMerged ==
  ASSUME TypeOK, Merged, NEW c \in Clients, NEW status, Answer(c, status),
         \A d \in Clients \ {c} :
           Updating(d) /\ ~behind'[d] => ~behind[d] /\ docs'[id[d]] = docs[id[d]]
  PROVE  Merged'
<1>1. ~Updating(c)'
  BY DEF Answer, TypeOK, Updating
<1>2. ASSUME NEW d \in Clients, d # c
      PROVE  /\ stage'[d] = stage[d] /\ route'[d] = route[d] /\ held'[d] = held[d]
             /\ id'[d] = id[d] /\ body'[d] = body[d]
  BY <1>2 DEF Answer, TypeOK
<1>3. ASSUME NEW d \in Clients, d # c
      PROVE  Updating(d)' /\ ~behind'[d] => held'[d] = Merge(Found(id[d])', body'[d], id'[d])
  BY <1>2, <1>3, MergedStays
<1> QED
  BY <1>1, <1>3 DEF Merged, Found

LEMMA MergedStep ==
  ASSUME TypeOK, Merged, [Next]_vars
  PROVE  Merged'
<1>1. ASSUME NEW c \in Clients, Receive(c) PROVE Merged'
  <2>1. stage'[c] = "received" /\ docs' = docs /\ behind' = behind
    BY <1>1 DEF Receive, TypeOK
  <2>2. ASSUME NEW d \in Clients, d # c
        PROVE  /\ stage'[d] = stage[d] /\ route'[d] = route[d] /\ held'[d] = held[d]
               /\ id'[d] = id[d] /\ body'[d] = body[d]
    BY <1>1, <2>2 DEF Receive, TypeOK
  <2>3. ~Updating(c)'
    BY <2>1 DEF Updating
  <2>4. ASSUME NEW d \in Clients, d # c
        PROVE  Updating(d)' /\ ~behind'[d] => held'[d] = Merge(Found(id[d])', body'[d], id'[d])
    BY <2>1, <2>2, <2>4, MergedStays
  <2> QED
    BY <2>3, <2>4 DEF Merged, Found
<1>2. ASSUME NEW c \in Clients, StatementFails(c) PROVE Merged'
  <2>1. docs' = docs /\ Answer(c, 500) /\ \A d \in Clients \ {c} : behind'[d] = behind[d]
    BY <1>2 DEF StatementFails, TypeOK
  <2> QED
    BY <2>1, AnswerMerged
<1>3. ASSUME NEW c \in Clients, Mint(c) PROVE Merged'
  <2>1. docs' = docs /\ behind' = behind /\ route' = route /\ body' = body
        /\ route[c].method = "POST"
    BY <1>3 DEF Mint, Is
  <2>2. ASSUME NEW d \in Clients, d # c
        PROVE  stage'[d] = stage[d] /\ held'[d] = held[d] /\ id'[d] = id[d]
    BY <1>3, <2>2 DEF Mint, TypeOK
  <2>3. ~Updating(c)'
    BY <2>1 DEF Updating
  <2>4. ASSUME NEW d \in Clients, d # c
        PROVE  Updating(d)' /\ ~behind'[d] => held'[d] = Merge(Found(id[d])', body'[d], id'[d])
    BY <2>1, <2>2, <2>4, MergedStays
  <2> QED
    BY <2>3, <2>4 DEF Merged, Found
<1>4. ASSUME NEW c \in Clients, Find(c) PROVE Merged'
  <2>1. docs' = docs /\ behind' = behind
    BY <1>4 DEF Find
  <2>2. CASE Answer(c, 400)
    BY <2>1, <2>2, AnswerMerged
  <2>3. CASE ~Answer(c, 400)
    <3>1. /\ route' = route /\ body' = body
          /\ id' = [id EXCEPT ![c] = Target(c)]
          /\ held' = [held EXCEPT ![c] = Merge(Found(Target(c)), body[c], Target(c))]
          /\ stage' = [stage EXCEPT ![c] = "write"]
      BY <1>4, <2>3 DEF Find, Found
    <3>2. held'[c] = Merge(Found(id'[c]), body'[c], id'[c])
      BY <3>1 DEF TypeOK
    <3>3. ASSUME NEW d \in Clients, d # c
          PROVE  stage'[d] = stage[d] /\ held'[d] = held[d] /\ id'[d] = id[d]
      BY <3>1, <3>3 DEF TypeOK
    <3>4. ASSUME NEW d \in Clients, d # c
          PROVE  Updating(d)' /\ ~behind'[d] => held'[d] = Merge(Found(id[d])', body'[d], id'[d])
      BY <2>1, <3>1, <3>3, <3>4, MergedStays
    <3> QED
      BY <2>1, <3>2, <3>4 DEF Merged, Found
  <2> QED
    BY <2>2, <2>3
<1>5. ASSUME NEW c \in Clients, Upsert(c) PROVE Merged'
  <2>1. ASSUME NEW d \in Clients \ {c}, Updating(d), ~behind'[d]
        PROVE  ~behind[d] /\ docs'[id[d]] = docs[id[d]]
    <3>1. ~behind[d] /\ id[d] # id[c]
      BY <1>5, <2>1 DEF Upsert, Overtake, Overtakes, Updating
    <3> QED
      BY <1>5, <3>1 DEF Upsert, TypeOK
  <2> QED
    BY <1>5, <2>1, AnswerMerged DEF Upsert
<1>6. ASSUME NEW c \in Clients, Delete(c) PROVE Merged'
  <2>1. ASSUME NEW d \in Clients \ {c}, Updating(d), ~behind'[d]
        PROVE  ~behind[d] /\ docs'[id[d]] = docs[id[d]]
    <3>1. ~behind[d] /\ id[d] # id[c]
      BY <1>6, <2>1 DEF Delete, Overtake, Overtakes, Updating
    <3> QED
      BY <1>6, <3>1 DEF Delete, TypeOK
  <2> QED
    BY <1>6, <2>1, AnswerMerged DEF Delete
<1>7. CASE UNCHANGED vars
  BY <1>7 DEF vars, request, Merged, Updating, Found
<1> QED
  BY <1>1, <1>2, <1>3, <1>4, <1>5, <1>6, <1>7 DEF Next

(* PUT and PATCH: however requests interleave, an update that none         *)
(* overtook changes the fields it names and no other.                      *)
THEOREM UpdatedAsAskedHolds == Spec => UpdatedAsAsked
<1>1. Init => Merged
  BY DEF Init, Merged, Updating
<1>2. IInv /\ Merged /\ [Next]_vars => Merged'
  BY MergedStep DEF IInv
<1>3. ASSUME IInv, Merged, Next, NEW c \in Clients, Updating(c), reply'[c] = 200, ~behind[c],
             NEW f \in Fields \ {"id"}
      PROVE  docs'[id[c]][f] =
               IF body[c][f] # None THEN body[c][f]
               ELSE IF docs[id[c]] = Absent THEN None ELSE docs[id[c]][f]
  <2>1. held[c] = Merge(Found(id[c]), body[c], id[c])
    BY <1>3 DEF Merged
  <2>2. held[c][f] = IF body[c][f] # None THEN body[c][f] ELSE Found(id[c])[f]
    BY <2>1 DEF Merge
  <2>3. Found(id[c])[f] = IF docs[id[c]] = Absent THEN None ELSE docs[id[c]][f]
    BY DEF Found, Empty
  <2>4. docs'[id[c]] = held[c]
    <3>1. stage[c] = "write" /\ id[c] \in Keys
      BY <1>3 DEF IInv, TypeOK, Updating
    <3>2. Upsert(c)
      BY <1>3, <3>1, WriterUpserts
    <3> QED
      BY <1>3, <3>1, <3>2 DEF Upsert, IInv, TypeOK
  <2> QED
    BY <2>2, <2>3, <2>4
<1>4. IInv /\ Merged /\ [Next]_vars =>
        [\A c \in Clients :
           stage[c] = "write" /\ route[c].method = "PUT" /\ reply'[c] = 200 /\ ~behind[c] =>
             \A f \in Fields \ {"id"} :
               docs'[id[c]][f] =
                 IF body[c][f] # None THEN body[c][f]
                 ELSE IF docs[id[c]] = Absent THEN None ELSE docs[id[c]][f]]_vars
  BY <1>3 DEF Updating
<1> QED
  BY <1>1, <1>2, <1>4, Invariance, PTL DEF Spec, UpdatedAsAsked
=============================================================================

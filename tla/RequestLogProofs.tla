---------------------------- MODULE RequestLogProofs ----------------------------
(***************************************************************************)
(* For any requests, limit and sizes: the captures hold what they should   *)
(* at every step, a line is a copy of captures that no longer change, and  *)
(* the mutex keeps the only line that is not yet synced at the end of the  *)
(* file.                                                                   *)
(***************************************************************************)
EXTENDS RequestLog, TLAPS

Unrecorded == {"idle", "handling", "aborted", "refused"}

(* The captures agree with what went through them.                         *)
Captured ==
  \A q \in Requests :
    /\ Holds(taken[q], read[q]) /\ Holds(given[q], reply[q].bytes)
    /\ stage[q] # "refused" => status[q] = reply[q].status
    /\ stage[q] \notin Unrecorded => status[q] # Unset

Done == {"written", "recorded", "answered"}

(* A line is written once, from captures that no longer change.            *)
Written ==
  \A i \in DOMAIN file :
    LET q == file[i].request
    IN /\ stage[q] \in Done
       /\ file[i].entry = [status |-> status[q], request |-> taken[q], response |-> given[q]]
       /\ \A j \in DOMAIN file : file[j].request = q => j = i

Mutex == \A q \in Requests : stage[q] \in {"locked", "written"} <=> holder = q

(* What is neither on disk nor known to be lost is the last line.          *)
Pending ==
  \A i \in DOMAIN file :
    LET q == file[i].request
    IN /\ stage[q] = "written" => i = Len(file)
       /\ ~file[i].whole => lost[q] # "no" \/ (stage[q] = "written" /\ i \notin safe)
       /\ i \in safe => stage[q] # "written"

(* A request that lost nothing has its line.                               *)
Kept ==
  \A q \in Requests : lost[q] = "no" =>
    /\ stage[q] = "written" /\ up => \E i \in DOMAIN file : file[i].request = q /\ file[i].whole
    /\ stage[q] \in {"recorded", "answered"} =>
         \E i \in safe : file[i].request = q /\ file[i].whole

Inv == TypeOK /\ Captured /\ Written /\ Mutex /\ Pending /\ Kept

-----------------------------------------------------------------------------
(* Captures.                                                               *)

LEMMA LeastType ==
  ASSUME NEW m \in Nat, NEW n \in Nat
  PROVE  Least(m, n) \in Nat /\ Least(m, n) <= m /\ Least(m, n) <= n
BY DEF Least

LEMMA EmptyHolds == Empty \in Message /\ Holds(Empty, 0)
BY LogAssumption DEF Empty, Message, Holds, Least

LEMMA CaptureHolds ==
  ASSUME NEW c \in Message, NEW m \in Nat, NEW n \in Nat, Holds(c, m)
  PROVE  Capture(c, n) \in Message /\ Holds(Capture(c, n), m + n)
<1> DEFINE remaining == Limit - c.buffer
           more == c.truncated \/ n > remaining
<1>1. /\ c.buffer \in Nat /\ c.bytes \in Nat /\ c.truncated \in BOOLEAN /\ Limit \in Nat
      /\ c.buffer = Least(m, Limit) /\ c.bytes = m /\ (c.truncated <=> m > Limit)
  BY LogAssumption DEF Message, Holds
<1>2. Least(remaining, n) \in Nat /\ c.buffer + Least(remaining, n) = Least(m + n, Limit)
  BY <1>1 DEF Least
<1>3. more \in BOOLEAN /\ (more <=> m + n > Limit)
  BY <1>1 DEF Least
<1>4. Capture(c, n) = [buffer |-> c.buffer + Least(remaining, n), bytes |-> c.bytes + n,
                       truncated |-> more]
  BY DEF Capture
<1>5. c.bytes + n = m + n /\ m + n \in Nat /\ c.buffer + Least(remaining, n) \in Nat
  BY <1>1, <1>2
<1> HIDE DEF remaining, more
<1> QED
  BY <1>2, <1>3, <1>4, <1>5 DEF Message, Holds

LEMMA FirstType ==
  ASSUME NEW old \in Statuses \union {Unset}, NEW new \in Statuses
  PROVE  First(old, new) \in Statuses /\ First(old, new) # Unset
BY LogAssumption DEF First

-----------------------------------------------------------------------------
(* Steps of a handler.                                                     *)

Before == {"idle", "handling"}

(* A step that changes the exchange of one request which is not recorded   *)
(* yet disturbs nothing that is in the log.                                *)
LEMMA ExchangeStep ==
  ASSUME Inv, NEW q \in Requests, NEW s \in {"handling", "returned", "aborted", "refused"},
         stage[q] \in Before, stage' = [stage EXCEPT ![q] = s],
         \A p \in Requests \ {q} : /\ status'[p] = status[p] /\ taken'[p] = taken[p]
                                  /\ given'[p] = given[p],
         UNCHANGED <<log, up>>, TypeOK', Captured'
  PROVE  Inv'
<1>1. /\ file' = file /\ safe' = safe /\ open' = open /\ holder' = holder
      /\ lost' = lost /\ up' = up
  BY DEF log
<1>2. /\ stage \in [Requests -> {"idle", "handling", "returned", "locked", "written",
                                 "recorded", "answered", "aborted", "refused"}]
      /\ file \in Seq(Piece) /\ safe \subseteq DOMAIN file
  BY DEF Inv, TypeOK
<1>3. \A i \in DOMAIN file : file[i] \in Piece /\ file[i].request \in Requests
  <2>1. \A i \in DOMAIN file : file[i] \in Piece
    BY <1>2
  <2> QED
    BY <2>1 DEF Piece
<1>4. \A p \in Requests : stage'[p] = IF p = q THEN s ELSE stage[p]
  BY <1>2
<1>5. \A i \in DOMAIN file : file[i].request # q
  BY DEF Inv, Written, Before, Done
<1>6. Written'
  BY <1>1, <1>3, <1>4, <1>5 DEF Inv, Written
<1>7. Mutex'
  BY <1>1, <1>4 DEF Inv, Mutex, Before
<1>8. Pending'
  BY <1>1, <1>3, <1>4, <1>5 DEF Inv, Pending
<1>9. Kept'
  BY <1>1, <1>4 DEF Inv, Kept
<1> QED
  BY <1>6, <1>7, <1>8, <1>9 DEF Inv

LEMMA BeginStep ==
  ASSUME Inv, NEW q \in Requests, Begin(q)
  PROVE  Inv'
<1>1. /\ TypeOK /\ stage[q] = "idle" /\ stage' = [stage EXCEPT ![q] = "handling"]
      /\ UNCHANGED <<taken, given, status, read, reply, log, up>>
  BY DEF Begin, Move, Inv
<1>2. PICK n \in Lengths : length' = [length EXCEPT ![q] = n]
  BY DEF Begin
<1>3. TypeOK'
  BY <1>1, <1>2 DEF TypeOK, log
<1>4. Captured'
  BY <1>1 DEF Inv, Captured, Unrecorded, TypeOK
<1> QED
  BY <1>1, <1>3, <1>4, ExchangeStep DEF Before

LEMMA ReadBodyStep ==
  ASSUME Inv, NEW q \in Requests, ReadBody(q)
  PROVE  Inv'
<1>1. /\ TypeOK /\ stage[q] = "handling" /\ UNCHANGED <<stage, length, log, up, given, status, reply>>
  BY DEF ReadBody, Handles, Inv
<1>2. PICK n \in Chunks : /\ read' = [read EXCEPT ![q] = read[q] + n]
                         /\ taken' = [taken EXCEPT ![q] = Capture(taken[q], n)]
  BY DEF ReadBody
<1>3. n \in Nat /\ read[q] \in Nat /\ taken[q] \in Message /\ Holds(taken[q], read[q])
  BY <1>1, LogAssumption DEF TypeOK, Inv, Captured
<1>4. Capture(taken[q], n) \in Message /\ Holds(Capture(taken[q], n), read[q] + n)
  BY <1>3, CaptureHolds
<1>5. TypeOK'
  BY <1>1, <1>2, <1>3, <1>4 DEF TypeOK, log
<1>6. Captured'
  BY <1>1, <1>2, <1>3, <1>4 DEF Inv, Captured, Unrecorded, TypeOK
<1>7. stage' = [stage EXCEPT ![q] = "handling"]
  BY <1>1 DEF TypeOK
<1>8. \A p \in Requests \ {q} : taken'[p] = taken[p]
  BY <1>1, <1>2 DEF TypeOK
<1> QED
  BY <1>1, <1>5, <1>6, <1>7, <1>8, ExchangeStep DEF Before

LEMMA WriteHeaderStep ==
  ASSUME Inv, NEW q \in Requests, WriteHeader(q)
  PROVE  Inv'
<1>1. /\ TypeOK /\ stage[q] = "handling" /\ UNCHANGED <<stage, length, log, up, taken, given, read>>
  BY DEF WriteHeader, Handles, Inv
<1>2. PICK s \in Statuses : /\ status' = [status EXCEPT ![q] = First(status[q], s)]
                           /\ reply' = [reply EXCEPT ![q].status = First(reply[q].status, s)]
  BY DEF WriteHeader
<1>3. /\ status[q] = reply[q].status /\ status[q] \in Statuses \union {Unset}
      /\ reply[q] \in [status : Statuses \union {Unset, BadGateway}, bytes : Nat]
  BY <1>1 DEF TypeOK, Inv, Captured
<1>4. First(status[q], s) \in Statuses /\ First(status[q], s) # Unset
  BY <1>3, FirstType
<1>5. /\ reply'[q].status = First(status[q], s) /\ reply'[q].bytes = reply[q].bytes
      /\ reply' \in [Requests -> [status : Statuses \union {Unset, BadGateway}, bytes : Nat]]
      /\ \A p \in Requests \ {q} : reply'[p] = reply[p] /\ status'[p] = status[p]
      /\ status'[q] = First(status[q], s)
  BY <1>1, <1>2, <1>3, <1>4 DEF TypeOK
<1>6. TypeOK'
  BY <1>1, <1>2, <1>4, <1>5 DEF TypeOK, log
<1>7. Captured'
  BY <1>1, <1>4, <1>5 DEF Inv, Captured, Unrecorded
<1>8. stage' = [stage EXCEPT ![q] = "handling"]
  BY <1>1 DEF TypeOK
<1> QED
  BY <1>1, <1>5, <1>6, <1>7, <1>8, ExchangeStep DEF Before

LEMMA WriteStep ==
  ASSUME Inv, NEW q \in Requests, Write(q)
  PROVE  Inv'
<1>1. /\ TypeOK /\ stage[q] = "handling" /\ UNCHANGED <<stage, length, log, up, taken, read>>
      /\ status' = [status EXCEPT ![q] = First(status[q], OK)]
  BY DEF Write, Handles, Inv
<1>2. PICK n \in Chunks :
        /\ given' = [given EXCEPT ![q] = Capture(given[q], n)]
        /\ reply' = [reply EXCEPT ![q] = [status |-> First(reply[q].status, OK),
                                         bytes |-> reply[q].bytes + n]]
  BY DEF Write
<1>3. /\ status[q] = reply[q].status /\ status[q] \in Statuses \union {Unset}
      /\ reply[q] \in [status : Statuses \union {Unset, BadGateway}, bytes : Nat] /\ reply[q].bytes \in Nat
      /\ n \in Nat /\ given[q] \in Message /\ Holds(given[q], reply[q].bytes) /\ OK \in Statuses
  BY <1>1, LogAssumption DEF TypeOK, Inv, Captured
<1>4. First(status[q], OK) \in Statuses /\ First(status[q], OK) # Unset
  BY <1>3, FirstType
<1>5. Capture(given[q], n) \in Message /\ Holds(Capture(given[q], n), reply[q].bytes + n)
  BY <1>3, CaptureHolds
<1>6. /\ reply'[q].status = First(status[q], OK) /\ reply'[q].bytes = reply[q].bytes + n
      /\ reply' \in [Requests -> [status : Statuses \union {Unset, BadGateway}, bytes : Nat]]
      /\ \A p \in Requests \ {q} :
           reply'[p] = reply[p] /\ status'[p] = status[p] /\ given'[p] = given[p]
      /\ status'[q] = First(status[q], OK) /\ given'[q] = Capture(given[q], n)
  BY <1>1, <1>2, <1>3, <1>4 DEF TypeOK
<1>7. TypeOK'
  BY <1>1, <1>2, <1>4, <1>5, <1>6 DEF TypeOK, log
<1>8. Captured'
  BY <1>1, <1>4, <1>5, <1>6 DEF Inv, Captured, Unrecorded
<1>9. stage' = [stage EXCEPT ![q] = "handling"]
  BY <1>1 DEF TypeOK
<1> QED
  BY <1>1, <1>6, <1>7, <1>8, <1>9, ExchangeStep DEF Before

LEMMA ReturnStep ==
  ASSUME Inv, NEW q \in Requests, Return(q)
  PROVE  Inv'
<1>1. /\ TypeOK /\ stage[q] = "handling" /\ stage' = [stage EXCEPT ![q] = "returned"]
      /\ UNCHANGED <<length, taken, given, read, log, up>>
      /\ status' = [status EXCEPT ![q] = First(status[q], OK)]
      /\ reply' = [reply EXCEPT ![q].status = First(reply[q].status, OK)]
  BY DEF Return, Move, Inv
<1>2. /\ status[q] = reply[q].status /\ status[q] \in Statuses \union {Unset}
      /\ reply[q] \in [status : Statuses \union {Unset, BadGateway}, bytes : Nat] /\ OK \in Statuses
  BY <1>1, LogAssumption DEF TypeOK, Inv, Captured
<1>3. First(status[q], OK) \in Statuses /\ First(status[q], OK) # Unset
  BY <1>2, FirstType
<1>4. /\ reply'[q].status = First(status[q], OK) /\ reply'[q].bytes = reply[q].bytes
      /\ reply' \in [Requests -> [status : Statuses \union {Unset, BadGateway}, bytes : Nat]]
      /\ \A p \in Requests \ {q} :
           reply'[p] = reply[p] /\ status'[p] = status[p] /\ stage'[p] = stage[p]
      /\ status'[q] = First(status[q], OK)
  BY <1>1, <1>2, <1>3 DEF TypeOK
<1>5. TypeOK'
  BY <1>1, <1>3, <1>4 DEF TypeOK, log
<1>6. Captured'
  BY <1>1, <1>3, <1>4 DEF Inv, Captured, Unrecorded
<1> QED
  BY <1>1, <1>4, <1>5, <1>6, ExchangeStep DEF Before

LEMMA AbortStep ==
  ASSUME Inv, NEW q \in Requests, Abort(q)
  PROVE  Inv'
<1>1. /\ TypeOK /\ stage[q] = "handling" /\ stage' = [stage EXCEPT ![q] = "aborted"]
      /\ UNCHANGED <<length, taken, given, status, read, reply, log, up>>
  BY DEF Abort, Move, Inv, exchange
<1>2. TypeOK'
  BY <1>1 DEF TypeOK, log
<1>3. Captured'
  BY <1>1 DEF Inv, Captured, Unrecorded, TypeOK
<1> QED
  BY <1>1, <1>2, <1>3, ExchangeStep DEF Before

LEMMA RefuseTokenStep ==
  ASSUME Inv, NEW q \in Requests, RefuseToken(q)
  PROVE  Inv'
<1>1. /\ TypeOK /\ stage[q] = "handling" /\ stage' = [stage EXCEPT ![q] = "refused"]
      /\ UNCHANGED <<length, taken, given, status, read, log, up>>
      /\ reply' = [reply EXCEPT ![q].status = BadGateway]
  BY DEF RefuseToken, Move, Inv
<1>2. /\ reply' \in [Requests -> [status : Statuses \union {Unset, BadGateway}, bytes : Nat]]
      /\ reply'[q].bytes = reply[q].bytes
      /\ \A p \in Requests \ {q} : reply'[p] = reply[p] /\ stage'[p] = stage[p]
      /\ stage'[q] = "refused"
  BY <1>1 DEF TypeOK
<1>3. TypeOK'
  BY <1>1, <1>2 DEF TypeOK, log
<1>4. Captured'
  BY <1>1, <1>2 DEF Inv, Captured, Unrecorded
<1> QED
  BY <1>1, <1>3, <1>4, ExchangeStep DEF Before

LEMMA IssueTokenStep ==
  ASSUME Inv, NEW q \in Requests, IssueToken(q)
  PROVE  Inv'
<1>0. length[q] \in Nat /\ Limit + 1 \in Nat /\ Limit \in Nat
  <2>1. length[q] \in Lengths \union {0}
    BY DEF Inv, TypeOK
  <2>2. Limit \in Nat /\ Lengths \subseteq Nat
    BY LogAssumption
  <2>3. Lengths \union {0} \subseteq Nat
    BY <2>2
  <2>4. length[q] \in Nat
    BY <2>1, <2>3
  <2> QED
    BY <2>2, <2>4
<1> DEFINE n == Least(length[q], Limit + 1)
           more == n > Limit
           t == [buffer |-> Least(n, Limit), bytes |-> n, truncated |-> more]
<1>1. /\ TypeOK /\ stage[q] = "handling" /\ stage' = [stage EXCEPT ![q] = "returned"]
      /\ UNCHANGED <<length, log, up>>
      /\ read' = [read EXCEPT ![q] = n] /\ taken' = [taken EXCEPT ![q] = t]
  BY DEF IssueToken, Move, Inv
<1>2. n \in Nat /\ t \in Message /\ Holds(t, n)
  <2>1. n \in Nat /\ Least(n, Limit) \in Nat
    BY <1>0, LeastType
  <2>2. more \in BOOLEAN /\ (more <=> n > Limit)
    BY <1>0, <2>1
  <2> HIDE DEF n, more
  <2> QED
    BY <2>1, <2>2 DEF Message, Holds
<1> HIDE DEF n, t, more
<1>3. PICK s \in Statuses, m \in Chunks :
        /\ m <= Limit
        /\ status' = [status EXCEPT ![q] = s]
        /\ given' = [given EXCEPT ![q] = [buffer |-> m, bytes |-> m, truncated |-> FALSE]]
        /\ reply' = [reply EXCEPT ![q] = [status |-> s, bytes |-> m]]
  BY DEF IssueToken
<1>4. /\ m \in Nat /\ s # Unset
      /\ [buffer |-> m, bytes |-> m, truncated |-> FALSE] \in Message
      /\ Holds([buffer |-> m, bytes |-> m, truncated |-> FALSE], m)
  BY <1>3, LogAssumption DEF Message, Holds, Least
<1>5. /\ reply'[q] = [status |-> s, bytes |-> m] /\ status'[q] = s /\ taken'[q] = t /\ read'[q] = n
      /\ given'[q] = [buffer |-> m, bytes |-> m, truncated |-> FALSE]
      /\ \A p \in Requests \ {q} :
           /\ reply'[p] = reply[p] /\ status'[p] = status[p] /\ stage'[p] = stage[p]
           /\ given'[p] = given[p] /\ taken'[p] = taken[p] /\ read'[p] = read[p]
  BY <1>1, <1>3 DEF TypeOK
<1>6. TypeOK'
  BY <1>1, <1>2, <1>3, <1>4 DEF TypeOK, log
<1>7. Captured'
  BY <1>2, <1>4, <1>5 DEF Inv, Captured, Unrecorded
<1> QED
  BY <1>1, <1>5, <1>6, <1>7, ExchangeStep DEF Before
-----------------------------------------------------------------------------
(* Steps of Record.                                                        *)

(* What a step that leaves the exchanges alone must show.                  *)
LEMMA LogStep ==
  ASSUME Inv, UNCHANGED exchange, TypeOK', Written', Mutex', Pending', Kept',
         \A p \in Requests :
           stage'[p] = stage[p] \/ (stage[p] \notin Unrecorded /\ stage'[p] \notin Unrecorded)
  PROVE  Inv'
<1>1. Captured'
  BY DEF Inv, Captured, Unrecorded, exchange
<1> QED
  BY <1>1 DEF Inv

(* The lines of a file, and those of one line more.                        *)
LEMMA Lines ==
  ASSUME Inv
  PROVE  /\ DOMAIN file = 1..Len(file) /\ Len(file) \in Nat
         /\ \A i \in DOMAIN file : file[i] \in Piece /\ file[i].request \in Requests
<1>1. file \in Seq(Piece)
  BY DEF Inv, TypeOK
<1>2. \A i \in DOMAIN file : file[i] \in Piece
  BY <1>1
<1> QED
  BY <1>1, <1>2 DEF Piece

Stages == {"idle", "handling", "returned", "locked", "written", "recorded", "answered", "aborted", "refused"}

LEMMA MoveStage ==
  ASSUME Inv, NEW q \in Requests, NEW s \in Stages, stage' = [stage EXCEPT ![q] = s]
  PROVE  stage' \in [Requests -> Stages] /\ \A p \in Requests : stage'[p] = IF p = q THEN s ELSE stage[p]
BY DEF Inv, TypeOK, Stages

LEMMA LockStep ==
  ASSUME Inv, NEW q \in Requests, Lock(q)
  PROVE  Inv'
<1>1. /\ holder = Nobody /\ stage[q] = "returned" /\ up' = up
      /\ UNCHANGED <<exchange, file, safe, open>>
  BY DEF Lock, Move
<1>2. q # Nobody
  BY LogAssumption
<1>3. \A i \in DOMAIN file : file[i].request # q
  BY <1>1 DEF Inv, Written, Done
<1>4. CASE stage' = [stage EXCEPT ![q] = "locked"] /\ holder' = q /\ lost' = lost
  <2>1. stage' \in [Requests -> Stages] /\ \A p \in Requests : stage'[p] = IF p = q THEN "locked" ELSE stage[p]
    BY <1>4, MoveStage DEF Stages
  <2>2. TypeOK'
    BY <1>1, <1>4, <2>1 DEF Inv, TypeOK, exchange, Stages
  <2>3. Written' /\ Pending'
    BY <1>1, <1>3, <1>4, <2>1, Lines DEF Inv, Written, Pending, exchange
  <2>4. Mutex'
    <3>1. \A p \in Requests : stage[p] \notin {"locked", "written"}
      BY <1>1, LogAssumption DEF Inv, Mutex
    <3> QED
      BY <1>4, <2>1, <3>1 DEF Mutex
  <2>5. Kept'
    BY <1>1, <1>4, <2>1 DEF Inv, Kept
  <2> QED
    BY <1>1, <2>1, <2>2, <2>3, <2>4, <2>5, LogStep DEF Unrecorded
<1>5. CASE stage' = [stage EXCEPT ![q] = "recorded"] /\ holder' = holder
           /\ lost' = [lost EXCEPT ![q] = "closed"]
  <2>1. stage' \in [Requests -> Stages] /\ \A p \in Requests : stage'[p] = IF p = q THEN "recorded" ELSE stage[p]
    BY <1>5, MoveStage DEF Stages
  <2>2. TypeOK' /\ \A p \in Requests : lost'[p] = IF p = q THEN "closed" ELSE lost[p]
    BY <1>1, <1>5, <2>1 DEF Inv, TypeOK, exchange, Stages
  <2>3. Written' /\ Pending'
    BY <1>1, <1>3, <1>5, <2>1, <2>2, Lines DEF Inv, Written, Pending, exchange
  <2>4. Mutex'
    BY <1>1, <1>2, <1>5, <2>1 DEF Inv, Mutex
  <2>5. Kept'
    BY <1>1, <1>5, <2>1, <2>2 DEF Inv, Kept
  <2> QED
    BY <1>1, <2>1, <2>2, <2>3, <2>4, <2>5, LogStep DEF Unrecorded
<1> QED
  BY <1>4, <1>5 DEF Lock, Move, Lose

LEMMA WriteLineStep ==
  ASSUME Inv, NEW q \in Requests, WriteLine(q)
  PROVE  Inv'
<1>1. /\ stage[q] = "locked" /\ stage' = [stage EXCEPT ![q] = "written"] /\ up' = up
      /\ UNCHANGED <<exchange, safe, open, holder>>
  BY DEF WriteLine, Move
<1>2. stage' \in [Requests -> Stages] /\ \A p \in Requests : stage'[p] = IF p = q THEN "written" ELSE stage[p]
  BY <1>1, MoveStage DEF Stages
<1>3. \A i \in DOMAIN file : file[i].request # q
  BY <1>1 DEF Inv, Written, Done
<1>4. Mutex'
  BY <1>1, <1>2 DEF Inv, Mutex
<1>5. \A p \in Requests : stage[p] # "written"
  BY <1>1 DEF Inv, Mutex
<1>6. safe \subseteq DOMAIN file /\ status[q] # Unset /\ status[q] \in Statuses
  BY <1>1 DEF Inv, TypeOK, Captured, Unrecorded
<1>7. CASE lost' = [lost EXCEPT ![q] = "unwritten"] /\ file' = file
  <2>1. \A p \in Requests : lost'[p] = IF p = q THEN "unwritten" ELSE lost[p]
    BY <1>7 DEF Inv, TypeOK
  <2>2. TypeOK'
    BY <1>1, <1>2, <1>7 DEF Inv, TypeOK, exchange, Stages
  <2>3. Written' /\ Pending'
    BY <1>1, <1>2, <1>3, <1>7, <2>1, Lines DEF Inv, Written, Pending, exchange
  <2>4. Kept'
    BY <1>1, <1>2, <1>7, <2>1 DEF Inv, Kept
  <2> QED
    BY <1>1, <1>2, <1>4, <2>2, <2>3, <2>4, LogStep DEF Unrecorded
<1>8. ASSUME NEW whole \in BOOLEAN, file' = Append(file, Line(q, whole)), whole => lost' = lost,
             ~whole => lost' = [lost EXCEPT ![q] = "unwritten"]
      PROVE  Inv'
  <2> DEFINE m == Len(file) + 1
  <2>1. /\ Line(q, whole) \in Piece
        /\ Line(q, whole).request = q /\ Line(q, whole).whole = whole
        /\ Line(q, whole).entry = [status |-> status[q], request |-> taken[q], response |-> given[q]]
    BY <1>6 DEF Line, Piece, Entry, Inv, TypeOK
  <2>2. /\ file' \in Seq(Piece) /\ Len(file') = m /\ m \in Nat /\ DOMAIN file' = DOMAIN file \union {m}
        /\ \A i \in DOMAIN file : i # m /\ file'[i] = file[i]
        /\ file'[m] = Line(q, whole)
    BY <1>8, <2>1 DEF Inv, TypeOK
  <2>3. /\ lost' \in [Requests -> {"no", "closed", "unwritten", "unsynced"}]
        /\ \A p \in Requests \ {q} : lost'[p] = lost[p]
        /\ lost'[q] = IF whole THEN lost[q] ELSE "unwritten"
    BY <1>8 DEF Inv, TypeOK
  <2> HIDE DEF m
  <2>4. TypeOK'
    BY <1>1, <1>2, <1>6, <2>2, <2>3 DEF Inv, TypeOK, exchange, Stages
  <2>5. Written'
    <3>1. ASSUME NEW i \in DOMAIN file
          PROVE  /\ stage'[file'[i].request] \in Done
                 /\ file'[i].entry = [status |-> status[file[i].request],
                                     request |-> taken[file[i].request],
                                     response |-> given[file[i].request]]
                 /\ \A j \in DOMAIN file' : file'[j].request = file'[i].request => j = i
      BY <1>2, <1>3, <2>1, <2>2, Lines DEF Inv, Written, Done
    <3>2. /\ stage'[file'[m].request] \in Done
          /\ file'[m].entry = [status |-> status[q], request |-> taken[q], response |-> given[q]]
          /\ \A j \in DOMAIN file' : file'[j].request = file'[m].request => j = m
      BY <1>2, <1>3, <2>1, <2>2 DEF Done
    <3> QED
      BY <1>1, <2>1, <2>2, <3>1, <3>2 DEF Written, exchange
  <2>6. Pending'
    <3>1. ASSUME NEW i \in DOMAIN file
          PROVE  /\ stage'[file'[i].request] # "written"
                 /\ ~file'[i].whole => lost'[file'[i].request] # "no"
      BY <1>2, <1>3, <1>5, <2>2, <2>3, Lines DEF Inv, Pending
    <3>2. m \notin safe'
      BY <1>1, <1>6, <2>2
    <3>3. ~file'[m].whole => lost'[file'[m].request] # "no"
      BY <2>1, <2>2, <2>3
    <3> QED
      BY <2>2, <3>1, <3>2, <3>3 DEF Pending
  <2>7. Kept'
    <3>1. ASSUME NEW p \in Requests \ {q}, lost'[p] = "no"
          PROVE  /\ stage'[p] # "written"
                 /\ stage'[p] \in {"recorded", "answered"} =>
                      \E i \in safe' : file'[i].request = p /\ file'[i].whole
      BY <1>1, <1>2, <1>5, <1>6, <2>2, <2>3, <3>1 DEF Inv, Kept
    <3>2. ASSUME lost'[q] = "no"
          PROVE  m \in DOMAIN file' /\ file'[m].request = q /\ file'[m].whole
      BY <2>1, <2>2, <2>3, <3>2
    <3> QED
      BY <1>2, <3>1, <3>2 DEF Kept
  <2> QED
    BY <1>1, <1>2, <1>4, <2>4, <2>5, <2>6, <2>7, LogStep DEF Unrecorded
<1> QED
  BY <1>7, <1>8 DEF WriteLine, Lose

LEMMA SyncStep ==
  ASSUME Inv, NEW q \in Requests, Sync(q)
  PROVE  Inv'
<1>1. /\ stage[q] = "written" /\ stage' = [stage EXCEPT ![q] = "recorded"] /\ up' = up /\ up
      /\ holder' = Nobody /\ UNCHANGED <<exchange, file, open>>
  BY DEF Sync, Move
<1>2. stage' \in [Requests -> Stages] /\ \A p \in Requests : stage'[p] = IF p = q THEN "recorded" ELSE stage[p]
  BY <1>1, MoveStage DEF Stages
<1>3. q # Nobody /\ holder = q /\ Nobody \notin Requests
  BY <1>1, LogAssumption DEF Inv, Mutex
<1>4. Mutex'
  BY <1>1, <1>2, <1>3 DEF Inv, Mutex
<1>5. Written'
  BY <1>1, <1>2, Lines DEF Inv, Written, Done, exchange
<1>6. \A p \in Requests \ {q} : stage[p] # "written"
  BY <1>1, <1>3 DEF Inv, Mutex
<1>7. CASE safe' = safe \union {i \in DOMAIN file : file[i].request = q} /\ lost' = lost
  <2>1. TypeOK'
    BY <1>1, <1>2, <1>3, <1>7 DEF Inv, TypeOK, exchange, Stages
  <2>2. lost[q] = "no" => \E i \in DOMAIN file : file[i].request = q /\ file[i].whole
    BY <1>1 DEF Inv, Kept
  <2>3. Kept'
    BY <1>1, <1>2, <1>6, <1>7, <2>2 DEF Inv, Kept
  <2>4. \A i \in DOMAIN file : ~file[i].whole => lost[file[i].request] # "no"
    <3>1. ASSUME NEW i \in DOMAIN file, ~file[i].whole, lost[file[i].request] = "no"
          PROVE  FALSE
      <4>1. file[i].request = q
        BY <1>6, <3>1, Lines DEF Inv, Pending
      <4>2. PICK j \in DOMAIN file : file[j].request = q /\ file[j].whole
        BY <2>2, <3>1, <4>1
      <4> QED
        BY <3>1, <4>1, <4>2 DEF Inv, Written
    <3> QED
      BY <3>1
  <2>5. Pending'
    BY <1>1, <1>2, <1>6, <1>7, <2>4, Lines DEF Inv, Pending
  <2> QED
    BY <1>1, <1>2, <1>4, <1>5, <2>1, <2>3, <2>5, LogStep DEF Unrecorded
<1>8. CASE lost' = [lost EXCEPT ![q] = IF lost[q] = "no" THEN "unsynced" ELSE lost[q]] /\ safe' = safe
  <2>1. TypeOK' /\ lost'[q] # "no" /\ \A p \in Requests \ {q} : lost'[p] = lost[p]
    BY <1>1, <1>2, <1>3, <1>8 DEF Inv, TypeOK, exchange, Stages
  <2>2. Kept'
    BY <1>1, <1>2, <1>6, <1>8, <2>1 DEF Inv, Kept
  <2>3. Pending'
    BY <1>1, <1>2, <1>6, <1>8, <2>1, Lines DEF Inv, Pending
  <2> QED
    BY <1>1, <1>2, <1>4, <1>5, <2>1, <2>2, <2>3, LogStep DEF Unrecorded
<1> QED
  BY <1>7, <1>8 DEF Sync, Lose

LEMMA AnswerStep ==
  ASSUME Inv, NEW q \in Requests, Answer(q)
  PROVE  Inv'
<1>1. /\ stage[q] = "recorded" /\ stage' = [stage EXCEPT ![q] = "answered"] /\ up' = up
      /\ UNCHANGED exchange
      /\ UNCHANGED <<file, safe, open, holder, lost>>
  BY DEF Answer, Move, log
<1>2. stage' \in [Requests -> Stages] /\ \A p \in Requests : stage'[p] = IF p = q THEN "answered" ELSE stage[p]
  BY <1>1, MoveStage DEF Stages
<1>3. TypeOK'
  BY <1>1, <1>2 DEF Inv, TypeOK, exchange, Stages
<1>4. Written'
  BY <1>1, <1>2, Lines DEF Inv, Written, Done, exchange
<1>5. Mutex' /\ Kept'
  BY <1>1, <1>2 DEF Inv, Mutex, Kept
<1>6. Pending'
  BY <1>1, <1>2, Lines DEF Inv, Pending
<1> QED
  BY <1>1, <1>2, <1>3, <1>4, <1>5, <1>6, LogStep DEF Unrecorded

LEMMA CloseLogStep ==
  ASSUME Inv, CloseLog
  PROVE  Inv'
<1>1. open' = FALSE /\ UNCHANGED <<stage, file, safe, holder, lost, up>> /\ UNCHANGED exchange
  BY DEF CloseLog
<1>2. TypeOK'
  BY <1>1 DEF Inv, TypeOK, exchange
<1>3. Written' /\ Mutex' /\ Pending' /\ Kept'
  BY <1>1 DEF Inv, Written, Mutex, Pending, Kept, exchange
<1> QED
  BY <1>1, <1>2, <1>3, LogStep DEF Unrecorded

LEMMA CrashStep ==
  ASSUME Inv, Crash
  PROVE  Inv'
<1>1. up' = FALSE /\ UNCHANGED <<stage, safe, open, holder, lost>> /\ UNCHANGED exchange
  BY DEF Crash
<1>2. PICK gone \in SUBSET (DOMAIN file \ safe) :
        file' = [i \in DOMAIN file |-> IF i \in gone THEN [file[i] EXCEPT !.whole = FALSE] ELSE file[i]]
  BY DEF Crash
<1>3. /\ DOMAIN file' = DOMAIN file
      /\ \A i \in DOMAIN file :
           /\ file'[i] \in Piece
           /\ file'[i].request = file[i].request /\ file'[i].entry = file[i].entry
           /\ file'[i].whole = (file[i].whole /\ i \notin gone)
  BY <1>2, Lines DEF Piece
<1>4. file' \in Seq(Piece) /\ Len(file') = Len(file)
  <2>1. file' \in [1..Len(file) -> Piece] /\ Len(file) \in Nat
    BY <1>2, <1>3, Lines
  <2> QED
    BY <2>1
<1>5. TypeOK'
  BY <1>1, <1>3, <1>4 DEF Inv, TypeOK, exchange
<1>6. Written'
  BY <1>1, <1>3 DEF Inv, Written, exchange
<1>7. Mutex'
  BY <1>1 DEF Inv, Mutex
<1>8. \A i \in gone : lost[file[i].request] # "no" \/ stage[file[i].request] = "written"
  <2>1. ASSUME NEW i \in DOMAIN file, i \notin safe, lost[file[i].request] = "no",
               stage[file[i].request] # "written"
        PROVE  FALSE
    <3>1. stage[file[i].request] \in {"recorded", "answered"}
      BY <2>1 DEF Inv, Written, Done
    <3>2. PICK j \in safe : file[j].request = file[i].request
      BY <2>1, <3>1, Lines DEF Inv, Kept
    <3>3. j \in DOMAIN file
      BY DEF Inv, TypeOK
    <3> QED
      BY <2>1, <3>2, <3>3 DEF Inv, Written
  <2> QED
    BY <2>1
<1>9. Pending'
  BY <1>1, <1>2, <1>3, <1>4, <1>8 DEF Inv, Pending
<1>10. Kept'
  <2>1. safe \subseteq DOMAIN file
    BY DEF Inv, TypeOK
  <2> QED
    BY <1>1, <1>2, <1>3, <2>1 DEF Inv, Kept
<1> QED
  BY <1>1, <1>5, <1>6, <1>7, <1>9, <1>10, LogStep DEF Unrecorded

-----------------------------------------------------------------------------
(* The theorems.                                                           *)

LEMMA InitInv == Init => Inv
<1> SUFFICES ASSUME Init PROVE Inv
  OBVIOUS
<1>1. TypeOK
  BY EmptyHolds, LogAssumption DEF Init, TypeOK
<1>2. Captured
  BY EmptyHolds DEF Init, Captured, Unrecorded
<1>3. Written /\ Mutex /\ Pending /\ Kept
  BY LogAssumption DEF Init, Written, Mutex, Pending, Kept
<1> QED
  BY <1>1, <1>2, <1>3 DEF Inv

LEMMA StepInv == Inv /\ [Next]_vars => Inv'
<1> SUFFICES ASSUME Inv, [Next]_vars PROVE Inv'
  OBVIOUS
<1>1. CASE \E q \in Requests :
         \/ Begin(q) \/ ReadBody(q) \/ WriteHeader(q) \/ Write(q) \/ Return(q)
         \/ Abort(q) \/ IssueToken(q) \/ RefuseToken(q)
  BY <1>1, BeginStep, ReadBodyStep, WriteHeaderStep, WriteStep, ReturnStep, AbortStep,
     IssueTokenStep, RefuseTokenStep
<1>2. CASE \E q \in Requests : Lock(q) \/ WriteLine(q) \/ Sync(q) \/ Answer(q)
  BY <1>2, LockStep, WriteLineStep, SyncStep, AnswerStep
<1>3. CASE CloseLog \/ Crash
  BY <1>3, CloseLogStep, CrashStep
<1>4. CASE UNCHANGED vars
  <2>1. UNCHANGED <<stage, file, safe, open, holder, lost, up>> /\ UNCHANGED exchange
    BY <1>4 DEF vars, log
  <2>2. TypeOK'
    BY <2>1 DEF Inv, TypeOK, exchange
  <2>3. Written' /\ Mutex' /\ Pending' /\ Kept'
    BY <2>1 DEF Inv, Written, Mutex, Pending, Kept, exchange
  <2> QED
    BY <2>1, <2>2, <2>3, LogStep DEF Unrecorded
<1> QED
  BY <1>1, <1>2, <1>3, <1>4 DEF Next

LEMMA Invariance == Spec => []Inv
BY InitInv, StepInv, PTL DEF Spec

(* The variables of the log and of any number of requests keep their       *)
(* types.                                                                  *)
THEOREM TypeCorrect == Spec => []TypeOK
<1>1. Inv => TypeOK
  BY DEF Inv
<1> QED
  BY <1>1, Invariance, PTL

(* Whatever is read from the log was exchanged, for every limit and every  *)
(* way to read and write a body in pieces.                                 *)
THEOREM EntriesAlwaysTrue == Spec => []EntriesAreTrue
<1>1. Inv => EntriesAreTrue
  <2> SUFFICES ASSUME Inv, NEW i \in DOMAIN file
               PROVE  LET q == file[i].request
                          e == file[i].entry
                      IN /\ e.status = reply[q].status
                         /\ Holds(e.request, read[q])
                         /\ Holds(e.response, reply[q].bytes)
    BY DEF EntriesAreTrue
  <2> DEFINE q == file[i].request
  <2>1. /\ q \in Requests /\ stage[q] # "refused"
        /\ file[i].entry = [status |-> status[q], request |-> taken[q], response |-> given[q]]
    BY Lines DEF Inv, Written, Done
  <2>2. /\ Holds(taken[q], read[q]) /\ Holds(given[q], reply[q].bytes)
        /\ status[q] = reply[q].status
    BY <2>1 DEF Inv, Captured, Unrecorded
  <2> HIDE DEF q
  <2>3. /\ file[i].entry.status = reply[q].status
        /\ Holds(file[i].entry.request, read[q])
        /\ Holds(file[i].entry.response, reply[q].bytes)
    BY <2>1, <2>2
  <2> QED
    BY <2>3 DEF q
<1> QED
  BY <1>1, Invariance, PTL

(* An answered request is in the log, wherever the process is killed.      *)
THEOREM AnsweredAlwaysDurable == Spec => []AnsweredIsDurable
<1>1. Inv => AnsweredIsDurable
  <2> SUFFICES ASSUME Inv, NEW q \in Requests, stage[q] = "answered", lost[q] = "no"
               PROVE  \E i \in DOMAIN file :
                        /\ \A j \in DOMAIN file : file[j].request = q => j = i
                        /\ file[i].request = q
                        /\ Readable(i) \/ (i > 1 /\ lost[file[i - 1].request] # "no")
    BY DEF AnsweredIsDurable
  <2>1. PICK i \in safe : file[i].request = q /\ file[i].whole
    BY DEF Inv, Kept
  <2>2. i \in DOMAIN file /\ i \in 1..Len(file) /\ Len(file) \in Nat
    BY Lines DEF Inv, TypeOK
  <2>3. \A j \in DOMAIN file : file[j].request = q => j = i
    BY <2>1, <2>2 DEF Inv, Written
  <2>4. ASSUME i # 1, ~file[i - 1].whole
        PROVE  i > 1 /\ lost[file[i - 1].request] # "no"
    <3>1. i - 1 \in DOMAIN file /\ i - 1 # Len(file)
      BY <2>2, <2>4, Lines
    <3> QED
      BY <2>2, <2>4, <3>1 DEF Inv, Pending
  <2>5. Readable(i) \/ (i > 1 /\ lost[file[i - 1].request] # "no")
    BY <2>1, <2>4 DEF Readable
  <2> QED
    BY <2>1, <2>2, <2>3, <2>5
<1> QED
  BY <1>1, Invariance, PTL
=============================================================================

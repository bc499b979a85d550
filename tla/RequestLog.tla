------------------------------ MODULE RequestLog ------------------------------
(***************************************************************************)
(* The request log of an environment, requestlog/log.go.  A handler reads  *)
(* the body of its request and writes its answer through two captures;     *)
(* when it returns, Record appends one line to requests.jsonl and syncs    *)
(* the file, under the mutex of the log, and only then net/http sends the  *)
(* end of the answer.  The proxy records the tokens it issues the same     *)
(* way.  The log may be closed at any moment, the disk may refuse a write  *)
(* or a sync, and the process may be killed.                               *)
(*                                                                         *)
(* Of a body only its length is kept.  Redaction, which changes the text   *)
(* of an entry, is left out.                                               *)
(***************************************************************************)
EXTENDS Integers, Sequences

CONSTANTS
  Requests,
  Tokens,    \* those the proxy answers itself
  Limit,     \* bodyLimit, and bodyLimitForLog
  Lengths,   \* bodies of requests
  Chunks,    \* what one Read returns or one Write is given
  Longest,   \* bound on the length of an answer
  Statuses,
  OK,        \* StatusOK
  BadGateway,  \* StatusBadGateway, an answer of the proxy itself
  Unset,     \* the status before one is written
  Nobody     \* no request holds the mutex

ASSUME LogAssumption ==
  /\ Tokens \subseteq Requests
  /\ Limit \in Nat /\ Lengths \subseteq Nat /\ Chunks \subseteq Nat /\ Longest \in Nat
  /\ OK \in Statuses /\ Unset \notin Statuses /\ Unset # BadGateway
  /\ Nobody \notin Requests

VARIABLES
  stage,     \* of each request
  length,    \* of its body
  taken,     \* capturedReadCloser
  given,     \* capturedResponseWriter
  status,    \* its field status
  read,      \* how much of the body was read
  reply,     \* what net/http was given: status and length
  file,      \* what has been written to requests.jsonl
  safe,      \* the lines that are on disk
  open,      \* l.file # nil
  holder,    \* l.mu
  up,        \* the process runs
  lost       \* why a request has no line on disk

exchange == <<length, taken, given, status, read, reply>>
log == <<file, safe, open, holder, lost>>
vars == <<stage, exchange, log, up>>

(* bytes of a body went by, of which buffer were kept.                     *)
Message == [buffer : Nat, bytes : Nat, truncated : BOOLEAN]
Entry == [status : Statuses, request : Message, response : Message]

(* What one call of Write leaves in the file: a line, or part of one.      *)
Piece == [request : Requests, whole : BOOLEAN, entry : Entry]

TypeOK ==
  /\ stage \in [Requests -> {"idle", "handling", "returned", "locked", "written",
                             "recorded", "answered", "aborted", "refused"}]
  /\ length \in [Requests -> Lengths \union {0}]
  /\ taken \in [Requests -> Message] /\ given \in [Requests -> Message]
  /\ status \in [Requests -> Statuses \union {Unset}]
  /\ read \in [Requests -> Nat]
  /\ reply \in [Requests -> [status : Statuses \union {Unset, BadGateway}, bytes : Nat]]
  /\ file \in Seq(Piece) /\ safe \subseteq DOMAIN file
  /\ open \in BOOLEAN /\ up \in BOOLEAN
  /\ holder \in Requests \union {Nobody}
  /\ lost \in [Requests -> {"no", "closed", "unwritten", "unsynced"}]

Empty == [buffer |-> 0, bytes |-> 0, truncated |-> FALSE]

Init ==
  /\ stage = [q \in Requests |-> "idle"]
  /\ length = [q \in Requests |-> 0]
  /\ taken = [q \in Requests |-> Empty]
  /\ given = [q \in Requests |-> Empty]
  /\ status = [q \in Requests |-> Unset]
  /\ read = [q \in Requests |-> 0]
  /\ reply = [q \in Requests |-> [status |-> Unset, bytes |-> 0]]
  /\ file = <<>> /\ safe = {}
  /\ open = TRUE /\ up = TRUE
  /\ holder = Nobody
  /\ lost = [q \in Requests |-> "no"]

Least(m, n) == IF m < n THEN m ELSE n

-----------------------------------------------------------------------------
(* The handler.                                                            *)

(* Mutant: a body of just the limit counts as truncated.                   *)
CaptureMarksEarly(c, n) ==
  LET remaining == Limit - c.buffer
  IN [buffer |-> c.buffer + Least(remaining, n),
      bytes |-> c.bytes + n,
      truncated |-> c.truncated \/ n >= remaining]

Capture(c, n) ==
  LET remaining == Limit - c.buffer
  IN [buffer |-> c.buffer + Least(remaining, n),
      bytes |-> c.bytes + n,
      truncated |-> c.truncated \/ n > remaining]

First(old, new) == IF old = Unset THEN new ELSE old

Move(q, from, to) ==
  /\ up /\ stage[q] = from
  /\ stage' = [stage EXCEPT ![q] = to]
  /\ UNCHANGED up

Handles(q) ==
  /\ up /\ stage[q] = "handling" /\ q \notin Tokens
  /\ UNCHANGED <<stage, length, log, up>>

Begin(q) ==
  /\ Move(q, "idle", "handling")
  /\ \E n \in Lengths : length' = [length EXCEPT ![q] = n]
  /\ UNCHANGED <<taken, given, status, read, reply, log>>

ReadBody(q) ==
  /\ Handles(q)
  /\ \E n \in Chunks :
       /\ read[q] + n <= length[q]
       /\ read' = [read EXCEPT ![q] = @ + n]
       /\ taken' = [taken EXCEPT ![q] = Capture(@, n)]
  /\ UNCHANGED <<given, status, reply>>

(* net/http too keeps the first status.                                    *)
WriteHeader(q) ==
  /\ Handles(q)
  /\ \E s \in Statuses :
       /\ status' = [status EXCEPT ![q] = First(@, s)]
       /\ reply' = [reply EXCEPT ![q].status = First(@, s)]
  /\ UNCHANGED <<taken, given, read>>

Write(q) ==
  /\ Handles(q)
  /\ status' = [status EXCEPT ![q] = First(@, OK)]
  /\ \E n \in Chunks :
       /\ reply[q].bytes + n <= Longest
       /\ given' = [given EXCEPT ![q] = Capture(@, n)]
       /\ reply' = [reply EXCEPT ![q] = [status |-> First(@.status, OK), bytes |-> @.bytes + n]]
  /\ UNCHANGED <<taken, read>>

(* Mutant: a handler that writes nothing is recorded without a status.     *)
ReturnWithoutStatus(q) ==
  /\ q \notin Tokens
  /\ Move(q, "handling", "returned")
  /\ reply' = [reply EXCEPT ![q].status = First(@, OK)]
  /\ UNCHANGED <<length, taken, given, status, read, log>>

(* A handler that writes nothing answers 200.                              *)
Return(q) ==
  /\ q \notin Tokens
  /\ Move(q, "handling", "returned")
  /\ status' = [status EXCEPT ![q] = First(@, OK)]
  /\ reply' = [reply EXCEPT ![q].status = First(@, OK)]
  /\ UNCHANGED <<length, taken, given, read, log>>

(* A handler that panics leaves the middleware before Record, and net/http *)
(* drops the connection.                                                   *)
Abort(q) ==
  /\ q \notin Tokens
  /\ Move(q, "handling", "aborted")
  /\ UNCHANGED <<exchange, log>>

(* The proxy reads one byte more than it keeps.                            *)
IssueToken(q) ==
  /\ q \in Tokens
  /\ Move(q, "handling", "returned")
  /\ LET n == Least(length[q], Limit + 1)
     IN /\ read' = [read EXCEPT ![q] = n]
        /\ taken' = [taken EXCEPT ![q] =
                       [buffer |-> Least(n, Limit), bytes |-> n, truncated |-> n > Limit]]
  /\ \E s \in Statuses, n \in Chunks :
       /\ n <= Limit
       /\ status' = [status EXCEPT ![q] = s]
       /\ given' = [given EXCEPT ![q] = [buffer |-> n, bytes |-> n, truncated |-> FALSE]]
       /\ reply' = [reply EXCEPT ![q] = [status |-> s, bytes |-> n]]
  /\ UNCHANGED <<length, log>>

(* The proxy answers 502 to a request for a token whose body it cannot     *)
(* read, and records nothing.                                              *)
RefuseToken(q) ==
  /\ q \in Tokens
  /\ Move(q, "handling", "refused")
  /\ reply' = [reply EXCEPT ![q].status = BadGateway]
  /\ UNCHANGED <<length, taken, given, status, read, log>>

-----------------------------------------------------------------------------
(* Record, and the end of the answer.                                      *)

Lose(q, why) == lost' = [lost EXCEPT ![q] = why]

(* The mutex is taken and the file is asked for.                           *)
Lock(q) ==
  /\ holder = Nobody
  /\ IF open
     THEN Move(q, "returned", "locked") /\ holder' = q /\ UNCHANGED lost
     ELSE Move(q, "returned", "recorded") /\ Lose(q, "closed") /\ UNCHANGED holder
  /\ UNCHANGED <<exchange, file, safe, open>>

Line(q, whole) ==
  [request |-> q, whole |-> whole,
   entry |-> [status |-> status[q], request |-> taken[q], response |-> given[q]]]

(* The line is written, or a part of it, or nothing.                       *)
WriteLine(q) ==
  /\ Move(q, "locked", "written")
  /\ \/ file' = Append(file, Line(q, TRUE)) /\ UNCHANGED lost
     \/ file' = Append(file, Line(q, FALSE)) /\ Lose(q, "unwritten")
     \/ Lose(q, "unwritten") /\ UNCHANGED file
  /\ UNCHANGED <<exchange, safe, open, holder>>

(* Mutant: the file is not synced.                                         *)
SyncSkipped(q) ==
  /\ Move(q, "written", "recorded")
  /\ holder' = Nobody
  /\ UNCHANGED <<exchange, file, safe, open, lost>>

(* The file is synced, if the disk obeys, and the mutex released.          *)
Sync(q) ==
  /\ Move(q, "written", "recorded")
  /\ holder' = Nobody
  /\ \/ safe' = safe \union {i \in DOMAIN file : file[i].request = q} /\ UNCHANGED lost
     \/ Lose(q, IF lost[q] = "no" THEN "unsynced" ELSE lost[q]) /\ UNCHANGED safe
  /\ UNCHANGED <<exchange, file, open>>

Answer(q) ==
  /\ Move(q, "recorded", "answered")
  /\ UNCHANGED <<exchange, log>>

CloseLog ==
  /\ up /\ open /\ holder = Nobody
  /\ open' = FALSE
  /\ UNCHANGED <<stage, exchange, file, safe, holder, lost, up>>

(* What was not synced may be missing from the file, or be part of a line. *)
Crash ==
  /\ up
  /\ up' = FALSE
  /\ \E gone \in SUBSET (DOMAIN file \ safe) :
       file' = [i \in DOMAIN file |-> IF i \in gone THEN [file[i] EXCEPT !.whole = FALSE] ELSE file[i]]
  /\ UNCHANGED <<stage, exchange, safe, open, holder, lost>>

Next ==
  \/ \E q \in Requests :
       \/ Begin(q) \/ ReadBody(q) \/ WriteHeader(q) \/ Write(q) \/ Return(q)
       \/ Abort(q) \/ IssueToken(q) \/ RefuseToken(q)
       \/ Lock(q) \/ WriteLine(q) \/ Sync(q) \/ Answer(q)
  \/ CloseLog \/ Crash

Spec == Init /\ [][Next]_vars

-----------------------------------------------------------------------------
(* Properties.                                                             *)

(* A line can be read if it is whole and begins a line of its own.         *)
Readable(i) == file[i].whole /\ (i = 1 \/ file[i - 1].whole)

Holds(m, n) ==
  /\ m.bytes = n
  /\ m.buffer = Least(n, Limit)
  /\ m.truncated <=> n > Limit

(* What the log says is what was exchanged: the status net/http sent, the  *)
(* lengths, the first Limit bytes of either body, and the mark of those of *)
(* which there was more.                                                   *)
EntriesAreTrue ==
  \A i \in DOMAIN file : Readable(i) =>
    LET q == file[i].request
        e == file[i].entry
    IN /\ e.status = reply[q].status
       /\ Holds(e.request, read[q])
       /\ Holds(e.response, reply[q].bytes)

(* The documentation calls the log durable.  A client that has its answer  *)
(* finds one line for it, even when the process was killed; but for a log  *)
(* that was closed before and a disk that refused a write or a sync, for a *)
(* line that follows part of one, and for the token that was refused       *)
(* because its request could not be read, which is never recorded.         *)
AnsweredIsDurable ==
  \A q \in Requests : stage[q] = "answered" /\ lost[q] = "no" =>
    \E i \in DOMAIN file :
      /\ \A j \in DOMAIN file : file[j].request = q => j = i
      /\ file[i].request = q
      /\ Readable(i) \/ (i > 1 /\ lost[file[i - 1].request] # "no")
=============================================================================

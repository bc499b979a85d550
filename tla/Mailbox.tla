------------------------------- MODULE Mailbox -------------------------------
(***************************************************************************)
(* The Gmail resource, resources/gmail/server.go: a table of messages with *)
(* labels, modified by a read and a write in two statements, sent to by    *)
(* one, and listed page by page, where the token of the next page is the   *)
(* number of entries before it.                                            *)
(*                                                                         *)
(* Ids are numbers in the order of their texts.  The text a query searches *)
(* does not change after a message is stored, so the text part of a query  *)
(* is the set of the ids it matches; a label in a query is the set of the  *)
(* labels it matches, whatever their case and prefix.  The other requests  *)
(* only read, and what they read is box.                                   *)
(***************************************************************************)
EXTENDS Integers, FiniteSets

CONSTANTS
  Clients,      \* modifications under way at the same time
  Readers,      \* clients that list page by page
  Ids,          \* of messages
  Threads,
  Dates,
  Labels,       \* what clients name as a label
  Hidden,       \* TRASH and SPAM
  Trash,
  Sent,
  Scenarios,    \* the mailboxes a scenario may load
  Changes,      \* labels added and removed: of modify, and of trash
  Filters,      \* parameters of the list requests
  Limits,       \* maxResults
  Absent,       \* no message
  Nothing       \* no modification under way

Message == [thread : Threads, date : Dates, labels : SUBSET Labels]
Mailboxes == [Ids -> Message \union {Absent}]

ASSUME MailboxAssumption ==
  /\ IsFiniteSet(Ids) /\ Ids \subseteq Nat
  /\ Dates \subseteq Nat
  /\ Sent \in Labels
  /\ Scenarios \subseteq Mailboxes
  /\ Changes \subseteq [add : SUBSET Labels, remove : SUBSET Labels]
  /\ Filters \subseteq [threads : BOOLEAN, labelIds : SUBSET Labels,
                        query : SUBSET SUBSET Labels, text : SUBSET Ids, spamTrash : BOOLEAN]
  /\ Limits \subseteq Nat \ {0}
  /\ Absent \notin Message
  /\ Nothing \notin [id : Ids, change : Changes, labels : SUBSET Labels, behind : BOOLEAN]

VARIABLES
  box,      \* the messages table
  work,     \* the modification each is about to write
  walk,     \* none, or how far a reader is
  filter,   \* what it lists
  offset,   \* the token of its next page
  page,     \* the entries of its last page
  seen,     \* those of the pages before
  kept,     \* the entries listed ever since its first page
  left,     \* an entry has left the listing since
  came      \* an entry has come to it since

listing == <<walk, filter, offset, page, seen>>
memory == <<kept, left, came>>
vars == <<box, work, listing, memory>>

(* behind: another has written the message since this one read it.         *)
Modification == [id : Ids, change : Changes, labels : SUBSET Labels, behind : BOOLEAN]

TypeOK ==
  /\ box \in Mailboxes
  /\ work \in [Clients -> Modification \union {Nothing}]
  /\ walk \in [Readers -> {"none", "begun", "complete", "refused"}]
  /\ filter \in [Readers -> Filters]
  /\ offset \in [Readers -> 0..Cardinality(Ids)]
  /\ page \in [Readers -> SUBSET Ids]
  /\ seen \in [Readers -> SUBSET Ids]
  /\ kept \in [Readers -> SUBSET Ids]
  /\ left \in [Readers -> BOOLEAN]
  /\ came \in [Readers -> BOOLEAN]

(* Load has filled the table from a scenario.                              *)
Init ==
  /\ box \in Scenarios
  /\ work = [c \in Clients |-> Nothing]
  /\ walk = [r \in Readers |-> "none"]
  /\ filter \in [Readers -> Filters]
  /\ offset = [r \in Readers |-> 0]
  /\ page = [r \in Readers |-> {}]
  /\ seen = [r \in Readers |-> {}]
  /\ kept = [r \in Readers |-> {}]
  /\ left = [r \in Readers |-> FALSE]
  /\ came = [r \in Readers |-> FALSE]

-----------------------------------------------------------------------------
(* Which messages a list request lists, and where each stands.             *)

(* includeSpamTrash, TRASH among labelIds, or a query for either.          *)
WantsHidden(f) ==
  \/ f.spamTrash
  \/ Trash \in f.labelIds
  \/ \E t \in f.query : t \cap Hidden # {}

Matching(b, f) ==
  {m \in Ids : /\ b[m] # Absent
               /\ WantsHidden(f) \/ b[m].labels \cap Hidden = {}
               /\ f.labelIds \subseteq b[m].labels
               /\ \A t \in f.query : t \cap b[m].labels # {}
               /\ m \in f.text}

(* ORDER BY internal_date DESC, id.                                        *)
Before(b, m, n) == b[m].date > b[n].date \/ (b[m].date = b[n].date /\ m < n)

(* A thread is listed where the first of its matching messages stands.     *)
Entries(b, f) ==
  IF f.threads
  THEN {m \in Matching(b, f) :
          \A n \in Matching(b, f) : b[n].thread = b[m].thread => ~Before(b, n, m)}
  ELSE Matching(b, f)

Rank(b, m, L) == Cardinality({n \in L : Before(b, n, m)})
Slice(b, L, from, end) == {m \in L : from <= Rank(b, m, L) /\ Rank(b, m, L) < end}

Smaller(a, b) == IF a < b THEN a ELSE b

-----------------------------------------------------------------------------
(* MessagesList and ThreadsList.                                           *)

(* Mutant: the page is not cut at the end of the listing.                  *)
AnswerUncut(r, f, from, limit) ==
  LET L == Entries(box, f)
      end == from + limit
  IN /\ page' = [page EXCEPT ![r] = Slice(box, L, from, end)]
     /\ offset' = [offset EXCEPT ![r] = end]
     /\ walk' = [walk EXCEPT ![r] = IF end < Cardinality(L) THEN "begun" ELSE "complete"]

(* Mutant: the token counts the entry after the page as well.              *)
AnswerSkips(r, f, from, limit) ==
  LET L == Entries(box, f)
      end == Smaller(from + limit, Cardinality(L))
  IN /\ page' = [page EXCEPT ![r] = Slice(box, L, from, end)]
     /\ offset' = [offset EXCEPT ![r] = Smaller(end + 1, Cardinality(L))]
     /\ walk' = [walk EXCEPT ![r] = IF end < Cardinality(L) THEN "begun" ELSE "complete"]

(* Mutant: the token is the last entry of the page.                        *)
AnswerRepeats(r, f, from, limit) ==
  LET L == Entries(box, f)
      end == Smaller(from + limit, Cardinality(L))
  IN /\ page' = [page EXCEPT ![r] = Slice(box, L, from, end)]
     /\ offset' = [offset EXCEPT ![r] = IF end = 0 THEN 0 ELSE end - 1]
     /\ walk' = [walk EXCEPT ![r] = IF end < Cardinality(L) THEN "begun" ELSE "complete"]

(* The answer for filter f from an offset that is not refused.             *)
Answer(r, f, from, limit) ==
  LET L == Entries(box, f)
      end == Smaller(from + limit, Cardinality(L))
  IN /\ page' = [page EXCEPT ![r] = Slice(box, L, from, end)]
     /\ offset' = [offset EXCEPT ![r] = end]
     /\ walk' = [walk EXCEPT ![r] = IF end < Cardinality(L) THEN "begun" ELSE "complete"]

FirstPage(r, f, limit) ==
  /\ Answer(r, f, 0, limit)
  /\ filter' = [filter EXCEPT ![r] = f]
  /\ seen' = [seen EXCEPT ![r] = {}]
  /\ kept' = [kept EXCEPT ![r] = Entries(box, f)]
  /\ left' = [left EXCEPT ![r] = FALSE]
  /\ came' = [came EXCEPT ![r] = FALSE]
  /\ UNCHANGED <<box, work>>

(* Mutant: the offset is compared with the size of a page.                 *)
NextPageBounded(r, limit) ==
  /\ walk[r] = "begun"
  /\ \/ /\ offset[r] <= limit
        /\ seen' = [seen EXCEPT ![r] = @ \union page[r]]
        /\ Answer(r, filter[r], offset[r], limit)
     \/ /\ offset[r] > limit
        /\ walk' = [walk EXCEPT ![r] = "refused"]
        /\ UNCHANGED <<offset, page, seen>>
  /\ UNCHANGED <<box, work, filter, memory>>

NextPage(r, limit) ==
  /\ walk[r] = "begun"
  /\ \/ /\ offset[r] <= Cardinality(Entries(box, filter[r]))
        /\ seen' = [seen EXCEPT ![r] = @ \union page[r]]
        /\ Answer(r, filter[r], offset[r], limit)
     \/ /\ offset[r] > Cardinality(Entries(box, filter[r]))
        /\ walk' = [walk EXCEPT ![r] = "refused"]
        /\ UNCHANGED <<offset, page, seen>>
  /\ UNCHANGED <<box, work, filter, memory>>

-----------------------------------------------------------------------------
(* What the properties remember of a change of the table.                  *)
Observe ==
  LET Now(r) == Entries(box', filter[r])
      Then(r) == Entries(box, filter[r])
      On(r) == walk[r] = "begun"
  IN /\ kept' = [r \in Readers |-> IF On(r) THEN kept[r] \cap Now(r) ELSE kept[r]]
     /\ left' = [r \in Readers |-> left[r] \/ (On(r) /\ Then(r) \ Now(r) # {})]
     /\ came' = [r \in Readers |-> came[r] \/ (On(r) /\ Now(r) \ Then(r) # {})]

Changed(labels, change) == (labels \union change.add) \ change.remove

(* Mutant: the set applyLabels builds does not start from the labels read. *)
ReadLabelsReplaces(c, m, change) ==
  /\ work[c] = Nothing
  /\ box[m] # Absent
  /\ work' = [work EXCEPT ![c] =
       [id |-> m, change |-> change, labels |-> change.add, behind |-> FALSE]]
  /\ UNCHANGED <<box, listing, memory>>

(* applyLabels, up to the write.                                           *)
ReadLabels(c, m, change) ==
  /\ work[c] = Nothing
  /\ box[m] # Absent
  /\ work' = [work EXCEPT ![c] =
       [id |-> m, change |-> change, labels |-> Changed(box[m].labels, change),
        behind |-> FALSE]]
  /\ UNCHANGED <<box, listing, memory>>

Overtakes(c, d) == work[d] # Nothing /\ work[d].id = work[c].id

WriteLabels(c) ==
  /\ work[c] # Nothing
  /\ box' = [box EXCEPT ![work[c].id] = [@ EXCEPT !.labels = work[c].labels]]
  /\ work' = [d \in Clients |->
       CASE d = c -> Nothing
         [] d # c /\ Overtakes(c, d) -> [work[d] EXCEPT !.behind = TRUE]
         [] OTHER -> work[d]]
  /\ Observe
  /\ UNCHANGED listing

WriteFails(c) ==
  /\ work[c] # Nothing
  /\ work' = [work EXCEPT ![c] = Nothing]
  /\ UNCHANGED <<box, listing, memory>>

(* MessagesSend: the generator gives an id no message has, and the thread  *)
(* is the one the client names, or the message is its own.  Bound: as many *)
(* messages as there are Ids.                                              *)
Send(m) ==
  /\ box[m] = Absent
  /\ \E t \in Threads, d \in Dates :
       box' = [box EXCEPT ![m] = [thread |-> t, date |-> d, labels |-> {Sent}]]
  /\ Observe
  /\ UNCHANGED <<work, listing>>

Next ==
  \/ \E r \in Readers, limit \in Limits :
       (\E f \in Filters : FirstPage(r, f, limit)) \/ NextPage(r, limit)
  \/ \E c \in Clients :
       \/ \E m \in Ids, change \in Changes : ReadLabels(c, m, change)
       \/ WriteLabels(c) \/ WriteFails(c)
  \/ \E m \in Ids : Send(m)

Spec == Init /\ [][Next]_vars

-----------------------------------------------------------------------------
(* Properties.                                                             *)

(* Offsets are good tokens in one direction: if no entry left the listing  *)
(* while a client paged through it, whatever came and wherever, the pages  *)
(* together hold every entry that was listed all the time.                 *)
WalkMissesNothing ==
  \A r \in Readers :
    walk[r] = "complete" /\ ~left[r] => kept[r] \subseteq seen[r] \union page[r]

(* And in the other: if no entry came, whatever left, no entry is on two   *)
(* pages.                                                                  *)
WalkRepeatsNothing ==
  \A r \in Readers : ~came[r] => page[r] \cap seen[r] = {}

(* A token the server gave is refused only to a client whose listing has   *)
(* become shorter.                                                         *)
RefusedForCause ==
  \A r \in Readers : walk[r] = "refused" => left[r]

(* A stored message is changed by the end of a request that modifies it    *)
(* and by nothing else, and only in its labels; a request that no other    *)
(* overtook between its two statements changes the labels as it was asked, *)
(* whatever other requests did to other messages meanwhile.  One that was  *)
(* overtaken puts back what it read: the other's change is lost.           *)
ModifiedAsAsked ==
  [][\A m \in Ids : box[m] # Absent /\ box'[m] # box[m] =>
       \E c \in Clients :
         /\ work[c] # Nothing /\ work'[c] = Nothing /\ work[c].id = m
         /\ \E labels \in SUBSET Labels : box'[m] = [box[m] EXCEPT !.labels = labels]
         /\ work[c].behind \/ box'[m].labels = Changed(box[m].labels, work[c].change)]_vars
=============================================================================

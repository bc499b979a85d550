---------------------------- MODULE MailboxProofs ----------------------------
(***************************************************************************)
(* Proofs about Mailbox, for any finite set of messages and any number of  *)
(* clients, readers and filters.                                           *)
(***************************************************************************)
EXTENDS Mailbox, FiniteSetTheorems, TLAPS

Listed(r) == Entries(box, filter[r])

(* A reader that has missed nothing has been given every entry listed all  *)
(* the time that stands before its token, and one that was given nothing   *)
(* twice none that stands behind it.                                       *)
Progress(r) ==
  /\ ~left[r] =>
       /\ offset[r] <= Cardinality(Listed(r))
       /\ kept[r] \subseteq Listed(r)
       /\ \A m \in kept[r] :
            Rank(box, m, Listed(r)) < offset[r] => m \in seen[r] \union page[r]
  /\ ~came[r] =>
       \A m \in Listed(r) \cap (seen[r] \union page[r]) :
         Rank(box, m, Listed(r)) < offset[r]

WalkInv == \A r \in Readers : walk[r] = "begun" => Progress(r)

IInv ==
  TypeOK /\ WalkInv /\ WalkMissesNothing /\ WalkRepeatsNothing /\ RefusedForCause

(* What is modified is in the table: no request removes a message.  The    *)
(* labels about to be written are still made from those of the table,      *)
(* unless another has written them since.                                  *)
WorkInv ==
  \A c \in Clients :
    work[c] # Nothing =>
      /\ box[work[c].id] # Absent
      /\ ~work[c].behind =>
           work[c].labels = Changed(box[work[c].id].labels, work[c].change)

-----------------------------------------------------------------------------
(* Entries and their ranks.                                                *)

(* Entries are messages of the box.                                        *)
LEMMA EntriesType ==
  ASSUME NEW b, NEW f
  PROVE  /\ Entries(b, f) \subseteq Ids
         /\ \A m \in Entries(b, f) : b[m] # Absent
         /\ IsFiniteSet(Entries(b, f))
<1>1. Entries(b, f) \subseteq Ids /\ \A m \in Entries(b, f) : b[m] # Absent
  BY DEF Entries, Matching
<1> QED
  BY <1>1, FS_Subset, MailboxAssumption

(* A rank in a finite set of messages is a number below its size.          *)
LEMMA RankBound ==
  ASSUME NEW b \in Mailboxes, NEW L \in SUBSET Ids, NEW m \in L, b[m] # Absent
  PROVE  /\ Rank(b, m, L) \in Nat
         /\ Cardinality(L) \in Nat
         /\ Rank(b, m, L) < Cardinality(L)
<1> DEFINE P == {n \in L : Before(b, n, m)}
<1>1. IsFiniteSet(L)
  BY FS_Subset, MailboxAssumption
<1>2. m \in Nat /\ b[m].date \in Nat
  BY MailboxAssumption DEF Mailboxes, Message
<1>3. m \notin P
  BY <1>2 DEF Before
<1>4. P \subseteq L /\ P # L
  BY <1>3
<1>5. /\ Cardinality(P) \in Nat /\ Cardinality(L) \in Nat
      /\ Cardinality(P) < Cardinality(L)
  <2>1. IsFiniteSet(P) /\ Cardinality(P) <= Cardinality(L)
        /\ (Cardinality(P) = Cardinality(L) => P = L)
    BY <1>1, <1>4, FS_Subset
  <2>2. Cardinality(P) \in Nat /\ Cardinality(L) \in Nat
    BY <2>1, <1>1, FS_CardinalityType
  <2> HIDE DEF P
  <2> QED
    BY <2>1, <2>2, <1>4
<1> QED
  BY <1>5 DEF Rank

(* Dates never change: what comes before what does not either, and ranks   *)
(* grow with the set.                                                      *)
LEMMA RankGrows ==
  ASSUME NEW b, NEW d, NEW L \in SUBSET Ids, NEW M \in SUBSET Ids, L \subseteq M,
         NEW m \in Ids,
         \A n \in L \union {m} : b[n].date = d[n].date
  PROVE  /\ Rank(b, m, L) \in Nat /\ Rank(d, m, M) \in Nat
         /\ Rank(b, m, L) <= Rank(d, m, M)
<1> DEFINE P == {n \in L : Before(b, n, m)}
           Q == {n \in M : Before(d, n, m)}
<1>1. IsFiniteSet(Q)
  BY FS_Subset, MailboxAssumption
<1>2. P \subseteq Q
  BY DEF Before
<1>3. /\ IsFiniteSet(P) /\ Cardinality(P) \in Nat /\ Cardinality(Q) \in Nat
      /\ Cardinality(P) <= Cardinality(Q)
  BY <1>1, <1>2, FS_Subset, FS_CardinalityType
<1> QED
  BY <1>3 DEF Rank

(* The listing of a box has at most as many entries as there are ids.      *)
LEMMA ListingSize ==
  ASSUME NEW L \in SUBSET Ids
  PROVE  Cardinality(L) \in Nat /\ Cardinality(L) <= Cardinality(Ids)
         /\ Cardinality(Ids) \in Nat
BY FS_Subset, FS_CardinalityType, MailboxAssumption

-----------------------------------------------------------------------------
(* The initial states.                                                     *)

LEMMA InvInit == Init => IInv
<1> SUFFICES ASSUME Init PROVE IInv
  OBVIOUS
<1>1. 0 \in 0..Cardinality(Ids)
  BY FS_CardinalityType, MailboxAssumption
<1>2. TypeOK
  BY <1>1, MailboxAssumption DEF Init, TypeOK, Mailboxes
<1>3. WalkInv /\ WalkMissesNothing /\ WalkRepeatsNothing /\ RefusedForCause
  BY DEF Init, WalkInv, WalkMissesNothing, WalkRepeatsNothing, RefusedForCause
<1> QED
  BY <1>2, <1>3 DEF IInv

-----------------------------------------------------------------------------
(* Pages.                                                                  *)

(* What an answer from an offset within the listing says.                  *)
LEMMA AnswerFacts ==
  ASSUME TypeOK, NEW r \in Readers, NEW f \in Filters, NEW from \in Nat, NEW limit \in Limits,
         Answer(r, f, from, limit), from <= Cardinality(Entries(box, f))
  PROVE  /\ page' \in [Readers -> SUBSET Ids] /\ page'[r] \subseteq Entries(box, f)
         /\ offset' \in [Readers -> 0..Cardinality(Ids)]
         /\ walk' \in [Readers -> {"none", "begun", "complete", "refused"}]
         /\ walk'[r] \in {"begun", "complete"}
         /\ from <= offset'[r] /\ offset'[r] <= Cardinality(Entries(box, f))
         /\ walk'[r] = "complete" => offset'[r] = Cardinality(Entries(box, f))
         /\ \A m \in Entries(box, f) :
              m \in page'[r] <=> from <= Rank(box, m, Entries(box, f))
                                 /\ Rank(box, m, Entries(box, f)) < offset'[r]
         /\ \A q \in Readers \ {r} :
              page'[q] = page[q] /\ offset'[q] = offset[q] /\ walk'[q] = walk[q]
<1> DEFINE L == Entries(box, f)
           end == Smaller(from + limit, Cardinality(L))
<1>1. L \in SUBSET Ids
  BY EntriesType
<1>2. Cardinality(L) \in Nat /\ Cardinality(L) <= Cardinality(Ids) /\ Cardinality(Ids) \in Nat
  BY <1>1, ListingSize
<1>3. limit \in Nat /\ limit > 0
  BY MailboxAssumption
<1>4. /\ end \in 0..Cardinality(Ids) /\ from <= end /\ end <= Cardinality(L)
      /\ ~(end < Cardinality(L)) => end = Cardinality(L)
  <2>1. from <= Cardinality(L)
    OBVIOUS
  <2>2. from + limit \in Nat
    BY <1>3
  <2> HIDE DEF L
  <2> QED
    BY <1>2, <1>3, <2>1, <2>2 DEF Smaller
<1>5. /\ page' = [page EXCEPT ![r] = Slice(box, L, from, end)]
      /\ offset' = [offset EXCEPT ![r] = end]
      /\ walk' = [walk EXCEPT ![r] = IF end < Cardinality(L) THEN "begun" ELSE "complete"]
  BY DEF Answer
<1>6. /\ Slice(box, L, from, end) \subseteq L
      /\ \A m \in L : m \in Slice(box, L, from, end) <=>
           from <= Rank(box, m, L) /\ Rank(box, m, L) < end
  BY DEF Slice
<1> HIDE DEF L, end
<1>7. page'[r] = Slice(box, L, from, end) /\ offset'[r] = end
      /\ walk'[r] = IF end < Cardinality(L) THEN "begun" ELSE "complete"
  BY <1>5 DEF TypeOK
<1>8. page' \in [Readers -> SUBSET Ids]
  BY <1>1, <1>5, <1>6 DEF TypeOK
<1>9. offset' \in [Readers -> 0..Cardinality(Ids)]
  BY <1>4, <1>5 DEF TypeOK
<1>10. walk' \in [Readers -> {"none", "begun", "complete", "refused"}]
  BY <1>5 DEF TypeOK
<1>11. \A q \in Readers \ {r} :
         page'[q] = page[q] /\ offset'[q] = offset[q] /\ walk'[q] = walk[q]
  BY <1>5 DEF TypeOK
<1> QED
  BY <1>4, <1>6, <1>7, <1>8, <1>9, <1>10, <1>11 DEF L

(* Readers do not disturb one another.                                     *)
LEMMA OthersKeep ==
  ASSUME IInv, NEW q \in Readers, UNCHANGED box,
         /\ walk'[q] = walk[q] /\ filter'[q] = filter[q] /\ offset'[q] = offset[q]
         /\ page'[q] = page[q] /\ seen'[q] = seen[q] /\ kept'[q] = kept[q]
         /\ left'[q] = left[q] /\ came'[q] = came[q]
  PROVE  /\ walk'[q] = "begun" => Progress(q)'
         /\ walk'[q] = "complete" /\ ~left'[q] => kept'[q] \subseteq seen'[q] \union page'[q]
         /\ ~came'[q] => page'[q] \cap seen'[q] = {}
         /\ walk'[q] = "refused" => left'[q]
BY DEF IInv, WalkInv, Progress, Listed, WalkMissesNothing, WalkRepeatsNothing, RefusedForCause

LEMMA FirstPageStep ==
  ASSUME IInv, NEW r \in Readers, NEW f \in Filters, NEW limit \in Limits,
         FirstPage(r, f, limit)
  PROVE  IInv'
<1> DEFINE L == Entries(box, f)
<1>0. TypeOK
  BY DEF IInv
<1>1. L \in SUBSET Ids /\ Cardinality(L) \in Nat
  BY EntriesType, ListingSize
<1>2. Answer(r, f, 0, limit) /\ 0 <= Cardinality(L)
  BY <1>1 DEF FirstPage
<1>3. /\ page' \in [Readers -> SUBSET Ids] /\ page'[r] \subseteq L
      /\ offset' \in [Readers -> 0..Cardinality(Ids)]
      /\ walk' \in [Readers -> {"none", "begun", "complete", "refused"}]
      /\ walk'[r] \in {"begun", "complete"}
      /\ offset'[r] <= Cardinality(L)
      /\ walk'[r] = "complete" => offset'[r] = Cardinality(L)
      /\ \A m \in L : m \in page'[r] <=> 0 <= Rank(box, m, L) /\ Rank(box, m, L) < offset'[r]
      /\ \A q \in Readers \ {r} :
           page'[q] = page[q] /\ offset'[q] = offset[q] /\ walk'[q] = walk[q]
  BY <1>0, <1>2, AnswerFacts
<1>4. /\ filter'[r] = f /\ seen'[r] = {} /\ kept'[r] = L
      /\ left'[r] = FALSE /\ came'[r] = FALSE
      /\ UNCHANGED <<box, work>>
      /\ \A q \in Readers \ {r} :
           /\ filter'[q] = filter[q] /\ seen'[q] = seen[q] /\ kept'[q] = kept[q]
           /\ left'[q] = left[q] /\ came'[q] = came[q]
  BY <1>0 DEF FirstPage, TypeOK
<1>5. TypeOK'
  BY <1>0, <1>1, <1>3, <1>4 DEF TypeOK, FirstPage
<1>6. \A m \in L : Rank(box, m, L) \in Nat /\ Rank(box, m, L) < Cardinality(L)
  BY <1>0, <1>1, EntriesType, RankBound DEF TypeOK
<1>7. Listed(r)' = L
  BY <1>4 DEF Listed
<1>8. Progress(r)'
  <2>1. offset'[r] <= Cardinality(Listed(r)') /\ kept'[r] \subseteq Listed(r)'
    BY <1>3, <1>4, <1>7
  <2>2. \A m \in kept'[r] : Rank(box, m, L) < offset'[r] => m \in page'[r]
    BY <1>3, <1>4, <1>6
  <2>3. \A m \in L \cap (seen'[r] \union page'[r]) : Rank(box, m, L) < offset'[r]
    BY <1>3, <1>4
  <2> QED
    BY <2>1, <2>2, <2>3, <1>4, <1>7 DEF Progress
<1>9. walk'[r] = "complete" => kept'[r] \subseteq seen'[r] \union page'[r]
  BY <1>3, <1>4, <1>6
<1>10. page'[r] \cap seen'[r] = {} /\ walk'[r] # "refused"
  BY <1>3, <1>4
<1>11. ASSUME NEW q \in Readers \ {r}
       PROVE  /\ walk'[q] = "begun" => Progress(q)'
              /\ walk'[q] = "complete" /\ ~left'[q] => kept'[q] \subseteq seen'[q] \union page'[q]
              /\ ~came'[q] => page'[q] \cap seen'[q] = {}
              /\ walk'[q] = "refused" => left'[q]
  BY <1>3, <1>4, OthersKeep
<1>12. WalkInv'
  BY <1>8, <1>11 DEF WalkInv
<1>13. (WalkMissesNothing /\ WalkRepeatsNothing /\ RefusedForCause)'
  BY <1>9, <1>10, <1>11 DEF WalkMissesNothing, WalkRepeatsNothing, RefusedForCause
<1> QED
  BY <1>5, <1>12, <1>13 DEF IInv

LEMMA NextPageStep ==
  ASSUME IInv, NEW r \in Readers, NEW limit \in Limits, NextPage(r, limit)
  PROVE  IInv'
<1> DEFINE L == Listed(r)
<1>0. TypeOK /\ walk[r] = "begun" /\ Progress(r)
  BY DEF IInv, WalkInv, NextPage
<1>1. L \in SUBSET Ids /\ Cardinality(L) \in Nat /\ offset[r] \in Nat /\ filter[r] \in Filters
  <2>1. L \in SUBSET Ids
    BY EntriesType DEF Listed
  <2>2. offset[r] \in 0..Cardinality(Ids) /\ filter[r] \in Filters
    BY <1>0 DEF TypeOK
  <2> QED
    BY <2>1, <2>2, ListingSize
<1>2. /\ UNCHANGED <<box, work, filter, kept, left, came>>
      /\ Listed(r)' = L
  BY DEF NextPage, memory, Listed
<1>3. \A m \in L : Rank(box, m, L) \in Nat /\ Rank(box, m, L) < Cardinality(L)
  BY <1>0, <1>1, EntriesType, RankBound DEF TypeOK, Listed
<1>4. SUFFICES /\ TypeOK'
               /\ \A q \in Readers \ {r} :
                    /\ walk'[q] = walk[q] /\ offset'[q] = offset[q]
                    /\ page'[q] = page[q] /\ seen'[q] = seen[q]
               /\ walk'[r] = "begun" => Progress(r)'
               /\ walk'[r] = "complete" /\ ~left[r] => kept[r] \subseteq seen'[r] \union page'[r]
               /\ ~came[r] => page'[r] \cap seen'[r] = {}
               /\ walk'[r] = "refused" => left[r]
  BY <1>2, OthersKeep
     DEF IInv, WalkInv, WalkMissesNothing, WalkRepeatsNothing, RefusedForCause
<1>5. CASE /\ offset[r] <= Cardinality(Entries(box, filter[r]))
           /\ seen' = [seen EXCEPT ![r] = @ \union page[r]]
           /\ Answer(r, filter[r], offset[r], limit)
  <2>1. /\ page' \in [Readers -> SUBSET Ids] /\ page'[r] \subseteq L
        /\ offset' \in [Readers -> 0..Cardinality(Ids)]
        /\ walk' \in [Readers -> {"none", "begun", "complete", "refused"}]
        /\ walk'[r] \in {"begun", "complete"}
        /\ offset[r] <= offset'[r] /\ offset'[r] <= Cardinality(L)
        /\ walk'[r] = "complete" => offset'[r] = Cardinality(L)
        /\ \A m \in L :
             m \in page'[r] <=> offset[r] <= Rank(box, m, L) /\ Rank(box, m, L) < offset'[r]
        /\ \A q \in Readers \ {r} :
             page'[q] = page[q] /\ offset'[q] = offset[q] /\ walk'[q] = walk[q]
    BY <1>0, <1>1, <1>5, AnswerFacts DEF Listed
  <2>2. /\ seen' \in [Readers -> SUBSET Ids]
        /\ seen'[r] = seen[r] \union page[r]
        /\ \A q \in Readers \ {r} : seen'[q] = seen[q]
    BY <1>0, <1>5 DEF TypeOK
  <2>3. TypeOK'
    BY <1>0, <1>2, <2>1, <2>2 DEF TypeOK
  <2>4. offset'[r] \in Nat
    BY <1>1, <2>1, ListingSize
  <2>5. ASSUME ~left[r], NEW m \in kept[r], Rank(box, m, L) < offset'[r]
        PROVE  m \in seen'[r] \union page'[r]
    <3>1. m \in L /\ (Rank(box, m, L) < offset[r] => m \in seen'[r])
      BY <1>0, <2>2, <2>5 DEF Progress
    <3> QED
      BY <3>1, <1>1, <1>3, <2>1, <2>5
  <2>6. ASSUME ~came[r], NEW m \in L \cap seen'[r]
        PROVE  Rank(box, m, L) < offset[r]
    BY <1>0, <2>2, <2>6 DEF Progress
  <2>7. Progress(r)'
    <3>1. ~left[r] => kept[r] \subseteq L
      BY <1>0 DEF Progress
    <3>2. ASSUME ~came[r], NEW m \in L \cap (seen'[r] \union page'[r])
          PROVE  Rank(box, m, L) < offset'[r]
      BY <3>2, <1>1, <1>3, <2>1, <2>4, <2>6
    <3> HIDE DEF L
    <3> QED
      BY <1>2, <2>1, <2>5, <3>1, <3>2 DEF Progress
  <2>8. walk'[r] = "complete" /\ ~left[r] => kept[r] \subseteq seen'[r] \union page'[r]
    <3>1. ~left[r] => kept[r] \subseteq L
      BY <1>0 DEF Progress
    <3> QED
      BY <3>1, <1>3, <2>1, <2>5
  <2>9. ~came[r] => page'[r] \cap seen'[r] = {}
    BY <1>1, <1>3, <2>1, <2>6
  <2> QED
    BY <2>1, <2>2, <2>3, <2>7, <2>8, <2>9
<1>6. CASE /\ offset[r] > Cardinality(Entries(box, filter[r]))
           /\ walk' = [walk EXCEPT ![r] = "refused"]
           /\ UNCHANGED <<offset, page, seen>>
  <2>1. /\ TypeOK' /\ walk'[r] = "refused"
        /\ \A q \in Readers \ {r} : walk'[q] = walk[q]
    BY <1>0, <1>2, <1>6 DEF TypeOK
  <2>2. left[r]
    BY <1>0, <1>1, <1>6 DEF Progress, Listed
  <2>3. ~came[r] => page[r] \cap seen[r] = {}
    BY DEF IInv, WalkRepeatsNothing
  <2> QED
    BY <2>1, <2>2, <2>3, <1>6
<1> QED
  BY <1>5, <1>6 DEF NextPage

-----------------------------------------------------------------------------
(* Changes of the table.                                                   *)

(* No step changes the date of a message or removes one, and so the        *)
(* properties survive what readers observe of it.                          *)
LEMMA ObserveStep ==
  ASSUME IInv, Observe, UNCHANGED listing, box' \in Mailboxes,
         work' \in [Clients -> Modification \union {Nothing}],
         \A m \in Ids : box[m] # Absent => box'[m] # Absent /\ box'[m].date = box[m].date
  PROVE  IInv'
<1>0. TypeOK
  BY DEF IInv
<1>1. /\ UNCHANGED <<walk, filter, offset, page, seen>>
      /\ \A r \in Readers : Listed(r)' = Entries(box', filter[r])
  BY DEF listing, Listed
<1>2. \A r \in Readers :
        /\ kept'[r] = IF walk[r] = "begun" THEN kept[r] \cap Listed(r)' ELSE kept[r]
        /\ left'[r] = (left[r] \/ (walk[r] = "begun" /\ Listed(r) \ Listed(r)' # {}))
        /\ came'[r] = (came[r] \/ (walk[r] = "begun" /\ Listed(r)' \ Listed(r) # {}))
  BY <1>1 DEF Observe, Listed
<1>3. \A r \in Readers : Listed(r) \in SUBSET Ids /\ Listed(r)' \in SUBSET Ids
  BY <1>1, EntriesType DEF Listed
<1>4. TypeOK'
  <2>1. /\ kept' \in [Readers -> SUBSET Ids]
        /\ left' \in [Readers -> BOOLEAN] /\ came' \in [Readers -> BOOLEAN]
    <3>1. \A r \in Readers : Entries(box', filter[r]) \in SUBSET Ids
      BY EntriesType
    <3> QED
      BY <1>0, <3>1 DEF Observe, TypeOK
  <2> QED
    BY <1>0, <1>1, <2>1 DEF TypeOK
<1>5. ASSUME NEW r \in Readers, walk[r] = "begun"
      PROVE  Progress(r)'
  <2>0. Progress(r)
    BY <1>5 DEF IInv, WalkInv
  <2>1. \A m \in Listed(r) : box[m] # Absent /\ box'[m].date = box[m].date
    BY <1>3, EntriesType DEF Listed
  <2>2. offset[r] \in Nat
    <3>1. offset[r] \in 0..Cardinality(Ids)
      BY <1>0 DEF TypeOK
    <3> QED
      BY <3>1
  <2>3. ASSUME ~left'[r]
        PROVE  /\ offset'[r] <= Cardinality(Listed(r)')
               /\ kept'[r] \subseteq Listed(r)'
               /\ \A m \in kept'[r] :
                    Rank(box', m, Listed(r)') < offset'[r] => m \in seen'[r] \union page'[r]
    <3>1. ~left[r] /\ Listed(r) \subseteq Listed(r)' /\ kept'[r] = kept[r] \cap Listed(r)'
      BY <1>2, <1>5, <2>3
    <3>2. /\ Cardinality(Listed(r)) \in Nat /\ Cardinality(Listed(r)') \in Nat
          /\ Cardinality(Listed(r)) <= Cardinality(Listed(r)')
      BY <1>3, <3>1, FS_Subset, FS_CardinalityType, MailboxAssumption
    <3>3. ASSUME NEW m \in kept'[r], Rank(box', m, Listed(r)') < offset[r]
          PROVE  m \in seen[r] \union page[r]
      <4>1. m \in kept[r] /\ m \in Listed(r)
        BY <2>0, <3>1, <3>3 DEF Progress
      <4>2. /\ Rank(box, m, Listed(r)) \in Nat /\ Rank(box', m, Listed(r)') \in Nat
            /\ Rank(box, m, Listed(r)) <= Rank(box', m, Listed(r)')
        <5>1. \A n \in Listed(r) \union {m} : box[n].date = box'[n].date
          BY <2>1, <4>1
        <5> QED
          BY <1>3, <3>1, <4>1, <5>1, RankGrows
      <4>3. Rank(box, m, Listed(r)) < offset[r]
        BY <2>2, <3>3, <4>2
      <4> QED
        BY <2>0, <3>1, <4>1, <4>3 DEF Progress
    <3> QED
      BY <1>1, <2>0, <2>2, <3>1, <3>2, <3>3 DEF Progress
  <2>4. ASSUME ~came'[r], NEW m \in Listed(r)' \cap (seen[r] \union page[r])
        PROVE  Rank(box', m, Listed(r)') < offset[r]
    <3>1. ~came[r] /\ Listed(r)' \subseteq Listed(r)
      BY <1>2, <1>5, <2>4
    <3>2. m \in Listed(r) /\ Rank(box, m, Listed(r)) < offset[r]
      BY <2>0, <2>4, <3>1 DEF Progress
    <3>3. /\ Rank(box, m, Listed(r)) \in Nat /\ Rank(box', m, Listed(r)') \in Nat
          /\ Rank(box', m, Listed(r)') <= Rank(box, m, Listed(r))
      <4>1. \A n \in Listed(r)' \union {m} : box'[n].date = box[n].date
        BY <2>1, <3>1, <3>2
      <4> QED
        BY <1>3, <3>1, <3>2, <4>1, RankGrows
    <3> QED
      BY <2>2, <3>2, <3>3
  <2> QED
    BY <1>1, <2>3, <2>4 DEF Progress
<1>6. WalkInv'
  BY <1>1, <1>5 DEF WalkInv
<1>7. (WalkMissesNothing /\ WalkRepeatsNothing /\ RefusedForCause)'
  BY <1>1, <1>2 DEF IInv, WalkMissesNothing, WalkRepeatsNothing, RefusedForCause
<1> QED
  BY <1>4, <1>6, <1>7 DEF IInv

LEMMA Unobserved ==
  ASSUME IInv, UNCHANGED <<box, listing, memory>>,
         work' \in [Clients -> Modification \union {Nothing}]
  PROVE  IInv'
<1>1. UNCHANGED <<box, walk, filter, offset, page, seen, kept, left, came>>
  BY DEF listing, memory
<1>2. TypeOK'
  BY <1>1 DEF IInv, TypeOK
<1>3. \A r \in Readers : Progress(r)' <=> Progress(r)
  BY <1>1 DEF Progress, Listed
<1>4. WalkInv'
  BY <1>1, <1>3 DEF IInv, WalkInv
<1>5. (WalkMissesNothing /\ WalkRepeatsNothing /\ RefusedForCause)'
  BY <1>1 DEF IInv, WalkMissesNothing, WalkRepeatsNothing, RefusedForCause
<1> QED
  BY <1>2, <1>4, <1>5 DEF IInv

(* A write ends one modification and overtakes the others of its message.  *)
LEMMA WriteWork ==
  ASSUME TypeOK, NEW c \in Clients, WriteLabels(c)
  PROVE  /\ work' \in [Clients -> Modification \union {Nothing}]
         /\ work'[c] = Nothing
         /\ \A d \in Clients : work'[d] # Nothing =>
              /\ work[d] # Nothing /\ work'[d].id = work[d].id
              /\ ~work'[d].behind => work'[d] = work[d] /\ work[d].id # work[c].id
<1>1. ASSUME NEW d \in Clients
      PROVE  work'[d] = CASE d = c -> Nothing
                          [] d # c /\ Overtakes(c, d) -> [work[d] EXCEPT !.behind = TRUE]
                          [] OTHER -> work[d]
  BY DEF WriteLabels
<1>2. ASSUME NEW d \in Clients, d # c, Overtakes(c, d)
      PROVE  /\ work'[d] = [work[d] EXCEPT !.behind = TRUE]
             /\ work'[d] \in Modification /\ work'[d].id = work[d].id /\ work'[d].behind = TRUE
             /\ work[d] # Nothing
  <2>1. work'[d] = [work[d] EXCEPT !.behind = TRUE]
    BY <1>1, <1>2
  <2>2. work[d] \in Modification
    BY <1>2 DEF Overtakes, TypeOK
  <2> QED
    BY <1>2, <2>1, <2>2 DEF Modification, Overtakes
<1>3. ASSUME NEW d \in Clients, d # c, ~Overtakes(c, d)
      PROVE  work'[d] = work[d] /\ (work[d] # Nothing => work[d].id # work[c].id)
  BY <1>1, <1>3 DEF Overtakes
<1>4. work'[c] = Nothing
  BY <1>1
<1>5. \A d \in Clients : work'[d] \in Modification \union {Nothing}
  BY <1>2, <1>3, <1>4 DEF TypeOK
<1>6. \E F : work' = [d \in Clients |-> F[d]]
  BY DEF WriteLabels
<1> QED
  BY <1>2, <1>3, <1>4, <1>5, <1>6

(* The messages in the table stay, with their dates.                       *)
LEMMA BoxStep ==
  ASSUME TypeOK, WorkInv, [Next]_vars
  PROVE  /\ WorkInv'
         /\ \A m \in Ids : box[m] # Absent => box'[m] # Absent /\ box'[m].date = box[m].date
<1>1. ASSUME UNCHANGED box, \A c \in Clients : work'[c] = Nothing \/ work'[c] = work[c]
      PROVE  WorkInv' /\ \A m \in Ids : box[m] # Absent => box'[m] # Absent /\ box'[m].date = box[m].date
  BY <1>1 DEF WorkInv
<1>2. ASSUME NEW r \in Readers, NEW limit \in Limits, NEW f \in Filters,
             FirstPage(r, f, limit) \/ NextPage(r, limit)
      PROVE  UNCHANGED box /\ UNCHANGED work
  BY <1>2 DEF FirstPage, NextPage
<1>3. ASSUME NEW r \in Readers, NEW limit \in Limits, NextPage(r, limit)
      PROVE  UNCHANGED box /\ UNCHANGED work
  BY <1>3 DEF NextPage
<1>4. ASSUME NEW c \in Clients, NEW m \in Ids, NEW change \in Changes, ReadLabels(c, m, change)
      PROVE  UNCHANGED box /\ WorkInv'
  <2> DEFINE new == [id |-> m, change |-> change, labels |-> Changed(box[m].labels, change),
                     behind |-> FALSE]
  <2>1. /\ UNCHANGED box /\ box[m] # Absent
        /\ \A d \in Clients : work'[d] = IF d = c THEN new ELSE work[d]
    BY <1>4 DEF ReadLabels, TypeOK
  <2>2. /\ new.id = m /\ new.change = change
        /\ new.labels = Changed(box[m].labels, change) /\ new.behind = FALSE
    OBVIOUS
  <2> HIDE DEF new
  <2> QED
    BY <2>1, <2>2 DEF WorkInv
<1>5. ASSUME NEW c \in Clients, WriteLabels(c)
      PROVE  /\ WorkInv'
             /\ \A m \in Ids : box[m] # Absent => box'[m] # Absent /\ box'[m].date = box[m].date
  <2> DEFINE id == work[c].id
             new == [box[id] EXCEPT !.labels = work[c].labels]
  <2>1. work[c] \in Modification /\ box[id] # Absent
    BY <1>5 DEF WriteLabels, TypeOK, WorkInv
  <2>2. id \in Ids /\ work[c].labels \in SUBSET Labels
    BY <2>1 DEF Modification
  <2>3. box[id] \in Message
    BY <2>1, <2>2 DEF TypeOK, Mailboxes
  <2>4. new \in Message /\ new.date = box[id].date
    BY <2>2, <2>3 DEF Message
  <2>5. box' = [box EXCEPT ![id] = new]
    BY <1>5 DEF WriteLabels
  <2>6. Absent \notin Message
    BY MailboxAssumption
  <2> HIDE DEF new
  <2>7. \A m \in Ids : box'[m] = IF m = id THEN new ELSE box[m]
    BY <2>5 DEF TypeOK, Mailboxes
  <2>8. \A m \in Ids : box[m] # Absent => box'[m] # Absent /\ box'[m].date = box[m].date
    BY <2>4, <2>6, <2>7
  <2>9. \A d \in Clients : work[d] # Nothing => work[d].id \in Ids
    BY DEF TypeOK, Modification
  <2>10. ASSUME NEW d \in Clients, work'[d] # Nothing
         PROVE  /\ box'[work'[d].id] # Absent
                /\ ~work'[d].behind =>
                     work'[d].labels = Changed(box'[work'[d].id].labels, work'[d].change)
    <3>1. /\ work[d] # Nothing /\ work'[d].id = work[d].id
          /\ ~work'[d].behind => work'[d] = work[d] /\ work[d].id # work[c].id
      BY <1>5, <2>10, WriteWork
    <3>2. box'[work'[d].id] # Absent
      BY <2>8, <2>9, <3>1 DEF WorkInv
    <3>3. ASSUME ~work'[d].behind
          PROVE  work'[d].labels = Changed(box'[work'[d].id].labels, work'[d].change)
      <4>1. work'[d] = work[d] /\ box'[work[d].id] = box[work[d].id]
        BY <2>7, <2>9, <3>1, <3>3
      <4> QED
        BY <3>1, <3>3, <4>1 DEF WorkInv
    <3> QED
      BY <3>2, <3>3
  <2> QED
    BY <2>8, <2>10 DEF WorkInv
<1>6. ASSUME NEW c \in Clients, WriteFails(c)
      PROVE  UNCHANGED box /\ \A d \in Clients : work'[d] = Nothing \/ work'[d] = work[d]
  BY <1>6 DEF WriteFails, TypeOK
<1>7. ASSUME NEW m \in Ids, Send(m)
      PROVE  /\ WorkInv'
             /\ \A n \in Ids : box[n] # Absent => box'[n] # Absent /\ box'[n].date = box[n].date
  <2>1. \A n \in Ids : box[n] # Absent => box'[n] = box[n]
    BY <1>7 DEF Send, TypeOK, Mailboxes
  <2>2. \A d \in Clients : work[d] # Nothing => work[d].id \in Ids
    BY DEF TypeOK, Modification
  <2> QED
    BY <1>7, <2>1, <2>2 DEF Send, WorkInv
<1>8. CASE UNCHANGED vars
  BY <1>8, <1>1 DEF vars
<1> QED
  BY <1>1, <1>2, <1>3, <1>4, <1>5, <1>6, <1>7, <1>8 DEF Next

LEMMA InvStep ==
  ASSUME IInv, WorkInv, [Next]_vars
  PROVE  IInv'
<1>0. /\ TypeOK
      /\ \A m \in Ids : box[m] # Absent => box'[m] # Absent /\ box'[m].date = box[m].date
  BY BoxStep DEF IInv
<1>1. ASSUME NEW r \in Readers, NEW limit \in Limits, NEW f \in Filters, FirstPage(r, f, limit)
      PROVE  IInv'
  BY <1>1, FirstPageStep
<1>2. ASSUME NEW r \in Readers, NEW limit \in Limits, NextPage(r, limit)
      PROVE  IInv'
  BY <1>2, NextPageStep
<1>3. ASSUME NEW c \in Clients, NEW m \in Ids, NEW change \in Changes, ReadLabels(c, m, change)
      PROVE  IInv'
  <2>1. Changed(box[m].labels, change) \in SUBSET Labels
    BY <1>0, <1>3, MailboxAssumption DEF ReadLabels, TypeOK, Mailboxes, Message, Changed
  <2>2. [id |-> m, change |-> change, labels |-> Changed(box[m].labels, change),
         behind |-> FALSE] \in Modification
    BY <2>1 DEF Modification
  <2>3. work' \in [Clients -> Modification \union {Nothing}]
    BY <1>0, <1>3, <2>2 DEF ReadLabels, TypeOK
  <2> QED
    BY <1>3, <2>3, Unobserved DEF ReadLabels
<1>4. ASSUME NEW c \in Clients, WriteLabels(c)
      PROVE  IInv'
  <2> DEFINE m == work[c].id
             new == [box[m] EXCEPT !.labels = work[c].labels]
  <2>1. work[c] \in Modification /\ box[m] # Absent
    BY <1>0, <1>4 DEF WriteLabels, TypeOK, WorkInv
  <2>2. m \in Ids /\ work[c].labels \in SUBSET Labels
    BY <2>1 DEF Modification
  <2>3. work' \in [Clients -> Modification \union {Nothing}]
    BY <1>0, <1>4, WriteWork
  <2>4. box[m] \in Message
    BY <1>0, <2>1, <2>2 DEF TypeOK, Mailboxes
  <2>5. new \in Message
    BY <2>2, <2>4 DEF Message
  <2>6. box' = [box EXCEPT ![m] = new]
    BY <1>4 DEF WriteLabels
  <2>7. box' \in Mailboxes
    BY <1>0, <2>5, <2>6 DEF TypeOK, Mailboxes
  <2> QED
    BY <1>0, <1>4, <2>3, <2>7, ObserveStep DEF WriteLabels
<1>5. ASSUME NEW c \in Clients, WriteFails(c)
      PROVE  IInv'
  <2>1. work' \in [Clients -> Modification \union {Nothing}]
    BY <1>0, <1>5 DEF WriteFails, TypeOK
  <2> QED
    BY <1>5, <2>1, Unobserved DEF WriteFails
<1>6. ASSUME NEW m \in Ids, Send(m)
      PROVE  IInv'
  <2>1. PICK t \in Threads, d \in Dates :
          box' = [box EXCEPT ![m] = [thread |-> t, date |-> d, labels |-> {Sent}]]
    BY <1>6 DEF Send
  <2>2. [thread |-> t, date |-> d, labels |-> {Sent}] \in Message
    BY MailboxAssumption DEF Message
  <2>3. box' \in Mailboxes
    BY <1>0, <2>1, <2>2 DEF TypeOK, Mailboxes
  <2>4. work' \in [Clients -> Modification \union {Nothing}]
    BY <1>0, <1>6 DEF Send, TypeOK
  <2> QED
    BY <1>0, <1>6, <2>3, <2>4, ObserveStep DEF Send
<1>7. CASE UNCHANGED vars
  <2>1. work' \in [Clients -> Modification \union {Nothing}]
    BY <1>0, <1>7 DEF vars, TypeOK
  <2> QED
    BY <1>7, <2>1, Unobserved DEF vars
<1> QED
  BY <1>1, <1>2, <1>3, <1>4, <1>5, <1>6, <1>7 DEF Next

-----------------------------------------------------------------------------
(* The theorems.                                                           *)

LEMMA Invariance == Spec => [](IInv /\ WorkInv)
<1>1. Init => IInv /\ WorkInv
  BY InvInit DEF Init, WorkInv
<1>2. IInv /\ WorkInv /\ [Next]_vars => (IInv /\ WorkInv)'
  BY InvStep, BoxStep DEF IInv
<1> QED
  BY <1>1, <1>2, PTL DEF Spec

(* The table, the modifications and the walks keep their types.            *)
THEOREM TypeCorrect == Spec => []TypeOK
BY Invariance, PTL DEF IInv

(* Paging by offsets misses nothing while nothing leaves the listing,      *)
(* whatever is sent and labelled meanwhile.                                *)
THEOREM WalkMissesNothingHolds == Spec => []WalkMissesNothing
BY Invariance, PTL DEF IInv

(* It repeats nothing while nothing comes to the listing.                  *)
THEOREM WalkRepeatsNothingHolds == Spec => []WalkRepeatsNothing
BY Invariance, PTL DEF IInv

(* pageOffset refuses a token the server gave only if the listing shrank.  *)
THEOREM RefusedForCauseHolds == Spec => []RefusedForCause
BY Invariance, PTL DEF IInv

(* applyLabels: a message changes only by a modification of it that ends,  *)
(* and exactly as that was asked unless another wrote it in between.       *)
THEOREM ModifiedAsAskedHolds == Spec => ModifiedAsAsked
<1> DEFINE Asked == \A m \in Ids : box[m] # Absent /\ box'[m] # box[m] =>
              \E c \in Clients :
                /\ work[c] # Nothing /\ work'[c] = Nothing /\ work[c].id = m
                /\ \E labels \in SUBSET Labels : box'[m] = [box[m] EXCEPT !.labels = labels]
                /\ work[c].behind \/ box'[m].labels = Changed(box[m].labels, work[c].change)
<1>1. ASSUME IInv /\ WorkInv, [Next]_vars
      PROVE  [Asked]_vars
  <2>0. TypeOK
    BY <1>1 DEF IInv
  <2>1. ASSUME NEW r \in Readers, NEW limit \in Limits, NEW f \in Filters, FirstPage(r, f, limit)
        PROVE  Asked
    BY <2>1 DEF FirstPage
  <2>2. ASSUME NEW r \in Readers, NEW limit \in Limits, NextPage(r, limit)
        PROVE  Asked
    BY <2>2 DEF NextPage
  <2>3. ASSUME NEW c \in Clients, NEW m \in Ids, NEW change \in Changes, ReadLabels(c, m, change)
        PROVE  Asked
    BY <2>3 DEF ReadLabels
  <2>4. ASSUME NEW c \in Clients, WriteLabels(c)
        PROVE  Asked
    <3> DEFINE id == work[c].id
    <3>1. /\ work[c] \in Modification /\ work[c] # Nothing
          /\ work[c].behind \/ work[c].labels = Changed(box[id].labels, work[c].change)
          /\ box[id] # Absent
      BY <1>1, <2>0, <2>4 DEF WriteLabels, TypeOK, WorkInv
    <3>2. id \in Ids /\ work[c].labels \in SUBSET Labels
      BY <3>1 DEF Modification
    <3>3. box[id] \in Message
      BY <2>0, <3>1, <3>2 DEF TypeOK, Mailboxes
    <3>4. \A m \in Ids : box'[m] = IF m = id THEN [box[id] EXCEPT !.labels = work[c].labels]
                                             ELSE box[m]
      BY <2>0, <2>4 DEF WriteLabels, TypeOK, Mailboxes
    <3>5. /\ box'[id] = [box[id] EXCEPT !.labels = work[c].labels]
          /\ box'[id].labels = work[c].labels
      BY <3>2, <3>3, <3>4 DEF Message
    <3>6. work'[c] = Nothing
      BY <2>0, <2>4, WriteWork
    <3> QED
      BY <3>1, <3>2, <3>4, <3>5, <3>6
  <2>5. ASSUME NEW c \in Clients, WriteFails(c)
        PROVE  Asked
    BY <2>5 DEF WriteFails
  <2>6. ASSUME NEW m \in Ids, Send(m)
        PROVE  Asked
    BY <2>0, <2>6 DEF Send, TypeOK, Mailboxes
  <2> HIDE DEF Asked
  <2> QED
    BY <1>1, <2>1, <2>2, <2>3, <2>4, <2>5, <2>6 DEF Next
<1> QED
  BY <1>1, Invariance, PTL DEF Spec, ModifiedAsAsked
=============================================================================

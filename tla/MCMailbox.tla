------------------------------ MODULE MCMailbox ------------------------------
(* A mailbox of three messages in two threads, one of them older, or of    *)
(* two and with room for one more.  Two clients modify it, trashing        *)
(* and taking out of the trash; one lists the inbox, by messages or by     *)
(* threads, and everything with the trash.                                 *)
EXTENDS Mailbox, TLC

CONSTANTS c1, c2, r1, a, b

MCIds == 1..3
MCThreads == {a, b}
MCDates == 0..1
MCLabels == {"INBOX", "TRASH", "SENT"}

Mail(t, d) == [thread |-> t, date |-> d, labels |-> {"INBOX"}]
MCScenarios ==
  {[m \in MCIds |-> CASE m = 1 -> Mail(a, 0) [] m = 2 -> second [] OTHER -> Mail(a, 1)] :
     second \in {Absent, Mail(b, 1)}}

Change(x, y) == [add |-> x, remove |-> y]
MCChanges ==
  {Change({"TRASH"}, {"INBOX"}), Change({"INBOX"}, {"TRASH"})}

Filter(threads, ids, query, hidden) ==
  [threads |-> threads, labelIds |-> ids, query |-> query, text |-> MCIds, spamTrash |-> hidden]
MCFilters ==
  {Filter(FALSE, {}, {}, FALSE), Filter(TRUE, {}, {{"INBOX"}}, FALSE),
   Filter(FALSE, {}, {}, TRUE)}

(* No property tells one client from another.                              *)
Alike == Permutations({c1, c2})
=============================================================================

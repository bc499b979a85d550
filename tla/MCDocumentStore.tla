--------------------------- MODULE MCDocumentStore ---------------------------
(* Two requests of a provider whose documents may be named by id or by     *)
(* gid; creation under a path parameter that is itself called id, updates  *)
(* and deletions of items and of whole collections.                        *)
EXTENDS DocumentStore, TLC

CONSTANTS c1, c2

MCClients == {c1, c2}
MCSymmetry == Permutations(MCClients)

(* A number of eight digits, as a scenario may write it and as a read      *)
(* decodes it, and the texts that serve as its key: fmt.Sprint writes it   *)
(* as that scenario does, JSON writes its digits.                          *)
Written == "#1e+07"
Long == "#10000000"
Printed == "1e+07"
Digits == "10000000"

MCTexts == {"fab-1", "fab-2", Printed, Digits}
MCValues == MCTexts \union {Written, Long}
MCSprint == [v \in MCValues |-> IF v \in {Written, Long} THEN Printed ELSE v]
MCScalar ==
  [v \in MCValues |-> CASE v = Written -> Printed [] v = Long -> Digits [] OTHER -> v]
MCDecoded == [v \in MCValues |-> IF v = Written THEN Long ELSE v]

MCFields == {"id", "gid", "account"}
MCIdKeys == <<"id", "gid">>
MCMinted == <<"fab-1", "fab-2">>

Doc(i, g, a) ==
  [f \in MCFields |-> CASE f = "id" -> i [] f = "gid" -> g [] OTHER -> a]
MCItems == {Doc(None, Written, None), Doc(None, None, None)}
MCBodies ==
  {Doc(None, None, Digits), Doc(Long, None, None), Doc("fab-1", None, None)}

Route(m, n, l) == [method |-> m, names |-> n, last |-> l]
MCRoutes ==
  {Route("POST", {}, "jobs"), Route("POST", {"id"}, "jobs"),
   Route("PUT", {"id"}, "id"), Route("PUT", {}, "jobs"),
   Route("DELETE", {"account", "gid"}, "jobs"), Route("DELETE", {}, "jobs")}
=============================================================================

-------------------------- MODULE MCInstanceRegistry --------------------------
(* Creates of one container, of an engine the destroy does not know, and   *)
(* of two instances of one profile in one namespace.  All three names      *)
(* agree in the 48 characters that the names of objects keep; the third    *)
(* differs in the 63 that a label keeps, the others only in what neither   *)
(* has, as web_1 and web-1 do.                                             *)
EXTENDS InstanceRegistry, TLC

CONSTANTS unknown, pod1, pod2, destroy, name1, name2, longer

MCCreators == {unknown, pod1, pod2}
MCDestroyers == {destroy}
MCUnknown == {unknown}
MCClustered == {pod1, pod2}
MCNames == {name1, name2, longer}
MCObjects == [c \in MCCreators |-> [n \in MCNames |-> name1]]
MCLabels ==
  [c \in MCCreators |-> [n \in MCNames |-> IF n = longer THEN longer ELSE name1]]
MCSymmetry == Permutations({pod1, pod2}) \union Permutations({name1, name2})
=============================================================================

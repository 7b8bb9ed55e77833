--------------------------- MODULE MCContractEscrow ---------------------------
(***************************************************************************)
(* ContractEscrow for TLC: two proxies, one of which is asked for twice.   *)
(* The logic of the second is its own, the first's too, one whose address  *)
(* starts with a zero byte (l3), one without code (l4) or one whose proof  *)
(* starts with a zero byte (l5).                                           *)
(***************************************************************************)
EXTENDS ContractEscrow

CONSTANTS p1, p2, l1, l2, l3, l4, l5, c1, c2, c3, s1, s2

TheCodes ==
  [l \in {l1, l2, l3, l4, l5} |->
     CASE l = l1 -> c1 [] l = l4 -> NoCode [] l = l5 -> c3 [] OTHER -> c2]

TheStarts == {[p \in {p1, p2} |-> IF p = p1 THEN l1 ELSE l] : l \in {l1, l2, l3, l5}}

TheShort == {l3, [code |-> c3, state |-> s1]}

FirstTwice == [a \in {p1, p2} |-> IF a = p1 THEN 2 ELSE 1]

===============================================================================

----------------------------- MODULE MCKvStore -----------------------------
(* Two application transactions and a signature on a node that leads, steps *)
(* down, is elected again and follows another primary.                      *)
EXTENDS KvStore, FiniteSets, TLC

CONSTANTS t1, t2, s1, m1, m2, k1, r1,
  MaxRacing  \* bound on the transactions in flight while an entry is executed

On(m, reads, all, puts, removes) ==
  [map |-> m, reads |-> reads, all |-> all, puts |-> puts, removes |-> removes]

\* t1 increments m1 and creates m2; t2 iterates over m1 and writes there.
TwoPrograms ==
  t1 :> <<On(m1, {k1}, FALSE, {k1}, {}), On(m2, {}, FALSE, {k1}, {})>>
  @@ t2 :> <<On(m1, {}, TRUE, {}, {k1})>>
  @@ s1 :> <<>>
RemoteEntries == r1 :> {<<m1, k1, r1>>}

InFlight == {t \in Txs : tx[t].pc \notin {"idle", "done"}}
FewRace == op.kind = "entry" => Cardinality(InFlight) <= MaxRacing

\* Nothing is claimed of the store once a re-election has met a transaction in
\* flight, so the search ends there.
MCSpec == Init /\ [][Next /\ LeadsAtRest /\ FewRace']_vars
=============================================================================

------------------------------- MODULE MCRaft -------------------------------
(* Three nodes, n1 the first primary: fixed services that go through        *)
(* elections, with a lost message or a primary that steps down, and ones    *)
(* that remove a backup or their primary.                                   *)
EXTENDS Raft, TLC

CONSTANTS n1, n2, n3

Service ==
  [conf |-> {n1, n2, n3}, first |-> n1, entries |-> <<[kind |-> "tx", conf |-> {}]>>,
   max_view |-> 3, candidates |-> {n1, n2, n3}, beats |-> 2, stepdowns |-> 0, losses |-> 0]
Removes(n) == [Service EXCEPT !.entries = <<[kind |-> "conf", conf |-> {n1, n2, n3} \ {n}]>>]

Elections ==
  {[Service EXCEPT !.losses = 1], [Service EXCEPT !.beats = 1, !.stepdowns = 1],
   Removes(n2), Removes(n3)}
PrimaryRemoved == {Removes(n1)}
TwoElections == {[Service EXCEPT !.max_view = 4, !.candidates = {n2, n3}]}

\* Elections and TwoElections treat the first backups alike.
Backups == Permutations({n2, n3})
=============================================================================

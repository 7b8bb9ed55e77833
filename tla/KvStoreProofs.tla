--------------------------- MODULE KvStoreProofs ---------------------------
(***************************************************************************)
(* The inductive invariant of KvStore, the kinds of steps that keep it,    *)
(* and that the steps of KvStore are of these kinds as long as no          *)
(* re-election has met a transaction in flight.  Entries of other          *)
(* primaries may meet any number of them.                                  *)
(***************************************************************************)
EXTENDS KvStore, WellFoundedInduction, TLAPS

-----------------------------------------------------------------------------
(* Sequences of anything, and records of which only the fields are known.  *)

IsSeq(s) == s \in Seq({s[i] : i \in DOMAIN s})

\* A function on an interval from 1 is a sequence.
LEMMA MakeSeq ==
  ASSUME NEW n \in Nat, NEW S, NEW s \in [1 .. n -> S]
  PROVE  IsSeq(s) /\ Len(s) = n /\ DOMAIN s = 1 .. n
<1>1. s \in [1 .. n -> {s[i] : i \in DOMAIN s}]
  OBVIOUS
<1> QED BY <1>1 DEF IsSeq

\* The length and the positions of a sequence.
LEMMA SeqFacts ==
  ASSUME NEW s, IsSeq(s)
  PROVE  Len(s) \in Nat /\ DOMAIN s = 1 .. Len(s)
BY DEF IsSeq

\* A sequence over any set is one.
LEMMA FromSeq ==
  ASSUME NEW S, NEW s \in Seq(S)
  PROVE  IsSeq(s)
<1>1. Len(s) \in Nat /\ s \in [1 .. Len(s) -> S]
  OBVIOUS
<1> QED BY <1>1, MakeSeq

\* Concatenation, by position.
LEMMA ConcatSeq ==
  ASSUME NEW s, NEW u, IsSeq(s), IsSeq(u)
  PROVE  /\ IsSeq(s \o u) /\ Len(s \o u) = Len(s) + Len(u)
         /\ \A i \in 1 .. Len(s) : (s \o u)[i] = s[i]
         /\ \A i \in 1 .. Len(u) : (s \o u)[Len(s) + i] = u[i]
<1> DEFINE S == {s[i] : i \in DOMAIN s} \cup {u[i] : i \in DOMAIN u}
<1>1. s \in Seq(S) /\ u \in Seq(S)
  BY DEF IsSeq
<1>2. s \o u \in Seq(S)
  BY <1>1
<1>3. Len(s \o u) = Len(s) + Len(u) /\ Len(s) \in Nat /\ Len(u) \in Nat
  BY <1>1
<1>4. IsSeq(s \o u)
  BY <1>2, FromSeq, Zenon
<1>5. \A i \in 1 .. Len(s) + Len(u) : (s \o u)[i] = IF i <= Len(s) THEN s[i] ELSE u[i - Len(s)]
  BY <1>1
<1> QED BY <1>3, <1>4, <1>5

\* Append, by position.
LEMMA AppendSeq ==
  ASSUME NEW s, NEW e, IsSeq(s)
  PROVE  /\ IsSeq(Append(s, e)) /\ Len(Append(s, e)) = Len(s) + 1
         /\ \A i \in 1 .. Len(s) : Append(s, e)[i] = s[i]
         /\ Append(s, e)[Len(s) + 1] = e
<1> DEFINE S == {s[i] : i \in DOMAIN s} \cup {e}
<1>1. s \in Seq(S) /\ e \in S
  BY DEF IsSeq
<1>2. Append(s, e) \in Seq(S) /\ Len(Append(s, e)) = Len(s) + 1 /\ Len(s) \in Nat
  BY <1>1
<1>3. IsSeq(Append(s, e))
  BY <1>2, FromSeq, Zenon
<1>4. \A i \in 1 .. Len(s) + 1 : Append(s, e)[i] = IF i <= Len(s) THEN s[i] ELSE e
  BY <1>1
<1> QED BY <1>2, <1>3, <1>4

\* A prefix, by position.
LEMMA PrefixSeq ==
  ASSUME NEW s, IsSeq(s), NEW n \in 0 .. Len(s)
  PROVE  /\ IsSeq(SubSeq(s, 1, n)) /\ Len(SubSeq(s, 1, n)) = n
         /\ \A i \in 1 .. n : SubSeq(s, 1, n)[i] = s[i]
<1> DEFINE S == {s[i] : i \in DOMAIN s}
<1>1. s \in Seq(S) /\ Len(s) \in Nat /\ n \in Nat
  BY SeqFacts DEF IsSeq
<1>2. SubSeq(s, 1, n) = [i \in 1 .. n |-> s[i]]
  BY <1>1
<1>3. \A i \in 1 .. n : s[i] \in S
  BY <1>1
<1>4. [i \in 1 .. n |-> s[i]] \in [1 .. n -> S]
  BY <1>3
<1> QED BY <1>1, <1>2, <1>4, MakeSeq, Zenon

\* Sequences that agree at every position are equal.
LEMMA EqualSeqs ==
  ASSUME NEW s, NEW u, IsSeq(s), IsSeq(u), Len(s) = Len(u), \A i \in 1 .. Len(s) : s[i] = u[i]
  PROVE  s = u
<1> DEFINE S == {s[i] : i \in DOMAIN s} \cup {u[i] : i \in DOMAIN u}
<1>1. s \in Seq(S) /\ u \in Seq(S)
  BY DEF IsSeq
<1> QED BY <1>1

-----------------------------------------------------------------------------
(* The inductive invariant. *)

EntryFields == {"tx", "term", "writes", "reads", "committable", "root"}
TxFields == {"pc", "attempts", "read_version", "commit_view", "changes", "version", "batch",
             "seen", "result"}
Kinds == {"none", "lead", "follow", "cut", "refuse", "entry"}
Stages == {"none", "version", "maps", "done", "applied"}

\* The versions that wait have an upper bound.
Bounded(Q) == \E N \in Nat : \A p \in Q : p.version <= N

KvTypeOK ==
  /\ version \in Nat /\ last_replicated \in Nat /\ rollback_count \in Nat
  /\ leader \in BOOLEAN
  /\ op \in [kind : Kinds, stage : Stages, idx : Nat, by : Txs \cup Remote \cup {None}]
  /\ IsSeq(history) /\ IsSeq(ledger)
  /\ commit_idx \in 0 .. Len(ledger) /\ committable \subseteq 1 .. Len(ledger)
  /\ DOMAIN tx = Txs
  /\ \A t \in Txs : DOMAIN tx[t] = TxFields
  /\ \A t \in Txs : tx[t].pc = "applied" => tx[t].version \in Nat
  /\ Bounded(pending_txs)
  /\ \A p \in pending_txs : p.version \in Nat /\ DOMAIN p.entry = EntryFields

\* What a transaction that holds commit_lock took with it.
Holds(t) ==
  /\ commit_lock = t
  /\ IsSeq(tx[t].batch)
  /\ \A i \in 1 .. Len(tx[t].batch) :
       DOMAIN tx[t].batch[i] = EntryFields /\ IsSeq(tx[t].batch[i].root)
  /\ tx[t].seen[1] \in Nat /\ tx[t].seen[2] \in Nat

\* commit_lock is held by the one transaction that replicates.
Locking ==
  /\ \A t \in Txs : tx[t].pc \in {"replicate", "replicated"} => Holds(t)
  /\ \A t \in Txs : commit_lock = t => tx[t].pc \in {"replicate", "replicated"}

\* The call of the consensus in progress.
Calls ==
  /\ op.stage = "none" <=> op = NoOp
  /\ op.kind = "none" <=> op = NoOp
  /\ op.stage # "none" => op.idx \in commit_idx .. Len(ledger)
  /\ op.stage = "applied" => op.kind = "entry"
  /\ op.kind = "lead" => Quiet
  /\ op.kind \in {"lead", "entry", "cut", "refuse"} => ~leader
  /\ op.kind \in {"entry", "refuse"} => op.idx = Len(ledger)
  /\ op.kind = "refuse" => op.by \in Txs /\ tx[op.by].pc = "replicate"
  /\ op.kind = "entry" => op.by \in Remote

\* How much of the ledger the store agrees with: RollbackVersion comes before
\* RolledBack shortens the ledger.
Agreed == IF op.stage \in {"none", "version"} THEN Len(ledger) ELSE op.idx

\* last_replicated is the end of the ledger, or will be when the transaction that
\* has appended to it comes back to Store::commit.
Positions ==
  /\ version >= Agreed
  /\ \A t \in Txs : tx[t].pc = "replicated" =>
       \/ /\ rollback_count = tx[t].seen[2] /\ last_replicated = tx[t].seen[1]
          /\ tx[t].seen[1] + Len(tx[t].batch) = Agreed
       \/ /\ rollback_count >= tx[t].seen[2] /\ last_replicated = Agreed
          /\ rollback_count > tx[t].seen[2] \/ last_replicated > tx[t].seen[1]
  /\ (\A t \in Txs : tx[t].pc # "replicated") => last_replicated = Agreed

\* Entry i lies where a leader, or the next one, takes the tree for the ledger: an
\* entry of another primary may race a transaction that has put its leaf first.
Settled(i) ==
  \/ leader \/ i <= commit_idx \/ \E c \in committable : i <= c
  \/ op.kind = "lead" /\ i <= op.idx

\* There the Merkle tree is the ledger.
TreeMatches ==
  /\ \A i \in 1 .. Agreed : Settled(i) => i <= Len(history) /\ history[i] = ledger[i].tx
  /\ op.kind = "lead" /\ op.stage # "version" => Len(history) = op.idx

TermsMatch ==
  /\ ~(op.stage = "version" /\ op.kind \in {"lead", "follow"}) => term_of_next_version = view
  /\ op.kind = "lead" /\ op.stage # "version" => version = op.idx

\* The batch continues the ledger, and its roots are those of the tree.
Continues(t) ==
  /\ tx[t].seen[1] = last_replicated /\ tx[t].seen[2] = rollback_count /\ tx[t].seen[3] = view
  /\ tx[t].seen[1] + Len(tx[t].batch) <= version
  /\ Len(history) = Len(ledger) + Len(tx[t].batch)
  /\ \A i \in 1 .. Len(tx[t].batch) :
       /\ history[Len(ledger) + i] = tx[t].batch[i].tx
       /\ Len(tx[t].batch[i].root) = Len(ledger) + i - 1
       /\ \A k \in 1 .. Len(ledger) + i - 1 : tx[t].batch[i].root[k] = history[k]

\* On a leader that no call of the consensus is about to depose.
Leading == leader /\ op = NoOp
LeaderKnows ==
  Leading =>
    /\ \A p \in pending_txs : p.version <= version
    /\ \A t \in Txs : tx[t].pc = "applied" => tx[t].version <= version
    /\ \A t \in Txs : tx[t].pc \notin {"idle", "done"} => tx[t].commit_view = view
    /\ \A t \in Txs : tx[t].pc = "replicate" => Continues(t)
    /\ \A t \in Txs : tx[t].pc = "replicated" =>
         rollback_count = tx[t].seen[2] /\ last_replicated = tx[t].seen[1]
    /\ (\A t \in Txs : tx[t].pc # "replicate") => Len(history) = Len(ledger)

\* On a leader every version handed out is going to be delivered.
Holeless == Leading => \A v \in last_replicated + 1 .. version : Delivered(v)

RootsMatch ==
  \A i \in 2 .. Len(ledger) :
    ledger[i].committable =>
      /\ IsSeq(ledger[i].root) /\ Len(ledger[i].root) = i - 1
      /\ \A k \in 1 .. i - 1 : ledger[i].root[k] = ledger[k].tx

KvInv ==
  /\ KvTypeOK /\ Locking /\ Calls /\ Positions /\ TreeMatches /\ TermsMatch
  /\ LeaderKnows /\ RootsMatch /\ Holeless

-----------------------------------------------------------------------------
(* Steps of a transaction. *)

\* Until it has applied its writes a transaction touches nothing but itself.
LEMMA UnappliedStep ==
  ASSUME KvInv, NEW t \in Txs, NEW f,
         tx' = [tx EXCEPT ![t] = f],
         DOMAIN f = TxFields,
         tx[t].pc \in {"idle", "open"}, f.pc \in {"idle", "open", "prepared", "done"},
         tx[t].pc = "idle" => op.kind # "lead",
         f.pc \notin {"idle", "done"} => f.commit_view = IF tx[t].pc = "idle"
                                         THEN term_of_next_version ELSE tx[t].commit_view,
         UNCHANGED <<store, compacted, maps, commit_lock, history, raft, op>>
  PROVE  KvInv'
<1> USE DEF store, raft
<1>1. /\ DOMAIN tx = Txs /\ tx'[t] = f
      /\ \A u \in Txs \ {t} : tx'[u] = tx[u]
  BY Zenon DEF KvInv, KvTypeOK
<1>2. KvTypeOK'
  BY <1>1, Zenon DEF KvInv, KvTypeOK
<1>3. Locking'
  BY <1>1 DEF KvInv, Locking, Holds
<1>4. Calls'
  BY <1>1, Zenon DEF KvInv, Calls, Quiet
<1>5. Positions'
  BY <1>1 DEF KvInv, Positions, Agreed
<1>6. TreeMatches' /\ TermsMatch' /\ RootsMatch'
  BY Zenon DEF KvInv, TreeMatches, Settled, TermsMatch, RootsMatch, Agreed
<1>7. LeaderKnows'
  <2> SUFFICES ASSUME Leading PROVE LeaderKnows'
    BY Zenon DEF LeaderKnows, Leading
  <2>1. term_of_next_version = view
    BY Zenon DEF KvInv, TermsMatch, Leading, NoOp
  <2>2. \A u \in Txs : (tx[u].pc = "replicate" <=> tx'[u].pc = "replicate")
    BY <1>1, Zenon
  <2>3. \A u \in Txs : tx'[u].pc = "replicate" => Continues(u)'
    <3> SUFFICES ASSUME NEW u \in Txs, tx'[u].pc = "replicate" PROVE Continues(u)'
      BY Zenon
    <3>1. tx'[u] = tx[u] /\ Continues(u)
      BY <1>1, <2>2, Zenon DEF KvInv, LeaderKnows
    <3>2. /\ history' = history /\ ledger' = ledger /\ view' = view /\ version' = version
          /\ last_replicated' = last_replicated /\ rollback_count' = rollback_count
      BY Zenon
    <3>3. \A i \in 1 .. Len(tx'[u].batch) :
            /\ history'[Len(ledger') + i] = tx'[u].batch[i].tx
            /\ Len(tx'[u].batch[i].root) = Len(ledger') + i - 1
            /\ \A k \in 1 .. Len(ledger') + i - 1 : tx'[u].batch[i].root[k] = history'[k]
      <4> SUFFICES ASSUME NEW i \in 1 .. Len(tx'[u].batch)
                   PROVE  /\ history'[Len(ledger') + i] = tx'[u].batch[i].tx
                          /\ Len(tx'[u].batch[i].root) = Len(ledger') + i - 1
                          /\ \A k \in 1 .. Len(ledger') + i - 1 : tx'[u].batch[i].root[k] = history'[k]
        BY Zenon
      <4>1. i \in 1 .. Len(tx[u].batch)
        BY <3>1, Zenon
      <4>2. /\ history[Len(ledger) + i] = tx[u].batch[i].tx
            /\ Len(tx[u].batch[i].root) = Len(ledger) + i - 1
            /\ \A k \in 1 .. Len(ledger) + i - 1 : tx[u].batch[i].root[k] = history[k]
        BY <3>1, <4>1, Zenon DEF Continues
      <4> QED BY <3>1, <3>2, <4>2, Zenon
    <3> QED BY <3>1, <3>2, <3>3, Zenon DEF Continues
  <2> QED BY <1>1, <2>1, <2>2, <2>3, Zenon DEF KvInv, LeaderKnows, Leading
<1>8. Holeless'
  BY <1>1, ZenonT(40) DEF KvInv, Holeless, Leading, Delivered
<1> QED BY <1>2, <1>3, <1>4, <1>5, <1>6, <1>7, <1>8, Zenon DEF KvInv

\* A transaction takes the next version.
LEMMA VersionStep ==
  ASSUME KvInv, NEW t \in Txs, NEW f,
         tx' = [tx EXCEPT ![t] = f], version' = version + 1,
         DOMAIN f = TxFields, f.pc = "applied", f.version = version + 1,
         \/ tx[t].pc = "prepared" /\ f.commit_view = tx[t].commit_view
         \/ tx[t].pc = "idle" /\ leader /\ f.commit_view = term_of_next_version,
         UNCHANGED <<last_replicated, rollback_count, term_of_next_version, pending_txs,
                     commit_lock, history, raft, op>>
  PROVE  KvInv'
<1> USE DEF raft
<1>1. /\ DOMAIN tx = Txs /\ tx'[t] = f
      /\ \A u \in Txs \ {t} : tx'[u] = tx[u]
      /\ version \in Nat
  BY Zenon DEF KvInv, KvTypeOK
<1>2. op.kind # "lead"
  BY Zenon DEF KvInv, Calls, Quiet
<1>3. KvTypeOK'
  BY <1>1 DEF KvInv, KvTypeOK
<1>4. Locking'
  BY <1>1 DEF KvInv, Locking, Holds
<1>5. Calls'
  BY <1>1, <1>2, Zenon DEF KvInv, Calls
<1>6. Positions'
  <2>1. Agreed \in Nat /\ Agreed' = Agreed
    BY SeqFacts, Zenon DEF KvInv, KvTypeOK, Agreed
  <2>2. version' >= Agreed'
    BY <1>1, <2>1 DEF KvInv, Positions
  <2> QED BY <1>1, <2>1, <2>2, Zenon DEF KvInv, Positions
<1>7. TreeMatches' /\ TermsMatch' /\ RootsMatch'
  BY <1>2, Zenon DEF KvInv, TreeMatches, Settled, TermsMatch, RootsMatch, Agreed
<1>8. LeaderKnows'
  <2> SUFFICES ASSUME Leading PROVE LeaderKnows'
    BY Zenon DEF LeaderKnows, Leading
  <2>1. term_of_next_version = view
    BY Zenon DEF KvInv, TermsMatch, Leading, NoOp
  <2>2. \A u \in Txs : (tx[u].pc = "replicate" <=> tx'[u].pc = "replicate")
    BY <1>1, Zenon
  <2>3. \A u \in Txs : tx'[u].pc = "replicate" => Continues(u)'
    <3> SUFFICES ASSUME NEW u \in Txs, tx'[u].pc = "replicate" PROVE Continues(u)'
      BY Zenon
    <3>1. u # t /\ tx'[u] = tx[u] /\ Continues(u) /\ Holds(u)
      BY <1>1, <2>2, Zenon DEF KvInv, LeaderKnows, Locking
    <3>2. tx[u].seen[1] + Len(tx[u].batch) \in Nat
      BY <3>1, SeqFacts, SMTT(40) DEF Holds
    <3> QED BY <1>1, <3>1, <3>2 DEF Continues
  <2>4. \A p \in pending_txs : p.version <= version'
    BY <1>1 DEF KvInv, LeaderKnows, KvTypeOK
  <2>5. \A u \in Txs : tx'[u].pc = "applied" => tx'[u].version <= version'
    BY <1>1 DEF KvInv, LeaderKnows, KvTypeOK
  <2> QED BY <1>1, <2>1, <2>2, <2>3, <2>4, <2>5, Zenon DEF KvInv, LeaderKnows, Leading
<1>9. Holeless'
  <2> SUFFICES ASSUME leader, op = NoOp, NEW v \in last_replicated + 1 .. version + 1
               PROVE  \/ \E p \in pending_txs : p.version = v
                      \/ \E u \in Txs : tx'[u].version = v /\ tx'[u].pc = "applied"
                      \/ \E u \in Txs :
                           /\ tx'[u].pc \in {"replicate", "replicated"}
                           /\ v \in tx'[u].seen[1] + 1 .. tx'[u].seen[1] + Len(tx'[u].batch)
    BY Zenon DEF Holeless, Leading, Delivered
  <2>1. CASE v = version + 1
    BY <1>1, <2>1, Zenon
  <2>2. CASE v \in last_replicated + 1 .. version
    <3>1. CASE \E p \in pending_txs : p.version = v
      BY <3>1, Zenon
    <3>2. CASE \E u \in Txs : tx[u].version = v /\ tx[u].pc = "applied"
      BY <1>1, <3>2, Zenon
    <3>3. CASE \E u \in Txs :
                 /\ tx[u].pc \in {"replicate", "replicated"}
                 /\ v \in tx[u].seen[1] + 1 .. tx[u].seen[1] + Len(tx[u].batch)
      BY <1>1, <3>3, Zenon
    <3> QED BY <2>2, <3>1, <3>2, <3>3, Zenon DEF KvInv, Holeless, Leading, Delivered
  <2>3. version \in Nat /\ last_replicated \in Nat
    BY Zenon DEF KvInv, KvTypeOK
  <2>4. v = version + 1 \/ v \in last_replicated + 1 .. version
    BY <2>3
  <2> QED BY <2>1, <2>2, <2>4, Zenon
<1> QED BY <1>3, <1>4, <1>5, <1>6, <1>7, <1>8, <1>9, Zenon DEF KvInv

\* Before Store::commit no transaction holds commit_lock, and no call of the
\* consensus that needs the store at rest is in progress.
LEMMA AppliedFacts ==
  ASSUME KvInv, NEW t \in Txs, tx[t].pc = "applied", commit_lock = None
  PROVE  /\ op.kind \notin {"lead", "refuse"}
         /\ \A u \in Txs : tx[u].pc \notin {"replicate", "replicated"}
         /\ last_replicated = Agreed /\ Agreed \in Nat
         /\ Leading => /\ tx[t].commit_view = view /\ term_of_next_version = view
                       /\ tx[t].version <= version
                       /\ Len(history) = Len(ledger) /\ last_replicated = Len(ledger)
<1>1. \A u \in Txs : tx[u].pc \notin {"replicate", "replicated"}
  BY NoneAssumption, Zenon DEF KvInv, Locking, Holds
<1>2. op.kind \notin {"lead", "refuse"}
  BY <1>1, Zenon DEF KvInv, Calls, Quiet
<1>3. last_replicated = Agreed /\ Agreed \in Nat
  BY <1>1, SeqFacts, Zenon DEF KvInv, Positions, Agreed, KvTypeOK
<1>4. ASSUME Leading
      PROVE  /\ tx[t].commit_view = view /\ term_of_next_version = view
             /\ tx[t].version <= version
             /\ Len(history) = Len(ledger) /\ last_replicated = Len(ledger)
  <2>1. op.stage = "none"
    BY <1>4 DEF Leading, NoOp
  <2> QED BY <1>1, <1>3, <1>4, <2>1, Zenon DEF KvInv, LeaderKnows, TermsMatch, Agreed
<1> QED BY <1>1, <1>2, <1>3, <1>4, Zenon

\* Store::commit that refuses a transaction for its term keeps the invariant: the
\* node does not lead, or would have the transaction's view.
LEMMA RefusedStep ==
  ASSUME KvInv, NEW t \in Txs, NEW f, tx[t].pc = "applied", commit_lock = None, ~Leading,
         tx' = [tx EXCEPT ![t] = f], DOMAIN f = TxFields, f.pc = "done",
         UNCHANGED <<store, compacted, maps, commit_lock, history, raft, op>>
  PROVE  KvInv'
<1> USE DEF store, raft
<1>1. /\ DOMAIN tx = Txs /\ tx'[t] = f
      /\ \A u \in Txs \ {t} : tx'[u] = tx[u]
  BY Zenon DEF KvInv, KvTypeOK
<1>2. KvTypeOK'
  BY <1>1, Zenon DEF KvInv, KvTypeOK
<1>3. Locking' /\ Calls'
  BY <1>1, NoneAssumption DEF KvInv, Locking, Holds, Calls, Quiet
<1>4. Positions'
  BY <1>1 DEF KvInv, Positions, Agreed
<1>5. TreeMatches' /\ TermsMatch' /\ RootsMatch' /\ LeaderKnows' /\ Holeless'
  BY Zenon DEF KvInv, TreeMatches, Settled, TermsMatch, RootsMatch, Agreed, LeaderKnows, Holeless, Leading, Delivered
<1> QED BY <1>2, <1>3, <1>4, <1>5, Zenon DEF KvInv

\* The queue Q, once transaction t has been entered.
GoodQueue(t, Q) ==
  /\ Bounded(Q)
  /\ \A p \in Q : p.version \in Nat /\ DOMAIN p.entry = EntryFields
  /\ \A p \in Q : p \in pending_txs \/ p.version = tx[t].version
  /\ pending_txs \subseteq Q
  /\ \E p \in Q : p.version = tx[t].version

\* A batch from Q: the entries with the versions after last_replicated, with the
\* roots of the tree as it will be before each.
GoodBatch(Q, b) ==
  /\ IsSeq(b)
  /\ \A j \in 1 .. Len(b) :
       /\ \E p \in Q : p.version = last_replicated + j
       /\ DOMAIN b[j] = EntryFields
       /\ IsSeq(b[j].root)
       /\ Len(b[j].root) = Len(history) + j - 1
       /\ \A k \in 1 .. Len(history) : b[j].root[k] = history[k]
       /\ \A k \in 1 .. j - 1 : b[j].root[Len(history) + k] = b[k].tx

\* The leaves of the tree over a batch.
LEMMA NamesFacts ==
  ASSUME NEW b, IsSeq(b)
  PROVE  /\ IsSeq(Names(b)) /\ Len(Names(b)) = Len(b)
         /\ \A i \in 1 .. Len(b) : Names(b)[i] = b[i].tx
<1>1. Len(b) \in Nat /\ DOMAIN b = 1 .. Len(b)
  BY SeqFacts
<1>2. Names(b) = [i \in 1 .. Len(b) |-> b[i].tx]
  BY <1>1 DEF Names
<1>3. Names(b) \in [1 .. Len(b) -> {b[i].tx : i \in 1 .. Len(b)}]
  BY <1>2, Zenon
<1>4. IsSeq(Names(b)) /\ Len(Names(b)) = Len(b)
  BY <1>1, <1>3, MakeSeq, Zenon
<1> QED BY <1>2, <1>4, Zenon

\* The tree after a batch.
Grown(h, b) == h \o Names(b)

\* The tree after a batch, by position.
LEMMA TreeGrows ==
  ASSUME NEW h, NEW b, IsSeq(h), IsSeq(b)
  PROVE  /\ IsSeq(Grown(h, b)) /\ Len(Grown(h, b)) = Len(h) + Len(b)
         /\ \A i \in 1 .. Len(h) : Grown(h, b)[i] = h[i]
         /\ \A i \in 1 .. Len(b) : Grown(h, b)[Len(h) + i] = b[i].tx
<1> DEFINE N == Names(b)
<1>1. IsSeq(N) /\ Len(N) = Len(b) /\ \A i \in 1 .. Len(b) : N[i] = b[i].tx
  BY NamesFacts
<1> HIDE DEF N
<1>2. /\ IsSeq(h \o N) /\ Len(h \o N) = Len(h) + Len(N)
      /\ \A i \in 1 .. Len(h) : (h \o N)[i] = h[i]
      /\ \A i \in 1 .. Len(N) : (h \o N)[Len(h) + i] = N[i]
  BY <1>1, ConcatSeq
<1>3. /\ IsSeq(h \o N) /\ Len(h \o N) = Len(h) + Len(b)
      /\ \A i \in 1 .. Len(h) : (h \o N)[i] = h[i]
      /\ \A i \in 1 .. Len(b) : (h \o N)[Len(h) + i] = b[i].tx
  BY <1>1, <1>2, Zenon
<1> QED BY <1>3 DEF N, Grown

\* Entries move from the queue to the tree and, unless there are none, to the
\* transaction that replicates them.
Queued(t, f, Q, B) ==
  /\ tx[t].pc = "applied" /\ commit_lock = None /\ GoodQueue(t, Q) /\ GoodBatch(Q, B)
  /\ tx' = [tx EXCEPT ![t] = f] /\ DOMAIN f = TxFields
  /\ pending_txs' = {p \in Q : p.version \notin last_replicated + 1 .. last_replicated + Len(B)}
  /\ history' = Grown(history, B)
  /\ \/ Len(B) = 0 /\ f.pc = "done" /\ commit_lock' = None
     \/ /\ f.pc = "replicate" /\ f.batch = B /\ commit_lock' = t
        /\ f.seen = <<last_replicated, rollback_count, term_of_next_version>>
        /\ f.commit_view = tx[t].commit_view
  /\ version' = version /\ last_replicated' = last_replicated
  /\ rollback_count' = rollback_count /\ term_of_next_version' = term_of_next_version
  /\ UNCHANGED raft /\ op' = op

\* That step keeps the invariant.
LEMMA QueuedStep ==
  ASSUME KvInv, NEW t \in Txs, NEW f, NEW Q, NEW B, Queued(t, f, Q, B)
  PROVE  KvInv'
<1>1. /\ DOMAIN tx = Txs /\ tx'[t] = f /\ DOMAIN f = TxFields
      /\ \A u \in Txs \ {t} : tx'[u] = tx[u]
  BY Zenon DEF Queued, KvInv, KvTypeOK
<1>2. /\ Bounded(Q)
      /\ \A p \in Q : p.version \in Nat /\ DOMAIN p.entry = EntryFields
      /\ \A p \in Q : p \in pending_txs \/ p.version = tx[t].version
      /\ pending_txs \subseteq Q
      /\ \E p \in Q : p.version = tx[t].version
  BY Zenon DEF Queued, GoodQueue
<1>3. /\ IsSeq(B)
      /\ \A j \in 1 .. Len(B) :
           /\ \E p \in Q : p.version = last_replicated + j
           /\ DOMAIN B[j] = EntryFields /\ IsSeq(B[j].root)
           /\ Len(B[j].root) = Len(history) + j - 1
           /\ \A k \in 1 .. Len(history) : B[j].root[k] = history[k]
           /\ \A k \in 1 .. j - 1 : B[j].root[Len(history) + k] = B[k].tx
  BY Zenon DEF Queued, GoodBatch
<1>4. Len(B) \in Nat
  BY <1>3, SeqFacts, Zenon
<1>a. /\ IsSeq(history) /\ IsSeq(ledger) /\ Len(history) \in Nat /\ Len(ledger) \in Nat
      /\ version \in Nat /\ last_replicated \in Nat /\ rollback_count \in Nat
  BY SeqFacts, Zenon DEF KvInv, KvTypeOK
<1>5. /\ IsSeq(history') /\ Len(history') = Len(history) + Len(B)
      /\ \A i \in 1 .. Len(history) : history'[i] = history[i]
      /\ \A i \in 1 .. Len(B) : history'[Len(history) + i] = B[i].tx
  <2>1. history' = Grown(history, B)
    BY Zenon DEF Queued
  <2>2. /\ IsSeq(Grown(history, B)) /\ Len(Grown(history, B)) = Len(history) + Len(B)
        /\ \A i \in 1 .. Len(history) : Grown(history, B)[i] = history[i]
        /\ \A i \in 1 .. Len(B) : Grown(history, B)[Len(history) + i] = B[i].tx
    BY <1>3, <1>a, TreeGrows, SMTT(40)
  <2> QED BY <2>1, <2>2, Zenon
<1>6. /\ pending_txs' \subseteq Q
      /\ \A p \in Q : p \in pending_txs' \/ p.version \in last_replicated + 1 .. last_replicated + Len(B)
  BY Zenon DEF Queued
<1>b. /\ version' = version /\ last_replicated' = last_replicated
      /\ rollback_count' = rollback_count /\ term_of_next_version' = term_of_next_version
      /\ op' = op
  BY Zenon DEF Queued
<1>c. /\ view' = view /\ leader' = leader /\ ledger' = ledger
      /\ commit_idx' = commit_idx /\ committable' = committable
  BY Zenon DEF Queued, raft
<1>d. \/ Len(B) = 0 /\ f.pc = "done" /\ commit_lock' = None
      \/ /\ f.pc = "replicate" /\ f.batch = B /\ commit_lock' = t
         /\ f.seen = <<last_replicated, rollback_count, term_of_next_version>>
         /\ f.commit_view = tx[t].commit_view
  BY Zenon DEF Queued
<1>7. /\ op.kind \notin {"lead", "refuse"}
      /\ \A u \in Txs : tx[u].pc \notin {"replicate", "replicated"}
      /\ last_replicated = Agreed /\ Agreed \in Nat
  BY AppliedFacts, Zenon DEF Queued
<1>e. Leading => /\ tx[t].commit_view = view /\ term_of_next_version = view
                 /\ tx[t].version <= version
                 /\ Len(history) = Len(ledger) /\ last_replicated = Len(ledger)
  BY AppliedFacts, Zenon DEF Queued
<1>f. Agreed' = Agreed
  BY <1>b, <1>c, Zenon DEF Agreed
<1>8. KvTypeOK'
  <2>1. Bounded(pending_txs')
    BY <1>2, <1>6, Zenon DEF Bounded
  <2>2. \A p \in pending_txs' : p.version \in Nat /\ DOMAIN p.entry = EntryFields
    BY <1>2, <1>6, Zenon
  <2>3. \A u \in Txs : DOMAIN tx'[u] = TxFields /\ (tx'[u].pc = "applied" => tx'[u].version \in Nat)
    BY <1>1, <1>d, Zenon DEF KvInv, KvTypeOK
  <2>4. DOMAIN tx' = Txs
    BY <1>1, Zenon DEF Queued
  <2> QED BY <1>5, <1>b, <1>c, <2>1, <2>2, <2>3, <2>4, Zenon DEF KvInv, KvTypeOK
<1>9. Locking'
  <2>1. ASSUME f.pc = "replicate" PROVE Holds(t)'
    <3>1. f.batch = B /\ commit_lock' = t /\ f.seen[1] = last_replicated /\ f.seen[2] = rollback_count
      BY <1>d, <2>1
    <3> QED BY <1>1, <1>3, <1>a, <3>1, Zenon DEF Holds
  <2>2. f.pc \in {"done", "replicate"} /\ commit_lock' = IF f.pc = "done" THEN None ELSE t
    BY <1>d, Zenon
  <2> QED BY <1>1, <1>7, <2>1, <2>2, NoneAssumption, Zenon DEF Locking
<1>10. Calls'
  BY <1>7, <1>b, <1>c, Zenon DEF KvInv, Calls
<1>11. Positions'
  <2>1. \A u \in Txs : tx'[u].pc # "replicated"
    BY <1>1, <1>7, <1>d, Zenon
  <2> QED BY <1>7, <1>b, <1>f, <2>1, Zenon DEF KvInv, Positions
<1>12. TreeMatches' /\ TermsMatch' /\ RootsMatch'
  <2>1. \A i \in 1 .. Agreed : Settled(i)' =>
          /\ i \in 1 .. Len(history) /\ i <= Len(history') /\ history[i] = ledger[i].tx
    <3> SUFFICES ASSUME NEW i \in 1 .. Agreed, Settled(i)'
                 PROVE  /\ i \in 1 .. Len(history) /\ i <= Len(history')
                        /\ history[i] = ledger[i].tx
      BY Zenon
    <3>1. Settled(i)
      BY <1>b, <1>c, Zenon DEF Settled
    <3>2. i <= Len(history) /\ history[i] = ledger[i].tx
      BY <3>1, Zenon DEF KvInv, TreeMatches
    <3> QED BY <1>4, <1>5, <1>7, <1>a, <3>2
  <2>4. TreeMatches'
    BY <1>5, <1>7, <1>b, <1>c, <1>f, <2>1, Zenon DEF TreeMatches
  <2>5. TermsMatch'
    BY <1>b, <1>c, Zenon DEF KvInv, TermsMatch
  <2>6. RootsMatch'
    BY <1>c, Zenon DEF KvInv, RootsMatch
  <2> QED BY <2>4, <2>5, <2>6, Zenon
<1>13. LeaderKnows'
  <2> SUFFICES ASSUME Leading PROVE LeaderKnows'
    BY <1>b, <1>c, Zenon DEF LeaderKnows, Leading
  <2>1. \A p \in Q : p.version <= version
    BY <1>2, <1>e, Zenon DEF KvInv, LeaderKnows
  <2>2. last_replicated + Len(B) <= version
    <3>1. CASE Len(B) = 0
      BY <1>7, <1>a, <3>1 DEF KvInv, Positions
    <3>2. CASE Len(B) # 0
      <4>1. Len(B) \in 1 .. Len(B)
        BY <1>4, <3>2
      <4>2. PICK p \in Q : p.version = last_replicated + Len(B)
        BY <1>3, <4>1, Zenon
      <4> QED BY <2>1, <4>2, Zenon
    <3> QED BY <3>1, <3>2, Zenon
  <2>3. ASSUME f.pc = "replicate" PROVE Continues(t)'
    <3>1. /\ tx'[t].batch = B /\ tx'[t].seen[1] = last_replicated
          /\ tx'[t].seen[2] = rollback_count /\ tx'[t].seen[3] = view
      BY <1>1, <1>d, <1>e, <2>3
    <3>2. \A i \in 1 .. Len(B) : \A k \in 1 .. Len(ledger) + i - 1 : B[i].root[k] = history'[k]
      <4> SUFFICES ASSUME NEW i \in 1 .. Len(B)
                   PROVE  \A k \in 1 .. Len(ledger) + i - 1 : B[i].root[k] = history'[k]
        OBVIOUS
      <4> DEFINE b == B[i].root
      <4>1. /\ \A k \in 1 .. Len(history) : b[k] = history[k]
            /\ \A k \in 1 .. i - 1 : b[Len(history) + k] = B[k].tx
        BY <1>3, Zenon
      <4> HIDE DEF b
      <4>2. ASSUME NEW k \in 1 .. Len(history) + i - 1 PROVE b[k] = history'[k]
        <5>1. CASE k \in 1 .. Len(history)
          BY <1>5, <4>1, <5>1, Zenon
        <5>2. CASE k \notin 1 .. Len(history)
          <6> DEFINE d == k - Len(history)
          <6>1. d \in 1 .. i - 1 /\ d \in 1 .. Len(B) /\ k = Len(history) + d
            BY <1>4, <1>a, <5>2
          <6> HIDE DEF d
          <6>2. b[Len(history) + d] = B[d].tx
            BY <4>1, <6>1, Zenon
          <6>3. history'[Len(history) + d] = B[d].tx
            BY <1>5, <6>1, Zenon
          <6> QED BY <6>1, <6>2, <6>3, Zenon
        <5> QED BY <5>1, <5>2, Zenon
      <4> QED BY <1>e, <4>2, Zenon DEF b
    <3>3. Len(history') = Len(ledger) + Len(B)
      BY <1>5, <1>e, Zenon
    <3>4. ASSUME NEW i \in 1 .. Len(B)
          PROVE  /\ history'[Len(ledger) + i] = B[i].tx
                 /\ Len(B[i].root) = Len(ledger) + i - 1
      BY <1>3, <1>5, <1>e, Zenon
    <3> QED BY <1>b, <1>c, <2>2, <3>1, <3>2, <3>3, <3>4, Zenon DEF Continues
  <2>4. \A p \in pending_txs' : p.version <= version
    BY <1>6, <2>1, Zenon
  <2>5. \A u \in Txs : tx'[u].pc = "applied" => tx'[u].version <= version
    BY <1>1, <1>d, Zenon DEF KvInv, LeaderKnows
  <2>6. \A u \in Txs : tx'[u].pc \notin {"idle", "done"} => tx'[u].commit_view = view
    BY <1>1, <1>d, <1>e, Zenon DEF KvInv, LeaderKnows
  <2>7. (\A u \in Txs : tx'[u].pc # "replicate") => Len(history') = Len(ledger)
    BY <1>1, <1>5, <1>a, <1>d, <1>e
  <2>8. \A u \in Txs : tx'[u].pc = "replicate" => u = t
    BY <1>1, <1>7, Zenon
  <2>9. \A u \in Txs : tx'[u].pc # "replicated"
    BY <1>1, <1>7, <1>d, Zenon
  <2> QED BY <1>1, <1>b, <1>c, <2>3, <2>4, <2>5, <2>6, <2>7, <2>8, <2>9, Zenon DEF LeaderKnows
<1>14. Holeless'
  <2> SUFFICES ASSUME leader, op = NoOp, NEW v \in last_replicated + 1 .. version
               PROVE  \/ \E p \in pending_txs' : p.version = v
                      \/ \E u \in Txs : tx'[u].version = v /\ tx'[u].pc = "applied"
                      \/ \E u \in Txs :
                           /\ tx'[u].pc \in {"replicate", "replicated"}
                           /\ v \in tx'[u].seen[1] + 1 .. tx'[u].seen[1] + Len(tx'[u].batch)
    BY <1>b, <1>c, Zenon DEF Holeless, Leading, Delivered
  <2>1. (\E p \in Q : p.version = v) \/ \E u \in Txs \ {t} : tx[u].version = v /\ tx[u].pc = "applied"
    BY <1>2, <1>7 DEF KvInv, Holeless, Leading, Delivered
  <2>2. CASE \E u \in Txs \ {t} : tx[u].version = v /\ tx[u].pc = "applied"
    BY <1>1, <2>2, Zenon
  <2>3. CASE \E p \in pending_txs' : p.version = v
    BY <2>3, Zenon
  <2>4. CASE v \in last_replicated + 1 .. last_replicated + Len(B)
    <3>1. Len(B) # 0
      BY <1>a, <2>4
    <3>2. tx'[t].pc = "replicate" /\ tx'[t].seen[1] = last_replicated /\ tx'[t].batch = B
      BY <1>1, <1>d, <3>1
    <3> QED BY <2>4, <3>2, Zenon
  <2> QED BY <1>6, <2>1, <2>2, <2>3, <2>4, Zenon
<1> QED BY <1>8, <1>9, <1>10, <1>11, <1>12, <1>13, <1>14, Zenon DEF KvInv

\* The ledger while a transaction replicates on a leader: it is where the
\* transaction saw it, so that Aft::replicate does not refuse the batch.
LEMMA ReplicateFacts ==
  ASSUME KvInv, NEW t \in Txs, tx[t].pc = "replicate"
  PROVE  /\ Holds(t)
         /\ \A u \in Txs \ {t} : tx[u].pc \notin {"replicate", "replicated"}
         /\ last_replicated = Agreed
         /\ Leading => Continues(t) /\ last_replicated = Len(ledger)
<1>1. Holds(t) /\ \A u \in Txs \ {t} : tx[u].pc \notin {"replicate", "replicated"}
  BY Zenon DEF KvInv, Locking, Holds
<1>2. last_replicated = Agreed
  BY <1>1, Zenon DEF KvInv, Positions
<1>3. Leading => op.stage = "none" /\ Continues(t)
  BY DEF KvInv, LeaderKnows, Leading, NoOp
<1> QED BY <1>1, <1>2, <1>3, Zenon DEF Agreed

\* The batch as it is appended: only its term changes.
Dated(b) == [i \in DOMAIN b |-> [b[i] EXCEPT !.term = view]]

\* Aft::replicate sets the term of the entries and nothing else.
LEMMA DatedFacts ==
  ASSUME NEW b, IsSeq(b), \A i \in 1 .. Len(b) : DOMAIN b[i] = EntryFields
  PROVE  /\ IsSeq(Dated(b)) /\ Len(Dated(b)) = Len(b)
         /\ \A i \in 1 .. Len(b) : /\ Dated(b)[i].tx = b[i].tx
                                   /\ Dated(b)[i].root = b[i].root
<1>1. Len(b) \in Nat /\ DOMAIN b = 1 .. Len(b)
  BY SeqFacts
<1>2. Dated(b) = [i \in 1 .. Len(b) |-> [b[i] EXCEPT !.term = view]]
  BY <1>1 DEF Dated
<1>3. Dated(b) \in [1 .. Len(b) -> {[b[i] EXCEPT !.term = view] : i \in 1 .. Len(b)}]
  BY <1>2
<1>4. IsSeq(Dated(b)) /\ Len(Dated(b)) = Len(b)
  BY <1>1, <1>3, MakeSeq, Zenon
<1> QED BY <1>2, <1>4, Zenon DEF EntryFields

Extended(s, b) == s \o Dated(b)

\* The ledger after a batch, by position.
LEMMA LedgerGrows ==
  ASSUME NEW s, NEW b, IsSeq(s), IsSeq(b), \A i \in 1 .. Len(b) : DOMAIN b[i] = EntryFields
  PROVE  /\ IsSeq(Extended(s, b)) /\ Len(Extended(s, b)) = Len(s) + Len(b)
         /\ \A i \in 1 .. Len(s) : Extended(s, b)[i] = s[i]
         /\ \A i \in 1 .. Len(b) : /\ Extended(s, b)[Len(s) + i].tx = b[i].tx
                                   /\ Extended(s, b)[Len(s) + i].root = b[i].root
<1> DEFINE D == Dated(b)
<1>1. /\ IsSeq(D) /\ Len(D) = Len(b)
      /\ \A i \in 1 .. Len(b) : D[i].tx = b[i].tx /\ D[i].root = b[i].root
  BY DatedFacts, Zenon
<1> HIDE DEF D
<1>2. /\ IsSeq(s \o D) /\ Len(s \o D) = Len(s) + Len(D)
      /\ \A i \in 1 .. Len(s) : (s \o D)[i] = s[i]
      /\ \A i \in 1 .. Len(D) : (s \o D)[Len(s) + i] = D[i]
  BY <1>1, ConcatSeq
<1>3. /\ IsSeq(s \o D) /\ Len(s \o D) = Len(s) + Len(b)
      /\ \A i \in 1 .. Len(s) : (s \o D)[i] = s[i]
      /\ \A i \in 1 .. Len(b) : /\ (s \o D)[Len(s) + i].tx = b[i].tx
                                /\ (s \o D)[Len(s) + i].root = b[i].root
  BY <1>1, <1>2, Zenon
<1> QED BY <1>3, Zenon DEF D, Extended

\* A leader appends the batch of a transaction to its ledger.
Appends(t, f) ==
  /\ Leading /\ tx[t].pc = "replicate"
  /\ ledger' = Extended(ledger, tx[t].batch)
  /\ committable' \subseteq committable \cup Len(ledger) + 1 .. Len(ledger) + Len(tx[t].batch)
  /\ tx' = [tx EXCEPT ![t] = f] /\ DOMAIN f = TxFields /\ f.pc = "replicated"
  /\ f.batch = tx[t].batch /\ f.seen = tx[t].seen /\ f.commit_view = tx[t].commit_view
  /\ UNCHANGED <<store, commit_lock, history, view, leader, commit_idx, op>>

\* That step keeps the invariant: the roots of the batch become those of the
\* ledger.
LEMMA AppendStep ==
  ASSUME KvInv, NEW t \in Txs, NEW f, Appends(t, f)
  PROVE  KvInv'
<1> DEFINE b == tx[t].batch
           l == Len(ledger)
           n == Len(b)
<1>1. /\ DOMAIN tx = Txs /\ tx'[t] = f /\ DOMAIN f = TxFields
      /\ \A u \in Txs \ {t} : tx'[u] = tx[u]
  BY Zenon DEF Appends, KvInv, KvTypeOK
<1>a. /\ IsSeq(ledger) /\ l \in Nat /\ Len(history) \in Nat
      /\ version \in Nat /\ rollback_count \in Nat /\ commit_idx \in 0 .. l
  BY SeqFacts, Zenon DEF KvInv, KvTypeOK
<1>b. f.pc = "replicated" /\ f.batch = b /\ f.seen = tx[t].seen /\ f.commit_view = tx[t].commit_view
  BY Zenon DEF Appends
<1>c. /\ version' = version /\ last_replicated' = last_replicated
      /\ rollback_count' = rollback_count /\ term_of_next_version' = term_of_next_version
      /\ pending_txs' = pending_txs /\ commit_lock' = commit_lock
  BY Zenon DEF Appends, store
<1>d. /\ history' = history /\ view' = view /\ leader' = leader
      /\ commit_idx' = commit_idx /\ op' = op
  BY Zenon DEF Appends
<1>2. /\ Holds(t) /\ Continues(t) /\ last_replicated = l
      /\ \A u \in Txs \ {t} : tx[u].pc \notin {"replicate", "replicated"}
      /\ tx[t].pc = "replicate"
  BY ReplicateFacts, Zenon DEF Appends
<1>3. /\ IsSeq(b) /\ n \in Nat
      /\ \A i \in 1 .. n : DOMAIN b[i] = EntryFields /\ IsSeq(b[i].root)
  BY <1>2, SeqFacts, Zenon DEF Holds
<1>4. /\ tx[t].seen[1] = l /\ tx[t].seen[2] = rollback_count
      /\ l + n <= version /\ Len(history) = l + n
      /\ \A i \in 1 .. n : /\ history[l + i] = b[i].tx
                           /\ Len(b[i].root) = l + i - 1
                           /\ \A k \in 1 .. l + i - 1 : b[i].root[k] = history[k]
  BY <1>2, Zenon DEF Continues
<1>5. /\ IsSeq(ledger') /\ Len(ledger') = l + n
      /\ \A i \in 1 .. l : ledger'[i] = ledger[i]
      /\ \A i \in 1 .. n : ledger'[l + i].tx = b[i].tx /\ ledger'[l + i].root = b[i].root
  <2>1. ledger' = Extended(ledger, b)
    BY Zenon DEF Appends
  <2>2. IsSeq(ledger) /\ IsSeq(b) /\ \A i \in 1 .. Len(b) : DOMAIN b[i] = EntryFields
    BY <1>a, <1>3, Zenon
  <2> HIDE DEF b
  <2>3. LET E == Extended(ledger, b) IN
        /\ IsSeq(E) /\ Len(E) = Len(ledger) + Len(b)
        /\ \A i \in 1 .. Len(ledger) : E[i] = ledger[i]
        /\ \A i \in 1 .. Len(b) : /\ E[Len(ledger) + i].tx = b[i].tx
                                   /\ E[Len(ledger) + i].root = b[i].root
    BY <2>2, LedgerGrows
  <2> QED BY <2>1, <2>3, Zenon
<1>g. tx[t].seen[1] = l /\ tx[t].seen[2] = rollback_count
  BY <1>4, Zenon
<1>6. op.stage = "none" /\ op.kind = "none"
  BY Zenon DEF Appends, Leading, NoOp
<1>7. Agreed = l /\ Agreed' = l + n
  BY <1>5, <1>6, <1>d, Zenon DEF Agreed
<1>e. committable' \subseteq committable \cup l + 1 .. l + n /\ committable \subseteq 1 .. l
  BY Zenon DEF Appends, KvInv, KvTypeOK
<1>f. Leading
  BY Zenon DEF Appends
<1> HIDE DEF b, l, n
<1>8. KvTypeOK'
  <2>1. commit_idx \in 0 .. Len(ledger') /\ committable' \subseteq 1 .. Len(ledger')
    BY <1>3, <1>5, <1>a, <1>e
  <2>2. \A u \in Txs : DOMAIN tx'[u] = TxFields /\ (tx'[u].pc = "applied" => tx'[u].version \in Nat)
    BY <1>1, <1>b, Zenon DEF KvInv, KvTypeOK
  <2>3. DOMAIN tx' = Txs
    BY <1>1, Zenon DEF Appends
  <2> QED BY <1>5, <1>c, <1>d, <2>1, <2>2, <2>3, Zenon DEF KvInv, KvTypeOK
<1>9. Locking'
  <2>1. Holds(t)'
    BY <1>1, <1>2, <1>b, <1>c, Zenon DEF Holds, b
  <2>2. commit_lock' = t /\ \A u \in Txs : tx'[u].pc \in {"replicate", "replicated"} <=> u = t
    BY <1>1, <1>2, <1>b, <1>c, Zenon DEF Holds
  <2> QED BY <2>1, <2>2, Zenon DEF Locking
<1>10. Calls'
  <2>1. op = NoOp
    BY <1>f DEF Leading
  <2> QED BY <1>6, <1>d, <2>1, Zenon DEF Calls
<1>11. Positions'
  <2>1. \A u \in Txs : tx'[u].pc = "replicated" <=> u = t
    BY <1>1, <1>2, <1>b
  <2>2. tx'[t].seen[1] = l /\ tx'[t].seen[2] = rollback_count /\ Len(tx'[t].batch) = n
    BY <1>1, <1>b, <1>g, Zenon DEF n
  <2>3. n \in Nat /\ l + n <= version /\ last_replicated = l
    BY <1>2, <1>3, <1>4, Zenon
  <2> QED BY <1>7, <1>a, <1>c, <2>1, <2>2, <2>3, Zenon DEF Positions
<1>12. \A i \in 1 .. l + n : history[i] = ledger'[i].tx
  <2> SUFFICES ASSUME NEW i \in 1 .. l + n PROVE history[i] = ledger'[i].tx
    OBVIOUS
  <2>1. CASE i \in 1 .. l
    BY <1>5, <1>7, <1>f, <2>1, Zenon DEF KvInv, TreeMatches, Settled, Leading
  <2>2. CASE i \notin 1 .. l
    <3> DEFINE d == i - l
    <3>1. d \in 1 .. n /\ i = l + d
      BY <1>a, <1>3, <2>2
    <3> HIDE DEF d
    <3> QED BY <1>4, <1>5, <3>1
  <2> QED BY <2>1, <2>2, Zenon
<1>13. TreeMatches' /\ TermsMatch'
  <2>1. TreeMatches'
    BY <1>3, <1>4, <1>6, <1>7, <1>12, <1>a, <1>d DEF TreeMatches, Settled
  <2>2. term_of_next_version = view
    BY <1>6, Zenon DEF KvInv, TermsMatch
  <2>3. TermsMatch'
    BY <1>6, <1>c, <1>d, <2>2, Zenon DEF TermsMatch
  <2> QED BY <2>1, <2>3, Zenon
<1>14. RootsMatch'
  <2> SUFFICES ASSUME NEW i \in 2 .. l + n, ledger'[i].committable
               PROVE  /\ IsSeq(ledger'[i].root) /\ Len(ledger'[i].root) = i - 1
                      /\ \A k \in 1 .. i - 1 : ledger'[i].root[k] = ledger'[k].tx
    BY <1>5, Zenon DEF RootsMatch
  <2>1. CASE i \in 1 .. l
    <3>1. /\ IsSeq(ledger[i].root) /\ Len(ledger[i].root) = i - 1
          /\ \A k \in 1 .. i - 1 : ledger[i].root[k] = ledger[k].tx
      <4>1. i \in 2 .. Len(ledger)
        <5>1. l \in Nat /\ n \in Nat
          BY <1>3, <1>a, Zenon
        <5>2. i \in 2 .. l
          <6> HIDE DEF l, n
          <6> QED BY <2>1, <5>1
        <5> QED BY <5>2 DEF l
      <4>2. ledger[i].committable
        BY <1>5, <2>1, Zenon
      <4> QED BY <4>1, <4>2, Zenon DEF KvInv, RootsMatch
    <3>2. \A k \in 1 .. i - 1 : k \in 1 .. l
      BY <1>a, <2>1
    <3>3. ledger'[i] = ledger[i] /\ \A k \in 1 .. i - 1 : ledger'[k] = ledger[k]
      BY <1>5, <2>1, <3>2, Zenon
    <3> QED BY <3>1, <3>3, Zenon
  <2>2. CASE i \notin 1 .. l
    <3> DEFINE d == i - l
    <3>1. d \in 1 .. n /\ i = l + d /\ l + d - 1 = i - 1
      BY <1>a, <1>3, <2>2
    <3> HIDE DEF d
    <3>2. ledger'[i].root = b[d].root
      BY <1>5, <3>1, Zenon
    <3>3. IsSeq(b[d].root) /\ Len(b[d].root) = i - 1
      BY <1>3, <1>4, <3>1, Zenon
    <3>4. \A k \in 1 .. i - 1 : b[d].root[k] = history[k]
      BY <1>4, <3>1
    <3>5. \A k \in 1 .. i - 1 : history[k] = ledger'[k].tx
      BY <1>a, <1>3, <1>12
    <3> QED BY <3>2, <3>3, <3>4, <3>5, Zenon
  <2> QED BY <2>1, <2>2, Zenon
<1>15. LeaderKnows'
  <2>1. \A u \in Txs : tx'[u].pc # "replicate"
    BY <1>1, <1>2, <1>b
  <2>2. Len(history) = Len(ledger')
    BY <1>4, <1>5, Zenon
  <2>3. /\ \A u \in Txs : tx'[u].pc = "applied" => tx'[u].version <= version
        /\ \A u \in Txs : tx'[u].pc \notin {"idle", "done"} => tx'[u].commit_view = view
    BY <1>1, <1>2, <1>b, <1>f DEF KvInv, LeaderKnows
  <2>4. \A u \in Txs : tx'[u].pc = "replicated" =>
          rollback_count = tx'[u].seen[2] /\ last_replicated = tx'[u].seen[1]
    BY <1>1, <1>2, <1>b, <1>g
  <2>5. \A p \in pending_txs : p.version <= version
    BY <1>f, Zenon DEF KvInv, LeaderKnows
  <2> QED BY <1>c, <1>d, <2>1, <2>2, <2>3, <2>4, <2>5, Zenon DEF LeaderKnows
<1>16. Holeless'
  <2> SUFFICES ASSUME NEW v \in last_replicated + 1 .. version
               PROVE  \/ \E p \in pending_txs : p.version = v
                      \/ \E u \in Txs : tx'[u].version = v /\ tx'[u].pc = "applied"
                      \/ \E u \in Txs :
                           /\ tx'[u].pc \in {"replicate", "replicated"}
                           /\ v \in tx'[u].seen[1] + 1 .. tx'[u].seen[1] + Len(tx'[u].batch)
    BY <1>c, <1>d, Zenon DEF Holeless, Leading, Delivered
  <2>1. CASE \E p \in pending_txs : p.version = v
    BY <2>1, Zenon
  <2>2. CASE \E u \in Txs : tx[u].version = v /\ tx[u].pc = "applied"
    BY <1>1, <1>2, <2>2, Zenon
  <2>3. CASE \E u \in Txs :
               /\ tx[u].pc \in {"replicate", "replicated"}
               /\ v \in tx[u].seen[1] + 1 .. tx[u].seen[1] + Len(tx[u].batch)
    BY <1>1, <1>2, <1>b, <2>3 DEF b
  <2> QED BY <1>f, <2>1, <2>2, <2>3, Zenon DEF KvInv, Holeless, Leading, Delivered
<1> QED BY <1>8, <1>9, <1>10, <1>11, <1>13, <1>14, <1>15, <1>16, Zenon DEF KvInv

\* A transaction leaves Store::commit after its batch has been appended.
Returns(t, f) ==
  /\ tx[t].pc = "replicated" /\ commit_lock' = None
  /\ tx' = [tx EXCEPT ![t] = f] /\ DOMAIN f = TxFields /\ f.pc = "done"
  /\ last_replicated' = IF last_replicated = tx[t].seen[1] /\ rollback_count = tx[t].seen[2]
                        THEN tx[t].seen[1] + Len(tx[t].batch) ELSE last_replicated
  /\ UNCHANGED <<version, rollback_count, term_of_next_version, pending_txs, history, raft, op>>

\* That step keeps the invariant: last_replicated moves only when no rollback came
\* in between.
LEMMA ReturnStep ==
  ASSUME KvInv, NEW t \in Txs, NEW f, Returns(t, f)
  PROVE  KvInv'
<1> DEFINE e == tx[t].seen[1] + Len(tx[t].batch)
<1>1. tx[t].pc = "replicated" /\ commit_lock' = None
  BY Zenon DEF Returns
<1>2. DOMAIN f = TxFields /\ f.pc = "done"
  BY Zenon DEF Returns
<1>3. /\ DOMAIN tx = Txs /\ tx'[t] = f /\ DOMAIN tx' = Txs
      /\ \A u \in Txs \ {t} : tx'[u] = tx[u]
  BY Zenon DEF Returns, KvInv, KvTypeOK
<1>a. version \in Nat /\ rollback_count \in Nat /\ last_replicated \in Nat
  BY Zenon DEF KvInv, KvTypeOK
<1>b. /\ version' = version /\ rollback_count' = rollback_count
      /\ term_of_next_version' = term_of_next_version /\ pending_txs' = pending_txs
      /\ history' = history /\ ledger' = ledger /\ view' = view /\ leader' = leader
      /\ commit_idx' = commit_idx /\ committable' = committable /\ op' = op
  BY Zenon DEF Returns, raft
<1>c. last_replicated' = IF last_replicated = tx[t].seen[1] /\ rollback_count = tx[t].seen[2]
                         THEN e ELSE last_replicated
  BY Zenon DEF Returns
<1>4. /\ Holds(t) /\ \A u \in Txs \ {t} : tx[u].pc \notin {"replicate", "replicated"}
      /\ tx[t].seen[1] \in Nat /\ tx[t].seen[2] \in Nat
  BY <1>1, Zenon DEF KvInv, Locking, Holds
<1>5. Agreed \in Nat /\ Agreed' = Agreed
  BY <1>b, SeqFacts, Zenon DEF KvInv, KvTypeOK, Agreed
<1>6. last_replicated' = Agreed
  BY <1>1, <1>a, <1>4, <1>c DEF KvInv, Positions
<1>7. op.kind \notin {"lead", "refuse"}
  BY <1>1, <1>4, Zenon DEF KvInv, Calls, Quiet
<1>8. KvTypeOK'
  <2>1. \A u \in Txs : DOMAIN tx'[u] = TxFields /\ (tx'[u].pc = "applied" => tx'[u].version \in Nat)
    BY <1>2, <1>3, Zenon DEF KvInv, KvTypeOK
  <2> QED BY <1>3, <1>5, <1>6, <1>b, <2>1, Zenon DEF KvInv, KvTypeOK
<1>9. Locking'
  <2>1. commit_lock' = None /\ \A u \in Txs : tx'[u].pc \notin {"replicate", "replicated"}
    BY <1>1, <1>2, <1>3, <1>4, Zenon
  <2> QED BY <2>1, NoneAssumption, Zenon DEF Locking
<1>10. Calls'
  BY <1>7, <1>b, Zenon DEF KvInv, Calls
<1>11. Positions'
  <2>1. \A u \in Txs : tx'[u].pc # "replicated"
    BY <1>2, <1>3, <1>4, Zenon
  <2> QED BY <1>5, <1>6, <1>b, <2>1, Zenon DEF KvInv, Positions
<1>12. TreeMatches' /\ TermsMatch' /\ RootsMatch'
  BY <1>5, <1>7, <1>b, Zenon DEF KvInv, TreeMatches, Settled, TermsMatch, RootsMatch
<1>13. LeaderKnows'
  <2> SUFFICES ASSUME Leading PROVE LeaderKnows'
    BY <1>b, Zenon DEF LeaderKnows, Leading
  <2>1. \A u \in Txs : tx[u].pc # "replicate" /\ tx'[u].pc # "replicate"
    BY <1>1, <1>2, <1>3, <1>4, Zenon
  <2>2. \A u \in Txs : tx'[u].pc # "replicated"
    BY <1>2, <1>3, <1>4, Zenon
  <2> QED BY <1>2, <1>3, <1>b, <2>1, <2>2, Zenon DEF KvInv, LeaderKnows, Leading
<1>14. Holeless'
  <2> SUFFICES ASSUME leader, op = NoOp, NEW v \in last_replicated' + 1 .. version
               PROVE  \/ \E p \in pending_txs : p.version = v
                      \/ \E u \in Txs : tx'[u].version = v /\ tx'[u].pc = "applied"
    BY <1>2, <1>3, <1>b, Zenon DEF Holeless, Leading, Delivered
  <2>1. rollback_count = tx[t].seen[2] /\ last_replicated = tx[t].seen[1]
    BY <1>1, Zenon DEF KvInv, LeaderKnows, Leading
  <2>2. e = Agreed /\ last_replicated <= Agreed
    <3>1. e = Agreed /\ last_replicated = tx[t].seen[1]
      BY <1>1, <1>4, <1>a, <2>1 DEF KvInv, Positions
    <3> QED BY <1>4, <3>1, SeqFacts DEF Holds
  <2>3. v \in last_replicated + 1 .. version /\ v \notin tx[t].seen[1] + 1 .. e
    BY <1>4, <1>5, <1>6, <1>a, <2>2
  <2>4. CASE \E p \in pending_txs : p.version = v
    BY <2>4, Zenon
  <2>5. CASE \E u \in Txs : tx[u].version = v /\ tx[u].pc = "applied"
    BY <1>1, <1>3, <2>5, Zenon
  <2>6. CASE \E u \in Txs :
               /\ tx[u].pc \in {"replicate", "replicated"}
               /\ v \in tx[u].seen[1] + 1 .. tx[u].seen[1] + Len(tx[u].batch)
    BY <1>4, <2>3, <2>6, Zenon
  <2> QED BY <2>3, <2>4, <2>5, <2>6, Zenon DEF KvInv, Holeless, Leading, Delivered
<1> QED BY <1>8, <1>9, <1>10, <1>11, <1>12, <1>13, <1>14, Zenon DEF KvInv

-----------------------------------------------------------------------------
(* Calls of the consensus. *)

\* A call of the consensus begins; the store has not been touched.
LEMMA CallStep ==
  ASSUME KvInv, op = NoOp, NEW kind \in Kinds \ {"none"}, NEW idx \in commit_idx .. Len(ledger),
         NEW by \in Txs \cup Remote \cup {None}, op' = Call(kind, idx, by),
         kind = "lead" => Quiet /\ idx \in {commit_idx} \cup committable,
         kind \in {"lead", "entry", "cut", "refuse"} => ~leader,
         kind \in {"entry", "refuse"} => idx = Len(ledger),
         kind = "refuse" => by \in Txs /\ tx[by].pc = "replicate",
         kind = "entry" => by \in Remote,
         view' = view \/ kind \in {"lead", "follow"},
         committable' \subseteq committable,
         UNCHANGED <<store, commit_lock, history, tx, ledger, leader, commit_idx>>
  PROVE  KvInv'
<1> USE DEF store
<1>1. /\ op'.kind = kind /\ op'.stage = "version" /\ op'.idx = idx /\ op'.by = by
      /\ op.stage = "none" /\ op'.stage # "none" /\ op'.kind # "none"
      /\ idx \in Nat /\ op' # NoOp
  BY SeqFacts DEF Call, NoOp, KvInv, KvTypeOK, Kinds
<1>2. Agreed' = Agreed
  BY <1>1, Zenon DEF Agreed
<1>3. KvTypeOK'
  <2>1. op' \in [kind : Kinds, stage : Stages, idx : Nat, by : Txs \cup Remote \cup {None}]
    BY <1>1, Zenon DEF Call, Stages
  <2> QED BY <2>1, Zenon DEF KvInv, KvTypeOK
<1>4. Locking'
  BY Zenon DEF KvInv, Locking, Holds
<1>5. Calls'
  BY <1>1, Zenon DEF Calls, Quiet
<1>6. Positions'
  BY <1>2, Zenon DEF KvInv, Positions
<1>7. TreeMatches' /\ RootsMatch'
  <2>1. \A i \in 1 .. Agreed : Settled(i)' => Settled(i)
    BY <1>1, Zenon DEF Settled
  <2> QED BY <1>1, <1>2, <2>1, Zenon DEF KvInv, TreeMatches, RootsMatch
<1>8. TermsMatch'
  BY <1>1, Zenon DEF KvInv, TermsMatch, NoOp
<1>9. LeaderKnows' /\ Holeless'
  BY <1>1, Zenon DEF LeaderKnows, Holeless, Leading, Delivered
<1> QED BY <1>3, <1>4, <1>5, <1>6, <1>7, <1>8, <1>9, Zenon DEF KvInv

\* The smaller of two numbers.
LEMMA MinOfTwo ==
  ASSUME NEW a \in Nat, NEW b \in Nat
  PROVE  Min({a, b}) \in {a, b} /\ Min({a, b}) <= a /\ Min({a, b}) <= b
<1>1. \E x \in {a, b} : \A y \in {a, b} : x =< y
  OBVIOUS
<1>2. Min({a, b}) \in {a, b} /\ \A y \in {a, b} : Min({a, b}) =< y
  BY <1>1 DEF Min
<1> QED BY <1>2

\* Store::rollback: the tree is cut, and the versions unless nothing is newer.
Rewinds ==
  /\ op.stage = "version"
  /\ history' = SubSeq(history, 1, Min({op.idx, Len(history)}))
  /\ term_of_next_version' = IF op.kind = "entry" THEN term_of_next_version ELSE view
  /\ IF op.idx >= version
     THEN /\ op' = [op EXCEPT !.stage = "done"]
          /\ UNCHANGED <<version, last_replicated, rollback_count, pending_txs>>
     ELSE /\ op' = [op EXCEPT !.stage = "maps"]
          /\ version' = op.idx /\ last_replicated' = op.idx
          /\ rollback_count' = rollback_count + 1 /\ pending_txs' = {}
  /\ UNCHANGED <<commit_lock, tx, raft>>

\* That step keeps the invariant.
LEMMA RewindStep ==
  ASSUME KvInv, Rewinds
  PROVE  KvInv'
<1>1. op.stage = "version"
  BY DEF Rewinds
<1>a. history' = SubSeq(history, 1, Min({op.idx, Len(history)}))
  BY DEF Rewinds
<1>b. /\ commit_lock' = commit_lock /\ tx' = tx /\ ledger' = ledger /\ view' = view
      /\ leader' = leader /\ commit_idx' = commit_idx /\ committable' = committable
  BY DEF Rewinds, raft
<1>c. term_of_next_version' = IF op.kind = "entry" THEN term_of_next_version ELSE view
  BY DEF Rewinds
<1>2. /\ Len(ledger) \in Nat /\ Len(history) \in Nat /\ IsSeq(history)
      /\ version \in Nat /\ rollback_count \in Nat /\ last_replicated \in Nat
      /\ op.idx \in Nat /\ op.idx <= Len(ledger) /\ op # NoOp
  BY <1>1, SeqFacts DEF KvInv, KvTypeOK, Calls, NoOp
<1>3. Agreed = Len(ledger) /\ version >= Len(ledger)
  BY <1>1, Zenon DEF KvInv, Positions, Agreed
<1> DEFINE m == Min({op.idx, Len(history)})
<1>4. m \in {op.idx, Len(history)} /\ m \in 0 .. Len(history) /\ m <= op.idx
  BY <1>2, MinOfTwo
<1> HIDE DEF m
<1>5. /\ IsSeq(history') /\ Len(history') = m
      /\ \A i \in 1 .. m : history'[i] = history[i]
  BY <1>2, <1>4, <1>a, PrefixSeq, Zenon DEF m
<1>6. /\ op'.kind = op.kind /\ op'.idx = op.idx /\ op'.by = op.by
      /\ op'.stage \in {"maps", "done"}
      /\ op' \in [kind : Kinds, stage : Stages, idx : Nat, by : Txs \cup Remote \cup {None}]
      /\ \/ /\ op.idx >= version
            /\ UNCHANGED <<version, last_replicated, rollback_count, pending_txs>>
         \/ /\ op.idx < version /\ version' = op.idx /\ last_replicated' = op.idx
            /\ rollback_count' = rollback_count + 1 /\ pending_txs' = {}
  BY <1>2 DEF Rewinds, KvInv, KvTypeOK, Stages
<1>7. Agreed' = op.idx
  BY <1>6, Zenon DEF Agreed
<1>8. op' # NoOp /\ op'.stage # "none" /\ op'.stage # "version" /\ op'.stage # "applied"
  BY <1>6 DEF NoOp
<1>9. pending_txs' \subseteq pending_txs /\ Bounded(pending_txs')
  BY <1>6, Zenon DEF KvInv, KvTypeOK, Bounded
<1>10. KvTypeOK'
  <2>1. version' \in Nat /\ last_replicated' \in Nat /\ rollback_count' \in Nat
    BY <1>2, <1>6
  <2>2. \A p \in pending_txs' : p.version \in Nat /\ DOMAIN p.entry = EntryFields
    BY <1>9, Zenon DEF KvInv, KvTypeOK
  <2>3. op' \in [kind : Kinds, stage : Stages, idx : Nat, by : Txs \cup Remote \cup {None}]
    BY <1>6, Zenon
  <2> QED BY <1>5, <1>9, <1>b, <2>1, <2>2, <2>3, Zenon DEF KvInv, KvTypeOK
<1>11. Locking'
  BY <1>b, Zenon DEF KvInv, Locking, Holds
<1>12. Calls'
  <2>1. op.kind # "none" /\ op.stage # "none"
    BY <1>1, <1>2, Zenon DEF KvInv, Calls
  <2>2. Quiet => Quiet'
    BY <1>9, <1>b, Zenon DEF Quiet
  <2> QED BY <1>6, <1>8, <1>b, <2>1, <2>2, Zenon DEF KvInv, Calls
<1>13. Positions'
  <2>1. CASE op.idx >= version /\ UNCHANGED <<version, last_replicated, rollback_count, pending_txs>>
    <3>1. op.idx = Agreed /\ Agreed' = Agreed
      BY <1>2, <1>3, <1>7, <2>1
    <3> QED BY <1>b, <2>1, <3>1, Zenon DEF KvInv, Positions
  <2>2. CASE /\ op.idx < version /\ version' = op.idx /\ last_replicated' = op.idx
             /\ rollback_count' = rollback_count + 1
    <3>1. \A t \in Txs : tx[t].pc = "replicated" =>
            rollback_count' >= tx[t].seen[2] /\ rollback_count' > tx[t].seen[2]
      <4> SUFFICES ASSUME NEW t \in Txs, tx[t].pc = "replicated"
                   PROVE  rollback_count' >= tx[t].seen[2] /\ rollback_count' > tx[t].seen[2]
        OBVIOUS
      <4>1. tx[t].seen[2] \in Nat
        BY Zenon DEF KvInv, Locking, Holds
      <4>2. rollback_count >= tx[t].seen[2]
        BY <1>2, <4>1, SMTT(40) DEF KvInv, Positions
      <4> QED BY <1>2, <2>2, <4>1, <4>2
    <3>2. version' >= Agreed' /\ last_replicated' = Agreed'
      BY <1>2, <1>7, <2>2
    <3> QED BY <1>b, <3>1, <3>2, Zenon DEF Positions
  <2> QED BY <1>6, <2>1, <2>2, Zenon
<1>14. TreeMatches'
  <2>1. ASSUME NEW i \in 1 .. op.idx, Settled(i)
        PROVE  i <= Len(history) /\ i <= m /\ history[i] = ledger[i].tx
    <3>1. i \in 1 .. Agreed
      BY <1>2, <1>3
    <3>2. i <= Len(history) /\ history[i] = ledger[i].tx
      BY <2>1, <3>1, Zenon DEF KvInv, TreeMatches
    <3> QED BY <1>2, <1>4, <3>2
  <2>2. ASSUME NEW i \in 1 .. op.idx, Settled(i)'
        PROVE  i <= Len(history') /\ history'[i] = ledger[i].tx
    <3>1. Settled(i)
      BY <1>6, <1>b, <2>2, Zenon DEF Settled
    <3>2. i \in 1 .. m
      BY <1>2, <1>4, <2>1, <3>1
    <3> QED BY <1>5, <2>1, <3>1, <3>2, Zenon
  <2>3. op.kind = "lead" => m = op.idx
    <3>1. CASE op.idx = 0
      BY <1>2, <1>4, <3>1
    <3>2. CASE op.idx \in 1 .. op.idx
      <4>1. op.kind = "lead" => Settled(op.idx)
        BY <1>2 DEF Settled
      <4> QED BY <1>2, <1>4, <2>1, <3>2, <4>1
    <3> QED BY <1>2, <3>1, <3>2
  <2>4. ledger' = ledger /\ op'.idx = op.idx /\ op'.kind = op.kind
    BY <1>6, <1>b, Zenon
  <2> QED BY <1>5, <1>7, <2>2, <2>3, <2>4, Zenon DEF TreeMatches
<1>15. TermsMatch'
  <2>1. version' = op.idx
    BY <1>2, <1>3, <1>6
  <2>2. term_of_next_version' = view'
    BY <1>1, <1>b, <1>c, Zenon DEF KvInv, TermsMatch
  <2> QED BY <1>6, <2>1, <2>2, Zenon DEF TermsMatch
<1>16. RootsMatch'
  BY <1>b, Zenon DEF KvInv, RootsMatch
<1>17. LeaderKnows' /\ Holeless'
  BY <1>8, Zenon DEF LeaderKnows, Holeless, Leading, Delivered
<1> QED BY <1>10, <1>11, <1>12, <1>13, <1>14, <1>15, <1>16, <1>17, Zenon DEF KvInv

\* Compaction moves commit_idx within the ledger.
LEMMA CommitStep ==
  ASSUME KvInv, NEW v \in committable, op = NoOp, commit_idx' = v, committable' \subseteq committable,
         UNCHANGED <<store, commit_lock, history, tx, ledger, view, leader, op>>
  PROVE  KvInv'
<1> USE DEF store
<1>2. KvTypeOK'
  BY DEF KvInv, KvTypeOK
<1>3. Locking' /\ Calls'
  BY Zenon DEF KvInv, Locking, Holds, Calls, NoOp, Quiet
<1>4. Positions' /\ TreeMatches' /\ TermsMatch' /\ RootsMatch'
  <2>1. Agreed' = Agreed /\ op.kind = "none"
    BY Zenon DEF Agreed, NoOp
  <2>2. \A i \in 1 .. Agreed : Settled(i)' => Settled(i)
    BY <2>1, Zenon DEF Settled
  <2> QED BY <2>1, <2>2, Zenon DEF KvInv, Positions, TreeMatches, TermsMatch, RootsMatch
<1>5. LeaderKnows'
  BY Zenon DEF KvInv, LeaderKnows, Leading, Continues
<1>6. Holeless'
  BY Zenon DEF KvInv, Holeless, Leading, Delivered
<1> QED BY <1>2, <1>3, <1>4, <1>5, <1>6, Zenon DEF KvInv

\* The steps of a call that touch the maps only.
LEMMA MapsStep ==
  ASSUME KvInv, op.stage \in {"maps", "done"}, NEW s \in {"done", "applied"},
         s = "applied" => op.kind = "entry", op' = [op EXCEPT !.stage = s],
         UNCHANGED <<store, commit_lock, history, tx, raft>>
  PROVE  KvInv'
<1>1. /\ op'.stage = s /\ op'.kind = op.kind /\ op'.idx = op.idx /\ op'.by = op.by
      /\ op' \in [kind : Kinds, stage : Stages, idx : Nat, by : Txs \cup Remote \cup {None}]
  BY Zenon DEF KvInv, KvTypeOK, Stages
<1>2. UNCHANGED <<version, last_replicated, rollback_count, term_of_next_version, pending_txs,
                  ledger, view, leader, commit_idx, committable>>
  BY DEF store, raft
<1>3. op # NoOp /\ op' # NoOp /\ Agreed' = Agreed
  BY <1>1, <1>2 DEF NoOp, Agreed
<1>4. KvTypeOK'
  BY <1>1, <1>2, Zenon DEF KvInv, KvTypeOK
<1>5. Locking'
  BY <1>2, Zenon DEF KvInv, Locking, Holds
<1>6. Calls'
  <2>1. Quiet' = Quiet /\ op.kind # "none" /\ op'.stage # "none"
    BY <1>1, <1>2, <1>3, Zenon DEF Quiet, KvInv, Calls
  <2> QED BY <1>1, <1>2, <1>3, <2>1, Zenon DEF KvInv, Calls
<1>7. Positions' /\ RootsMatch'
  BY <1>2, <1>3, Zenon DEF KvInv, Positions, RootsMatch
<1>8. TreeMatches' /\ TermsMatch'
  BY <1>1, <1>2, <1>3, Zenon DEF KvInv, TreeMatches, Settled, TermsMatch
<1>9. LeaderKnows' /\ Holeless'
  BY <1>3, Zenon DEF LeaderKnows, Holeless, Leading, Delivered
<1> QED BY <1>4, <1>5, <1>6, <1>7, <1>8, <1>9, Zenon DEF KvInv

\* The consensus cuts the ledger to where the store is.
LEMMA CutLedger ==
  ASSUME KvInv, op.stage \in {"maps", "done"}
  PROVE  /\ Len(ledger) \in Nat /\ op.idx \in Nat /\ op.idx \in commit_idx .. Len(ledger)
         /\ IsSeq(SubSeq(ledger, 1, op.idx)) /\ Len(SubSeq(ledger, 1, op.idx)) = op.idx
         /\ \A i \in 1 .. op.idx : SubSeq(ledger, 1, op.idx)[i] = ledger[i]
<1>1. Len(ledger) \in Nat /\ IsSeq(ledger) /\ op.idx \in commit_idx .. Len(ledger) /\ commit_idx \in Nat
  BY SeqFacts DEF KvInv, KvTypeOK, Calls
<1>2. op.idx \in 0 .. Len(ledger)
  BY <1>1
<1> QED BY <1>1, <1>2, PrefixSeq

\* The end of Aft::rollback, in each of the calls it is part of.
Cuts ==
  /\ op.stage = "done" /\ op.kind # "entry" /\ op' = NoOp
  /\ ledger' = SubSeq(ledger, 1, op.idx)
  /\ committable' = {i \in committable : i <= op.idx}
  /\ leader' = IF op.kind = "refuse" THEN leader ELSE op.kind = "lead"
  /\ IF op.kind = "refuse"
     THEN /\ \E f : tx' = [tx EXCEPT ![op.by] = f] /\ DOMAIN f = TxFields /\ f.pc = "done"
          /\ commit_lock' = None
     ELSE UNCHANGED <<tx, commit_lock>>
  /\ UNCHANGED <<store, history, view, commit_idx>>

\* That step keeps the invariant.
LEMMA CutStep ==
  ASSUME KvInv, Cuts
  PROVE  KvInv'
<1> USE DEF store
<1>1. /\ op.stage = "done" /\ op.kind # "entry" /\ op' = NoOp
      /\ committable' = {i \in committable : i <= op.idx}
      /\ leader' = IF op.kind = "refuse" THEN leader ELSE op.kind = "lead"
      /\ UNCHANGED <<store, history, view, commit_idx>>
      /\ ledger' = SubSeq(ledger, 1, op.idx)
  BY Zenon DEF Cuts
<1>2. /\ IsSeq(ledger') /\ Len(ledger') = op.idx /\ op.idx \in Nat
      /\ op.idx \in commit_idx .. Len(ledger) /\ Len(ledger) \in Nat
      /\ \A i \in 1 .. op.idx : ledger'[i] = ledger[i]
  BY <1>1, CutLedger, Zenon
<1>3. op'.stage = "none" /\ op'.kind = "none"
  BY <1>1, Zenon DEF NoOp
<1>4. Agreed = op.idx /\ Agreed' = op.idx
  BY <1>1, <1>2, <1>3, Zenon DEF Agreed
<1>5. op \in [kind : Kinds, stage : Stages, idx : Nat, by : Txs \cup Remote \cup {None}]
      /\ leader \in BOOLEAN
  BY Zenon DEF KvInv, KvTypeOK
<1>6. /\ DOMAIN tx' = Txs
      /\ \A t \in Txs : DOMAIN tx'[t] = TxFields
      /\ \A t \in Txs : \/ tx'[t] = tx[t]
                        \/ tx'[t].pc = "done" /\ tx[t].pc = "replicate" /\ commit_lock' = None
      /\ \/ commit_lock' = commit_lock /\ tx' = tx
         \/ commit_lock' = None /\ \E t \in Txs : commit_lock = t /\ tx'[t].pc = "done"
  <2>1. CASE op.kind = "refuse"
    <3> DEFINE by == op.by
    <3>1. by \in Txs /\ tx[by].pc = "replicate" /\ commit_lock = by
      BY <2>1, Zenon DEF KvInv, Calls, Locking, Holds
    <3>2. PICK f : /\ tx' = [tx EXCEPT ![by] = f] /\ commit_lock' = None
                   /\ DOMAIN f = TxFields /\ f.pc = "done"
      BY <2>1, Zenon DEF Cuts
    <3> HIDE DEF by
    <3> QED BY <3>1, <3>2, Zenon DEF KvInv, KvTypeOK
  <2>2. CASE op.kind # "refuse"
    BY <2>2, Zenon DEF Cuts, KvInv, KvTypeOK
  <2> QED BY <2>1, <2>2, Zenon
<1>7. KvTypeOK'
  <2>1. leader' \in BOOLEAN
    BY <1>1, <1>5, Zenon
  <2>2. commit_idx' \in 0 .. Len(ledger') /\ committable' \subseteq 1 .. Len(ledger')
    <3>1. commit_idx \in Nat /\ committable \subseteq 1 .. Len(ledger)
      BY <1>2 DEF KvInv, KvTypeOK
    <3>2. commit_idx \in 0 .. op.idx
      BY <1>2, <3>1
    <3>3. \A i \in committable' : i \in 1 .. op.idx
      BY <1>1, <1>2, <3>1
    <3> QED BY <1>1, <1>2, <3>2, <3>3, Zenon
  <2>3. op' \in [kind : Kinds, stage : Stages, idx : Nat, by : Txs \cup Remote \cup {None}]
    BY <1>1, Zenon DEF NoOp, Kinds, Stages
  <2> QED BY <1>1, <1>2, <1>6, <2>1, <2>2, <2>3, Zenon DEF KvInv, KvTypeOK
<1>8. Locking'
  BY <1>6, NoneAssumption DEF KvInv, Locking, Holds
<1>9. Calls'
  BY <1>1, <1>3, Zenon DEF Calls
<1>10. Positions'
  <2>1. \A t \in Txs : tx'[t].pc = "replicated" <=> tx[t].pc = "replicated"
    BY <1>6, Zenon
  <2>2. \A t \in Txs : tx'[t].pc = "replicated" => tx'[t] = tx[t]
    BY <1>6, Zenon
  <2> QED BY <1>1, <1>4, <2>1, <2>2, Zenon DEF KvInv, Positions
<1>11. TreeMatches' /\ TermsMatch'
  <2>1. \A i \in 1 .. op.idx : Settled(i)' => Settled(i)
    <3>1. \A i \in 1 .. op.idx : i <= op.idx
      BY <1>2
    <3>2. leader' => leader \/ op.kind = "lead"
      BY <1>1, Zenon
    <3>3. commit_idx' = commit_idx /\ committable' \subseteq committable
      BY <1>1, Zenon
    <3> QED BY <1>3, <3>1, <3>2, <3>3, Zenon DEF Settled
  <2>2. \A i \in 1 .. op.idx : Settled(i)' => i <= Len(history) /\ history[i] = ledger'[i].tx
    BY <1>2, <1>4, <2>1, Zenon DEF KvInv, TreeMatches
  <2> QED BY <1>1, <1>3, <1>4, <2>2, Zenon DEF KvInv, TreeMatches, TermsMatch
<1>12. RootsMatch'
  <2> SUFFICES ASSUME NEW i \in 2 .. op.idx, ledger'[i].committable
               PROVE  /\ IsSeq(ledger'[i].root) /\ Len(ledger'[i].root) = i - 1
                      /\ \A k \in 1 .. i - 1 : ledger'[i].root[k] = ledger'[k].tx
    BY <1>2, Zenon DEF RootsMatch
  <2>1. i \in 1 .. op.idx /\ i \in 2 .. Len(ledger) /\ \A k \in 1 .. i - 1 : k \in 1 .. op.idx
    BY <1>2
  <2>2. ledger'[i] = ledger[i] /\ \A k \in 1 .. i - 1 : ledger'[k] = ledger[k]
    BY <1>2, <2>1, Zenon
  <2> QED BY <2>1, <2>2 DEF KvInv, RootsMatch
<1>13. CASE op.kind = "lead"
  <2>1. Quiet /\ version = op.idx /\ Len(history) = op.idx /\ tx' = tx
    BY <1>1, <1>13, Zenon DEF KvInv, Calls, TermsMatch, TreeMatches, Settled, Cuts
  <2>2. last_replicated = op.idx
    BY <1>4, <2>1, Zenon DEF KvInv, Positions, Quiet
  <2>3. LeaderKnows'
    BY <1>1, <1>2, <2>1, Zenon DEF LeaderKnows, Quiet
  <2>4. last_replicated' + 1 .. version' = {}
    BY <1>1, <1>2, <2>1, <2>2
  <2>5. Holeless'
    BY <2>4, Zenon DEF Holeless, Leading, Delivered
  <2> QED BY <1>7, <1>8, <1>9, <1>10, <1>11, <1>12, <2>3, <2>5, Zenon DEF KvInv
<1>14. CASE op.kind # "lead"
  <2>1. ~leader'
    BY <1>1, <1>14, Zenon DEF KvInv, Calls
  <2> QED BY <1>7, <1>8, <1>9, <1>10, <1>11, <1>12, <2>1, Zenon
             DEF KvInv, LeaderKnows, Holeless, Leading, Delivered
<1> QED BY <1>13, <1>14, Zenon

\* An entry of another primary: ledger, version and tree grow together.
Follows(e) ==
  /\ op.stage = "applied" /\ op' = NoOp
  /\ e.tx = op.by /\ e.committable = FALSE
  /\ version' = op.idx + 1 /\ last_replicated' = op.idx + 1
  /\ history' = Append(history, op.by) /\ ledger' = Append(ledger, e)
  /\ UNCHANGED <<rollback_count, term_of_next_version, pending_txs, commit_lock, tx, view,
                 leader, commit_idx, committable>>

\* That step keeps the invariant.
LEMMA FollowStep ==
  ASSUME KvInv, NEW e, Follows(e)
  PROVE  KvInv'
<1> DEFINE v == op.idx + 1
<1>1. /\ op.stage = "applied" /\ op' = NoOp
      /\ version' = v /\ last_replicated' = v
      /\ history' = Append(history, op.by) /\ ledger' = Append(ledger, e)
      /\ UNCHANGED <<rollback_count, term_of_next_version, pending_txs, commit_lock, tx, view,
                     leader, commit_idx, committable>>
  BY Zenon DEF Follows
<1>2. e.tx = op.by /\ e.committable = FALSE
  BY DEF Follows
<1>3. op.kind = "entry" /\ ~leader /\ op.idx = Len(ledger)
  BY <1>1, Zenon DEF KvInv, Calls
<1>4. Agreed = op.idx
  BY <1>1, Zenon DEF Agreed
<1>5. IsSeq(history) /\ IsSeq(ledger) /\ op.idx \in Nat
  BY Zenon DEF KvInv, KvTypeOK
<1>6. /\ IsSeq(ledger') /\ Len(ledger') = v /\ ledger'[v] = e
      /\ \A i \in 1 .. op.idx : ledger'[i] = ledger[i]
  BY <1>1, <1>3, <1>5, AppendSeq
<1>7. /\ IsSeq(history') /\ Len(history') = Len(history) + 1 /\ Len(history) \in Nat
      /\ \A i \in 1 .. Len(history) : history'[i] = history[i]
  BY <1>1, <1>5, AppendSeq, SeqFacts
<1>8. op'.stage = "none" /\ op'.kind = "none" /\ Agreed' = v
  BY <1>1, <1>6, Zenon DEF NoOp, Agreed
<1>9. KvTypeOK'
  <2>1. op' \in [kind : Kinds, stage : Stages, idx : Nat, by : Txs \cup Remote \cup {None}]
    BY <1>1, Zenon DEF NoOp, Kinds, Stages
  <2>2. commit_idx' \in 0 .. Len(ledger') /\ committable' \subseteq 1 .. Len(ledger')
    BY <1>1, <1>3, <1>5, <1>6 DEF KvInv, KvTypeOK
  <2>3. version' \in Nat /\ last_replicated' \in Nat
    BY <1>1, <1>5
  <2> QED BY <1>1, <1>6, <1>7, <2>1, <2>2, <2>3, Zenon DEF KvInv, KvTypeOK
<1>10. Locking' /\ Calls'
  BY <1>1, <1>8, Zenon DEF KvInv, Locking, Holds, Calls
<1>11. Positions'
  <2>1. ASSUME NEW t \in Txs, tx[t].pc = "replicated"
        PROVE  /\ rollback_count >= tx[t].seen[2]
               /\ rollback_count > tx[t].seen[2] \/ v > tx[t].seen[1]
    <3>1. tx[t].seen[1] \in Nat /\ tx[t].seen[2] \in Nat /\ Len(tx[t].batch) \in Nat
      BY <2>1, SeqFacts, Zenon DEF KvInv, Locking, Holds
    <3>2. CASE rollback_count = tx[t].seen[2] /\ tx[t].seen[1] + Len(tx[t].batch) = Agreed
      <4>1. \A n, k \in Nat : n + k = op.idx => v > n
        BY <1>5
      <4>2. \A n \in Nat : n >= n
        OBVIOUS
      <4> HIDE DEF v
      <4> QED BY <1>4, <3>1, <3>2, <4>1, <4>2, Zenon
    <3>3. CASE /\ rollback_count >= tx[t].seen[2] /\ last_replicated = Agreed
               /\ rollback_count > tx[t].seen[2] \/ last_replicated > tx[t].seen[1]
      <4>1. op.idx > tx[t].seen[1] => v > tx[t].seen[1]
        BY <1>5, <3>1
      <4> QED BY <1>4, <3>3, <4>1, Zenon
    <3> QED BY <2>1, <3>2, <3>3, Zenon DEF KvInv, Positions
  <2>2. v >= v
    BY <1>5
  <2> HIDE DEF v
  <2> QED BY <1>1, <1>8, <2>1, <2>2, Zenon DEF Positions
<1>12. TreeMatches' /\ TermsMatch'
  <2>1. ASSUME NEW i \in 1 .. v, Settled(i)'
        PROVE  i \in 1 .. op.idx /\ Settled(i)
    <3>1. commit_idx \in 0 .. op.idx /\ committable \subseteq 1 .. op.idx
      BY <1>3, Zenon DEF KvInv, KvTypeOK
    <3>2. i <= commit_idx \/ \E c \in committable : i <= c
      BY <1>1, <1>3, <1>8, <2>1, Zenon DEF Settled
    <3> QED BY <1>5, <3>1, <3>2 DEF Settled
  <2>2. ASSUME NEW i \in 1 .. v, Settled(i)'
        PROVE  i <= Len(history') /\ history'[i] = ledger'[i].tx
    <3>1. i \in 1 .. op.idx /\ i <= Len(history) /\ history[i] = ledger[i].tx
      BY <1>4, <2>1, <2>2, Zenon DEF KvInv, TreeMatches
    <3>2. i \in 1 .. Len(history) /\ i <= Len(history')
      BY <1>7, <3>1
    <3> QED BY <1>6, <1>7, <3>1, <3>2, Zenon
  <2>3. term_of_next_version = view
    BY <1>1, Zenon DEF KvInv, TermsMatch
  <2>4. TreeMatches'
    BY <1>8, <2>2, Zenon DEF TreeMatches
  <2> QED BY <1>1, <1>8, <2>3, <2>4, Zenon DEF TermsMatch
<1>13. RootsMatch'
  <2> SUFFICES ASSUME NEW i \in 2 .. v, ledger'[i].committable
               PROVE  /\ IsSeq(ledger'[i].root) /\ Len(ledger'[i].root) = i - 1
                      /\ \A k \in 1 .. i - 1 : ledger'[i].root[k] = ledger'[k].tx
    BY <1>6, Zenon DEF RootsMatch
  <2>1. i \in 1 .. op.idx /\ i \in 2 .. Len(ledger) /\ \A k \in 1 .. i - 1 : k \in 1 .. op.idx
    BY <1>2, <1>3, <1>5, <1>6
  <2>2. ledger'[i] = ledger[i] /\ \A k \in 1 .. i - 1 : ledger'[k] = ledger[k]
    BY <1>6, <2>1, Zenon
  <2>3. /\ IsSeq(ledger[i].root) /\ Len(ledger[i].root) = i - 1
        /\ \A k \in 1 .. i - 1 : ledger[i].root[k] = ledger[k].tx
    BY <2>1, <2>2, Zenon DEF KvInv, RootsMatch
  <2> QED BY <2>2, <2>3, Zenon
<1>14. LeaderKnows' /\ Holeless'
  BY <1>1, <1>3, Zenon DEF LeaderKnows, Holeless, Leading, Delivered
<1> QED BY <1>9, <1>10, <1>11, <1>12, <1>13, <1>14, Zenon DEF KvInv

\* The invariant depends on the variables only.
LEMMA IdleStep ==
  ASSUME KvInv, UNCHANGED vars
  PROVE  KvInv'
<1> USE DEF vars, store, raft, locks
<1>1. KvTypeOK' /\ Locking' /\ Calls'
  BY DEF KvInv, KvTypeOK, Locking, Holds, Calls, Quiet
<1>2. Agreed' = Agreed
  BY DEF Agreed
<1>3. Positions' /\ TreeMatches' /\ TermsMatch' /\ RootsMatch'
  BY <1>2, Zenon DEF KvInv, Positions, TreeMatches, Settled, TermsMatch, RootsMatch
<1>4. LeaderKnows'
  BY ZenonT(40) DEF KvInv, LeaderKnows, Leading, Continues
<1>5. Holeless'
  BY Zenon DEF KvInv, Holeless, Leading, Delivered
<1> QED BY <1>1, <1>3, <1>4, <1>5, Zenon DEF KvInv

\* The tree over the first entries, as RootsMatch has it, is the one the
\* property names.
LEMMA RootsAreOfPrefixes ==
  ASSUME KvInv
  PROVE  SignedRootMatches
<1> SUFFICES ASSUME NEW i \in DOMAIN ledger, ledger[i].committable, i > 1
             PROVE  ledger[i].root = Names(SubSeq(ledger, 1, i - 1))
  BY DEF SignedRootMatches
<1> DEFINE p == SubSeq(ledger, 1, i - 1)
<1>1. IsSeq(ledger) /\ Len(ledger) \in Nat /\ DOMAIN ledger = 1 .. Len(ledger)
  BY SeqFacts, Zenon DEF KvInv, KvTypeOK
<1>2. i \in 2 .. Len(ledger) /\ i - 1 \in 0 .. Len(ledger)
  BY <1>1
<1>3. IsSeq(p) /\ Len(p) = i - 1 /\ \A k \in 1 .. i - 1 : p[k] = ledger[k]
  BY <1>1, <1>2, PrefixSeq, Zenon
<1> HIDE DEF p
<1>4. IsSeq(Names(p)) /\ Len(Names(p)) = i - 1 /\ \A k \in 1 .. i - 1 : Names(p)[k] = p[k].tx
  BY <1>3, NamesFacts, Zenon
<1>5. /\ IsSeq(ledger[i].root) /\ Len(ledger[i].root) = i - 1
      /\ \A k \in 1 .. i - 1 : ledger[i].root[k] = ledger[k].tx
  BY <1>2, Zenon DEF KvInv, RootsMatch
<1>6. \A k \in 1 .. i - 1 : ledger[i].root[k] = Names(p)[k]
  BY <1>3, <1>4, <1>5, Zenon
<1>7. ledger[i].root = Names(p)
  BY <1>4, <1>5, <1>6, EqualSeqs, Zenon
<1> QED BY <1>7, Zenon DEF p

-----------------------------------------------------------------------------

\* A bounded set of numbers has a maximum, and Max is it.
LEMMA MaxBounded ==
  ASSUME NEW N \in Nat, NEW S \in SUBSET (0 .. N), S # {}
  PROVE  Max(S) \in S /\ \A x \in S : x <= Max(S)
<1> DEFINE T == {N - x : x \in S}
           R == {p \in Nat \X Nat : p[1] < p[2]}
<1>1. T \subseteq Nat /\ T # {}
  <2>1. \A x \in S : N - x \in Nat
    OBVIOUS
  <2> QED BY <2>1, Zenon
<1>2. IsWellFoundedOn(R, Nat)
  BY NatLessThanWellFounded DEF OpToRel
<1> HIDE DEF T
<1>3. PICK y \in T : \A z \in T : y <= z
  <2>1. PICK y \in T : \A z \in T : ~(<<z, y>> \in R)
    <3> HIDE DEF R
    <3> QED BY <1>1, <1>2, WFMin, Zenon
  <2>2. \A z \in T : ~(z < y)
    BY <1>1, <2>1, Zenon
  <2> QED BY <1>1, <2>2
<1> USE DEF T
<1>4. PICK m \in S : y = N - m
  OBVIOUS
<1>5. \A x \in S : x <= m
  <2> SUFFICES ASSUME NEW x \in S PROVE x <= m
    OBVIOUS
  <2>1. N - x \in T
    OBVIOUS
  <2>2. m \in 0 .. N /\ x \in 0 .. N /\ N - m <= N - x
    BY <1>3, <1>4, <2>1, Zenon
  <2> QED BY <2>2
<1> QED BY <1>5, Zenon DEF Max

\* last_committable_index lies between what is committed and the end of the ledger.
LEMMA CommittableIndex ==
  ASSUME KvTypeOK
  PROVE  /\ last_committable_index \in commit_idx .. Len(ledger)
         /\ last_committable_index \in {commit_idx} \cup committable
<1>1. Len(ledger) \in Nat
  BY SeqFacts, Zenon DEF KvTypeOK
<1>2. {commit_idx} \cup committable \in SUBSET (0 .. Len(ledger))
  BY <1>1 DEF KvTypeOK
<1> DEFINE S == {commit_idx} \cup committable
<1>3. Max(S) \in S /\ \A x \in S : x <= Max(S)
  <2> HIDE DEF S
  <2>1. S \in SUBSET (0 .. Len(ledger)) /\ S # {}
    BY <1>2 DEF S
  <2> QED BY <1>1, <2>1, MaxBounded, Zenon
<1>4. Max(S) \in 0 .. Len(ledger) /\ commit_idx <= Max(S)
  BY <1>1, <1>2, <1>3, Zenon
<1> QED BY <1>1, <1>3, <1>4 DEF last_committable_index, KvTypeOK

-----------------------------------------------------------------------------
(* The steps of a transaction. *)

\* Taking the read version and the commit view keeps the invariant.
LEMMA BeginStep ==
  ASSUME KvInv, LeadsAtRest', NEW t \in Txs, Begin(t)
  PROVE  KvInv'
<1> DEFINE f == [tx[t] EXCEPT !.pc = "open", !.read_version = version,
                              !.commit_view = term_of_next_version]
<1>1. DOMAIN tx[t] = TxFields
  BY Zenon DEF KvInv, KvTypeOK
<1>2. DOMAIN f = TxFields /\ f.pc = "open" /\ f.commit_view = term_of_next_version
  BY <1>1 DEF TxFields
<1>3. op.kind # "lead"
  BY DEF Begin, LeadsAtRest
<1> QED BY <1>2, <1>3, UnappliedStep, Zenon DEF Begin, Set, locks

\* What Retry and Done leave.
LEMMA Finished ==
  ASSUME NEW t \in Txs, NEW r
  PROVE  /\ DOMAIN Retry(t) = TxFields /\ Retry(t).pc \in {"idle", "done"}
         /\ DOMAIN Done(t, r) = TxFields /\ Done(t, r).pc = "done"
BY DEF Retry, Done, Idle, TxFields

\* Opening a map, or giving up the attempt, keeps the invariant.
LEMMA OpenStep ==
  ASSUME KvInv, NEW t \in Txs, Open(t)
  PROVE  KvInv'
<1>1. DOMAIN tx[t] = TxFields /\ tx[t].pc = "open"
  BY Zenon DEF KvInv, KvTypeOK, Open
<1>2. UNCHANGED <<store, compacted, maps, commit_lock, history, raft, op>>
  BY Zenon DEF Open, locks
<1>3. PICK f : /\ tx' = [tx EXCEPT ![t] = f]
               /\ f = Retry(t) \/ \E c : f = AddChanges(t, c)
  BY Zenon DEF Open, Handle, Set
<1>4. \A c : /\ DOMAIN AddChanges(t, c) = TxFields /\ AddChanges(t, c).pc = "open"
             /\ AddChanges(t, c).commit_view = tx[t].commit_view
  BY <1>1, Zenon DEF AddChanges, TxFields
<1>5. /\ DOMAIN f = TxFields /\ f.pc \in {"idle", "open", "done"}
      /\ f.pc = "open" => f.commit_view = tx[t].commit_view
  BY <1>3, <1>4, Finished, Zenon
<1> QED BY <1>1, <1>2, <1>3, <1>5, UnappliedStep, Zenon

\* Checking the read set keeps the invariant, conflict or not.
LEMMA PrepareStep ==
  ASSUME KvInv, NEW t \in Txs, Prepare(t)
  PROVE  KvInv'
<1>1. DOMAIN tx[t] = TxFields /\ tx[t].pc = "open"
  BY Zenon DEF KvInv, KvTypeOK, Prepare
<1>2. PICK f : /\ tx' = [tx EXCEPT ![t] = f]
               /\ \/ f = [tx[t] EXCEPT !.pc = "prepared"]
                  \/ f = Done(t, "success") \/ f = Retry(t)
  BY Zenon DEF Prepare, Set
<1>3. /\ DOMAIN f = TxFields /\ f.pc \in {"prepared", "done", "idle"}
      /\ f.pc = "prepared" => f.commit_view = tx[t].commit_view
  BY <1>1, <1>2, Finished DEF TxFields
<1> QED BY <1>1, <1>2, <1>3, UnappliedStep, Zenon DEF Prepare

\* next_version and next_txid keep the invariant: the new version belongs to the
\* transaction that took it.
LEMMA ApplyStep ==
  ASSUME KvInv, NEW t \in Txs, Apply(t) \/ NextTxid(t)
  PROVE  KvInv'
<1>1. DOMAIN tx[t] = TxFields
  BY Zenon DEF KvInv, KvTypeOK
<1>2. CASE Apply(t)
  <2> DEFINE f == [tx[t] EXCEPT !.pc = "applied", !.version = version + 1]
  <2>1. DOMAIN f = TxFields /\ f.pc = "applied" /\ f.version = version + 1
        /\ f.commit_view = tx[t].commit_view
    BY <1>1 DEF TxFields
  <2>2. tx' = [tx EXCEPT ![t] = f] /\ tx[t].pc = "prepared"
    BY <1>2, Zenon DEF Apply, Set
  <2> HIDE DEF f
  <2> QED BY <1>2, <2>1, <2>2, VersionStep, Zenon DEF Apply
<1>3. CASE NextTxid(t)
  <2> DEFINE f == [tx[t] EXCEPT !.pc = "applied", !.version = version + 1,
                                !.commit_view = term_of_next_version]
  <2>1. DOMAIN f = TxFields /\ f.pc = "applied" /\ f.version = version + 1
        /\ f.commit_view = term_of_next_version
    BY <1>1 DEF TxFields
  <2>2. tx' = [tx EXCEPT ![t] = f] /\ tx[t].pc = "idle" /\ leader
    BY <1>3, Zenon DEF NextTxid, Set
  <2> HIDE DEF f
  <2> QED BY <1>3, <2>1, <2>2, VersionStep, Zenon DEF NextTxid, locks
<1> QED BY <1>2, <1>3, Zenon

\* The entries that Store::commit takes from the queue are a batch.
LEMMA BatchFacts ==
  ASSUME KvTypeOK, NEW Q, Bounded(Q),
         \A p \in Q : p.version \in Nat /\ DOMAIN p.entry = EntryFields
  PROVE  GoodBatch(Q, Batch(Q))
<1> DEFINE S == {n \in {p.version - last_replicated : p \in Q} \cap Nat :
                   \A j \in 1 .. n : \E p \in Q : p.version = last_replicated + j}
           n == Contiguous(Q)
           B == Batch(Q)
           W(j) == Waiting(Q, j)
           r(j) == history \o [i \in 1 .. j - 1 |-> W(i).tx]
<1>1. PICK N \in Nat : \A p \in Q : p.version <= N
  BY DEF Bounded
<1>2. n \in {0} \cup S
  <2>1. {0} \cup S \in SUBSET (0 .. N) /\ {0} \cup S # {}
    <3>1. last_replicated \in Nat
      BY Zenon DEF KvTypeOK
    <3> QED BY <1>1, <3>1
  <2> HIDE DEF S
  <2>2. Max({0} \cup S) \in {0} \cup S
    BY <1>1, <2>1, MaxBounded, Zenon
  <2> QED BY <2>2, Zenon DEF Contiguous, S
<1>3. n \in Nat /\ \A j \in 1 .. n : \E p \in Q : p.version = last_replicated + j
  BY <1>1, <1>2
<1>4. \A j \in 1 .. n : DOMAIN W(j) = EntryFields
  BY <1>3, Zenon DEF Waiting
<1>5. B = [j \in 1 .. n |-> [W(j) EXCEPT !.root = r(j)]]
  BY DEF Batch
<1> HIDE DEF n, B, W
<1>6. IsSeq(B) /\ Len(B) = n
  <2>1. B \in [1 .. n -> {B[j] : j \in 1 .. n}]
    BY <1>5, Zenon
  <2> QED BY <1>3, <2>1, MakeSeq, Zenon
<1>7. \A j \in 1 .. n : DOMAIN B[j] = EntryFields /\ B[j].root = r(j) /\ B[j].tx = W(j).tx
  BY <1>4, <1>5, Zenon DEF EntryFields
<1>8. \A j \in 1 .. n : /\ IsSeq(r(j)) /\ Len(r(j)) = Len(history) + j - 1
                        /\ \A k \in 1 .. Len(history) : r(j)[k] = history[k]
                        /\ \A k \in 1 .. j - 1 : r(j)[Len(history) + k] = W(k).tx
  <2> SUFFICES ASSUME NEW j \in 1 .. n
               PROVE  /\ IsSeq(r(j)) /\ Len(r(j)) = Len(history) + j - 1
                      /\ \A k \in 1 .. Len(history) : r(j)[k] = history[k]
                      /\ \A k \in 1 .. j - 1 : r(j)[Len(history) + k] = W(k).tx
    BY Zenon
  <2> DEFINE q == [i \in 1 .. j - 1 |-> W(i).tx]
  <2>1. j - 1 \in Nat /\ q \in [1 .. j - 1 -> {W(i).tx : i \in 1 .. j - 1}]
    BY <1>3
  <2>2. IsSeq(q) /\ Len(q) = j - 1 /\ \A k \in 1 .. j - 1 : q[k] = W(k).tx
    <3>1. \A k \in 1 .. j - 1 : q[k] = W(k).tx
      OBVIOUS
    <3> HIDE DEF q
    <3> QED BY <2>1, <3>1, MakeSeq, Zenon
  <2>3. IsSeq(history) /\ Len(history) \in Nat
    BY SeqFacts, Zenon DEF KvTypeOK
  <2> HIDE DEF q
  <2>4. /\ IsSeq(history \o q) /\ Len(history \o q) = Len(history) + (j - 1)
        /\ \A k \in 1 .. Len(history) : (history \o q)[k] = history[k]
        /\ \A k \in 1 .. j - 1 : (history \o q)[Len(history) + k] = q[k]
    BY <2>2, <2>3, ConcatSeq
  <2>5. r(j) = history \o q
    BY DEF q
  <2> QED BY <1>3, <2>2, <2>3, <2>4, <2>5, Zenon
<1> HIDE DEF r
<1>9. \A j \in 1 .. n : \A k \in 1 .. j - 1 : B[k].tx = W(k).tx
  BY <1>3, <1>7
<1>10. \A j \in 1 .. n :
         /\ \E p \in Q : p.version = last_replicated + j
         /\ DOMAIN B[j] = EntryFields
         /\ IsSeq(B[j].root)
         /\ Len(B[j].root) = Len(history) + j - 1
         /\ \A k \in 1 .. Len(history) : B[j].root[k] = history[k]
         /\ \A k \in 1 .. j - 1 : B[j].root[Len(history) + k] = B[k].tx
  BY <1>3, <1>7, <1>8, <1>9, ZenonT(40)
<1>11. GoodBatch(Q, B)
  BY <1>6, <1>10, Zenon DEF GoodBatch
<1> QED BY <1>11, Zenon DEF B

\* The queue with the transaction's own entry.
Queue(t) ==
  IF \E p \in pending_txs : p.version = tx[t].version THEN pending_txs
  ELSE pending_txs \cup {[version |-> tx[t].version, entry |-> Entry(t)]}

\* What pending_txs holds once the transaction that commits has been entered.
LEMMA QueueFacts ==
  ASSUME KvInv, NEW t \in Txs, tx[t].pc = "applied"
  PROVE  GoodQueue(t, Queue(t))
<1> DEFINE e == Entry(t)
           q == [version |-> tx[t].version, entry |-> e]
<1>1. DOMAIN e = EntryFields
  BY Zenon DEF Entry, EntryFields
<1> HIDE DEF e
<1>2. tx[t].version \in Nat /\ Bounded(pending_txs)
      /\ \A p \in pending_txs : p.version \in Nat /\ DOMAIN p.entry = EntryFields
  BY Zenon DEF KvInv, KvTypeOK
<1>3. q.version = tx[t].version /\ q.entry = e
  OBVIOUS
<1>4. Bounded(pending_txs \cup {q})
  <2>1. PICK N \in Nat : \A p \in pending_txs : p.version <= N
    BY <1>2, Zenon DEF Bounded
  <2>2. \A p \in pending_txs \cup {q} : p.version <= N + tx[t].version
    BY <1>2, <1>3, <2>1
  <2> QED BY <1>2, <2>1, <2>2 DEF Bounded
<1>5. \/ Queue(t) = pending_txs /\ \E p \in pending_txs : p.version = tx[t].version
      \/ Queue(t) = pending_txs \cup {q}
  BY Zenon DEF Queue, e
<1> HIDE DEF q
<1> QED BY <1>1, <1>2, <1>3, <1>4, <1>5, Zenon DEF GoodQueue

\* Store::commit up to the call of the consensus keeps the invariant.
LEMMA StoreCommitStep ==
  ASSUME KvInv, NEW t \in Txs, StoreCommit(t)
  PROVE  KvInv'
<1> DEFINE B == Batch(Queue(t))
<1>1. tx[t].pc = "applied" /\ commit_lock = None /\ DOMAIN tx[t] = TxFields
  BY Zenon DEF StoreCommit, KvInv, KvTypeOK
<1>2. UNCHANGED <<version, last_replicated, rollback_count, term_of_last_version,
                  term_of_next_version, compacted, maps, raft, op>>
  BY Zenon DEF StoreCommit
<1>5. GoodQueue(t, Queue(t)) /\ GoodBatch(Queue(t), B)
  BY <1>1, QueueFacts, BatchFacts, Zenon DEF KvInv, GoodQueue
<1>3. CASE tx[t].commit_view # term_of_next_version /\ leader
  <2>1. ~Leading
    BY <1>1, <1>3, AppliedFacts, Zenon
  <2>2. tx' = [tx EXCEPT ![t] = Done(t, "no replicate")]
        /\ UNCHANGED <<pending_txs, history, commit_lock>>
    BY <1>3, Zenon DEF StoreCommit, Set
  <2> QED BY <1>1, <1>2, <2>1, <2>2, Finished, RefusedStep, Zenon DEF store
<1>4. CASE ~(tx[t].commit_view # term_of_next_version /\ leader)
  <2>1. /\ pending_txs' = {p \in Queue(t) :
                            p.version \notin last_replicated + 1 .. last_replicated + Len(B)}
        /\ history' = Grown(history, B)
        /\ IF B = <<>>
           THEN Set(t, Done(t, "success")) /\ UNCHANGED commit_lock
           ELSE /\ Set(t, [tx[t] EXCEPT
                            !.pc = "replicate", !.batch = B,
                            !.seen = <<last_replicated, rollback_count,
                                       term_of_next_version>>])
                /\ commit_lock' = t
    BY <1>4, Zenon DEF StoreCommit, Queue, Grown, LeftWaiting
  <2>2. CASE B = <<>>
    <3>1. Len(B) = 0 /\ tx' = [tx EXCEPT ![t] = Done(t, "success")] /\ commit_lock' = None
      BY <1>1, <2>1, <2>2, Zenon DEF Set
    <3> HIDE DEF B
    <3>2. Queued(t, Done(t, "success"), Queue(t), B)
      BY <1>1, <1>2, <1>5, <2>1, <3>1, Finished, Zenon DEF Queued
    <3> QED BY <3>2, QueuedStep, Zenon
  <2>3. CASE B # <<>>
    <3> DEFINE f == [tx[t] EXCEPT !.pc = "replicate", !.batch = B,
                       !.seen = <<last_replicated, rollback_count, term_of_next_version>>]
    <3>1. tx' = [tx EXCEPT ![t] = f] /\ commit_lock' = t
      BY <2>1, <2>3, Zenon DEF Set
    <3> HIDE DEF B
    <3>2. /\ DOMAIN f = TxFields /\ f.pc = "replicate" /\ f.batch = B
          /\ f.seen = <<last_replicated, rollback_count, term_of_next_version>>
          /\ f.commit_view = tx[t].commit_view
      BY <1>1, Zenon DEF TxFields
    <3> HIDE DEF f
    <3>3. Queued(t, f, Queue(t), B)
      BY <1>1, <1>2, <1>5, <2>1, <3>1, <3>2, Zenon DEF Queued
    <3> QED BY <3>3, QueuedStep, Zenon
  <2> QED BY <2>2, <2>3, Zenon
<1> QED BY <1>3, <1>4, Zenon

\* Aft::replicate keeps the invariant, whether it appends or rolls back.
LEMMA ReplicateStep ==
  ASSUME KvInv, NEW t \in Txs, Replicate(t)
  PROVE  KvInv'
<1> DEFINE b == tx[t].batch
<1>1. /\ tx[t].pc = "replicate" /\ op = NoOp /\ DOMAIN tx[t] = TxFields
      /\ UNCHANGED <<store, history, view, leader, commit_idx>>
  BY Zenon DEF Replicate, KvInv, KvTypeOK
<1>2. CASE ~leader
  <2>1. /\ op' = Call("refuse", Len(ledger), t)
        /\ UNCHANGED <<ledger, committable, tx, commit_lock>>
    BY <1>2, Zenon DEF Replicate
  <2>2. Len(ledger) \in commit_idx .. Len(ledger)
    BY SeqFacts DEF KvInv, KvTypeOK
  <2> QED BY <1>1, <1>2, <2>1, <2>2, CallStep, Zenon DEF Kinds
<1>3. CASE leader
  <2>1. Leading
    BY <1>1, <1>3, Zenon DEF Leading
  <2>2. tx[t].seen[3] = view /\ tx[t].seen[1] = Len(ledger) /\ Holds(t)
    BY <1>1, <2>1, ReplicateFacts, Zenon DEF Continues
  <2> DEFINE f == [tx[t] EXCEPT !.pc = "replicated"]
             D == [i \in DOMAIN b |-> [b[i] EXCEPT !.term = view]]
  <2>3. /\ ledger' = ledger \o D
        /\ committable' = committable \cup {Len(ledger) + i : i \in {j \in DOMAIN D : D[j].committable}}
        /\ tx' = [tx EXCEPT ![t] = f] /\ UNCHANGED <<op, commit_lock>>
    BY <1>3, <2>2, Zenon DEF Replicate, Set
  <2>4. ledger' = Extended(ledger, b)
    BY <2>3, Zenon DEF Extended, Dated
  <2>5. Len(b) \in Nat /\ DOMAIN D = 1 .. Len(b) /\ Len(ledger) \in Nat
    BY <2>2, SeqFacts, Zenon DEF Holds, KvInv, KvTypeOK
  <2> HIDE DEF D
  <2>6. committable' \subseteq committable \cup Len(ledger) + 1 .. Len(ledger) + Len(b)
    BY <2>3, <2>5
  <2>7. /\ DOMAIN f = TxFields /\ f.pc = "replicated" /\ f.batch = b /\ f.seen = tx[t].seen
        /\ f.commit_view = tx[t].commit_view
    BY <1>1, Zenon DEF TxFields
  <2> HIDE DEF f
  <2>8. Appends(t, f)
    BY <1>1, <2>1, <2>3, <2>4, <2>6, <2>7, Zenon DEF Appends
  <2> QED BY <2>8, AppendStep, Zenon
<1> QED BY <1>2, <1>3, Zenon

\* The end of Store::commit keeps the invariant.
LEMMA ReplicatedStep ==
  ASSUME KvInv, NEW t \in Txs, Replicated(t)
  PROVE  KvInv'
<1>1. Returns(t, Done(t, "success"))
  BY Finished, Zenon DEF Replicated, Set, Returns
<1> QED BY <1>1, ReturnStep, Zenon

-----------------------------------------------------------------------------
(* The calls of the consensus. *)

\* The consensus begins a call into the store.
LEMMA StartStep ==
  ASSUME KvInv, LeadsAtRest',
         \/ become_leader \/ \E v \in view .. MaxView : become_follower(v)
         \/ \E i \in commit_idx .. Len(ledger) - 1 : CutBack(i)
         \/ \E r \in Remote : fill_maps(r)
  PROVE  KvInv'
<1>1. /\ last_committable_index \in commit_idx .. Len(ledger)
      /\ last_committable_index \in {commit_idx} \cup committable
  BY CommittableIndex, Zenon DEF KvInv
<1>2. Len(ledger) \in Nat /\ commit_idx \in 0 .. Len(ledger)
  BY SeqFacts, Zenon DEF KvInv, KvTypeOK
<1> HIDE DEF last_committable_index
<1> USE DEF Kinds, locks
<1>3. CASE become_leader
  <2> DEFINE idx == last_committable_index
  <2>1. /\ op = NoOp /\ op' = Call("lead", idx, None) /\ ~leader /\ committable' = {}
        /\ UNCHANGED <<store, commit_lock, history, tx, ledger, leader, commit_idx>>
    BY <1>3, Zenon DEF become_leader
  <2>2. Quiet
    BY <1>3 DEF become_leader, LeadsAtRest
  <2> QED BY <1>1, <2>1, <2>2, CallStep, Zenon
<1>4. CASE \E v \in view .. MaxView : become_follower(v)
  <2> DEFINE idx == last_committable_index
  <2>1. /\ op = NoOp /\ op' = Call("follow", idx, None)
        /\ UNCHANGED <<store, commit_lock, history, tx, ledger, leader, commit_idx, committable>>
    BY <1>4, Zenon DEF become_follower
  <2> QED BY <1>1, <2>1, CallStep, Zenon
<1>5. CASE \E i \in commit_idx .. Len(ledger) - 1 : CutBack(i)
  <2>1. PICK i \in commit_idx .. Len(ledger) - 1 : CutBack(i)
    BY <1>5, Zenon
  <2>2. /\ op = NoOp /\ op' = Call("cut", i, None) /\ ~leader
        /\ UNCHANGED <<store, commit_lock, history, tx, ledger, view, leader, commit_idx, committable>>
    BY <2>1, Zenon DEF CutBack
  <2>3. i \in commit_idx .. Len(ledger)
    BY <1>2
  <2> QED BY <2>2, <2>3, CallStep, Zenon
<1>6. CASE \E r \in Remote : fill_maps(r)
  <2>1. PICK r \in Remote : fill_maps(r)
    BY <1>6, Zenon
  <2>2. /\ op = NoOp /\ op' = Call("entry", Len(ledger), r) /\ ~leader
        /\ UNCHANGED <<store, commit_lock, history, tx, ledger, view, leader, commit_idx, committable>>
    BY <2>1, Zenon DEF fill_maps
  <2>3. Len(ledger) \in commit_idx .. Len(ledger)
    BY <1>2
  <2> QED BY <2>2, <2>3, CallStep, Zenon
<1> QED BY <1>3, <1>4, <1>5, <1>6, Zenon

\* The rest of a call keeps the invariant: Store::rollback, the end of
\* Aft::rollback, and the entry of another primary.
LEMMA CallSteps ==
  ASSUME KvInv, RollbackVersion \/ RollbackMaps \/ ApplyEntry \/ RolledBack \/ commit_deserialised
  PROVE  KvInv'
<1>1. CASE RollbackVersion
  <2>1. Rewinds
    BY <1>1, Zenon DEF RollbackVersion, Rewinds
  <2> QED BY <2>1, RewindStep, Zenon
<1>2. CASE RollbackMaps
  <2>1. /\ op.stage = "maps" /\ op' = [op EXCEPT !.stage = "done"]
        /\ UNCHANGED <<store, commit_lock, history, tx, raft>>
    BY <1>2, Zenon DEF RollbackMaps
  <2> QED BY <2>1, MapsStep, Zenon
<1>3. CASE ApplyEntry
  <2>1. /\ op.stage = "done" /\ op.kind = "entry" /\ op' = [op EXCEPT !.stage = "applied"]
        /\ UNCHANGED <<store, commit_lock, history, tx, raft>>
    BY <1>3, Zenon DEF ApplyEntry, locks
  <2> QED BY <2>1, MapsStep, Zenon
<1>4. CASE RolledBack
  <2>1. op.kind = "refuse" => op.by \in Txs
    BY Zenon DEF KvInv, Calls
  <2>2. op.kind = "refuse" =>
          \E f : tx' = [tx EXCEPT ![op.by] = f] /\ DOMAIN f = TxFields /\ f.pc = "done"
    BY <1>4, <2>1, Finished, Zenon DEF RolledBack, Set
  <2>3. Cuts
    BY <1>4, <2>2, Zenon DEF RolledBack, Cuts
  <2> QED BY <2>3, CutStep, Zenon
<1>5. CASE commit_deserialised
  <2> DEFINE e == [tx |-> op.by, term |-> view, writes |-> RemoteWrites[op.by], reads |-> {},
                   committable |-> FALSE, root |-> <<>>]
  <2>1. e.tx = op.by /\ e.committable = FALSE
    OBVIOUS
  <2>2. ledger' = Append(ledger, e)
    BY <1>5, Zenon DEF commit_deserialised
  <2> HIDE DEF e
  <2>3. Follows(e)
    BY <1>5, <2>1, <2>2, Zenon DEF commit_deserialised, Follows, locks
  <2> QED BY <2>3, FollowStep, Zenon
<1> QED BY <1>1, <1>2, <1>3, <1>4, <1>5, Zenon

\* Compaction keeps the invariant.
LEMMA CompactStep ==
  ASSUME KvInv, NEW v \in committable, compact(v)
  PROVE  KvInv'
<1>1. /\ commit_idx' = v /\ committable' \subseteq committable /\ op = NoOp
      /\ UNCHANGED <<store, commit_lock, history, tx, ledger, view, leader, op>>
  BY Zenon DEF compact, locks
<1> QED BY <1>1, CommitStep, Zenon

-----------------------------------------------------------------------------
(* The invariant, and what follows from it. *)

\* The primary that has committed the genesis transaction satisfies the invariant.
LEMMA InitKvInv == Init => KvInv
<1> SUFFICES ASSUME Init PROVE KvInv
  OBVIOUS
<1>1. /\ version = 1 /\ last_replicated = 1 /\ rollback_count = 0 /\ term_of_next_version = 1
      /\ pending_txs = {} /\ commit_lock = None /\ view = 1 /\ leader = TRUE /\ commit_idx = 1
      /\ committable = {} /\ op = NoOp /\ tx = [t \in Txs |-> Idle]
      /\ history = <<Genesis>> /\ ledger = <<GenesisEntry>>
  BY Zenon DEF Init
<1>2. IsSeq(history) /\ Len(history) = 1 /\ history[1] = Genesis
  BY <1>1 DEF IsSeq
<1>3. IsSeq(ledger) /\ Len(ledger) = 1 /\ ledger[1] = GenesisEntry
  <2> HIDE DEF GenesisEntry
  <2> QED BY <1>1 DEF IsSeq
<1>4. DOMAIN tx = Txs /\ \A t \in Txs : DOMAIN tx[t] = TxFields /\ tx[t].pc = "idle"
  BY <1>1, Zenon DEF Idle, TxFields
<1>5. op.stage = "none" /\ op.kind = "none" /\ Agreed = 1
      /\ op \in [kind : Kinds, stage : Stages, idx : Nat, by : Txs \cup Remote \cup {None}]
  BY <1>1, <1>3, Zenon DEF NoOp, Agreed, Kinds, Stages
<1>6. KvTypeOK
  <2>1. Bounded(pending_txs)
    BY <1>1, Zenon DEF Bounded
  <2> QED BY <1>1, <1>2, <1>3, <1>4, <1>5, <2>1 DEF KvTypeOK
<1>7. Locking
  BY <1>1, <1>4, NoneAssumption, Zenon DEF Locking
<1>8. Calls
  BY <1>1, <1>5, Zenon DEF Calls
<1>9. Positions
  BY <1>1, <1>4, <1>5 DEF Positions
<1>10. TreeMatches
  <2>1. history[1] = ledger[1].tx
    BY <1>2, <1>3 DEF GenesisEntry
  <2> QED BY <1>2, <1>5, <2>1 DEF TreeMatches, Settled
<1>11. TermsMatch
  BY <1>1, <1>5, Zenon DEF TermsMatch
<1>12. LeaderKnows
  BY <1>1, <1>2, <1>3, <1>4, Zenon DEF LeaderKnows
<1>13. RootsMatch
  BY <1>3 DEF RootsMatch
<1>14. Holeless
  BY <1>1 DEF Holeless, Leading, Delivered
<1> QED BY <1>6, <1>7, <1>8, <1>9, <1>10, <1>11, <1>12, <1>13, <1>14, Zenon DEF KvInv

\* Every step of the store keeps the invariant, unless with it a re-election meets
\* a transaction in flight.
LEMMA NextKvInv == KvInv /\ [Next]_vars /\ LeadsAtRest' => KvInv'
<1> SUFFICES ASSUME KvInv, [Next]_vars, LeadsAtRest' PROVE KvInv'
  OBVIOUS
<1>1. CASE \E t \in Txs : \/ Begin(t) \/ Open(t) \/ Prepare(t) \/ Apply(t) \/ NextTxid(t)
                          \/ StoreCommit(t) \/ Replicate(t) \/ Replicated(t)
  BY <1>1, BeginStep, OpenStep, PrepareStep, ApplyStep, StoreCommitStep, ReplicateStep,
     ReplicatedStep, Zenon
<1>2. CASE \/ become_leader \/ \E v \in view .. MaxView : become_follower(v)
           \/ \E i \in commit_idx .. Len(ledger) - 1 : CutBack(i)
           \/ \E r \in Remote : fill_maps(r)
  BY <1>2, StartStep, Zenon
<1>3. CASE RollbackVersion \/ RollbackMaps \/ ApplyEntry \/ RolledBack \/ commit_deserialised
  BY <1>3, CallSteps, Zenon
<1>4. CASE \E v \in committable : compact(v)
  BY <1>4, CompactStep, Zenon
<1>5. CASE UNCHANGED vars
  BY <1>5, IdleStep, Zenon
<1> QED BY <1>1, <1>2, <1>3, <1>4, <1>5, Zenon DEF Next

\* What has raced once has raced.
LEMMA RacedGrows == [Next]_vars => raced \subseteq raced'
BY Zenon DEF Next, vars, Begin, Open, Prepare, Apply, NextTxid, StoreCommit, Replicate, Replicated,
             become_leader, become_follower, CutBack, fill_maps, RollbackVersion, RollbackMaps,
             RolledBack, ApplyEntry, commit_deserialised, compact

\* KvInv holds of the store (Store::commit, next_version, rollback, compact and
\* the consensus that calls them) whatever the maps, transactions and batches, and
\* whatever entries of other primaries meet on their way into it, for as long as
\* no re-election has met a transaction in flight.
THEOREM KvInvariant == Spec => [](LeadsAtRest => KvInv)
<1>1. Init => (LeadsAtRest => KvInv)
  BY InitKvInv
<1>2. (LeadsAtRest => KvInv) /\ [Next]_vars => (LeadsAtRest => KvInv)'
  BY NextKvInv, RacedGrows, Zenon DEF LeadsAtRest
<1> QED BY <1>1, <1>2, PTL DEF Spec

\* Every signature in the ledger signs the Merkle root of exactly the entries
\* before it: the roots that Store::commit takes from the history, before the
\* consensus has accepted the batch, are those of the ledger the batch ends in.
\* Entries of other primaries may race the batch; a re-election has not (the
\* premise is in SignedRootMatches).
THEOREM SignedRoots == Spec => []SignedRootMatches
<1>1. (LeadsAtRest => KvInv) => SignedRootMatches
  BY RootsAreOfPrefixes, Zenon DEF SignedRootMatches
<1> QED BY <1>1, KvInvariant, PTL

\* On a leader each version that next_version handed out and that is not yet
\* replicated is in pending_txs, or held by a transaction that is on its way to
\* Store::commit, or in the batch that is being replicated, unless a re-election
\* has met a transaction in flight (the premise is in NoHole).
THEOREM NoVersionLost == Spec => []NoHole
<1>1. (LeadsAtRest => KvInv) => NoHole
  BY Zenon DEF KvInv, NoHole, Holeless, Leading
<1> QED BY <1>1, KvInvariant, PTL
===============================================================================

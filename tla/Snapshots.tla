------------------------------ MODULE Snapshots ------------------------------
(***************************************************************************)
(* Snapshots of the key-value store: the Snapshotter of a node, which      *)
(* decides at which signatures one is taken, has a task serialise it and   *)
(* record its digest (the evidence) in the ledger, and commits it with a   *)
(* receipt once the evidence is signed and committed; and the host's       *)
(* SnapshotManager, which keeps the files.  The node's log is what the     *)
(* store and consensus make of it: entries are appended, signed, committed *)
(* and rolled back, and the node is primary or not.                        *)
(***************************************************************************)
EXTENDS Integers, Sequences, SequencesExt, FiniteSets, FiniteSetsExt

CONSTANTS
  Interval,     \* snapshot_tx_interval
  Threads,      \* whether tasks and signatures run on worker threads
  TornCommits,  \* whether a crash may come before the receipt is flushed
  MaxLog,       \* bound on the entries of a log
  MaxCuts,      \* bound on rollbacks
  MaxForced,    \* bound on snapshots asked for by governance
  MaxCrashes    \* bound on crashes

VARIABLES
  log, compacted, primary,
  service,   \* the longest log that was committed
  flag,      \* Flag::SNAPSHOT_AT_NEXT_SIGNATURE
  snap,      \* the Snapshotter: next_snapshot_indices, last_snapshot_idx, pending_snapshots
  tasks,     \* scheduled and running snapshot_ tasks
  signing,   \* the index of a signature that is being committed
  rolling,   \* the index the store is being rolled back to
  to_host, dir,
  failed,    \* an exception or a failed assertion
  cuts, forcings, crashes

node == <<log, compacted, primary, service, flag, snap, tasks, signing, rolling, failed>>
host == <<to_host, dir>>
bounds == <<cuts, forcings, crashes>>
vars == <<node, host, bounds>>

None == -1

\* An entry: branch tells apart entries written at the same index before and
\* after a rollback; snapshot is the index an evidence is for; chunk says that
\* the entry ends a ledger chunk.
Entry(kind, snapshot, chunk) ==
  [kind |-> kind, snapshot |-> snapshot, chunk |-> chunk, branch |-> cuts + crashes]

-----------------------------------------------------------------------------
(* The Snapshotter. *)

SnapshotEntry(idx, forced, done) == [idx |-> idx, forced |-> forced, done |-> done]

Snapshotter(idx) ==
  [next |-> <<SnapshotEntry(idx, FALSE, TRUE)>>, last |-> idx, pending |-> <<>>]

\* The index intervals are counted from.
LastUnforced(s) ==
  LET unforced == {k \in DOMAIN s.next : ~s.next[k].forced}
  IN IF unforced = {} THEN s.last ELSE s.next[Max(unforced)].idx

Due(s, idx) == idx - LastUnforced(s) >= Interval

record_committable(s, idx) ==
  IF Due(s, idx) \/ flag
  THEN [s EXCEPT !.next = Append(@, SnapshotEntry(idx, ~Due(s, idx), FALSE))]
  ELSE s

\* Mutant: a signature right after the evidence is not taken.
CoveredLate(p, old, idx) ==
  IF p.evidence + 1 < idx /\ old = {} THEN {SubSeq(log, 1, idx - 1)} ELSE old

\* What a signature at idx signs, for a pending snapshot that has none yet.
Covered(p, old, idx) == IF p.evidence < idx /\ old = {} THEN {SubSeq(log, 1, idx - 1)} ELSE old

record_signature(s, idx) ==
  [s EXCEPT !.pending = [k \in DOMAIN @ |-> [@[k] EXCEPT !.sig = Covered(s.pending[k], @, idx)]]]

record_serialised_tree(s, idx) ==
  [s EXCEPT !.pending = [k \in DOMAIN @ |-> [@[k] EXCEPT !.tree = Covered(s.pending[k], @, idx)]]]

\* The receipt of a pending snapshot: its leaf, and whether the path from it
\* leads to a root that was signed.
Receipt(p) ==
  [leaf |-> p.leaf,
   verifies |-> p.sig = p.tree /\ \A t \in p.tree : t[p.evidence] = p.leaf]

Ready(s, idx) == {k \in DOMAIN s.pending : idx > s.pending[k].evidence}

update_indices(s, idx) ==
  LET passed == {k \in DOMAIN s.next : s.next[k].idx <= idx}
      left == SetToSortSeq(DOMAIN s.pending \ Ready(s, idx), <)
  IN [s EXCEPT !.next = SubSeq(@, Max({1} \cup passed), Len(@)),
               !.pending = [k \in DOMAIN left |-> s.pending[left[k]]]]

\* commit once the indices are up to date: whether a snapshot is to be taken at
\* the first of them, and what is noted.
Wanted(s) ==
  LET next == Head(s.next)
  IN next.idx - s.last >= Interval \/ (next.forced /\ ~next.done)

Noted(s, generate_snapshot) ==
  LET next == Head(s.next)
      due == next.idx - s.last >= Interval
  IN [s EXCEPT !.next[1].done = @ \/ (Wanted(s) /\ generate_snapshot),
               !.last = IF due /\ ~next.forced THEN next.idx ELSE @]

RollbackPendingOnly(s, idx) ==
  LET stays == {k \in DOMAIN s.pending : s.pending[k].evidence <= idx}
  IN [s EXCEPT !.pending = SubSeq(@, 1, Max({0} \cup stays))]

RollbackSnapshotter(s, idx) ==
  LET next == SelectSeq(s.next, LAMBDA e : e.idx <= idx)
      stays == {k \in DOMAIN s.pending : s.pending[k].evidence <= idx}
  IN [s EXCEPT !.next = IF next = <<>> THEN Snapshotter(s.last).next ELSE next,
               !.pending = SubSeq(@, 1, Max({0} \cup stays))]

-----------------------------------------------------------------------------
(* The node.  A signature is committed under the store's version_lock, a    *)
(* rollback takes that lock only after the Snapshotter's part, and a task   *)
(* touches pending_snapshots under no lock.  Without worker threads each of *)
(* them runs from beginning to end, and so does all that a backup does.     *)

Quiet ==
  /\ ~failed
  /\ (Threads /\ primary) \/ (signing = None /\ rolling = None)
  /\ Threads \/ \A k \in DOMAIN tasks : tasks[k].leaf = {}

CanWrite == Quiet /\ signing = None /\ Len(log) < MaxLog

\* A node that has restarted receives what the service has committed.
Received(e) == IF Len(log) < Len(service) THEN service[Len(log) + 1] ELSE e

AppendEntry ==
  /\ CanWrite
  /\ Received(Entry("tx", None, FALSE)).kind # "sig"
  /\ log' = Append(log, Received(Entry("tx", None, FALSE)))
  /\ UNCHANGED <<compacted, primary, service, flag, snap, tasks, signing, rolling, failed, host, bounds>>

TriggerSnapshot ==
  /\ CanWrite /\ primary /\ forcings < MaxForced
  /\ log' = Append(log, Entry("tx", None, FALSE))
  /\ flag' = TRUE /\ forcings' = forcings + 1
  /\ UNCHANGED <<compacted, primary, service, snap, tasks, signing, rolling, failed, host, cuts, crashes>>

\* A signature: the hook of the signatures table ...
Sign ==
  /\ CanWrite
  /\ Received(Entry("sig", None, FALSE)).kind = "sig"
  /\ snap' = record_signature(snap, Len(log) + 1)
  /\ signing' = Len(log) + 1
  /\ UNCHANGED <<log, compacted, primary, service, flag, tasks, rolling, failed, host, bounds>>

\* ... that of the table that holds the tree and, on the primary,
\* must_force_ledger_chunk.
FinishSign ==
  /\ signing # None
  /\ LET s == record_serialised_tree(snap, signing)
     IN IF primary
        THEN /\ snap' = record_committable(s, signing)
             /\ failed' = (signing < Last(s.next).idx)
             /\ flag' = FALSE
             /\ log' = Append(log, Entry("sig", None, flag \/ Due(s, signing)))
        ELSE /\ snap' = s /\ UNCHANGED <<flag, failed>>
             /\ \E chunk \in BOOLEAN : log' = Append(log, Received(Entry("sig", None, chunk)))
  /\ signing' = None
  /\ UNCHANGED <<compacted, primary, service, tasks, rolling, host, bounds>>

Elected ==
  /\ Quiet /\ ~primary /\ rolling = None /\ Len(log) >= Len(service)
  /\ primary' = TRUE
  /\ UNCHANGED <<log, compacted, service, flag, snap, tasks, signing, rolling, failed, host, bounds>>

\* Store::compact.
Compact(idx) ==
  /\ Quiet /\ signing = None /\ rolling = None
  /\ idx \in compacted + 1 .. Len(log) /\ log[idx].kind = "sig"
  /\ LET s == update_indices(snap, idx)
         ready == SetToSortSeq(Ready(snap, idx), <)
         unsigned == \E k \in Range(ready) : {} \in {snap.pending[k].sig, snap.pending[k].tree}
         message(p) == [type |-> "commit", idx |-> p.idx, evidence |-> p.evidence,
                        receipt |-> {Receipt(p)}]
     IN IF unsigned \/ idx < s.last \/ idx < Head(s.next).idx
        THEN failed' = TRUE /\ UNCHANGED <<snap, tasks, to_host>>
        ELSE /\ snap' = Noted(s, primary)
             /\ to_host' = to_host \o [k \in DOMAIN ready |-> message(snap.pending[ready[k]])]
             /\ tasks' = IF Wanted(s) /\ primary /\ Head(s.next).idx # 0
                         THEN Append(tasks, [idx |-> Head(s.next).idx, leaf |-> {}, evidence |-> None])
                         ELSE tasks
             /\ UNCHANGED failed
  /\ compacted' = idx
  /\ service' = IF idx > Len(service) THEN SubSeq(log, 1, idx) ELSE service
  /\ UNCHANGED <<log, primary, flag, signing, rolling, dir, bounds>>

\* Store::rollback, when another node is heard to be primary: first the
\* Snapshotter, then the store.
Rollback(idx) ==
  /\ Quiet /\ rolling = None /\ cuts < MaxCuts
  /\ idx \in compacted .. Len(log) - 1 /\ idx >= Len(service)
  /\ snap' = RollbackSnapshotter(snap, idx)
  /\ rolling' = idx
  /\ UNCHANGED <<log, compacted, primary, service, flag, tasks, signing, failed, host, bounds>>

FinishRollback ==
  /\ rolling # None /\ signing = None
  /\ log' = SubSeq(log, 1, rolling)
  /\ flag' = FALSE /\ primary' = FALSE /\ rolling' = None
  /\ cuts' = cuts + 1
  /\ UNCHANGED <<compacted, service, snap, tasks, signing, failed, host, forcings, crashes>>

-----------------------------------------------------------------------------
(* The tasks.  Those of one thread run in order. *)

Without(k) == SubSeq(tasks, 1, k - 1) \o SubSeq(tasks, k + 1, Len(tasks))
InTurn(k) == k \in DOMAIN tasks /\ (Threads \/ k = 1)

\* snapshot_ up to the commit of the evidence, and the message to the host; the
\* commit fails if the node is no longer primary.
CommitEvidence(k) ==
  /\ Quiet /\ signing = None /\ rolling = None /\ InTurn(k) /\ tasks[k].leaf = {}
  /\ IF primary
     THEN LET e == Entry("evidence", tasks[k].idx, FALSE)
              v == Len(log) + 1
          IN /\ v <= MaxLog /\ log' = Append(log, e)
             /\ tasks' = [tasks EXCEPT ![k].leaf = {e}, ![k].evidence = v]
             /\ to_host' = Append(to_host, [type |-> "write", idx |-> tasks[k].idx, evidence |-> v,
                                            receipt |-> {}])
     ELSE tasks' = Without(k) /\ UNCHANGED <<log, to_host>>
  /\ UNCHANGED <<compacted, primary, service, flag, snap, signing, rolling, failed, dir, bounds>>

\* Its end.
EmplacePending(k) ==
  /\ ~failed /\ InTurn(k)
  /\ \E e \in tasks[k].leaf :
       snap' = [snap EXCEPT !.pending = Append(@, [idx |-> tasks[k].idx, evidence |-> tasks[k].evidence,
                                                   leaf |-> e, sig |-> {}, tree |-> {}])]
  /\ tasks' = Without(k)
  /\ UNCHANGED <<log, compacted, primary, service, flag, signing, rolling, failed, host, bounds>>

-----------------------------------------------------------------------------
(* The host. *)

write_snapshot(m) ==
  LET same == {f \in dir : f.idx = m.idx /\ f.evidence = m.evidence /\ ~f.committed}
  IN dir' = IF same # {} THEN dir
            ELSE dir \cup {[idx |-> m.idx, evidence |-> m.evidence, committed |-> FALSE, receipt |-> {}]}

\* Any of the files for this index, in the order of the directory.
commit_snapshot(m, receipt) ==
  LET found == {f \in dir : f.idx = m.idx /\ ~f.committed}
  IN IF found = {} THEN dir' = dir
     ELSE \E f \in found :
            dir' = (dir \ {f}) \cup {[f EXCEPT !.committed = TRUE, !.receipt = receipt]}

Handle ==
  /\ to_host # <<>>
  /\ LET m == Head(to_host)
     IN IF m.type = "write" THEN write_snapshot(m) ELSE commit_snapshot(m, m.receipt)
  /\ to_host' = Tail(to_host)
  /\ UNCHANGED <<node, bounds>>

\* find_latest_committed_snapshot.
Latest(files) == Max({0} \cup {f.idx : f \in {g \in files : g.committed}})

\* deserialise_snapshot accepts a file: the receipt is for its digest, and is
\* signed.
Accepted(f, receipt) == receipt.leaf.snapshot = f.idx /\ receipt.verifies

\* The process ends and a new one joins from the latest snapshot.
Restart ==
  /\ crashes < MaxCrashes
  /\ log' = SubSeq(service, 1, Latest(dir')) /\ compacted' = Latest(dir')
  /\ snap' = Snapshotter(Latest(dir'))
  /\ primary' = FALSE /\ flag' = FALSE /\ failed' = FALSE
  /\ tasks' = <<>> /\ to_host' = <<>> /\ signing' = None /\ rolling' = None
  /\ crashes' = crashes + 1
  /\ UNCHANGED <<service, cuts, forcings>>

Crash == dir' = dir /\ Restart

\* The receipt is in the buffer of the stream when the file is renamed.
CrashInCommit ==
  /\ to_host # <<>> /\ Head(to_host).type = "commit"
  /\ \E receipt \in {Head(to_host).receipt} \cup (IF TornCommits THEN {{}} ELSE {}) :
       commit_snapshot(Head(to_host), receipt)
  /\ Restart

Init ==
  /\ log = <<>> /\ compacted = 0 /\ primary = TRUE /\ service = <<>> /\ flag = FALSE
  /\ snap = Snapshotter(0) /\ tasks = <<>> /\ signing = None /\ rolling = None
  /\ to_host = <<>> /\ dir = {} /\ failed = FALSE
  /\ cuts = 0 /\ forcings = 0 /\ crashes = 0

Next ==
  \/ AppendEntry \/ TriggerSnapshot \/ Sign \/ FinishSign \/ Elected
  \/ \E idx \in 0 .. MaxLog : Compact(idx) \/ Rollback(idx)
  \/ FinishRollback
  \/ \E k \in DOMAIN tasks : CommitEvidence(k) \/ EmplacePending(k)
  \/ Handle \/ Crash \/ CrashInCommit

Spec == Init /\ [][Next]_vars

-----------------------------------------------------------------------------
(* Properties. *)


\* Snapshots are taken at signatures that end a ledger chunk, whatever was
\* rolled back since the index was recorded.
SnapshotEndsChunk ==
  \A idx \in {f.idx : f \in dir} \cup {t.idx : t \in Range(tasks)} :
    service[idx].kind = "sig" /\ service[idx].chunk

\* No assertion of the Snapshotter fails, and a snapshot whose evidence is
\* committed has its signature and tree.
NeverFails == ~failed
=============================================================================

------------------------------ MODULE KvState ------------------------------
(***************************************************************************)
(* The state of CCF's key-value store on one node, with that of the        *)
(* consensus that calls it, and what replication promises about it.        *)
(* KvStore has the steps.                                                  *)
(***************************************************************************)
EXTENDS Integers, Sequences

CONSTANTS
  Txs,         \* transactions executed on this node
  Signatures,  \* those of them that are signatures (reserved transactions)
  Program,     \* Program[t]: the maps t opens in turn, each with what t does
               \* there: [map, reads, all (iterates), puts, removes]
  Maps, Keys,
  Existing,    \* maps the genesis transaction has created at version 1
  Remote,      \* entries another primary replicates to this node
  RemoteWrites,\* the writes of each, as <<map, key, value>>
  MaxView,     \* bound on the views of the consensus
  Leads,       \* views in which this node is elected again
  MaxAttempts, \* attempts of process_command: 30 in the build
  None, Removed, Genesis

ASSUME NoneAssumption == None \notin Txs

VARIABLES
  version, last_replicated, compacted, rollback_count,
  term_of_last_version, term_of_next_version, pending_txs,
  maps,        \* per name: version of creation (Gone: none) and the Roll
  map_lock, maps_lock, commit_lock,
  history,     \* leaves of the Merkle tree
  tx,          \* the transactions' own state
  ledger, view, leader, commit_idx, committable, is_new_follower,
  op,          \* the call of the consensus in progress, which holds its lock
  raced        \* history: the calls, of a re-election or for an entry of another
               \* primary, that have met a transaction of a worker thread

store == <<version, last_replicated, rollback_count, term_of_last_version,
           term_of_next_version, pending_txs>>
locks == <<map_lock, maps_lock, commit_lock>>
raft == <<ledger, view, leader, commit_idx, committable, is_new_follower>>
vars == <<store, compacted, maps, locks, history, tx, raft, op, raced>>

\* The largest and the smallest of a set of numbers.
Max(S) == CHOOSE x \in S : \A y \in S : y <= x
Min(S) == CHOOSE x \in S : \A y \in S : x <= y

\* No call of the consensus, and one that has just begun.
NoOp == [kind |-> "none", stage |-> "none", idx |-> 0, by |-> None]
Call(kind, idx, by) == [kind |-> kind, stage |-> "version", idx |-> idx, by |-> by]

\* No transaction is in flight or left in the queue.
Quiet == pending_txs = {} /\ \A t \in Txs : tx[t].pc \in {"idle", "done"}

\* What the Merkle tree is over.
Names(entries) == [i \in DOMAIN entries |-> entries[i].tx]

-----------------------------------------------------------------------------
(* Properties. *)

\* No re-election has caught a transaction in flight, nor has one begun during it.
LeadsAtRest == "lead" \notin raced

\* A signature in the ledger signs the root of exactly the entries before it:
\* Store::commit takes the root before the consensus has accepted the batch, and a
\* step-down, a rollback or an entry of another primary may come in between.  No
\* re-election has met a transaction in flight.
SignedRootMatches ==
  LeadsAtRest =>
    \A i \in DOMAIN ledger :
      ledger[i].committable /\ i > 1 => ledger[i].root = Names(SubSeq(ledger, 1, i - 1))

\* Someone is still going to deliver version v: it is in the queue, or its
\* transaction is on the way to Store::commit or in the batch being replicated.
Delivered(v) ==
  \/ \E p \in pending_txs : p.version = v
  \/ \E t \in Txs : tx[t].version = v /\ tx[t].pc = "applied"
  \/ \E t \in Txs : /\ tx[t].pc \in {"replicate", "replicated"}
                    /\ v \in tx[t].seen[1] + 1 .. tx[t].seen[1] + Len(tx[t].batch)

\* No hole: on a leader every version that next_version handed out and that is not
\* yet replicated is still going to be delivered; a missing one would hold up all
\* later transactions.  Entries of other primaries may have raced transactions of
\* the worker threads, but no re-election has: Store::commit refuses a transaction
\* that began before one, after its version has been handed out (store.h:932).
NoHole ==
  leader /\ op = NoOp /\ LeadsAtRest => \A v \in last_replicated + 1 .. version : Delivered(v)
=============================================================================

------------------------------ MODULE KvStore ------------------------------
(***************************************************************************)
(* CCF's key-value store on one node: transactions of the worker threads,  *)
(* the store's versions and replication queue, and the calls the node's    *)
(* consensus makes into it (rollback, compaction, entries of another       *)
(* primary).  A step is a section of the code under one lock.  A value is  *)
(* the name of the transaction that wrote it.  The signatures table is     *)
(* left out: no transaction of the model reads it.                         *)
(***************************************************************************)
EXTENDS KvState

-----------------------------------------------------------------------------
(* Maps. *)

Gone == -1
Blank == [k \in Keys |-> [v |-> 0, val |-> None]]
NoRoll == [created |-> Gone, rollback_counter |-> 0,
           commits |-> <<[version |-> 0, state |-> Blank]>>]

\* The latest local commit of a map.
Latest(roll) == roll.commits[Len(roll.commits)]

get_map(v, m) == maps[m].created # Gone /\ v >= maps[m].created

\* The state after the writes w (a set of <<map, key, value>>) of version v.
\* A removal leaves the key with a negative version, if it was there.
Written(state, m, w, v) ==
  [k \in Keys |->
     IF \E x \in Txs \cup Remote \cup {Genesis} : <<m, k, x>> \in w
     THEN [v |-> v,
           val |-> CHOOSE x \in Txs \cup Remote \cup {Genesis} : <<m, k, x>> \in w]
     ELSE IF <<m, k, Removed>> \in w /\ state[k].v # 0
          THEN [v |-> -v, val |-> None]
          ELSE state[k]]

\* HandleCommitter::commit and add_dynamic_map: every map the writes touch
\* gets a new local commit, unless nothing changes there.
Commit(w, v) ==
  [m \in Maps |->
     LET roll == maps[m]
         next == Written(Latest(roll).state, m, w, v)
     IN IF \A x \in w : x[1] # m THEN roll
        ELSE [roll EXCEPT !.created = IF @ = Gone THEN v ELSE @,
                          !.commits = IF next = Latest(roll).state THEN @
                                      ELSE Append(@, [version |-> v, state |-> next])]]

\* The last local commit at or before v; 0 when it has been compacted away.
CommitAt(commits, v) == Max({0} \cup {i \in DOMAIN commits : commits[i].version <= v})

\* Mutant: one local commit too many survives.
RollbackMapLate(roll, v) ==
  LET keep == Min({Len(roll.commits), CommitAt(roll.commits, v) + 1})
  IN [roll EXCEPT !.commits = SubSeq(@, 1, keep),
                  !.rollback_counter = IF keep < Len(roll.commits) THEN @ + 1 ELSE @]

\* Map::rollback, and the erasure of a map created after v: whoever still
\* holds the erased map finds that it has rolled back.
RollbackMap(roll, v) ==
  LET keep == Max({1, CommitAt(roll.commits, v)})
  IN IF roll.created > v
     THEN [NoRoll EXCEPT !.rollback_counter = roll.rollback_counter + 1]
     ELSE [roll EXCEPT
             !.commits = SubSeq(@, 1, keep),
             !.rollback_counter = IF keep < Len(roll.commits) THEN @ + 1 ELSE @]

\* Map::compact: states that can no longer be rolled back to are discarded.
CompactMap(roll, v) ==
  LET c == roll.commits
      head == Min({i \in DOMAIN c : \/ i = Len(c)
                                    \/ c[i].version = v
                                    \/ c[i + 1].version > v})
  IN [roll EXCEPT !.commits = SubSeq(c, head, Len(c))]

-----------------------------------------------------------------------------
(* Transactions. *)

Idle == [pc |-> "idle", attempts |-> 1, read_version |-> 0, commit_view |-> 0,
         changes |-> <<>>, version |-> 0, batch |-> <<>>, seen |-> <<>>,
         result |-> None]

Keyed(t, i, keys, val) == {<<Program[t][i].map, k, val>> : k \in keys}

\* A removal of a key that is not in the state is dropped at once.
StepWrites(t, i) ==
  Keyed(t, i, Program[t][i].puts, t)
  \cup Keyed(t, i, {k \in Program[t][i].removes :
                      tx[t].changes[i].snap[k].v # 0}, Removed)
Writes(t) == UNION {StepWrites(t, i) : i \in DOMAIN Program[t]}
Reads(t) ==
  UNION {{<<Program[t][i].map, k, tx[t].changes[i].snap[k].val>> :
             k \in IF Program[t][i].all THEN Keys ELSE Program[t][i].reads}
           : i \in DOMAIN Program[t]}
WrittenMaps(t) == {x[1] : x \in Writes(t)}
FreshMaps(t) == {Program[t][i].map : i \in {j \in DOMAIN Program[t] :
                                              tx[t].changes[j].fresh}}

Set(t, f) == tx' = [tx EXCEPT ![t] = f]
Done(t, result) == [Idle EXCEPT !.pc = "done", !.result = result]

\* FAIL_CONFLICT and CompactedVersionConflict: process_command starts again.
Retry(t) ==
  IF tx[t].attempts < MaxAttempts
  THEN [Idle EXCEPT !.attempts = tx[t].attempts + 1]
  ELSE Done(t, "conflict")

\* The first handle takes the version at which every map will be read.
Begin(t) ==
  /\ tx[t].pc = "idle" /\ t \notin Signatures
  /\ raced' = raced \cup ({op.kind} \cap {"lead", "entry"})
  /\ Set(t, [tx[t] EXCEPT !.pc = "open", !.read_version = version,
                          !.commit_view = term_of_next_version])
  /\ UNCHANGED <<store, compacted, maps, locks, history, raft, op>>

\* The change set of map m at the commit its reads go to, that of a map which does
\* not exist yet, and a handle over m: with no commit old enough left, Retry.
Changes(m, at) ==
  [fresh |-> FALSE, counter |-> maps[m].rollback_counter,
   start |-> maps[m].commits[at].version, snap |-> maps[m].commits[at].state]
FreshChanges == [fresh |-> TRUE, counter |-> 0, start |-> 0, snap |-> Blank]
AddChanges(t, c) == [tx[t] EXCEPT !.changes = Append(@, c)]
Handle(t, m) ==
  LET at == CommitAt(maps[m].commits, tx[t].read_version)
  IN IF at = 0 THEN Retry(t) ELSE AddChanges(t, Changes(m, at))

\* A handle over the next map: its state at that version.  What the handler
\* then reads and writes through it stays in the change set.
NextMap(t) == Program[t][Len(tx[t].changes) + 1].map
Open(t) ==
  /\ tx[t].pc = "open" /\ Len(tx[t].changes) < Len(Program[t])
  /\ IF get_map(tx[t].read_version, NextMap(t))
     THEN map_lock[NextMap(t)] = None /\ Set(t, Handle(t, NextMap(t)))
     ELSE Set(t, AddChanges(t, FreshChanges))
  /\ UNCHANGED <<store, compacted, maps, locks, history, raft, op, raced>>

\* Mutant: the read set is not checked.
PrepareUnchecked(t, i) ==
  \/ StepWrites(t, i) = {}
  \/ tx[t].changes[i].fresh
  \/ tx[t].changes[i].counter = maps[Program[t][i].map].rollback_counter

\* HandleCommitter::prepare: a map the transaction does not write is not
\* checked at all.
prepare(t, i) ==
  LET c == tx[t].changes[i]
      s == Program[t][i]
      roll == maps[s.map]
      now == Latest(roll)
  IN \/ StepWrites(t, i) = {}
     \/ c.fresh
     \/ /\ c.counter = roll.rollback_counter
        /\ s.all /\ c.start # 0 => c.start = now.version
        /\ \A k \in s.reads : now.state[k].v = c.snap[k].v

\* CommittableTx::commit up to the version: the maps to be written are locked
\* (and the store, for new maps), and the change sets checked.
Prepare(t) ==
  LET fresh == FreshMaps(t)
      written == WrittenMaps(t)
      ok == /\ \A i \in DOMAIN Program[t] : prepare(t, i)
            /\ \A m \in fresh : maps[m].created = Gone
  IN
  /\ tx[t].pc = "open" /\ Len(tx[t].changes) = Len(Program[t])
  /\ fresh # {} => maps_lock = None
  /\ \A m \in written \ fresh : map_lock[m] = None
  /\ IF ok /\ written # {}
     THEN /\ Set(t, [tx[t] EXCEPT !.pc = "prepared"])
          /\ maps_lock' = IF fresh # {} THEN t ELSE maps_lock
          /\ map_lock' = [m \in Maps |-> IF m \in written THEN t ELSE map_lock[m]]
     ELSE /\ Set(t, IF ok THEN Done(t, "success") ELSE Retry(t))
          /\ UNCHANGED <<maps_lock, map_lock>>
  /\ UNCHANGED <<store, compacted, maps, commit_lock, history, raft, op, raced>>

\* next_version, and the commit of the change sets under the locks.
Apply(t) ==
  LET v == version + 1 IN
  /\ tx[t].pc = "prepared"
  /\ version' = v
  /\ term_of_last_version' = term_of_next_version
  /\ maps' = Commit(Writes(t), v)
  /\ Set(t, [tx[t] EXCEPT !.pc = "applied", !.version = v])
  /\ map_lock' = [m \in Maps |-> IF map_lock[m] = t THEN None ELSE map_lock[m]]
  /\ maps_lock' = IF maps_lock = t THEN None ELSE maps_lock
  /\ UNCHANGED <<last_replicated, rollback_count, term_of_next_version, pending_txs,
                 compacted, commit_lock, history, raft, op, raced>>

\* emit_signature reserves the next version; what it signs is decided when the
\* signature's turn in the queue comes.
NextTxid(t) ==
  /\ tx[t].pc = "idle" /\ t \in Signatures /\ leader
  /\ version' = version + 1
  /\ term_of_last_version' = term_of_next_version
  /\ Set(t, [tx[t] EXCEPT !.pc = "applied", !.version = version + 1,
                          !.commit_view = term_of_next_version])
  /\ UNCHANGED <<last_replicated, rollback_count, term_of_next_version, pending_txs,
                 compacted, maps, locks, history, raft, op, raced>>

-----------------------------------------------------------------------------
(* Replication: Store::commit and Aft::replicate. *)

Entry(t) ==
  [tx |-> t, term |-> 0, writes |-> Writes(t),
   reads |-> IF t \in Signatures THEN {} ELSE Reads(t),
   committable |-> t \in Signatures, root |-> <<>>]

\* How many entries wait without a gap after last_replicated.
Contiguous(pending) ==
  Max({0} \cup {n \in {p.version - last_replicated : p \in pending} \cap Nat :
                  \A j \in 1 .. n : \E p \in pending : p.version = last_replicated + j})
Waiting(pending, j) == (CHOOSE p \in pending : p.version = last_replicated + j).entry

\* Mutant: a signature signs the root as it was before the batch.
BatchRootEarly(pending) ==
  [j \in 1 .. Contiguous(pending) |-> [Waiting(pending, j) EXCEPT !.root = history]]

\* The entries to replicate.  A signature signs the root of the history with
\* everything before it appended.
Batch(pending) ==
  [j \in 1 .. Contiguous(pending) |->
     [Waiting(pending, j) EXCEPT
        !.root = history \o [i \in 1 .. j - 1 |-> Waiting(pending, i).tx]]]

\* Mutant: the queue is emptied with the batch.
LeftWaitingNone(pending, n) == {}

\* A batch of n entries leaves the queue.
LeftWaiting(pending, n) ==
  {p \in pending : p.version \notin last_replicated + 1 .. last_replicated + n}

\* The part of Store::commit under version_lock.
StoreCommit(t) ==
  LET v == tx[t].version
      pending == IF \E p \in pending_txs : p.version = v THEN pending_txs
                 ELSE pending_txs \cup {[version |-> v, entry |-> Entry(t)]}
      batch == Batch(pending)
      refused == tx[t].commit_view # term_of_next_version /\ leader
  IN
  /\ tx[t].pc = "applied" /\ commit_lock = None
  /\ IF refused
     THEN Set(t, Done(t, "no replicate")) /\ UNCHANGED <<pending_txs, history, commit_lock>>
     ELSE /\ pending_txs' = LeftWaiting(pending, Len(batch))
          /\ history' = history \o Names(batch)
          /\ IF batch = <<>>
             THEN Set(t, Done(t, "success")) /\ UNCHANGED commit_lock
             ELSE /\ Set(t, [tx[t] EXCEPT
                              !.pc = "replicate", !.batch = batch,
                              !.seen = <<last_replicated, rollback_count,
                                         term_of_next_version>>])
                  /\ commit_lock' = t
  /\ UNCHANGED <<version, last_replicated, rollback_count, term_of_last_version,
                 term_of_next_version, compacted, maps, map_lock, maps_lock, raft, op, raced>>

\* Aft::replicate.  A node that is not leader rolls back to its last entry.
Replicate(t) ==
  LET seen == tx[t].seen
      batch == [i \in DOMAIN tx[t].batch |-> [tx[t].batch[i] EXCEPT !.term = view]]
  IN
  /\ tx[t].pc = "replicate" /\ op = NoOp
  /\ IF ~leader
     THEN op' = Call("refuse", Len(ledger), t) /\ UNCHANGED <<ledger, committable, tx, commit_lock>>
     ELSE IF seen[3] # view \/ seen[1] # Len(ledger)
          THEN /\ Set(t, Done(t, "no replicate")) /\ commit_lock' = None
               /\ UNCHANGED <<ledger, committable, op>>
          ELSE /\ ledger' = ledger \o batch
               /\ committable' = committable \cup
                    {Len(ledger) + i : i \in {j \in DOMAIN batch : batch[j].committable}}
               /\ Set(t, [tx[t] EXCEPT !.pc = "replicated"])
               /\ UNCHANGED <<op, commit_lock>>
  /\ UNCHANGED <<store, compacted, maps, map_lock, maps_lock, history, view, leader,
                 commit_idx, is_new_follower, raced>>

\* Back in Store::commit: last_replicated advances unless it has been moved.
Replicated(t) ==
  LET seen == tx[t].seen IN
  /\ tx[t].pc = "replicated"
  /\ last_replicated' = IF last_replicated = seen[1] /\ rollback_count = seen[2]
                        THEN seen[1] + Len(tx[t].batch) ELSE last_replicated
  /\ Set(t, Done(t, "success"))
  /\ commit_lock' = None
  /\ UNCHANGED <<version, rollback_count, term_of_last_version, term_of_next_version,
                 pending_txs, compacted, maps, map_lock, maps_lock, history, raft, op, raced>>

-----------------------------------------------------------------------------
(* Calls of the consensus.  Each holds the consensus' lock to its end. *)

last_committable_index == Max({commit_idx} \cup committable)
TermAt(i) == IF i = 0 THEN 0 ELSE ledger[i].term

become_leader ==
  /\ op = NoOp /\ ~leader /\ view + 1 \in Leads
  /\ raced' = raced \cup (IF Quiet THEN {} ELSE {"lead"})
  /\ view' = view + 1
  /\ op' = Call("lead", last_committable_index, None)
  /\ committable' = {}
  /\ UNCHANGED <<store, compacted, maps, locks, history, tx, ledger, leader, commit_idx,
                 is_new_follower>>

\* become_aware_of_new_term, and become_follower alone when v = view.
become_follower(v) ==
  /\ op = NoOp /\ (v > view \/ (v = view /\ leader))
  /\ view' = v
  /\ op' = Call("follow", last_committable_index, None)
  /\ is_new_follower' = (v > view \/ is_new_follower)
  /\ UNCHANGED <<store, compacted, maps, locks, history, tx, ledger, leader, commit_idx,
                 committable, raced>>

\* The first append entries of a new primary start earlier than the log ends.
CutBack(idx) ==
  /\ op = NoOp /\ ~leader /\ is_new_follower
  /\ op' = Call("cut", idx, None)
  /\ is_new_follower' = FALSE
  /\ UNCHANGED <<store, compacted, maps, locks, history, tx, ledger, view, leader,
                 commit_idx, committable, raced>>

\* An entry of the primary is deserialised: fill_maps first throws away local
\* commits that were not replicated.
fill_maps(r) ==
  /\ op = NoOp /\ ~leader
  /\ \A i \in DOMAIN ledger : ledger[i].tx # r
  /\ raced' = raced \cup (IF Quiet THEN {} ELSE {"entry"})
  /\ op' = Call("entry", Len(ledger), r)
  /\ is_new_follower' = FALSE
  /\ UNCHANGED <<store, compacted, maps, locks, history, tx, ledger, view, leader,
                 commit_idx, committable>>

\* Store::rollback up to the release of version_lock.
RollbackVersion ==
  /\ op.stage = "version" /\ maps_lock = None
  /\ IF op.kind = "entry" THEN UNCHANGED <<term_of_next_version, term_of_last_version>>
     ELSE term_of_next_version' = view /\ term_of_last_version' = TermAt(op.idx)
  /\ history' = SubSeq(history, 1, Min({op.idx, Len(history)}))
  /\ IF op.idx >= version
     THEN /\ op' = [op EXCEPT !.stage = "done"]
          /\ UNCHANGED <<version, last_replicated, rollback_count, pending_txs, maps_lock>>
     ELSE /\ version' = op.idx /\ last_replicated' = op.idx
          /\ rollback_count' = rollback_count + 1
          /\ pending_txs' = {}
          /\ op' = [op EXCEPT !.stage = "maps"]
          /\ maps_lock' = Genesis
  /\ UNCHANGED <<compacted, maps, map_lock, commit_lock, tx, raft, raced>>

\* The rest of Store::rollback, once every map is locked.
RollbackMaps ==
  /\ op.stage = "maps" /\ \A m \in Maps : map_lock[m] = None
  /\ maps' = [m \in Maps |-> RollbackMap(maps[m], op.idx)]
  /\ maps_lock' = None
  /\ op' = [op EXCEPT !.stage = "done"]
  /\ UNCHANGED <<store, compacted, map_lock, commit_lock, history, tx, raft, raced>>

\* What the consensus does after Store::rollback has returned.
RolledBack ==
  /\ op.stage = "done" /\ op.kind # "entry"
  /\ ledger' = SubSeq(ledger, 1, op.idx)
  /\ committable' = {i \in committable : i <= op.idx}
  /\ leader' = IF op.kind = "refuse" THEN leader ELSE op.kind = "lead"
  /\ IF op.kind = "refuse"
     THEN Set(op.by, Done(op.by, "no replicate")) /\ commit_lock' = None
     ELSE UNCHANGED <<tx, commit_lock>>
  /\ op' = NoOp
  /\ UNCHANGED <<store, compacted, maps, map_lock, maps_lock, history, view, commit_idx,
                 is_new_follower, raced>>

\* commit_deserialised: the entry's writes, then the store's version.
ApplyEntry ==
  LET w == RemoteWrites[op.by] IN
  /\ op.stage = "done" /\ op.kind = "entry"
  /\ \A x \in w : map_lock[x[1]] = None
  /\ maps' = Commit(w, op.idx + 1)
  /\ op' = [op EXCEPT !.stage = "applied"]
  /\ UNCHANGED <<store, compacted, locks, history, tx, raft, raced>>

commit_deserialised ==
  LET v == op.idx + 1
      e == [tx |-> op.by, term |-> view, writes |-> RemoteWrites[op.by], reads |-> {},
            committable |-> FALSE, root |-> <<>>]
  IN
  /\ op.stage = "applied"
  /\ version' = v /\ last_replicated' = v /\ term_of_last_version' = view
  /\ history' = Append(history, op.by)
  /\ ledger' = Append(ledger, e)
  /\ op' = NoOp
  /\ UNCHANGED <<rollback_count, term_of_next_version, pending_txs, compacted, maps, locks,
                 tx, view, leader, commit_idx, committable, is_new_follower, raced>>

\* Aft::commit and Store::compact: a signature is known to be on a majority.
compact(v) ==
  /\ op = NoOp /\ v \in committable /\ v > commit_idx
  /\ commit_idx' = v
  /\ committable' = {i \in committable : i > v}
  /\ maps_lock = None
  /\ IF v > version THEN UNCHANGED <<compacted, maps>>
     ELSE /\ \A m \in Maps : map_lock[m] = None
          /\ compacted' = v
          /\ maps' = [m \in Maps |-> CompactMap(maps[m], v)]
  /\ UNCHANGED <<store, locks, history, tx, ledger, view, leader, is_new_follower, op, raced>>

-----------------------------------------------------------------------------
GenesisEntry ==
  [tx |-> Genesis, term |-> 1, writes |-> {<<m, k, Genesis>> : m \in Existing, k \in Keys},
   reads |-> {}, committable |-> TRUE, root |-> <<>>]

\* The primary of view 1, which has committed the genesis transaction.
Init ==
  /\ version = 1 /\ last_replicated = 1 /\ compacted = 1 /\ rollback_count = 0
  /\ term_of_last_version = 1 /\ term_of_next_version = 1 /\ pending_txs = {}
  /\ maps = [m \in Maps |->
               IF m \notin Existing THEN NoRoll
               ELSE [created |-> 1, rollback_counter |-> 0,
                     commits |-> <<[version |-> 1,
                                    state |-> Written(Blank, m, GenesisEntry.writes, 1)]>>]]
  /\ map_lock = [m \in Maps |-> None] /\ maps_lock = None /\ commit_lock = None
  /\ history = <<Genesis>>
  /\ tx = [t \in Txs |-> Idle]
  /\ ledger = <<GenesisEntry>> /\ view = 1 /\ leader = TRUE /\ commit_idx = 1
  /\ committable = {} /\ is_new_follower = FALSE
  /\ op = NoOp /\ raced = {}

Next ==
  \/ \E t \in Txs : \/ Begin(t) \/ Open(t) \/ Prepare(t) \/ Apply(t) \/ NextTxid(t)
                    \/ StoreCommit(t) \/ Replicate(t) \/ Replicated(t)
  \/ become_leader
  \/ \E v \in view .. MaxView : become_follower(v)
  \/ \E idx \in commit_idx .. Len(ledger) - 1 : CutBack(idx)
  \/ \E r \in Remote : fill_maps(r)
  \/ RollbackVersion \/ RollbackMaps \/ RolledBack \/ ApplyEntry \/ commit_deserialised
  \/ \E v \in committable : compact(v)

Spec == Init /\ [][Next]_vars

-----------------------------------------------------------------------------
(* Properties. *)

\* The state of map m after the first v entries of the ledger.
Replay(m, v) ==
  LET after[i \in 0 .. v] == IF i = 0 THEN Blank
                             ELSE Written(after[i - 1], m, ledger[i].writes, i)
  IN after[v]

StateAt(m, v) ==
  IF get_map(v, m) THEN maps[m].commits[CommitAt(maps[m].commits, v)].state ELSE Blank

\* The store is the replay of the ledger: at every version that has been
\* replicated and can still be read, each map holds what the entries up to there
\* wrote, though rollbacks of Store::rollback and retries race the transactions
\* that commit on the worker threads.  It is claimed while every re-election and
\* every entry of another primary has found the store at rest: Store::rollback
\* relies on it ("No transactions can be prepared or committed during rollback")
\* and fill_maps releases its locks before the entry is applied.
StoreMatchesLedger ==
  op = NoOp /\ raced = {} =>
    \A m \in Maps, v \in compacted .. Min({last_replicated, Len(ledger)}) :
      StateAt(m, v) = Replay(m, v)

\* No lost update: what a transaction read in a map it also writes is still there
\* at its place in the ledger (HandleCommitter::prepare).  Entries of other
\* primaries may race it; a re-election during a transaction has not happened.
ReadsCurrent ==
  LeadsAtRest =>
    \A i \in DOMAIN ledger : \A x \in ledger[i].reads :
      (\E y \in ledger[i].writes : y[1] = x[1]) => Replay(x[1], i - 1)[x[2]].val = x[3]

\* "Transactions that fail are rolled back, no matter the reason"
\* (committable_tx.h:125): on a leader at rest, nothing a failed transaction
\* wrote is in a map.
FailedIsRolledBack ==
  leader /\ op = NoOp =>
    \A t \in Txs, m \in Maps, k \in Keys :
      tx[t].result = "no replicate" => Latest(maps[m]).state[k].val # t
=============================================================================

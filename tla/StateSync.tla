------------------------------- MODULE StateSync -------------------------------
(***************************************************************************)
(* How the storage of escrowed contracts travels from the enclave to the   *)
(* chain (tee/src/ethereum, tee/src/web3client).                           *)
(*                                                                         *)
(* A contract's SSTORE writes the enclave's storage table and marks the    *)
(* slot pending.  Every heartbeat signs one updateState transaction for    *)
(* all pending slots, moves them to syncs and hands the transaction to the *)
(* host, which submits it to an Ethereum node.  When the node answers with *)
(* a hash the host reports success and the enclave clears syncs.           *)
(*                                                                         *)
(* User transactions run on worker threads and commit atomically.  The     *)
(* heartbeat runs on the main thread: it reads, and commits later.  Its    *)
(* commit fails if a map it wrote and read has changed, and nobody looks   *)
(* at the result.  A user transaction is modelled one storage access at a  *)
(* time, which allows at least the interleavings of longer ones; one that  *)
(* throws commits nothing and is no step.                                  *)
(***************************************************************************)
EXTENDS Naturals, Integers, Sequences, FiniteSets

CONSTANTS
  Contracts,    \* contract addresses, ordered as in std::multimap
  Keys,         \* storage keys, ordered as in std::set
  Words,        \* 256-bit words a slot may hold, 0 among them
  Level,        \* Level[c]: the ContractLevel of c
  MaxConflicts, \* bound: heartbeats whose commit fails; 0 if user transactions
                \* run on the main thread only (worker_threads = 0)
  MaxWrites,    \* bound: SSTOREs executed
  MaxTx,        \* bound: value of the TEE account's nonce
  MaxRefusals   \* bound: transactions the node refuses of its own accord

Slots == Contracts \X Keys

\* ContractLevel but for SOLIDITY_ENHANCE, whose words are stored encrypted
Levels == {"BASIC", "SOLIDITY"}

\* std::set order of the slots
Before(s, t) == s[1] < t[1] \/ (s[1] = t[1] /\ s[2] <= t[2])

\* addresses and keys are 256-bit integers, whose sets have extremal elements
ASSUME OrderedAddresses ==
  /\ Contracts \subseteq Nat /\ Keys \subseteq Nat
  /\ IsFiniteSet(Contracts) /\ IsFiniteSet(Keys)
  /\ \A S \in SUBSET Contracts : S # {} => \E c \in S : \A d \in S : c <= d
  /\ \A S \in SUBSET Slots : S # {} => \E s \in S : \A t \in S : Before(t, s)

ASSUME WordsAssumption == 0 \in Words /\ Words \subseteq Nat

ASSUME LevelAssumption == Level \in [Contracts -> Levels]

ASSUME BoundsAssumption ==
  {MaxConflicts, MaxWrites, MaxTx, MaxRefusals} \subseteq Nat

VARIABLES
  storage,         \* tables STORAGE: the stored word, 0 for no entry
  pending,         \* PENDING_STATES: slots to be sent
  pending_storage, \* PENDING_STORAGE: recorded old words, NoRecord for none
  syncs,           \* TXSYNC: slots sent and not acknowledged
  nonce,           \* the nonce of the TEE account
  beat,            \* the heartbeat in progress, {} for none
  to_host,         \* ring buffer: transactions to submit
  requests,        \* eth_sendRawTransaction calls without an answer
  hostPending,     \* host maps pending and pendingKeys, keyed by hash
  to_enclave,      \* ring buffer: success messages
  accepted,        \* transactions in the node's pool
  refused,         \* number of transactions the node has refused
  onchain,         \* the words of the proxies' slots, frozen by the escrow
  logical,         \* history: what the contracts last wrote
  sent,            \* history: every transaction handed to the host
  shipped,         \* history: the word of each slot's latest transaction
  conflicts,       \* number of heartbeats whose commit failed
  writes           \* number of SSTOREs executed

tables == <<storage, pending, pending_storage, syncs, nonce>>
hostVars == <<requests, hostPending, accepted, refused>>
vars == <<tables, beat, to_host, to_enclave, hostVars, onchain, logical, sent,
          shipped, conflicts, writes>>

NoRecord == -1

Escrowed(s) == Level[s[1]] # "BASIC"

\* a signed transaction, and the message that carries it with its start time,
\* here the number of the heartbeat
Tx == [nonce : Nat, target : Contracts,
       vals : UNION {[B -> Words] : B \in SUBSET Slots}, old : Seq(Words)]

Send == [tx : Tx, start_time : Nat]

Init ==
  /\ storage = [s \in Slots |-> 0]
  /\ pending = {} /\ syncs = {}
  /\ pending_storage = [s \in Slots |-> NoRecord]
  /\ nonce = 0
  /\ beat = {}
  /\ to_host = <<>> /\ to_enclave = <<>>
  /\ requests = {} /\ hostPending = {} /\ accepted = {} /\ refused = 0
  /\ onchain \in [Slots -> Words]
  /\ logical = [s \in Slots |-> IF Escrowed(s) THEN onchain[s] ELSE 0]
  /\ sent = {} /\ shipped = [s \in Slots |-> NoRecord]
  /\ conflicts = 0 /\ writes = 0

-------------------------------------------------------------------------------

(***************************************************************************)
(* AccountProxy: the contract's view of its storage.  SSTORE of zero       *)
(* removes the entry (eEVM), any other word is stored.                     *)
(***************************************************************************)
store(s, w) ==
  /\ w # 0 /\ writes < MaxWrites
  /\ storage' = [storage EXCEPT ![s] = w]
  /\ logical' = [logical EXCEPT ![s] = w]
  /\ writes' = writes + 1
  /\ IF Escrowed(s)
     THEN /\ pending' = pending \cup {s}
          /\ beat' = {[b EXCEPT !.dirty = TRUE] : b \in beat}
     ELSE UNCHANGED <<pending, beat>>
  /\ UNCHANGED <<pending_storage, syncs, nonce, to_host, to_enclave, hostVars,
                 onchain, sent, shipped, conflicts>>

remove(s) ==
  /\ writes < MaxWrites
  /\ storage' = [storage EXCEPT ![s] = 0]
  /\ logical' = [logical EXCEPT ![s] = 0]
  /\ writes' = writes + 1
  /\ UNCHANGED <<pending, pending_storage, syncs, nonce, beat, to_host,
                 to_enclave, hostVars, onchain, sent, shipped, conflicts>>

\* [mutant of LoadResult] the chain is asked before the enclave's table
ChainFirst(s) == IF Escrowed(s) THEN onchain[s] ELSE storage[s]

\* what load returns
LoadResult(s) ==
  IF storage[s] # 0 THEN storage[s] ELSE IF Escrowed(s) THEN onchain[s] ELSE 0

(***************************************************************************)
(* The old word that load records: the stored one unless there is a        *)
(* record already, the exported one always.  Writing the record of a slot  *)
(* that the heartbeat has read and rewritten makes its commit fail.        *)
(***************************************************************************)
Records(s) ==
  Escrowed(s) /\ (storage[s] # 0 => pending_storage[s] = NoRecord)

load(s) ==
  /\ Records(s)
  /\ pending_storage' = [pending_storage EXCEPT ![s] = LoadResult(s)]
  /\ beat' = {[b EXCEPT !.dirty = @ \/ (b.recorded # {} /\ s \in DOMAIN b.tx.vals)]
                : b \in beat}
  /\ UNCHANGED <<storage, pending, syncs, nonce, to_host, to_enclave, hostVars,
                 onchain, logical, sent, shipped, conflicts, writes>>

-------------------------------------------------------------------------------
(***************************************************************************)
(* TransactionSync.sync_states.  total starts at 20 and only grows, so the *)
(* test for a full batch never holds: the batch is everything pending.     *)
(***************************************************************************)
Batch == pending

\* the first contract of the multimap is the target of the whole batch
First(B) == CHOOSE c \in {s[1] : s \in B} : \A t \in B : c <= t[1]

\* the greatest slot of a set
Last(B) == CHOOSE s \in B : \A t \in B : Before(t, s)

Recorded(B) == {s \in B : pending_storage[s] # NoRecord}

(***************************************************************************)
(* The buffer of old words that is hashed into the proof.  The pointer     *)
(* that load advances is its own copy, so every record is copied to the    *)
(* start of the buffer and the last one stays.                             *)
(***************************************************************************)
OldStates(B) ==
  [i \in 1..Cardinality(B) |->
     IF i = 1 /\ Recorded(B) # {} THEN pending_storage[Last(Recorded(B))] ELSE 0]

\* [mutant of SyncTx] the nonce is incremented before it is signed
SyncTxNextNonce ==
  [nonce |-> nonce + 1, target |-> First(Batch),
   vals |-> [s \in Batch |-> storage[s]], old |-> OldStates(Batch)]

\* [mutant of SyncTx] the overload of load that reads old words is called
SyncTxOldWords ==
  [nonce |-> nonce, target |-> First(Batch),
   vals |-> [s \in Batch |-> IF pending_storage[s] = NoRecord THEN 0
                             ELSE pending_storage[s]],
   old |-> OldStates(Batch)]

SyncTx ==
  [nonce |-> nonce, target |-> First(Batch),
   vals |-> [s \in Batch |-> storage[s]], old |-> OldStates(Batch)]

(***************************************************************************)
(* on_heart_beat up to the commit: an empty batch ends it.                 *)
(***************************************************************************)
on_heart_beat ==
  /\ beat = {} /\ nonce < MaxTx
  /\ Batch # {}
  /\ beat' = {[tx |-> SyncTx, recorded |-> Recorded(Batch), dirty |-> FALSE]}
  /\ UNCHANGED <<tables, to_host, to_enclave, hostVars, onchain, logical, sent,
                 shipped, conflicts, writes>>

(***************************************************************************)
(* The commit and the send.  A failed commit changes no table, but the     *)
(* transaction is sent all the same.                                       *)
(***************************************************************************)
Ship(t) ==
  /\ to_host' = Append(to_host, [tx |-> t, start_time |-> nonce + conflicts])
  /\ sent' = sent \cup {t}
  /\ shipped' = [s \in Slots |-> IF s \in DOMAIN t.vals THEN t.vals[s]
                                                       ELSE shipped[s]]

\* [mutant of CommitTables] the slots are not marked as sent
CommitUnmarked(B, R) ==
  /\ pending' = pending \ B
  /\ pending_storage' = [s \in Slots |-> IF s \in R THEN NoRecord
                                                   ELSE pending_storage[s]]
  /\ nonce' = nonce + 1
  /\ UNCHANGED syncs

CommitTables(B, R) ==
  /\ pending' = pending \ B
  /\ syncs' = syncs \cup B
  /\ pending_storage' = [s \in Slots |-> IF s \in R THEN NoRecord
                                                   ELSE pending_storage[s]]
  /\ nonce' = nonce + 1

\* [mutant of heart_beat_commit] the commit does not validate what was read
CommitUnvalidated ==
  \E b \in beat :
     /\ beat' = {}
     /\ Ship(b.tx)
     /\ CommitTables(DOMAIN b.tx.vals, b.recorded)
     /\ UNCHANGED <<storage, to_enclave, hostVars, onchain, logical, conflicts,
                    writes>>

heart_beat_commit ==
  \E b \in beat :
     /\ beat' = {}
     /\ Ship(b.tx)
     /\ \/ ~b.dirty /\ CommitTables(DOMAIN b.tx.vals, b.recorded)
        \/ b.dirty /\ UNCHANGED <<pending, syncs, pending_storage, nonce>>
     /\ conflicts' = IF b.dirty THEN conflicts + 1 ELSE conflicts
     /\ UNCHANGED <<storage, to_enclave, hostVars, onchain, logical, writes>>

-------------------------------------------------------------------------------

(***************************************************************************)
(* The host.  A transaction's hash is a function of the transaction, which *)
(* is its own key in the maps pending and pendingKeys.  A transaction that *)
(* is sent again after a failed commit has the key it had before.          *)
(***************************************************************************)
host_send ==
  /\ to_host # <<>>
  /\ hostPending' = hostPending \cup {Head(to_host).tx}
  /\ requests' = requests \cup {Head(to_host)}
  /\ to_host' = Tail(to_host)
  /\ UNCHANGED <<tables, beat, to_enclave, accepted, refused, onchain, logical,
                 sent, shipped, conflicts, writes>>

(***************************************************************************)
(* The node takes one transaction per nonce into its pool and answers with *)
(* its hash.  It refuses a second one, and may refuse any for reasons of   *)
(* its own (a full pool, too little gas).                                  *)
(***************************************************************************)
NonceTaken(t) == \E a \in accepted : a.nonce = t.nonce

\* pending[tx_hash] and pendingKeys[tx_hash]: operator[] makes up an entry
Success(t) ==
  IF t \in hostPending
  THEN [target |-> t.target, keys |-> {s[2] : s \in DOMAIN t.vals}]
  ELSE [target |-> 0, keys |-> {}]

answer_hash(r) ==
  /\ r \in requests /\ ~NonceTaken(r.tx)
  /\ accepted' = accepted \cup {r.tx}
  /\ requests' = requests \ {r}
  /\ hostPending' = hostPending \ {r.tx}
  /\ to_enclave' = Append(to_enclave, Success(r.tx))
  /\ UNCHANGED <<tables, beat, to_host, refused, onchain, logical, sent,
                 shipped, conflicts, writes>>

\* The callback returns at once: the entry stays in hostPending.
answer_error(r) ==
  /\ r \in requests
  /\ NonceTaken(r.tx) \/ refused < MaxRefusals
  /\ requests' = requests \ {r}
  /\ refused' = IF NonceTaken(r.tx) THEN refused ELSE refused + 1
  /\ UNCHANGED <<tables, beat, to_host, hostPending, to_enclave, accepted,
                 onchain, logical, sent, shipped, conflicts, writes>>

(***************************************************************************)
(* Web3Msg::success in the enclave: every key is cleared under the target  *)
(* of the transaction.                                                     *)
(***************************************************************************)
success ==
  /\ to_enclave # <<>> /\ beat = {}
  /\ LET msg == Head(to_enclave)
     IN  syncs' = syncs \ {<<msg.target, k>> : k \in msg.keys}
  /\ to_enclave' = Tail(to_enclave)
  /\ UNCHANGED <<storage, pending, pending_storage, nonce, beat, to_host,
                 hostVars, onchain, logical, sent, shipped, conflicts, writes>>

-------------------------------------------------------------------------------
UserStep ==
  /\ beat = {} \/ conflicts < MaxConflicts
  /\ \E s \in Slots :
        \/ \E w \in Words : store(s, w)
        \/ remove(s)
        \/ load(s)

BridgeStep ==
  \/ on_heart_beat
  \/ heart_beat_commit
  \/ host_send
  \/ \E r \in requests : answer_hash(r) \/ answer_error(r)
  \/ success

Next == UserStep \/ BridgeStep

(***************************************************************************)
(* The 30-second timer goes on firing, the enclave's main loop and the     *)
(* host's event loop drain their ring buffers, and the node answers.       *)
(***************************************************************************)
Fairness ==
  /\ WF_vars(on_heart_beat)
  /\ WF_vars(heart_beat_commit)
  /\ WF_vars(host_send)
  /\ WF_vars(\E r \in requests : answer_hash(r) \/ answer_error(r))
  /\ WF_vars(success)

Spec == Init /\ [][Next]_vars

FairSpec == Spec /\ Fairness

-------------------------------------------------------------------------------
TypeOK ==
  /\ storage \in [Slots -> Words] /\ onchain \in [Slots -> Words]
  /\ logical \in [Slots -> Words]
  /\ pending \subseteq Slots /\ syncs \subseteq Slots
  /\ pending_storage \in [Slots -> Words \cup {NoRecord}]
  /\ shipped \in [Slots -> Words \cup {NoRecord}]
  /\ nonce \in Nat /\ conflicts \in Nat /\ refused \in Nat /\ writes \in Nat
  /\ beat \subseteq [tx : Tx, recorded : SUBSET Slots, dirty : BOOLEAN]
  /\ to_host \in Seq(Send) /\ requests \subseteq Send
  /\ hostPending \subseteq Tx
  /\ accepted \subseteq Tx /\ sent \subseteq Tx
  /\ to_enclave \in Seq([target : Contracts \cup {0}, keys : SUBSET Keys])

(***************************************************************************)
(* No write is forgotten: a word stored for an escrowed contract is either *)
(* still pending, or it is the word that the slot's latest transaction     *)
(* carries, whatever commits of user transactions fall between the reads   *)
(* and the commit of a heartbeat.                                          *)
(***************************************************************************)
NoWriteForgotten ==
  \A s \in Slots :
     Escrowed(s) /\ storage[s] # 0 /\ s \notin pending => shipped[s] = storage[s]

(***************************************************************************)
(* The transactions of the TEE account leave no gap in its nonces, which   *)
(* would hold up all later ones on the chain, even when a heartbeat's      *)
(* commit fails after its transaction was signed.                          *)
(***************************************************************************)
NoNonceGap ==
  /\ \A t \in sent : t.nonce <= nonce
  /\ \A n \in 0..nonce : n < nonce => \E t \in sent : t.nonce = n

(***************************************************************************)
(* A success message names a transaction that the node took: the entry the *)
(* host looks up by hash is always there, and is the one of that hash.     *)
(***************************************************************************)
SuccessIsAccepted ==
  \A i \in 1..Len(to_enclave) : \E t \in accepted :
     /\ to_enclave[i].target = t.target
     /\ to_enclave[i].keys = {s[2] : s \in DOMAIN t.vals}

(***************************************************************************)
(* An answer with a hash finds its entry in the host's maps, although the  *)
(* maps hold one entry for two sends of the same transaction and the first *)
(* answer erases it: the second send cannot be answered with a hash.       *)
(***************************************************************************)
AnswersAreExpected ==
  \A r \in requests : ~NonceTaken(r.tx) => r.tx \in hostPending

(***************************************************************************)
(* A contract that was never escrowed stays in the enclave: no transaction *)
(* carries one of its slots (the level test in AccountProxy.store).        *)
(***************************************************************************)
LocalStaysLocal == \A t \in sent : \A s \in DOMAIN t.vals : Escrowed(s)

(***************************************************************************)
(* A contract reads the non-zero word it wrote last, whether it comes from *)
(* the enclave's table or, before the first write, from the chain.         *)
(***************************************************************************)
ReadsReturnLastWrite ==
  \A s \in Slots : logical[s] # 0 => LoadResult(s) = logical[s]

(***************************************************************************)
(* tee/README.md: the TEE "synchronizes the results to Block chain".  When *)
(* nothing is pending, unacknowledged or under way, the latest transaction *)
(* for each slot in the node's pool carries the slot's word to the slot's  *)
(* own contract.                                                           *)
(***************************************************************************)
AtRest ==
  /\ pending = {} /\ syncs = {} /\ beat = {} /\ requests = {}
  /\ to_host = <<>> /\ to_enclave = <<>>

Carriers(s) == {t \in accepted : s \in DOMAIN t.vals /\ t.target = s[1]}

Delivered(s) ==
  \E t \in Carriers(s) : t.vals[s] = storage[s] /\ \A u \in Carriers(s) : u.nonce <= t.nonce

DeliveredAtRest == AtRest => \A s \in Slots : Escrowed(s) /\ storage[s] # 0 => Delivered(s)

(***************************************************************************)
(* The same where it does hold: as long as no heartbeat's commit failed and *)
(* the node refused nothing.                                                *)
(***************************************************************************)
UndisturbedDelivered == conflicts = 0 /\ refused = 0 => DeliveredAtRest

(***************************************************************************)
(* Every slot a contract writes is sent by a heartbeat to come             *)
(* (on_heart_beat), whatever conflicts its commits meet.                   *)
(***************************************************************************)
PendingIsSent == \A s \in Slots : s \in pending ~> s \in syncs

-------------------------------------------------------------------------------
(* What the repository's tests and comments say, and the code does not do. *)

(***************************************************************************)
(* service/test/test.js:94-99: the proof of an update is computed from the *)
(* old words of all its slots.                                             *)
(***************************************************************************)
ProofCoversOldStates ==
  \A b \in beat : \A s \in b.recorded :
     \E i \in 1..Len(b.tx.old) :
        /\ i = Cardinality({t \in DOMAIN b.tx.vals : Before(t, s)})
        /\ b.tx.old[i] = pending_storage[s]

(***************************************************************************)
(* tee/src/ethereum/account_proxy.h:119 "save old state": what is recorded *)
(* is the word the chain has, or was last sent.                            *)
(***************************************************************************)
OldStateIsOld ==
  \A s \in Slots : pending_storage[s] # NoRecord =>
     pending_storage[s] = IF shipped[s] = NoRecord THEN onchain[s] ELSE shipped[s]

(***************************************************************************)
(* tee/eEVM/include/eEVM/storage.h:11: storage is "permanent": a slot that *)
(* the contract cleared reads as zero.                                     *)
(***************************************************************************)
ClearedReadsZero == \A s \in Slots : LoadResult(s) = logical[s]
===============================================================================

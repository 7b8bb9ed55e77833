---------------------------- MODULE StateSyncProofs ----------------------------
(***************************************************************************)
(* The safety of the synchronisation, for every number of contracts, keys, *)
(* words, conflicts and refusals.                                          *)
(*                                                                         *)
(* NoWriteForgotten is not inductive: the commit of a heartbeat drops      *)
(* pending slots on the strength of what the heartbeat read before.  The   *)
(* inductive invariant says what a heartbeat in progress knows: its nonce  *)
(* is the account's, its slots are still pending, and unless a store has   *)
(* made it dirty it covers everything pending with the words of now.       *)
(***************************************************************************)
EXTENDS StateSync, FiniteSetTheorems, SequenceTheorems, TLAPS

BeatKnows(b) ==
  /\ b.tx.nonce = nonce
  /\ DOMAIN b.tx.vals \subseteq pending
  /\ ~b.dirty => /\ pending \subseteq DOMAIN b.tx.vals
                 /\ \A s \in DOMAIN b.tx.vals :
                      storage[s] # 0 => b.tx.vals[s] = storage[s]

BeatsKnow == \A b \in beat : BeatKnows(b)

PendingEscrowed == \A s \in pending : Escrowed(s)

Safety ==
  /\ BeatsKnow /\ PendingEscrowed
  /\ NoWriteForgotten /\ NoNonceGap /\ SuccessIsAccepted /\ AnswersAreExpected
  /\ LocalStaysLocal /\ ReadsReturnLastWrite

IInv == TypeOK /\ Safety

-------------------------------------------------------------------------------
\* A batch is a finite set of slots.
LEMMA BatchFinite ==
  ASSUME NEW B \in SUBSET Slots
  PROVE  IsFiniteSet(B) /\ Cardinality(B) \in Nat
<1>1. IsFiniteSet(Slots)
  BY OrderedAddresses, FS_Product, Zenon DEF Slots
<1>2. IsFiniteSet(B)
  BY <1>1, FS_Subset, Zenon
<1> QED BY <1>2, FS_CardinalityType, Zenon

\* The first contract of a batch is the contract of one of its slots.
LEMMA FirstType ==
  ASSUME NEW B \in SUBSET Slots, B # {}
  PROVE  First(B) \in Contracts /\ \E s \in B : First(B) = s[1]
<1> DEFINE S == {s[1] : s \in B}
<1>1. S \in SUBSET Contracts /\ S # {}
  BY DEF Slots
<1>2. PICK c \in S : \A d \in S : c <= d
  BY <1>1, OrderedAddresses, Zenon
<1>3. \A t \in B : c <= t[1]
  BY <1>2
<1>4. First(B) \in S
  BY <1>2, <1>3, Zenon DEF First
<1> QED BY <1>1, <1>4, Zenon

\* The last of a set of slots is one of them.
LEMMA LastType ==
  ASSUME NEW B \in SUBSET Slots, B # {}
  PROVE  Last(B) \in B
BY OrderedAddresses, Zenon DEF Last

\* The buffer of old words is a sequence of words.
LEMMA OldStatesType ==
  ASSUME TypeOK, NEW B \in SUBSET Slots
  PROVE  OldStates(B) \in Seq(Words)
<1>1. Recorded(B) # {} => pending_storage[Last(Recorded(B))] \in Words
  <2>1. Recorded(B) \in SUBSET Slots
    BY DEF Recorded
  <2>2. Recorded(B) # {} => Last(Recorded(B)) \in Recorded(B)
    BY <2>1, LastType, Zenon
  <2> QED BY <2>1, <2>2, Zenon DEF Recorded, TypeOK
<1>2. \A i \in 1..Cardinality(B) :
        (IF i = 1 /\ Recorded(B) # {} THEN pending_storage[Last(Recorded(B))] ELSE 0)
          \in Words
  BY <1>1, WordsAssumption, Zenon
<1>3. OldStates(B) \in [1..Cardinality(B) -> Words]
  BY <1>2, Zenon DEF OldStates
<1> QED BY <1>3, BatchFinite, SeqDef

\* The transaction of a heartbeat is a transaction.
LEMMA SyncTxType ==
  ASSUME TypeOK, Batch # {}
  PROVE  SyncTx \in Tx
<1>1. Batch \in SUBSET Slots /\ nonce \in Nat
  BY DEF TypeOK, Batch
<1>2. First(Batch) \in Contracts /\ OldStates(Batch) \in Seq(Words)
  BY <1>1, FirstType, OldStatesType, Zenon
<1>3. [s \in Batch |-> storage[s]] \in [Batch -> Words]
  BY <1>1, Zenon DEF TypeOK
<1>4. [s \in Batch |-> storage[s]] \in UNION {[B -> Words] : B \in SUBSET Slots}
  BY <1>1, <1>3, Zenon
<1> QED BY <1>1, <1>2, <1>4, Zenon DEF SyncTx, Tx

\* The domain of a transaction's words is a set of slots.
LEMMA TxDomain ==
  ASSUME NEW t \in Tx
  PROVE  /\ DOMAIN t.vals \subseteq Slots
         /\ \A s \in DOMAIN t.vals : t.vals[s] \in Words
BY DEF Tx

-------------------------------------------------------------------------------
\* Initially nothing is pending and the contracts read what the chain has.
LEMMA InitIInv == Init => IInv
<1> SUFFICES ASSUME Init PROVE IInv
  OBVIOUS
<1> USE DEF Init
<1>1. TypeOK
  <2>1. <<>> \in Seq(Send)
     /\ <<>> \in Seq([target : Contracts \cup {0}, keys : SUBSET Keys])
    OBVIOUS
  <2>2. logical \in [Slots -> Words] /\ storage \in [Slots -> Words]
    BY WordsAssumption, Zenon
  <2> QED BY <2>1, <2>2, Zenon DEF TypeOK
<1>2. BeatsKnow /\ PendingEscrowed /\ NoWriteForgotten
  BY DEF BeatsKnow, PendingEscrowed, NoWriteForgotten
<1>3. NoNonceGap /\ AnswersAreExpected /\ LocalStaysLocal
  BY DEF NoNonceGap, AnswersAreExpected, LocalStaysLocal
<1>4. SuccessIsAccepted
  BY DEF SuccessIsAccepted
<1>5. ReadsReturnLastWrite
  BY DEF ReadsReturnLastWrite, LoadResult
<1> QED BY <1>1, <1>2, <1>3, <1>4, <1>5, Zenon DEF IInv, Safety

-------------------------------------------------------------------------------
(* The transaction history, the host and the node do not see the contracts'  *)
(* accesses: one lemma says what they leave alone.                           *)

\* Invariants about transactions survive a step that touches none.
LEMMA BridgeFrame ==
  ASSUME Safety, UNCHANGED <<nonce, sent, to_enclave, hostVars>>
  PROVE  NoNonceGap' /\ SuccessIsAccepted' /\ AnswersAreExpected' /\ LocalStaysLocal'
<1>1. NoNonceGap'
  BY DEF Safety, NoNonceGap
<1>2. SuccessIsAccepted'
  BY Zenon DEF Safety, SuccessIsAccepted, hostVars
<1>3. AnswersAreExpected' /\ LocalStaysLocal'
  BY DEF Safety, AnswersAreExpected, NonceTaken, hostVars, LocalStaysLocal
<1> QED BY <1>1, <1>2, <1>3, Zenon

\* A store marks its slot pending and the heartbeat in progress dirty.
LEMMA StoreStep ==
  ASSUME IInv, NEW s \in Slots, NEW w \in Words, store(s, w)
  PROVE  IInv'
<1>1. UNCHANGED <<pending_storage, syncs, nonce, to_host, to_enclave, hostVars,
                  onchain, sent, shipped, conflicts>>
  BY DEF store
<1>2. /\ storage' = [storage EXCEPT ![s] = w] /\ logical' = [logical EXCEPT ![s] = w]
      /\ w # 0
  BY DEF store
<1>3. TypeOK'
  <2>1. storage' \in [Slots -> Words] /\ logical' \in [Slots -> Words]
    BY <1>2, Zenon DEF IInv, TypeOK
  <2>2. pending' \subseteq Slots
    BY Zenon DEF store, IInv, TypeOK
  <2>3. writes' \in Nat
    BY DEF store, IInv, TypeOK
  <2>4. beat' \subseteq [tx : Tx, recorded : SUBSET Slots, dirty : BOOLEAN]
    <3>1. CASE Escrowed(s)
      <4>1. beat' = {[b EXCEPT !.dirty = TRUE] : b \in beat}
        BY <3>1, Zenon DEF store
      <4>2. beat \subseteq [tx : Tx, recorded : SUBSET Slots, dirty : BOOLEAN]
        BY Zenon DEF IInv, TypeOK
      <4> QED BY <4>1, <4>2, Zenon
    <3>2. CASE ~Escrowed(s)
      BY <3>2, Zenon DEF store, IInv, TypeOK
    <3> QED BY <3>1, <3>2, Zenon
  <2> QED BY <1>1, <2>1, <2>2, <2>3, <2>4, Zenon DEF IInv, TypeOK, hostVars
<1>4. BeatsKnow'
  <2>1. CASE Escrowed(s)
    <3>1. beat' = {[b EXCEPT !.dirty = TRUE] : b \in beat} /\ pending' = pending \cup {s}
      BY <2>1, Zenon DEF store
    <3> SUFFICES ASSUME NEW b \in beat PROVE BeatKnows([b EXCEPT !.dirty = TRUE])'
      BY <3>1 DEF BeatsKnow
    <3>2. b \in [tx : Tx, recorded : SUBSET Slots, dirty : BOOLEAN]
      BY Zenon DEF IInv, TypeOK
    <3>3. [b EXCEPT !.dirty = TRUE].tx = b.tx /\ [b EXCEPT !.dirty = TRUE].dirty
      BY <3>2
    <3>4. BeatKnows(b)
      BY DEF IInv, Safety, BeatsKnow
    <3> QED BY <1>1, <3>1, <3>3, <3>4, Zenon DEF BeatKnows
  <2>2. CASE ~Escrowed(s)
    <3>1. UNCHANGED <<beat, pending>>
      BY <2>2, Zenon DEF store
    <3>2. s \notin pending
      BY <2>2, Zenon DEF IInv, Safety, PendingEscrowed
    <3> SUFFICES ASSUME NEW b \in beat PROVE BeatKnows(b)'
      BY <3>1, Zenon DEF BeatsKnow
    <3>3. BeatKnows(b)
      BY DEF IInv, Safety, BeatsKnow
    <3>4. \A t \in DOMAIN b.tx.vals : t \in Slots /\ storage'[t] = storage[t]
      BY <1>2, <3>2, <3>3, Zenon DEF BeatKnows, IInv, TypeOK
    <3> QED BY <1>1, <3>1, <3>3, <3>4, Zenon DEF BeatKnows
  <2> QED BY <2>1, <2>2, Zenon
<1>5. PendingEscrowed'
  BY Zenon DEF store, IInv, Safety, PendingEscrowed, Escrowed
<1>6. NoWriteForgotten'
  <2> SUFFICES ASSUME NEW t \in Slots, Escrowed(t), storage'[t] # 0, t \notin pending'
               PROVE  shipped[t] = storage'[t]
    BY <1>1, Zenon DEF NoWriteForgotten, Escrowed
  <2>1. t # s /\ t \notin pending
    BY DEF store
  <2> QED BY <1>2, <2>1, Zenon DEF IInv, TypeOK, Safety, NoWriteForgotten
<1>7. ReadsReturnLastWrite'
  <2> SUFFICES ASSUME NEW t \in Slots, logical'[t] # 0
               PROVE  LoadResult(t)' = logical'[t]
    BY DEF ReadsReturnLastWrite
  <2>1. CASE t = s
    BY <1>2, <2>1, Zenon DEF IInv, TypeOK, LoadResult
  <2>2. CASE t # s
    BY <1>1, <1>2, <2>2, Zenon
       DEF IInv, TypeOK, Safety, ReadsReturnLastWrite, LoadResult, Escrowed
  <2> QED BY <2>1, <2>2, Zenon
<1> QED BY <1>1, <1>3, <1>4, <1>5, <1>6, <1>7, BridgeFrame, Zenon DEF IInv, Safety

\* A removal leaves a slot whose word is gone, so nothing is owed for it.
LEMMA RemoveStep ==
  ASSUME IInv, NEW s \in Slots, remove(s)
  PROVE  IInv'
<1>1. UNCHANGED <<pending, pending_storage, syncs, nonce, beat, to_host, to_enclave,
                  hostVars, onchain, sent, shipped, conflicts>>
  BY DEF remove
<1>2. storage' = [storage EXCEPT ![s] = 0] /\ logical' = [logical EXCEPT ![s] = 0]
  BY DEF remove
<1>3. TypeOK'
  <2>1. storage' \in [Slots -> Words] /\ logical' \in [Slots -> Words]
    BY <1>2, WordsAssumption, Zenon DEF IInv, TypeOK
  <2>2. writes' \in Nat
    BY DEF remove, IInv, TypeOK
  <2> QED BY <1>1, <2>1, <2>2, Zenon DEF IInv, TypeOK, hostVars
<1>4. BeatsKnow'
  <2> SUFFICES ASSUME NEW b \in beat PROVE BeatKnows(b)'
    BY <1>1, Zenon DEF BeatsKnow
  <2>1. BeatKnows(b) /\ pending \subseteq Slots
    BY Zenon DEF IInv, TypeOK, Safety, BeatsKnow
  <2>2. \A t \in DOMAIN b.tx.vals : storage'[t] # 0 => storage'[t] = storage[t]
    BY <1>2, <2>1, Zenon DEF BeatKnows, IInv, TypeOK
  <2> QED BY <1>1, <2>1, <2>2, Zenon DEF BeatKnows
<1>5. PendingEscrowed'
  BY <1>1, Zenon DEF IInv, Safety, PendingEscrowed, Escrowed
<1>6. NoWriteForgotten'
  BY <1>1, <1>2, Zenon DEF IInv, TypeOK, Safety, NoWriteForgotten, Escrowed
<1>7. ReadsReturnLastWrite'
  BY <1>1, <1>2, Zenon
     DEF IInv, TypeOK, Safety, ReadsReturnLastWrite, LoadResult, Escrowed
<1> QED BY <1>1, <1>3, <1>4, <1>5, <1>6, <1>7, BridgeFrame, Zenon DEF IInv, Safety

\* A load records an old word; it may make the heartbeat dirty, never clean.
LEMMA LoadStep ==
  ASSUME IInv, NEW s \in Slots, load(s)
  PROVE  IInv'
<1>1. UNCHANGED <<storage, pending, syncs, nonce, to_host, to_enclave, hostVars,
                  onchain, logical, sent, shipped, conflicts, writes>>
  BY DEF load
<1> DEFINE Soiled(b) ==
      [b EXCEPT !.dirty = @ \/ (b.recorded # {} /\ s \in DOMAIN b.tx.vals)]
<1>2. beat' = {Soiled(b) : b \in beat}
  BY DEF load
<1>3. \A b \in beat : /\ Soiled(b) \in [tx : Tx, recorded : SUBSET Slots, dirty : BOOLEAN]
                      /\ Soiled(b).tx = b.tx /\ (b.dirty => Soiled(b).dirty)
  <2> SUFFICES ASSUME NEW b \in beat
               PROVE  /\ Soiled(b) \in [tx : Tx, recorded : SUBSET Slots, dirty : BOOLEAN]
                      /\ Soiled(b).tx = b.tx /\ (b.dirty => Soiled(b).dirty)
    BY Zenon
  <2>1. b \in [tx : Tx, recorded : SUBSET Slots, dirty : BOOLEAN]
    BY Zenon DEF IInv, TypeOK
  <2> QED BY <2>1, Zenon
<1> HIDE DEF Soiled
<1>4. TypeOK'
  <2>1. LoadResult(s) \in Words
    BY WordsAssumption, Zenon DEF LoadResult, IInv, TypeOK
  <2>2. pending_storage' \in [Slots -> Words \cup {NoRecord}]
    BY <2>1, Zenon DEF load, IInv, TypeOK
  <2>3. beat' \subseteq [tx : Tx, recorded : SUBSET Slots, dirty : BOOLEAN]
    BY <1>2, <1>3, Zenon
  <2> QED BY <1>1, <2>2, <2>3, Zenon DEF IInv, TypeOK, hostVars
<1>5. BeatsKnow'
  <2> SUFFICES ASSUME NEW b \in beat PROVE BeatKnows(Soiled(b))'
    BY <1>2, Zenon DEF BeatsKnow
  <2>1. BeatKnows(b)
    BY DEF IInv, Safety, BeatsKnow
  <2> QED BY <1>1, <1>3, <2>1, Zenon DEF BeatKnows
<1>6. PendingEscrowed' /\ NoWriteForgotten' /\ ReadsReturnLastWrite'
  BY <1>1, Zenon DEF IInv, Safety, PendingEscrowed, NoWriteForgotten,
              ReadsReturnLastWrite, LoadResult, Escrowed
<1> QED BY <1>1, <1>4, <1>5, <1>6, BridgeFrame, Zenon DEF IInv, Safety

-------------------------------------------------------------------------------
\* What the contracts see is their own storage, which no step of the bridge writes.
LEMMA ReadsFrame ==
  ASSUME ReadsReturnLastWrite, UNCHANGED <<storage, onchain, logical>>
  PROVE  ReadsReturnLastWrite'
BY Zenon DEF ReadsReturnLastWrite, LoadResult, Escrowed

\* A heartbeat begins by reading all that is pending.
LEMMA HeartBeatStep ==
  ASSUME IInv, on_heart_beat
  PROVE  IInv'
<1>1. UNCHANGED <<tables, to_host, to_enclave, hostVars, onchain, logical, sent,
                  shipped, conflicts, writes>>
  BY Zenon DEF on_heart_beat
<1>2. beat' = {[tx |-> SyncTx, recorded |-> Recorded(Batch), dirty |-> FALSE]}
  BY DEF on_heart_beat
<1>3. TypeOK'
  <2>1. SyncTx \in Tx
    BY SyncTxType, Zenon DEF on_heart_beat, IInv
  <2>2. Recorded(Batch) \in SUBSET Slots
    BY Zenon DEF Recorded, Batch, IInv, TypeOK
  <2> QED BY <1>1, <1>2, <2>1, <2>2 DEF IInv, TypeOK, tables, hostVars
<1>4. BeatsKnow'
  <2>1. SyncTx.nonce = nonce /\ SyncTx.vals = [s \in pending |-> storage[s]]
    BY DEF SyncTx, Batch
  <2>2. UNCHANGED <<nonce, pending, storage>>
    BY <1>1, Zenon DEF tables
  <2> SUFFICES ASSUME NEW b \in beat' PROVE BeatKnows(b)'
    BY DEF BeatsKnow
  <2>3. b.tx = SyncTx
    BY <1>2
  <2> QED BY <2>1, <2>2, <2>3, Zenon DEF BeatKnows
<1>5. PendingEscrowed' /\ NoWriteForgotten'
  BY <1>1, Zenon DEF tables, IInv, Safety, PendingEscrowed, NoWriteForgotten, Escrowed
<1> QED BY <1>1, <1>3, <1>4, <1>5, BridgeFrame, ReadsFrame, Zenon DEF IInv, Safety, tables

\* Sending a transaction that the heartbeat knows keeps the history gap-free and local.
LEMMA ShipHistory ==
  ASSUME IInv, NEW b \in beat, Ship(b.tx), nonce' = nonce \/ nonce' = nonce + 1
  PROVE  NoNonceGap' /\ LocalStaysLocal'
<1>1. BeatKnows(b) /\ sent' = sent \cup {b.tx} /\ nonce \in Nat
  BY Zenon DEF IInv, TypeOK, Safety, BeatsKnow, Ship
<1>2. NoNonceGap'
  <2>1. \A t \in sent : t.nonce \in Nat /\ t.nonce <= nonce
    BY Zenon DEF IInv, TypeOK, Safety, NoNonceGap, Tx
  <2>2. \A t \in sent' : t.nonce <= nonce'
    BY <1>1, <2>1 DEF BeatKnows
  <2>3. \A n \in 0..nonce' : n < nonce' => \E t \in sent' : t.nonce = n
    <3> SUFFICES ASSUME NEW n \in 0..nonce', n < nonce'
                 PROVE  \E t \in sent' : t.nonce = n
      OBVIOUS
    <3>1. CASE n = nonce
      BY <1>1, <3>1, Zenon DEF BeatKnows
    <3>2. CASE n # nonce
      <4>1. n \in 0..nonce /\ n < nonce
        BY <1>1, <3>2
      <4>2. PICK t \in sent : t.nonce = n
        BY <4>1, Zenon DEF IInv, Safety, NoNonceGap
      <4> QED BY <1>1, <4>2, Zenon
    <3> QED BY <3>1, <3>2, Zenon
  <2> QED BY <2>2, <2>3, Zenon DEF NoNonceGap
<1>3. LocalStaysLocal'
  <2>1. \A s \in DOMAIN b.tx.vals : Escrowed(s)
    BY <1>1, Zenon DEF BeatKnows, IInv, Safety, PendingEscrowed
  <2> QED BY <1>1, <2>1, Zenon DEF LocalStaysLocal, IInv, Safety, Escrowed
<1> QED BY <1>2, <1>3, Zenon

\* The commit of a heartbeat: a clean one has sent the words of now for all that
\* was pending, a dirty one drops nothing.
LEMMA CommitStep ==
  ASSUME IInv, heart_beat_commit
  PROVE  IInv'
<1>1. PICK b \in beat :
        /\ beat' = {}
        /\ Ship(b.tx)
        /\ \/ ~b.dirty /\ CommitTables(DOMAIN b.tx.vals, b.recorded)
           \/ b.dirty /\ UNCHANGED <<pending, syncs, pending_storage, nonce>>
        /\ conflicts' = IF b.dirty THEN conflicts + 1 ELSE conflicts
        /\ UNCHANGED <<storage, to_enclave, hostVars, onchain, logical, writes>>
  BY Zenon DEF heart_beat_commit
<1>2. /\ b \in [tx : Tx, recorded : SUBSET Slots, dirty : BOOLEAN]
      /\ BeatKnows(b)
  BY Zenon DEF IInv, TypeOK, Safety, BeatsKnow
<1>3. b.tx \in Tx /\ DOMAIN b.tx.vals \subseteq Slots
  BY <1>2, TxDomain, Zenon
<1>4. /\ pending' \subseteq pending
      /\ \A s \in pending \ pending' : ~b.dirty /\ s \in DOMAIN b.tx.vals
  BY <1>1, Zenon DEF CommitTables
<1>5. nonce' = nonce \/ nonce' = nonce + 1
  BY <1>1, Zenon DEF CommitTables
<1>6. TypeOK'
  <2>1. [tx |-> b.tx, start_time |-> nonce + conflicts] \in Send
    BY <1>3 DEF IInv, TypeOK, Send
  <2>2. to_host' \in Seq(Send) /\ sent' \subseteq Tx
    BY <1>1, <1>3, <2>1 DEF Ship, IInv, TypeOK
  <2>3. shipped' \in [Slots -> Words \cup {NoRecord}]
    <3>1. \A s \in DOMAIN b.tx.vals : b.tx.vals[s] \in Words
      BY <1>3, TxDomain, Zenon
    <3> QED BY <1>1, <3>1, Zenon DEF Ship, IInv, TypeOK
  <2>4. /\ pending' \subseteq Slots /\ syncs' \subseteq Slots
        /\ pending_storage' \in [Slots -> Words \cup {NoRecord}]
    BY <1>1, <1>3, <1>4, Zenon DEF CommitTables, IInv, TypeOK
  <2>5. nonce' \in Nat /\ conflicts' \in Nat
    BY <1>1, <1>5 DEF IInv, TypeOK
  <2> QED BY <1>1, <2>2, <2>3, <2>4, <2>5 DEF IInv, TypeOK, hostVars
<1>7. BeatsKnow' /\ PendingEscrowed'
  BY <1>1, <1>4, Zenon DEF BeatsKnow, IInv, Safety, PendingEscrowed, Escrowed
<1>8. NoWriteForgotten'
  <2> SUFFICES ASSUME NEW s \in Slots, Escrowed(s), storage[s] # 0, s \notin pending'
               PROVE  shipped'[s] = storage[s]
    BY <1>1, Zenon DEF NoWriteForgotten, Escrowed
  <2>1. CASE s \in pending
    <3>1. ~b.dirty /\ s \in DOMAIN b.tx.vals
      BY <1>4, <2>1, Zenon
    <3>2. b.tx.vals[s] = storage[s]
      BY <1>2, <3>1, Zenon DEF BeatKnows
    <3> QED BY <1>1, <3>1, <3>2, Zenon DEF Ship
  <2>2. CASE s \notin pending
    <3>1. s \notin DOMAIN b.tx.vals
      BY <1>2, <2>2, Zenon DEF BeatKnows
    <3> QED BY <1>1, <2>2, <3>1, Zenon DEF Ship, IInv, Safety, NoWriteForgotten
  <2> QED BY <2>1, <2>2, Zenon
<1>9. SuccessIsAccepted' /\ AnswersAreExpected'
  BY <1>1, Zenon DEF IInv, Safety, SuccessIsAccepted, AnswersAreExpected, NonceTaken, hostVars
<1>10. ReadsReturnLastWrite'
  BY <1>1, ReadsFrame, Zenon DEF IInv, Safety
<1> QED BY <1>1, <1>5, <1>6, <1>7, <1>8, <1>9, <1>10, ShipHistory, Zenon DEF IInv, Safety

-------------------------------------------------------------------------------
\* The enclave's part of the invariant survives the steps of the host and the node.
LEMMA EnclaveFrame ==
  ASSUME IInv, UNCHANGED <<storage, pending, nonce, beat, onchain, logical, sent, shipped>>
  PROVE  /\ BeatsKnow' /\ PendingEscrowed' /\ NoWriteForgotten' /\ NoNonceGap'
         /\ LocalStaysLocal' /\ ReadsReturnLastWrite'
<1>1. BeatsKnow' /\ PendingEscrowed'
  BY Zenon DEF IInv, Safety, BeatsKnow, BeatKnows, PendingEscrowed, Escrowed
<1>2. NoWriteForgotten' /\ NoNonceGap' /\ LocalStaysLocal'
  BY Zenon DEF IInv, Safety, NoWriteForgotten, NoNonceGap, LocalStaysLocal, Escrowed
<1> QED BY <1>1, <1>2, ReadsFrame, Zenon DEF IInv, Safety

\* The host enters a transaction in its maps before it asks the node.
LEMMA SendStep ==
  ASSUME IInv, host_send
  PROVE  IInv'
<1>1. Head(to_host) \in Send /\ Tail(to_host) \in Seq(Send)
  BY DEF host_send, IInv, TypeOK
<1>2. Head(to_host).tx \in Tx
  BY <1>1, Zenon DEF Send
<1>3. TypeOK'
  BY <1>1, <1>2, Zenon DEF host_send, IInv, TypeOK, tables
<1>4. SuccessIsAccepted' /\ AnswersAreExpected'
  BY Zenon DEF host_send, IInv, Safety, SuccessIsAccepted, AnswersAreExpected, NonceTaken
<1> QED BY <1>3, <1>4, EnclaveFrame, Zenon DEF host_send, IInv, Safety, tables

\* A hash answers a request whose entry is there, and takes the transaction's nonce:
\* no other request for the same transaction is left to be answered with a hash.
LEMMA AnswerHashStep ==
  ASSUME IInv, NEW r \in requests, answer_hash(r)
  PROVE  IInv'
<1>1. r.tx \in Tx
  BY Zenon DEF IInv, TypeOK, Send
<1>2. r.tx \in hostPending
  BY Zenon DEF answer_hash, IInv, Safety, AnswersAreExpected
<1>3. Success(r.tx) = [target |-> r.tx.target, keys |-> {s[2] : s \in DOMAIN r.tx.vals}]
  BY <1>2, Zenon DEF Success
<1>4. Success(r.tx) \in [target : Contracts \cup {0}, keys : SUBSET Keys]
  <2>1. {s[2] : s \in DOMAIN r.tx.vals} \subseteq Keys
    BY <1>1, TxDomain, Zenon DEF Slots
  <2> QED BY <1>1, <1>3, <2>1 DEF Tx
<1>5. /\ to_enclave' = Append(to_enclave, Success(r.tx))
      /\ accepted' = accepted \cup {r.tx}
      /\ to_enclave \in Seq([target : Contracts \cup {0}, keys : SUBSET Keys])
  BY Zenon DEF answer_hash, IInv, TypeOK
<1>6. TypeOK'
  <2>1. to_enclave' \in Seq([target : Contracts \cup {0}, keys : SUBSET Keys])
    BY <1>4, <1>5
  <2> QED BY <1>1, <2>1, Zenon DEF answer_hash, IInv, TypeOK, tables
<1>7. SuccessIsAccepted'
  <2> SUFFICES ASSUME NEW i \in 1..Len(to_enclave')
               PROVE  \E t \in accepted' : /\ to_enclave'[i].target = t.target
                                           /\ to_enclave'[i].keys = {s[2] : s \in DOMAIN t.vals}
    BY Zenon DEF SuccessIsAccepted
  <2>1. CASE i \in 1..Len(to_enclave)
    <3>1. to_enclave'[i] = to_enclave[i]
      BY <1>4, <1>5, <2>1
    <3>2. PICK t \in accepted : /\ to_enclave[i].target = t.target
                                /\ to_enclave[i].keys = {s[2] : s \in DOMAIN t.vals}
      BY <2>1, Zenon DEF IInv, Safety, SuccessIsAccepted
    <3> QED BY <1>5, <3>1, <3>2, Zenon
  <2>2. CASE i \notin 1..Len(to_enclave)
    <3>1. to_enclave'[i] = Success(r.tx)
      BY <1>4, <1>5, <2>2
    <3>2. /\ to_enclave'[i].target = r.tx.target
          /\ to_enclave'[i].keys = {s[2] : s \in DOMAIN r.tx.vals}
      BY <1>3, <3>1
    <3> QED BY <1>5, <3>2, Zenon
  <2> QED BY <2>1, <2>2, Zenon
<1>8. AnswersAreExpected'
  <2> SUFFICES ASSUME NEW q \in requests', ~NonceTaken(q.tx)'
               PROVE  q.tx \in hostPending'
    BY DEF AnswersAreExpected
  <2>1. q \in requests /\ ~NonceTaken(q.tx) /\ q.tx # r.tx
    BY Zenon DEF answer_hash, NonceTaken
  <2> QED BY <2>1, Zenon DEF answer_hash, IInv, Safety, AnswersAreExpected
<1> QED BY <1>6, <1>7, <1>8, EnclaveFrame, Zenon DEF answer_hash, IInv, Safety, tables

\* An error leaves the entry in the host's maps.
LEMMA AnswerErrorStep ==
  ASSUME IInv, NEW r \in requests, answer_error(r)
  PROVE  IInv'
<1>1. TypeOK'
  BY DEF answer_error, IInv, TypeOK, tables
<1>2. SuccessIsAccepted' /\ AnswersAreExpected'
  BY Zenon DEF answer_error, IInv, Safety, SuccessIsAccepted, AnswersAreExpected, NonceTaken
<1> QED BY <1>1, <1>2, EnclaveFrame, Zenon DEF answer_error, IInv, Safety, tables

\* The enclave consumes a success message.
LEMMA SuccessStep ==
  ASSUME IInv, success
  PROVE  IInv'
<1> DEFINE Msg == [target : Contracts \cup {0}, keys : SUBSET Keys]
<1>1. /\ to_enclave \in Seq(Msg) /\ to_enclave # <<>> /\ to_enclave' = Tail(to_enclave)
      /\ UNCHANGED <<accepted, requests, hostPending>>
  BY Zenon DEF success, IInv, TypeOK, hostVars
<1> HIDE DEF Msg
<1>2. /\ to_enclave' \in Seq(Msg) /\ Len(to_enclave') = Len(to_enclave) - 1
      /\ \A i \in 1..Len(to_enclave') :
           to_enclave'[i] = to_enclave[i + 1] /\ i + 1 \in 1..Len(to_enclave)
  BY <1>1
<1>3. TypeOK'
  <2>1. syncs' \subseteq Slots
    BY Zenon DEF success, IInv, TypeOK
  <2> QED BY <1>2, <2>1, Zenon DEF success, IInv, TypeOK, hostVars, Msg
<1>4. SuccessIsAccepted'
  BY <1>1, <1>2, SMTT(40) DEF IInv, Safety, SuccessIsAccepted
<1>5. AnswersAreExpected'
  BY <1>1, Zenon DEF IInv, Safety, AnswersAreExpected, NonceTaken
<1> QED BY <1>3, <1>4, <1>5, EnclaveFrame, Zenon DEF success, IInv, Safety

-------------------------------------------------------------------------------
\* Every step preserves the inductive invariant.
LEMMA NextIInv == IInv /\ [Next]_vars => IInv'
<1> SUFFICES ASSUME IInv, [Next]_vars PROVE IInv'
  OBVIOUS
<1>1. CASE UserStep
  BY <1>1, StoreStep, RemoveStep, LoadStep, Zenon DEF UserStep
<1>2. CASE BridgeStep
  BY <1>2, HeartBeatStep, CommitStep, SendStep, AnswerHashStep, AnswerErrorStep,
     SuccessStep, Zenon DEF BridgeStep
<1>3. CASE UNCHANGED vars
  <2>1. UNCHANGED <<storage, pending, pending_storage, syncs, nonce, beat, to_host,
                    to_enclave, requests, hostPending, accepted, refused, onchain,
                    logical, sent, shipped, conflicts, writes>>
    BY <1>3, Zenon DEF vars, tables, hostVars
  <2>2. TypeOK'
    BY <2>1, Zenon DEF IInv, TypeOK
  <2>3. SuccessIsAccepted' /\ AnswersAreExpected'
    BY <2>1, Zenon DEF IInv, Safety, SuccessIsAccepted, AnswersAreExpected, NonceTaken
  <2> QED BY <2>1, <2>2, <2>3, EnclaveFrame, Zenon DEF IInv, Safety
<1> QED BY <1>1, <1>2, <1>3, Zenon DEF Next

\* The inductive invariant holds in every reachable state.
THEOREM Invariant == Spec => []IInv
BY InitIInv, NextIInv, PTL DEF Spec

\* Tables, messages and histories keep their types.
THEOREM TypeCorrect == Spec => []TypeOK
<1>1. IInv => TypeOK
  BY DEF IInv
<1> QED BY <1>1, Invariant, PTL

\* No write of an escrowed contract is forgotten by a heartbeat, whatever user
\* transactions commit between its reads and its commit.
THEOREM WritesAreKept == Spec => []NoWriteForgotten
<1>1. IInv => NoWriteForgotten
  BY DEF IInv, Safety
<1> QED BY <1>1, Invariant, PTL

\* The TEE account's transactions leave no gap in its nonces, failed commits included.
THEOREM NoncesAreDense == Spec => []NoNonceGap
<1>1. IInv => NoNonceGap
  BY DEF IInv, Safety
<1> QED BY <1>1, Invariant, PTL

\* A success message names a transaction that the node accepted.
THEOREM SuccessNamesAccepted == Spec => []SuccessIsAccepted
<1>1. IInv => SuccessIsAccepted
  BY DEF IInv, Safety
<1> QED BY <1>1, Invariant, PTL

\* An answer with a hash finds its entry in the host's maps.
THEOREM AnswersFindEntries == Spec => []AnswersAreExpected
<1>1. IInv => AnswersAreExpected
  BY DEF IInv, Safety
<1> QED BY <1>1, Invariant, PTL

\* No transaction carries a slot of a contract that was never escrowed.
THEOREM LocalContractsStay == Spec => []LocalStaysLocal
<1>1. IInv => LocalStaysLocal
  BY DEF IInv, Safety
<1> QED BY <1>1, Invariant, PTL

\* A contract reads the non-zero word it wrote last.
THEOREM ReadsAreCurrent == Spec => []ReadsReturnLastWrite
<1>1. IInv => ReadsReturnLastWrite
  BY DEF IInv, Safety
<1> QED BY <1>1, Invariant, PTL
-------------------------------------------------------------------------------
(* Delivery.  Where no commit failed and the node refused nothing, each      *)
(* transaction is sent once, and is in exactly one place on its way to the   *)
(* node's pool; the last one sent with a slot carries the slot's word.       *)

\* One contract is escrowed, so that the target of a batch is that of its slots.
OneEscrowed ==
  \A c, d \in Contracts : Level[c] # "BASIC" /\ Level[d] # "BASIC" => c = d

Addressed ==
  /\ \A t \in sent : \A s \in DOMAIN t.vals : t.target = s[1]
  /\ \A b \in beat : \A s \in DOMAIN b.tx.vals : b.tx.target = s[1]

SentOnce ==
  /\ \A t \in sent : t.nonce < nonce
  /\ \A t, u \in sent : t.nonce = u.nonce => t = u

\* Where a transaction is: in the ring buffer, with the node, or in its pool.
InPlace ==
  /\ \A t \in sent : \/ t \in accepted
                     \/ \E r \in requests : r.tx = t
                     \/ \E i \in 1..Len(to_host) : to_host[i].tx = t
  /\ accepted \subseteq sent
  /\ \A r \in requests : r.tx \in sent \ accepted
  /\ \A q, r \in requests : q.tx = r.tx => q = r
  /\ \A i \in 1..Len(to_host) :
       to_host[i].tx \in sent \ accepted /\ \A r \in requests : r.tx # to_host[i].tx
  /\ \A i, j \in 1..Len(to_host) : to_host[i].tx = to_host[j].tx => i = j

LatestShipped ==
  \A s \in Slots : shipped[s] # NoRecord =>
    \E t \in sent : /\ s \in DOMAIN t.vals /\ t.vals[s] = shipped[s]
                    /\ \A u \in sent : s \in DOMAIN u.vals => u.nonce <= t.nonce

Undisturbed == conflicts = 0 /\ refused = 0

Tracked == Undisturbed => SentOnce /\ InPlace /\ LatestShipped

DInv == IInv /\ Addressed /\ Tracked

\* Steps that neither send nor answer keep every transaction where it is.
LEMMA TrackedFrame ==
  ASSUME Tracked, UNCHANGED <<sent, nonce, accepted, requests, to_host, shipped, conflicts, refused>>
  PROVE  Tracked'
BY Zenon DEF Tracked, Undisturbed, SentOnce, InPlace, LatestShipped

\* An access of a contract to its storage changes no transaction.
LEMMA UserDelivery ==
  ASSUME DInv, UserStep
  PROVE  Addressed' /\ Tracked'
<1>1. UNCHANGED <<sent, nonce, to_host, hostVars, shipped, conflicts>>
  BY Zenon DEF UserStep, store, remove, load
<1>2. Tracked'
  BY <1>1, TrackedFrame, Zenon DEF DInv, hostVars
<1>3. \A b \in beat' : \E a \in beat : b.tx = a.tx
  <2>1. beat \subseteq [tx : Tx, recorded : SUBSET Slots, dirty : BOOLEAN]
    BY Zenon DEF DInv, IInv, TypeOK
  <2>2. PICK s \in Slots : (\E w \in Words : store(s, w)) \/ remove(s) \/ load(s)
    BY DEF UserStep
  <2>3. CASE \E w \in Words : store(s, w)
    <3>1. beat' = beat \/ beat' = {[b EXCEPT !.dirty = TRUE] : b \in beat}
      BY <2>3, Zenon DEF store
    <3> QED BY <2>1, <3>1
  <2>4. CASE remove(s)
    BY <2>4, Zenon DEF remove
  <2>5. CASE load(s)
    <3>1. beat' = {[b EXCEPT !.dirty = @ \/ (b.recorded # {} /\ s \in DOMAIN b.tx.vals)]
                     : b \in beat}
      BY <2>5, Zenon DEF load
    <3> QED BY <2>1, <3>1, Zenon
  <2> QED BY <2>2, <2>3, <2>4, <2>5, Zenon
<1> QED BY <1>1, <1>2, <1>3 DEF DInv, Addressed

\* With one escrowed contract the first contract of a batch is that of all its slots.
LEMMA HeartBeatDelivery ==
  ASSUME OneEscrowed, DInv, on_heart_beat
  PROVE  Addressed' /\ Tracked'
<1>1. Tracked'
  BY TrackedFrame, Zenon DEF DInv, on_heart_beat, tables, hostVars
<1>2. pending \in SUBSET Slots /\ pending # {}
  BY Zenon DEF DInv, IInv, TypeOK, on_heart_beat, Batch
<1>3. PICK f \in pending : First(pending) = f[1]
  BY <1>2, FirstType, Zenon
<1>4. \A s \in pending : First(pending) = s[1]
  <2> SUFFICES ASSUME NEW s \in pending PROVE s[1] = f[1]
    BY <1>3, Zenon
  <2>1. Escrowed(s) /\ Escrowed(f)
    BY DEF DInv, IInv, Safety, PendingEscrowed
  <2>2. s[1] \in Contracts /\ f[1] \in Contracts
    BY <1>2, Zenon DEF Slots
  <2> QED BY <2>1, <2>2, Zenon DEF OneEscrowed, Escrowed
<1>5. SyncTx.target = First(pending) /\ DOMAIN SyncTx.vals = pending
  BY Zenon DEF SyncTx, Batch
<1>6. \A b \in beat' : b.tx = SyncTx
  BY DEF on_heart_beat
<1>7. sent' = sent
  BY Zenon DEF on_heart_beat
<1> QED BY <1>1, <1>4, <1>5, <1>6, <1>7, Zenon DEF DInv, Addressed

\* A clean commit sends a transaction with a nonce of its own; a failed one is
\* a disturbance.
LEMMA CommitDelivery ==
  ASSUME DInv, heart_beat_commit
  PROVE  Addressed' /\ Tracked'
<1>1. PICK b \in beat :
        /\ beat' = {}
        /\ Ship(b.tx)
        /\ \/ ~b.dirty /\ CommitTables(DOMAIN b.tx.vals, b.recorded)
           \/ b.dirty /\ UNCHANGED <<pending, syncs, pending_storage, nonce>>
        /\ conflicts' = IF b.dirty THEN conflicts + 1 ELSE conflicts
        /\ UNCHANGED <<storage, to_enclave, hostVars, onchain, logical, writes>>
  BY Zenon DEF heart_beat_commit
<1>2. b.tx \in Tx /\ b.tx.nonce = nonce /\ nonce \in Nat
  BY Zenon DEF DInv, IInv, TypeOK, Safety, BeatsKnow, BeatKnows
<1>3. sent' = sent \cup {b.tx}
  BY <1>1, Zenon DEF Ship
<1>4. Addressed'
  BY <1>1, <1>3, Zenon DEF DInv, Addressed
<1>5. ASSUME Undisturbed' PROVE SentOnce' /\ InPlace' /\ LatestShipped'
  <2>1. ~b.dirty /\ nonce' = nonce + 1 /\ Undisturbed
    BY <1>1, <1>5 DEF Undisturbed, CommitTables, DInv, IInv, TypeOK, hostVars
  <2>2. SentOnce /\ InPlace /\ LatestShipped
    BY <2>1, Zenon DEF DInv, Tracked
  <2>3. b.tx \notin sent /\ \A t \in sent : t.nonce \in Nat /\ t.nonce < nonce
    <3>1. sent \subseteq Tx
      BY Zenon DEF DInv, IInv, TypeOK
    <3>2. \A t \in sent : t.nonce \in Nat
      BY <3>1, Zenon DEF Tx
    <3>3. \A t \in sent : t.nonce < nonce
      BY <2>2, Zenon DEF SentOnce
    <3> QED BY <1>2, <3>2, <3>3
  <2>4. SentOnce'
    BY <1>2, <1>3, <2>1, <2>2, <2>3 DEF SentOnce
  <2> DEFINE e == [tx |-> b.tx, start_time |-> nonce + conflicts]
  <2>5. /\ to_host' = Append(to_host, e) /\ to_host \in Seq(Send) /\ e \in Send
        /\ UNCHANGED <<accepted, requests>>
    BY <1>1, <1>2 DEF Ship, DInv, IInv, TypeOK, hostVars, Send
  <2>6. e.tx = b.tx
    OBVIOUS
  <2> HIDE DEF e
  <2>7. /\ Len(to_host') = Len(to_host) + 1 /\ to_host'[Len(to_host) + 1] = e
        /\ \A i \in 1..Len(to_host) : to_host'[i] = to_host[i]
        /\ Len(to_host) \in Nat
    BY <2>5
  <2>8. InPlace'
    <3>1. \A t \in sent' : \/ t \in accepted
                           \/ \E r \in requests : r.tx = t
                           \/ \E i \in 1..Len(to_host') : to_host'[i].tx = t
      <4> SUFFICES ASSUME NEW t \in sent', t \notin accepted, \A r \in requests : r.tx # t
                   PROVE  \E i \in 1..Len(to_host') : to_host'[i].tx = t
        OBVIOUS
      <4>1. CASE t = b.tx
        BY <2>6, <2>7, <4>1
      <4>2. CASE t # b.tx
        <5>1. PICK i \in 1..Len(to_host) : to_host[i].tx = t
          BY <1>3, <2>2, <4>2 DEF InPlace
        <5> QED BY <2>7, <5>1
      <4> QED BY <4>1, <4>2, Zenon
    <3>2. /\ accepted \subseteq sent' /\ b.tx \notin accepted
          /\ \A r \in requests : r.tx \in sent' \ accepted /\ r.tx # b.tx
      BY <1>3, <2>2, <2>3, Zenon DEF InPlace
    <3>3. \A i \in 1..Len(to_host') :
            \/ i \in 1..Len(to_host) /\ to_host'[i] = to_host[i]
            \/ i = Len(to_host) + 1 /\ to_host'[i].tx = b.tx
      BY <2>6, <2>7
    <3>4. \A i \in 1..Len(to_host) : to_host[i].tx # b.tx
      BY <2>2, <2>3, Zenon DEF InPlace
    <3>5. \A i \in 1..Len(to_host') :
            to_host'[i].tx \in sent' \ accepted /\ \A r \in requests : r.tx # to_host'[i].tx
      BY <1>3, <2>2, <3>2, <3>3 DEF InPlace
    <3>6. \A i, j \in 1..Len(to_host') : to_host'[i].tx = to_host'[j].tx => i = j
      BY <2>2, <3>3, <3>4 DEF InPlace
    <3> QED BY <2>2, <2>5, <3>1, <3>2, <3>5, <3>6 DEF InPlace
  <2>9. LatestShipped'
    <3> SUFFICES ASSUME NEW s \in Slots, shipped'[s] # NoRecord
                 PROVE  \E t \in sent' : /\ s \in DOMAIN t.vals /\ t.vals[s] = shipped'[s]
                                         /\ \A u \in sent' : s \in DOMAIN u.vals => u.nonce <= t.nonce
      BY Zenon DEF LatestShipped
    <3>1. CASE s \in DOMAIN b.tx.vals
      <4>1. shipped'[s] = b.tx.vals[s]
        BY <1>1, <3>1, Zenon DEF Ship
      <4> QED BY <1>2, <1>3, <2>3, <3>1, <4>1
    <3>2. CASE s \notin DOMAIN b.tx.vals
      <4>1. shipped'[s] = shipped[s]
        BY <1>1, <3>2, Zenon DEF Ship
      <4>2. PICK t \in sent : /\ s \in DOMAIN t.vals /\ t.vals[s] = shipped[s]
                              /\ \A u \in sent : s \in DOMAIN u.vals => u.nonce <= t.nonce
        BY <2>2, <4>1, Zenon DEF LatestShipped
      <4> QED BY <1>3, <3>2, <4>1, <4>2, Zenon
    <3> QED BY <3>1, <3>2, Zenon
  <2> QED BY <2>4, <2>8, <2>9, Zenon
<1> QED BY <1>4, <1>5, Zenon DEF Tracked

\* The host takes a transaction from the ring buffer to the node.
LEMMA SendDelivery ==
  ASSUME DInv, host_send
  PROVE  Addressed' /\ Tracked'
<1>1. Addressed'
  BY Zenon DEF DInv, Addressed, host_send
<1>2. /\ to_host \in Seq(Send) /\ to_host # <<>>
      /\ to_host' = Tail(to_host) /\ requests' = requests \cup {Head(to_host)}
      /\ UNCHANGED <<nonce, sent, accepted, refused, conflicts, shipped>>
  BY Zenon DEF DInv, IInv, TypeOK, host_send, tables
<1>3. /\ Len(to_host) \in Nat /\ 1 \in 1..Len(to_host) /\ Head(to_host) = to_host[1]
      /\ Len(to_host') = Len(to_host) - 1
      /\ \A i \in 1..Len(to_host') : to_host'[i] = to_host[i + 1] /\ i + 1 \in 2..Len(to_host)
  BY <1>2
<1>4. ASSUME Undisturbed' PROVE SentOnce' /\ InPlace' /\ LatestShipped'
  <2>1. SentOnce /\ InPlace /\ LatestShipped
    BY <1>2, <1>4, Zenon DEF DInv, Tracked, Undisturbed
  <2>2. \A t \in sent : \/ t \in accepted
                        \/ \E r \in requests' : r.tx = t
                        \/ \E i \in 1..Len(to_host') : to_host'[i].tx = t
    <3> SUFFICES ASSUME NEW t \in sent, t \notin accepted, \A r \in requests' : r.tx # t
                 PROVE  \E i \in 1..Len(to_host') : to_host'[i].tx = t
      OBVIOUS
    <3>1. PICK i \in 1..Len(to_host) : to_host[i].tx = t
      BY <1>2, <2>1, Zenon DEF InPlace
    <3>2. i # 1
      BY <1>2, <1>3, <3>1, Zenon
    <3>3. i - 1 \in 1..Len(to_host') /\ (i - 1) + 1 = i
      BY <1>3, <3>2
    <3> QED BY <1>3, <3>1, <3>3, Zenon
  <2>3. \A r \in requests' : r.tx \in sent \ accepted
    BY <1>2, <1>3, <2>1 DEF InPlace
  <2>4. \A q, r \in requests' : q.tx = r.tx => q = r
    BY <1>2, <1>3, <2>1 DEF InPlace
  <2>5. \A i \in 1..Len(to_host') :
          to_host'[i].tx \in sent \ accepted /\ \A r \in requests' : r.tx # to_host'[i].tx
    <3> SUFFICES ASSUME NEW i \in 1..Len(to_host')
                 PROVE  to_host'[i].tx \in sent \ accepted /\ \A r \in requests' : r.tx # to_host'[i].tx
      BY Zenon
    <3>1. to_host'[i] = to_host[i + 1] /\ i + 1 \in 1..Len(to_host) /\ i + 1 # 1
      BY <1>3
    <3>2. to_host[i + 1].tx # to_host[1].tx
      BY <1>3, <2>1, <3>1, Zenon DEF InPlace
    <3> QED BY <1>2, <1>3, <2>1, <3>1, <3>2 DEF InPlace
  <2>6. \A i, j \in 1..Len(to_host') : to_host'[i].tx = to_host'[j].tx => i = j
    <3> SUFFICES ASSUME NEW i \in 1..Len(to_host'), NEW j \in 1..Len(to_host'),
                        to_host'[i].tx = to_host'[j].tx
                 PROVE  i = j
      OBVIOUS
    <3>1. i + 1 = j + 1
      BY <1>3, <2>1 DEF InPlace
    <3> QED BY <3>1
  <2>7. InPlace'
    BY <1>2, <2>1, <2>2, <2>3, <2>4, <2>5, <2>6, Zenon DEF InPlace
  <2> QED BY <1>2, <2>1, <2>7 DEF SentOnce, LatestShipped
<1> QED BY <1>1, <1>4, Zenon DEF Tracked

\* The node's answer: undisturbed, no other transaction has the nonce, so the
\* node takes the transaction.
LEMMA AnswerDelivery ==
  ASSUME DInv, NEW r \in requests, answer_hash(r) \/ answer_error(r)
  PROVE  Addressed' /\ Tracked'
<1>1. /\ Addressed'
      /\ UNCHANGED <<nonce, sent, to_host, conflicts, shipped>>
      /\ requests' = requests \ {r}
  BY Zenon DEF DInv, Addressed, answer_hash, answer_error, tables
<1>2. ASSUME Undisturbed' PROVE SentOnce' /\ InPlace' /\ LatestShipped'
  <2>1. refused \in Nat
    BY Zenon DEF DInv, IInv, TypeOK
  <2>2. Undisturbed /\ (answer_error(r) => NonceTaken(r.tx))
    BY <1>1, <1>2, <2>1 DEF Undisturbed, answer_hash, answer_error
  <2>3. SentOnce /\ InPlace /\ LatestShipped
    BY <2>2, Zenon DEF DInv, Tracked
  <2>4. ~NonceTaken(r.tx)
    BY <2>3 DEF NonceTaken, SentOnce, InPlace
  <2>5. accepted' = accepted \cup {r.tx}
    BY <2>2, <2>4, Zenon DEF answer_hash
  <2>6. InPlace'
    BY <1>1, <2>3, <2>5 DEF InPlace
  <2> QED BY <1>1, <2>3, <2>6, Zenon DEF SentOnce, LatestShipped
<1> QED BY <1>1, <1>2, Zenon DEF Tracked

\* Every step keeps track of the transactions.
LEMMA NextDInv == OneEscrowed /\ DInv /\ [Next]_vars => DInv'
<1> SUFFICES ASSUME OneEscrowed, DInv, [Next]_vars PROVE Addressed' /\ Tracked'
  BY NextIInv, Zenon DEF DInv
<1>1. CASE UserStep
  BY <1>1, UserDelivery, Zenon
<1>2. CASE on_heart_beat
  BY <1>2, HeartBeatDelivery
<1>3. CASE heart_beat_commit
  BY <1>3, CommitDelivery, Zenon
<1>4. CASE host_send
  BY <1>4, SendDelivery, Zenon
<1>5. CASE \E r \in requests : answer_hash(r) \/ answer_error(r)
  BY <1>5, AnswerDelivery, Zenon
<1>6. CASE success
  BY <1>6, TrackedFrame, Zenon DEF success, DInv, Addressed, hostVars
<1>7. CASE UNCHANGED vars
  BY <1>7, TrackedFrame, Zenon DEF vars, tables, DInv, Addressed, hostVars
<1> QED BY <1>1, <1>2, <1>3, <1>4, <1>5, <1>6, <1>7, Zenon DEF Next, BridgeStep

\* At rest every transaction is in the node's pool, the last one of a slot included.
LEMMA TrackedIsDelivered == DInv => UndisturbedDelivered
<1> SUFFICES ASSUME DInv, Undisturbed, AtRest, NEW s \in Slots, Escrowed(s), storage[s] # 0
             PROVE  Delivered(s)
  BY DEF UndisturbedDelivered, Undisturbed, DeliveredAtRest
<1>1. SentOnce /\ InPlace /\ LatestShipped /\ NoWriteForgotten
  BY DEF DInv, Tracked, IInv, Safety
<1>2. Len(to_host) = 0 /\ requests = {}
  BY DEF AtRest
<1>3. sent = accepted
  <2>1. sent \subseteq accepted
    BY <1>1, <1>2 DEF InPlace
  <2>2. accepted \subseteq sent
    BY <1>1, Zenon DEF InPlace
  <2> QED BY <2>1, <2>2, Zenon
<1>4. shipped[s] = storage[s] /\ storage[s] \in Nat
  BY <1>1, WordsAssumption, Zenon DEF AtRest, NoWriteForgotten, DInv, IInv, TypeOK
<1>5. PICK t \in sent : /\ s \in DOMAIN t.vals /\ t.vals[s] = shipped[s]
                        /\ \A u \in sent : s \in DOMAIN u.vals => u.nonce <= t.nonce
  BY <1>1, <1>4 DEF LatestShipped, NoRecord
<1>6. t \in Carriers(s)
  BY <1>3, <1>5 DEF Carriers, DInv, Addressed
<1> QED BY <1>3, <1>4, <1>5, <1>6, Zenon DEF Delivered, Carriers

\* With one escrowed contract, as long as no heartbeat's commit failed and the node
\* refused nothing, a bridge at rest has delivered every word to the chain, however
\* the stores, the heartbeats and the node's answers interleave.
THEOREM UndisturbedArrives == OneEscrowed => (Spec => []UndisturbedDelivered)
<1> SUFFICES ASSUME OneEscrowed PROVE Spec => []UndisturbedDelivered
  OBVIOUS
<1>1. Init => DInv
  <2> SUFFICES ASSUME Init PROVE Addressed /\ Tracked
    BY InitIInv, Zenon DEF DInv
  <2>1. Addressed /\ SentOnce /\ LatestShipped
    BY Zenon DEF Init, Addressed, SentOnce, LatestShipped
  <2>2. InPlace
    BY DEF Init, InPlace
  <2> QED BY <2>1, <2>2, Zenon DEF Tracked
<1>2. DInv /\ [Next]_vars => DInv'
  BY NextDInv, Zenon
<1>3. DInv => UndisturbedDelivered
  BY TrackedIsDelivered, Zenon
<1> QED BY <1>1, <1>2, <1>3, PTL DEF Spec
===============================================================================

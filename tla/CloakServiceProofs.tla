-------------------------- MODULE CloakServiceProofs --------------------------
(***************************************************************************)
(* The book of the Service and the slots of the proxies agree, for every   *)
(* set of users, proxies and logics and whatever calls are forwarded.      *)
(*                                                                         *)
(* The inductive invariant is the conjunction of the type invariant and    *)
(* the three invariants of CloakService: none of them is inductive alone.  *)
(* upgrade preserves ProofCurrent only because HeldByService says which    *)
(* implementation the proof is computed from, upgradeTo preserves          *)
(* HeldByService only because the admin of a proxy that is held is the     *)
(* factory, and a forwarded call reaches the StateFactory only while the   *)
(* proxy is held.                                                          *)
(***************************************************************************)
EXTENDS CloakService, TLAPS

(***************************************************************************)
(* The three invariants, proxy by proxy: slots q, book entry e and the     *)
(* history (l the latest logic, r whether a forwarded cancel came) agree.  *)
(***************************************************************************)
Holding(q, l) ==
  /\ q.admin = proxyFactory
  /\ q.impl = stateFactory
  /\ q.executor = Service
  /\ q.rollback = l /\ l # nil
  /\ q.proof = generateEscrowProof(q.rollback, stateFactory)

Free(q) ==
  /\ q.admin # proxyFactory
  /\ q.impl # stateFactory
  /\ q.executor = nil
  /\ q.rollback = nil
  /\ q.proof = nil

Agree(q, e, l, r) ==
  /\ e.master # nil /\ ~r => Holding(q, l)
  /\ e.master = nil \/ r => Free(q)
  /\ e.master = nil => q.admin \in Senders /\ ~e.enhanced

Agreement == \A p \in Proxies : Agree(proxy[p], escrows[p], latest[p], p \in released)

IInv == TypeOK /\ Agreement

\* The addresses of the system contracts are not those of accounts.
LEMMA SystemAddresses ==
  /\ \A a \in Targets : a \notin System
  /\ \A s \in Senders : s # nil /\ s # proxyFactory /\ s # stateFactory /\ s # Service
  /\ \A a \in Accounts : a # proxyFactory
  /\ nil # Service /\ nil # stateFactory /\ nil # proxyFactory /\ Service # proxyFactory
  /\ stateFactory # proxyFactory /\ stateFactory # proxyBridge
BY AddressesDistinct
   DEF Targets, Contracts, Senders, Accounts, System, nil, Service, stateFactory,
       proxyFactory, proxyBridge

\* generateEscrowProof returns the kind of hash the proof slot holds.
LEMMA ProofType ==
  ASSUME NEW a \in Targets
  PROVE  generateEscrowProof(a, stateFactory) \in Hashes \X {stateFactory}
BY Zenon DEF generateEscrowProof, keccak, extcodehash, Hashes

\* Initially every proxy belongs to the user who deployed it.
LEMMA InitIInv == Init => IInv
<1> SUFFICES ASSUME Init PROVE IInv
  OBVIOUS
<1>1. \A p \in Proxies : \E u \in Users, l \in Logics : proxy[p] = Deployed(u, l)
  BY DEF Init
<1>2. proxy \in [Proxies -> ProxySlots]
  <2>1. \A u \in Users, l \in Logics : Deployed(u, l) \in ProxySlots
    BY DEF Deployed, ProxySlots, Accounts, Senders, Contracts
  <2> QED BY <2>1 DEF Init
<1>3. TypeOK
  BY <1>2 DEF Init, TypeOK, NoEscrow, NoNode
<1>4. ASSUME NEW p \in Proxies PROVE Agree(proxy[p], escrows[p], latest[p], p \in released)
  <2>1. PICK u \in Users, l \in Logics : proxy[p] = Deployed(u, l)
    BY <1>1
  <2>2. u \in Senders /\ l \in Targets
    BY DEF Senders, Targets, Contracts
  <2>3. Free(proxy[p]) /\ proxy[p].admin \in Senders
    BY <2>1, <2>2, SystemAddresses DEF Free, Deployed, System
  <2>4. escrows[p] = NoEscrow
    BY DEF Init
  <2> QED BY <2>3, <2>4 DEF Agree, NoEscrow
<1> QED BY <1>3, <1>4 DEF IInv, Agreement

\* IInv is what the three invariants say together.
LEMMA IInvImplies == IInv => TypeOK /\ HeldByService /\ NothingLeftBehind /\ ProofCurrent
<1> SUFFICES ASSUME IInv PROVE HeldByService /\ NothingLeftBehind /\ ProofCurrent
  BY DEF IInv
<1>1. HeldByService /\ NothingLeftBehind
  BY Zenon DEF IInv, Agreement, Agree, Holding, Free, HeldByService, NothingLeftBehind, Escrowed
<1>2. ProofCurrent
  BY Zenon DEF IInv, Agreement, Agree, Holding, Free, ProofCurrent
<1> QED BY <1>1, <1>2

\* The owner of a proxy that is not held changes its implementation.
LEMMA UpgradeToStep ==
  ASSUME IInv, NEW p \in Proxies, NEW i \in Logics \cup {proxyBridge},
         upgradeTo(p, i)
  PROVE  IInv'
<1>1. proxy[p] \in ProxySlots /\ Agree(proxy[p], escrows[p], latest[p], p \in released)
  BY DEF IInv, TypeOK, Agreement
<1>2. escrows[p].master = nil \/ p \in released
  BY <1>1, SystemAddresses, Zenon DEF upgradeTo, Agree, Holding
<1> DEFINE q == [proxy[p] EXCEPT !.impl = i]
<1>3. i # stateFactory /\ i \in Contracts \cup {stateFactory, proxyBridge}
  BY SystemAddresses DEF System, Targets, Contracts
<1>4. q \in ProxySlots /\ Agree(q, escrows[p], nil, p \in released)
  BY <1>1, <1>2, <1>3, Zenon DEF Agree, Free, ProxySlots
<1>5. proxy' = [proxy EXCEPT ![p] = q] /\ latest' = [latest EXCEPT ![p] = nil]
      /\ UNCHANGED <<escrows, storage, released, networkVars>>
  BY DEF upgradeTo
<1> HIDE DEF q
<1>6. TypeOK'
  BY <1>4, <1>5, SMTT(40) DEF IInv, TypeOK, networkVars
<1>7. Agreement'
  BY <1>4, <1>5, ZenonT(40) DEF IInv, TypeOK, Agreement
<1> QED BY <1>6, <1>7 DEF IInv

\* The owner of a proxy that is not held gives it to another account.
LEMMA ChangeAdminStep ==
  ASSUME IInv, NEW p \in Proxies, NEW a \in Senders, changeAdmin(p, a)
  PROVE  IInv'
<1>1. proxy[p] \in ProxySlots /\ Agree(proxy[p], escrows[p], latest[p], p \in released)
  BY DEF IInv, TypeOK, Agreement
<1>2. escrows[p].master = nil \/ p \in released
  BY <1>1, SystemAddresses, Zenon DEF changeAdmin, Agree, Holding
<1> DEFINE q == [proxy[p] EXCEPT !.admin = a]
<1>3. q \in ProxySlots /\ Agree(q, escrows[p], latest[p], p \in released)
  BY <1>1, <1>2, SystemAddresses, Zenon DEF Agree, Free, ProxySlots, Accounts
<1>4. proxy' = [proxy EXCEPT ![p] = q]
      /\ UNCHANGED <<escrows, storage, latest, released, networkVars>>
  BY DEF changeAdmin, history
<1> HIDE DEF q
<1>5. TypeOK'
  BY <1>3, <1>4, SMTT(40) DEF IInv, TypeOK, networkVars
<1>6. Agreement'
  BY <1>3, <1>4, ZenonT(40) DEF IInv, TypeOK, Agreement
<1> QED BY <1>5, <1>6 DEF IInv

\* escrow fills in every slot at once.
LEMMA EscrowStep ==
  ASSUME IInv, NEW origin \in Users, NEW sender \in Senders,
         NEW p \in Proxies, NEW logic \in Targets,
         escrow(origin, sender, p, logic)
  PROVE  IInv'
<1> DEFINE q == [admin |-> proxyFactory, impl |-> stateFactory,
                 rollback |-> logic, executor |-> Service,
                 proof |-> generateEscrowProof(logic, stateFactory)]
           e == [master |-> sender, enhanced |-> FALSE]
<1>1. q \in ProxySlots
  BY ProofType DEF ProxySlots
<1>2. Agree(q, e, logic, FALSE)
  BY SystemAddresses, Zenon DEF Agree, Holding, System
<1>3. /\ proxy' = [proxy EXCEPT ![p] = q] /\ escrows' = [escrows EXCEPT ![p] = e]
      /\ latest' = [latest EXCEPT ![p] = logic] /\ released' = released \ {p}
      /\ UNCHANGED <<storage, networkVars>>
  BY Zenon DEF escrow
<1>4. e \in [master : Senders \cup {nil}, enhanced : BOOLEAN]
  OBVIOUS
<1> HIDE DEF q, e
<1>5. TypeOK'
  BY <1>1, <1>3, <1>4 DEF IInv, TypeOK, networkVars
<1>6. ASSUME NEW r \in Proxies
      PROVE  Agree(proxy'[r], escrows'[r], latest'[r], r \in released')
  <2>1. CASE r = p
    <3>1. proxy'[r] = q /\ escrows'[r] = e /\ latest'[r] = logic
      BY <1>3, <2>1, Zenon DEF IInv, TypeOK
    <3>2. (r \in released') = FALSE
      BY <1>3, <2>1
    <3> QED BY <1>2, <3>1, <3>2
  <2>2. CASE r # p
    <3>1. proxy'[r] = proxy[r] /\ escrows'[r] = escrows[r] /\ latest'[r] = latest[r]
      BY <1>3, <2>2, Zenon DEF IInv, TypeOK
    <3>2. (r \in released') = (r \in released)
      BY <1>3, <2>2
    <3> QED BY <3>1, <3>2 DEF IInv, Agreement
  <2> QED BY <2>1, <2>2
<1> QED BY <1>5, <1>6 DEF IInv, Agreement

(***************************************************************************)
(* What the functions of the StateFactory make of the slots.               *)
(***************************************************************************)

\* upgrade computes the proof from the implementation, the StateFactory.
LEMMA UpgradedIsHeld ==
  ASSUME IInv, NEW p \in Proxies, NEW logic \in Targets, Upgradable(p, logic)
  PROVE  /\ escrows[p].master # nil /\ p \notin released
         /\ Upgraded(p, logic) \in ProxySlots
         /\ Agree(Upgraded(p, logic), escrows[p], logic, p \in released)
<1>1. proxy[p] \in ProxySlots /\ Agree(proxy[p], escrows[p], latest[p], p \in released)
  BY DEF IInv, TypeOK, Agreement
<1>2. escrows[p].master # nil /\ p \notin released /\ Holding(proxy[p], latest[p])
  BY <1>1, SystemAddresses, Zenon DEF Upgradable, Agree, Free
<1>3. Upgraded(p, logic) = [proxy[p] EXCEPT !.rollback = logic,
                              !.proof = generateEscrowProof(logic, stateFactory)]
  BY <1>2, Zenon DEF Upgraded, Holding
<1>4. Upgraded(p, logic) \in ProxySlots
  BY <1>1, <1>3, ProofType, Zenon DEF ProxySlots
<1>5. Holding(Upgraded(p, logic), logic)
  BY <1>1, <1>2, <1>3, SystemAddresses, Zenon DEF Holding, ProxySlots, System
<1> QED BY <1>2, <1>4, <1>5 DEF Agree

\* Of the slots HandedBack is about, upgrade changes the rollback only.
LEMMA UpgradedSlots ==
  ASSUME NEW p, proxy[p] \in ProxySlots
  PROVE  \A l : /\ Upgraded(p, l).executor = proxy[p].executor
                /\ Upgraded(p, l).rollback = l
BY DEF Upgraded, ProxySlots

\* cancel makes a proxy that is held free, of whomever it names.
LEMMA ReleasedIsFree ==
  ASSUME NEW q \in ProxySlots, NEW master \in Accounts, Cancellable(q)
  PROVE  Released(q, master) \in ProxySlots /\ Free(Released(q, master))
<1>1. q.rollback \in Contracts /\ q.rollback # stateFactory
  BY SystemAddresses DEF Cancellable, isContract, Targets, System
<1> QED BY <1>1, SystemAddresses, Zenon DEF Released, ProxySlots, Free

\* Given back to its master, its book entry deleted, it is the master's again.
LEMMA ReleasedToMaster ==
  ASSUME NEW q \in ProxySlots, NEW master \in Senders, Cancellable(q), NEW l, NEW r
  PROVE  Released(q, master) \in ProxySlots /\ Agree(Released(q, master), NoEscrow, l, r)
<1>1. master \in Accounts
  BY DEF Accounts
<1>2. Released(q, master) \in ProxySlots /\ Free(Released(q, master))
  BY <1>1, ReleasedIsFree
<1>3. Released(q, master).admin = master
  BY DEF Released
<1> QED BY <1>2, <1>3 DEF Agree, NoEscrow

\* The master's upgrade.
LEMMA UpgradeStep ==
  ASSUME IInv, NEW sender \in Senders, NEW p \in Proxies, NEW logic \in Targets,
         upgrade(sender, p, logic)
  PROVE  IInv'
<1> DEFINE q == Upgraded(p, logic)
<1>1. q \in ProxySlots /\ Agree(q, escrows[p], logic, p \in released)
  BY UpgradedIsHeld DEF upgrade
<1>2. proxy' = [proxy EXCEPT ![p] = q] /\ latest' = [latest EXCEPT ![p] = logic]
      /\ UNCHANGED <<escrows, storage, released, networkVars>>
  BY DEF upgrade
<1> HIDE DEF q
<1>3. TypeOK'
  BY <1>1, <1>2, ZenonT(40) DEF IInv, TypeOK, networkVars
<1>4. Agreement'
  BY <1>1, <1>2, ZenonT(40) DEF IInv, TypeOK, Agreement
<1> QED BY <1>3, <1>4 DEF IInv

\* The master's cancel: the slots are cleared with the book's entry.
LEMMA CancelStep ==
  ASSUME IInv, NEW sender \in Senders, NEW p \in Proxies, cancel(sender, p)
  PROVE  IInv'
<1> DEFINE q == Released(proxy[p], sender)
<1>1. q \in ProxySlots /\ Agree(q, NoEscrow, latest[p], p \in released)
  BY ReleasedToMaster DEF cancel, IInv, TypeOK
<1>2. NoEscrow \in [master : Senders \cup {nil}, enhanced : BOOLEAN]
  BY DEF NoEscrow
<1>3. proxy' = [proxy EXCEPT ![p] = q] /\ escrows' = [escrows EXCEPT ![p] = NoEscrow]
      /\ UNCHANGED <<storage, latest, released, networkVars>>
  BY DEF cancel, history
<1> HIDE DEF q
<1>4. TypeOK'
  BY <1>1, <1>2, <1>3, ZenonT(40) DEF IInv, TypeOK, networkVars
<1>5. Agreement'
  BY <1>1, <1>3, ZenonT(40) DEF IInv, TypeOK, Agreement
<1> QED BY <1>4, <1>5 DEF IInv

(***************************************************************************)
(* Forwarded calls.                                                        *)
(***************************************************************************)

\* The arguments of the calls.
LEMMA CallArguments ==
  ASSUME NEW c \in Calls
  PROVE  /\ c.op \in {"updateState", "logic"} => c.arg \in Words
         /\ c.op = "upgrade" => c.arg \in Targets
         /\ c.op \in {"cancel", "changeAdmin"} => c.arg \in Accounts
         /\ c.op = "upgradeTo" => c.arg \in Logics \cup {proxyBridge}
         /\ c.op \in {"updateState", "logic", "upgrade", "cancel", "upgradeTo", "changeAdmin"}
BY DEF Calls, Call

\* The logic last asked for, after the call c to p.
Asked(p, c) == IF c.op = "upgrade" THEN c.arg ELSE latest[p]

\* Whatever is forwarded to a proxy that is booked, its slots go on agreeing with
\* the book, a forwarded cancel being noted.
LEMMA SlotsAgree ==
  ASSUME IInv, NEW p \in Proxies, NEW c \in Calls, Escrowed(p), Succeeds(p, c)
  PROVE  /\ Slots(p, c) \in ProxySlots
         /\ Agree(Slots(p, c), escrows[p], Asked(p, c), p \in released \/ c.op = "cancel")
<1>1. proxy[p] \in ProxySlots /\ Agree(proxy[p], escrows[p], latest[p], p \in released)
  BY DEF IInv, TypeOK, Agreement
<1>2. CASE c.op = "upgrade"
  <2>1. c.arg \in Targets /\ Upgradable(p, c.arg)
    BY <1>2, CallArguments DEF Succeeds
  <2>2. Slots(p, c) = Upgraded(p, c.arg) /\ Asked(p, c) = c.arg
    BY <1>2 DEF Slots, Asked
  <2>3. (p \in released \/ c.op = "cancel") = (p \in released)
    BY <1>2
  <2> QED BY <2>1, <2>2, <2>3, UpgradedIsHeld
<1>3. CASE c.op = "cancel"
  <2>1. c.arg \in Accounts /\ Cancellable(proxy[p])
    BY <1>3, CallArguments DEF Succeeds
  <2>2. Slots(p, c) = Released(proxy[p], c.arg)
    BY <1>3 DEF Slots
  <2>3. Slots(p, c) \in ProxySlots /\ Free(Slots(p, c))
    BY <1>1, <2>1, <2>2, ReleasedIsFree
  <2> QED BY <1>3, <2>3, Zenon DEF Agree, Escrowed
<1>4. CASE c.op = "upgradeTo"
  <2>1. proxy[p].admin = Service /\ c.arg \in Logics \cup {proxyBridge}
    BY <1>4, CallArguments DEF Succeeds
  <2>2. p \in released /\ Free(proxy[p])
    BY <1>1, <2>1, SystemAddresses, Zenon DEF Agree, Holding, Escrowed
  <2>3. c.arg # stateFactory /\ c.arg \in Contracts \cup {stateFactory, proxyBridge}
    BY <2>1, SystemAddresses DEF System, Targets, Contracts
  <2>4. Slots(p, c) = [proxy[p] EXCEPT !.impl = c.arg]
    BY <1>4 DEF Slots
  <2>5. Slots(p, c) \in ProxySlots /\ Free(Slots(p, c))
    BY <1>1, <2>2, <2>3, <2>4, Zenon DEF Free, ProxySlots
  <2> QED BY <2>2, <2>5, Zenon DEF Agree, Escrowed
<1>5. CASE c.op \in {"updateState", "logic"}
  <2>1. Slots(p, c) = proxy[p] /\ Asked(p, c) = latest[p]
    BY <1>5 DEF Slots, Asked
  <2>2. (p \in released \/ c.op = "cancel") = (p \in released)
    BY <1>5
  <2> QED BY <1>1, <2>1, <2>2
<1>6. CASE c.op = "changeAdmin"
  <2>1. proxy[p].admin = Service /\ c.arg \in Accounts
    BY <1>6, CallArguments DEF Succeeds
  <2>2. p \in released /\ Free(proxy[p])
    BY <1>1, <2>1, SystemAddresses, Zenon DEF Agree, Holding, Escrowed
  <2>3. Slots(p, c) = [proxy[p] EXCEPT !.admin = c.arg]
    BY <1>6 DEF Slots
  <2>4. Slots(p, c) \in ProxySlots /\ Free(Slots(p, c))
    BY <1>1, <2>1, <2>2, <2>3, SystemAddresses, Zenon DEF Free, ProxySlots
  <2> QED BY <2>2, <2>4, Zenon DEF Agree, Escrowed
<1> QED BY <1>2, <1>3, <1>4, <1>5, <1>6, CallArguments

\* The storage that a forwarded call leaves, and the logic it asks for.
LEMMA ForwardTypes ==
  ASSUME IInv, NEW batch \in SUBSET Proxies, NEW calls \in [batch -> Calls], Forward(calls)
  PROVE  /\ storage' \in [Proxies -> Words] /\ latest' \in [Proxies -> Targets \cup {nil}]
         /\ \A p \in batch : latest'[p] = Asked(p, calls[p])
         /\ \A p \in Proxies \ batch : latest'[p] = latest[p]
         /\ UNCHANGED networkVars
<1>1. \A p \in batch : calls[p] \in Calls
  OBVIOUS
<1>2. DOMAIN calls = batch
  OBVIOUS
<1>3. storage \in [Proxies -> Words] /\ latest \in [Proxies -> Targets \cup {nil}]
  BY DEF IInv, TypeOK
<1>4. \A p \in batch : Stored(p, calls[p]) \in Words /\ Asked(p, calls[p]) \in Targets \cup {nil}
  BY <1>1, <1>3, CallArguments DEF Stored, State_updateState, Asked
<1>5. storage' = [p \in Proxies |-> IF p \in batch THEN Stored(p, calls[p]) ELSE storage[p]]
  BY <1>2 DEF Forward
<1>6. latest' = [p \in Proxies |-> IF p \in batch THEN Asked(p, calls[p]) ELSE latest[p]]
  BY <1>2 DEF Forward, Asked
<1>7. UNCHANGED networkVars
  BY DEF Forward
<1> QED BY <1>3, <1>4, <1>5, <1>6, <1>7, Zenon

\* updateState keeps the invariant for each proxy of its batch.
LEMMA UpdateStateStep ==
  ASSUME IInv, NEW batch \in SUBSET Proxies, NEW calls \in [batch -> Calls], updateState(calls)
  PROVE  IInv'
<1>1. Forward(calls) /\ UNCHANGED escrows /\ DOMAIN calls = batch
  BY DEF updateState
<1>2. ASSUME NEW p \in batch
      PROVE  /\ Slots(p, calls[p]) \in ProxySlots
             /\ Agree(Slots(p, calls[p]), escrows[p], Asked(p, calls[p]),
                       p \in released \/ calls[p].op = "cancel")
  BY <1>1, SlotsAgree DEF Forward
<1>3. proxy' = [p \in Proxies |-> IF p \in batch THEN Slots(p, calls[p]) ELSE proxy[p]]
  BY <1>1 DEF updateState
<1>4. released' = released \cup {p \in batch : calls[p].op = "cancel"}
  BY <1>1 DEF updateState
<1>5. TypeOK'
  BY <1>1, <1>2, <1>3, <1>4, ForwardTypes, ZenonT(40) DEF IInv, TypeOK, networkVars
<1>6. ASSUME NEW p \in Proxies
      PROVE  Agree(proxy'[p], escrows'[p], latest'[p], p \in released')
  <2>1. CASE p \in batch
    <3>1. (p \in released') = (p \in released \/ calls[p].op = "cancel")
      BY <1>4, <2>1
    <3>2. proxy'[p] = Slots(p, calls[p]) /\ latest'[p] = Asked(p, calls[p])
      BY <1>1, <1>3, <2>1, ForwardTypes
    <3> QED BY <1>1, <1>2, <2>1, <3>1, <3>2
  <2>2. CASE p \notin batch
    <3>1. (p \in released') = (p \in released)
      BY <1>4, <2>2
    <3>2. proxy'[p] = proxy[p] /\ latest'[p] = latest[p]
      BY <1>1, <1>3, <2>2, ForwardTypes
    <3> QED BY <1>1, <3>1, <3>2 DEF IInv, Agreement
  <2> QED BY <2>1, <2>2
<1> QED BY <1>5, <1>6 DEF IInv, Agreement

\* updateStateAndCancel gives each proxy of its batch back.
LEMMA UpdateStateAndCancelStep ==
  ASSUME IInv, NEW batch \in SUBSET Proxies, NEW calls \in [batch -> Calls],
         updateStateAndCancel(calls)
  PROVE  IInv'
<1>1. Forward(calls) /\ UNCHANGED released /\ DOMAIN calls = batch
  BY DEF updateStateAndCancel
<1> DEFINE q(p) == Released(Slots(p, calls[p]), escrows[p].master)
<1>2. ASSUME NEW p \in batch, NEW l, NEW r
      PROVE  q(p) \in ProxySlots /\ Agree(q(p), NoEscrow, l, r)
  <2>1. escrows[p].master \in Senders
    BY <1>1, Zenon DEF IInv, TypeOK, Forward, Escrowed
  <2>2. Slots(p, calls[p]) \in ProxySlots
    BY <1>1, SlotsAgree DEF Forward
  <2>3. Cancellable(Slots(p, calls[p]))
    BY <1>1 DEF updateStateAndCancel
  <2> QED BY <2>1, <2>2, <2>3, ReleasedToMaster
<1>3. proxy' = [p \in Proxies |-> IF p \in batch THEN q(p) ELSE proxy[p]]
  BY <1>1 DEF updateStateAndCancel
<1>4. escrows' = [p \in Proxies |-> IF p \in batch THEN NoEscrow ELSE escrows[p]]
  BY <1>1 DEF updateStateAndCancel
<1>5. NoEscrow \in [master : Senders \cup {nil}, enhanced : BOOLEAN]
  BY DEF NoEscrow
<1>6. \A p \in batch : q(p) \in ProxySlots
  BY <1>2
<1> HIDE DEF q
<1>7. TypeOK'
  BY <1>1, <1>3, <1>4, <1>5, <1>6, ForwardTypes, ZenonT(40) DEF IInv, TypeOK, networkVars
<1>8. ASSUME NEW p \in Proxies
      PROVE  Agree(proxy'[p], escrows'[p], latest'[p], p \in released')
  <2>1. CASE p \in batch
    BY <1>2, <1>3, <1>4, <2>1
  <2>2. CASE p \notin batch
    <3>1. proxy'[p] = proxy[p] /\ escrows'[p] = escrows[p] /\ latest'[p] = latest[p]
      BY <1>1, <1>3, <1>4, <2>2, ForwardTypes
    <3> QED BY <1>1, <3>1 DEF IInv, Agreement
  <2> QED BY <2>1, <2>2
<1> QED BY <1>7, <1>8 DEF IInv, Agreement

\* Enhancement changes the book entry of an escrowed proxy only.
LEMMA EnhancementStep ==
  ASSUME IInv, NEW sender \in Senders, NEW p \in Proxies,
         privacyEnhancement(sender, p)
  PROVE  IInv'
<1>1. escrows[p].master # nil
  BY SystemAddresses DEF privacyEnhancement
<1> DEFINE e == [escrows[p] EXCEPT !.enhanced = TRUE]
<1>2. e.master = escrows[p].master
      /\ e \in [master : Senders \cup {nil}, enhanced : BOOLEAN]
  BY ZenonT(40) DEF IInv, TypeOK
<1>3. escrows' = [escrows EXCEPT ![p] = e]
      /\ UNCHANGED <<proxy, storage, latest, released, networkVars>>
  BY DEF privacyEnhancement, history
<1> HIDE DEF e
<1>4. TypeOK'
  BY <1>2, <1>3, ZenonT(40) DEF IInv, TypeOK, networkVars
<1>5. Agreement'
  BY <1>1, <1>2, <1>3, ZenonT(40) DEF IInv, TypeOK, Agreement, Agree
<1> QED BY <1>4, <1>5 DEF IInv

\* The other operations touch neither the slots nor the book.
LEMMA OtherSteps ==
  ASSUME IInv,
         \/ \E p \in Proxies, w \in Words : callLogic(p, w)
         \/ NetworkStep
         \/ UNCHANGED vars
  PROVE  IInv'
<1>1. UNCHANGED <<proxy, escrows, latest, released>>
  BY Zenon DEF callLogic, NetworkStep, registerNode, authorize,
         removeNode, updateNode, transferOwnership, serviceVars, history, vars
<1>2. Agreement'
  BY <1>1 DEF IInv, Agreement
<1>3. CASE \E p \in Proxies, w \in Words : callLogic(p, w)
  BY <1>2, <1>3 DEF IInv, TypeOK, callLogic, history, networkVars
<1>5. CASE NetworkStep
  <2>1. UNCHANGED serviceVars
    BY <1>5, Zenon DEF NetworkStep, registerNode, authorize, removeNode, updateNode,
                transferOwnership
  <2> DEFINE T == /\ isRegistered' \in [Users -> BOOLEAN]
                  /\ nodes' \in [Users -> [active : BOOLEAN, authorize : BOOLEAN]]
                  /\ owner' \in Users
  <2>2. T
    <3>0. /\ isRegistered \in [Users -> BOOLEAN]
          /\ nodes \in [Users -> [active : BOOLEAN, authorize : BOOLEAN]]
          /\ owner \in Users
      BY DEF IInv, TypeOK
    <3>1. NoNode \in [active : BOOLEAN, authorize : BOOLEAN]
      BY DEF NoNode
    <3>2. ASSUME NEW n \in Users, registerNode(n) PROVE T
      BY <3>0, <3>1, <3>2, Zenon DEF registerNode
    <3>3. ASSUME NEW n \in Users, NEW a \in Users, authorize(a, n) PROVE T
      BY <3>0, <3>3, Zenon DEF authorize
    <3>4. ASSUME NEW n \in Users, NEW a \in Users, removeNode(a, n) PROVE T
      BY <3>0, <3>1, <3>4, Zenon DEF removeNode
    <3>5. ASSUME NEW n \in Users, NEW a \in Users, NEW b \in BOOLEAN,
                 updateNode(a, n, b)
          PROVE  T
      BY <3>0, <3>5, Zenon DEF updateNode
    <3>6. ASSUME NEW n \in Users, NEW a \in Users, transferOwnership(a, n) PROVE T
      BY <3>0, <3>6 DEF transferOwnership
    <3> HIDE DEF T
    <3> QED BY <1>5, <3>2, <3>3, <3>4, <3>5, <3>6, Zenon DEF NetworkStep
  <2> QED BY <1>2, <2>1, <2>2, Zenon DEF IInv, TypeOK, serviceVars, history
<1>6. CASE UNCHANGED vars
  BY <1>2, <1>6, Zenon DEF IInv, TypeOK, vars, serviceVars, history, networkVars
<1> QED BY <1>3, <1>5, <1>6

\* What is forwarded is a call to each of a batch of proxies.
LEMMA TeeStepCalls ==
  ASSUME TeeStep
  PROVE  \E batch \in SUBSET Proxies : \E calls \in [batch -> Calls] :
            updateState(calls) \/ updateStateAndCancel(calls)
<1>1. PICK batch \in SUBSET {p \in Proxies : Escrowed(p)} :
        \E calls \in [batch -> {c \in Calls : \E p \in batch : Succeeds(p, c)}] :
           updateState(calls) \/ updateStateAndCancel(calls)
  BY Zenon DEF TeeStep
<1>2. PICK calls \in [batch -> {c \in Calls : \E p \in batch : Succeeds(p, c)}] :
        updateState(calls) \/ updateStateAndCancel(calls)
  BY <1>1
<1>3. batch \in SUBSET Proxies /\ calls \in [batch -> Calls]
  OBVIOUS
<1> QED BY <1>2, <1>3

\* Every operation of the contracts keeps the invariant.
LEMMA StepIInv == IInv /\ [Next]_vars => IInv'
<1> SUFFICES ASSUME IInv, [Next]_vars PROVE IInv'
  OBVIOUS
<1>1. CASE OwnerStep
  BY <1>1, UpgradeToStep, ChangeAdminStep, OtherSteps DEF OwnerStep
<1>2. CASE MasterStep
  BY <1>2, EscrowStep, EnhancementStep, UpgradeStep, CancelStep, Zenon DEF MasterStep
<1>3. CASE TeeStep
  <2>1. PICK batch \in SUBSET Proxies : \E calls \in [batch -> Calls] :
               updateState(calls) \/ updateStateAndCancel(calls)
    BY <1>3, TeeStepCalls
  <2>2. PICK calls \in [batch -> Calls] : updateState(calls) \/ updateStateAndCancel(calls)
    BY <2>1
  <2> QED BY <2>2, UpdateStateStep, UpdateStateAndCancelStep
<1>4. CASE NetworkStep \/ UNCHANGED vars
  BY <1>4, OtherSteps
<1> QED BY <1>1, <1>2, <1>3, <1>4 DEF Next

\* The invariant holds of every behaviour of the Service.
LEMMA Invariance == Spec => []IInv
BY InitIInv, StepIInv, PTL DEF Spec

(***************************************************************************)
(* The book of the Service and the slots of the proxies agree at all       *)
(* times.                                                                  *)
(***************************************************************************)

\* The book, the registry of nodes and the slots of the proxies keep their types
\* through every operation of the contracts.
THEOREM TypeCorrect == Spec => []TypeOK
BY Invariance, IInvImplies, PTL

\* A proxy that the Service's book names is held by the Service, on the logic last
\* asked for, as long as no forwarded cancel has ended its escrow.
THEOREM EscrowedProxiesAreHeld == Spec => []HeldByService
BY Invariance, IInvImplies, PTL

\* A proxy given back by cancel, by updateStateAndCancel or by a forwarded call has
\* no slot of its escrow left.
THEOREM FreeProxiesAreClean == Spec => []NothingLeftBehind
BY Invariance, IInvImplies, PTL

\* The proof that a proxy holds is the one of the logic that cancel would restore,
\* after upgrades by its master and after forwarded ones (StateFactory.updateProof).
THEOREM ProofIsCurrent == Spec => []ProofCurrent
BY Invariance, IInvImplies, PTL

(***************************************************************************)
(* A proxy leaves the Service's hands on its latest logic, and to its      *)
(* master unless a forwarded cancel names another account.                 *)
(***************************************************************************)
THEOREM ProxyIsHandedBack == Spec => HandedBack
<1> DEFINE Given(q) == /\ proxy'[q].admin = escrows[q].master \/ q \in released'
                       /\ proxy'[q].impl = latest'[q]
           Back == \A p \in Proxies : Held(p) /\ ~Held(p)' => Given(p)
<1>1. IInv /\ [Next]_vars => [Back]_vars
  <2> SUFFICES ASSUME IInv, Next, NEW q \in Proxies, Held(q), ~Held(q)' PROVE Given(q)
    OBVIOUS
  <2>0. /\ proxy[q] \in ProxySlots /\ proxy' # proxy
        /\ proxy'[q].executor # Service /\ proxy[q].executor = Service
        /\ escrows[q].master # nil /\ q \notin released /\ Holding(proxy[q], latest[q])
    BY SystemAddresses, Zenon DEF Held, IInv, TypeOK, Agreement, Agree, Free
  <2>1. CASE NetworkStep \/ \E p \in Proxies, w \in Words : callLogic(p, w)
    BY <2>0, <2>1, Zenon DEF callLogic, NetworkStep, registerNode,
              authorize, removeNode, updateNode, transferOwnership, serviceVars
  <2>2. ASSUME NEW p \in Proxies, NEW i, upgradeTo(p, i) PROVE FALSE
    BY <2>0, <2>2, Zenon DEF upgradeTo, IInv, TypeOK, ProxySlots
  <2>3. ASSUME NEW p \in Proxies, NEW s \in Senders, cancel(s, p) PROVE Given(q)
    <3>1. p = q
      BY <2>0, <2>3, Zenon DEF cancel, IInv, TypeOK
    <3>2. proxy'[q] = Released(proxy[q], s) /\ escrows[q].master = s /\ latest' = latest
      BY <2>3, <3>1, Zenon DEF cancel, history, IInv, TypeOK
    <3> QED BY <2>0, <3>2 DEF Released, Holding
  <2>4. ASSUME NEW s \in Senders, NEW p \in Proxies,
               \/ \E o \in Users, l \in Targets : escrow(o, s, p, l)
               \/ privacyEnhancement(s, p)
               \/ \E l \in Targets : upgrade(s, p, l)
        PROVE  FALSE
    <3>1. ASSUME NEW o \in Users, NEW l \in Targets, escrow(o, s, p, l) PROVE FALSE
      BY <2>0, <3>1, Zenon DEF escrow, IInv, TypeOK
    <3>2. ASSUME privacyEnhancement(s, p) PROVE FALSE
      BY <2>0, <3>2, Zenon DEF privacyEnhancement
    <3>3. ASSUME NEW l \in Targets, upgrade(s, p, l) PROVE FALSE
      <4>1. proxy'[q] = proxy[q] \/ (p = q /\ proxy'[q] = Upgraded(q, l))
        BY <3>3, Zenon DEF upgrade, IInv, TypeOK
      <4> QED BY <2>0, <4>1, UpgradedSlots
    <3> QED BY <2>4, <3>1, <3>2, <3>3, Zenon
  <2>5. ASSUME NEW batch \in SUBSET Proxies, NEW calls \in [batch -> Calls],
               updateState(calls) \/ updateStateAndCancel(calls)
        PROVE  Given(q)
    <3>1. Forward(calls) /\ DOMAIN calls = batch
      BY <2>5 DEF updateState, updateStateAndCancel
    <3>2. q \in batch
      BY <2>0, <2>5, <3>1, Zenon DEF updateState, updateStateAndCancel
    <3>3. Succeeds(q, calls[q]) /\ calls[q] \in Calls /\ latest'[q] = Asked(q, calls[q])
      BY <3>1, <3>2, ForwardTypes DEF Forward
    <3>4. calls[q].op \in {"updateState", "upgrade", "cancel"}
      BY <2>0, <3>3, SystemAddresses, CallArguments
         DEF Succeeds, Holding, Targets, Contracts, System
    <3>5. CASE updateState(calls)
      <4>1. proxy'[q] = Slots(q, calls[q])
        BY <3>1, <3>2, <3>5 DEF updateState
      <4>2. calls[q].op # "updateState"
        BY <2>0, <4>1 DEF Slots
      <4>3. calls[q].op # "upgrade"
        BY <2>0, <4>1, UpgradedSlots DEF Slots
      <4>4. calls[q].op = "cancel"
        BY <3>4, <4>2, <4>3
      <4>5. q \in released'
        BY <3>1, <3>2, <3>5, <4>4 DEF updateState
      <4>6. proxy'[q] = Released(proxy[q], calls[q].arg) /\ latest'[q] = latest[q]
        BY <3>3, <4>1, <4>4 DEF Slots, Asked
      <4> QED BY <2>0, <4>5, <4>6 DEF Released, Holding
    <3>6. CASE updateStateAndCancel(calls)
      <4>1. /\ proxy'[q] = Released(Slots(q, calls[q]), escrows[q].master)
            /\ Cancellable(Slots(q, calls[q]))
        BY <3>1, <3>2, <3>6 DEF updateStateAndCancel
      <4>2. calls[q].op # "cancel"
        BY <4>1, SystemAddresses DEF Slots, Released, Cancellable
      <4>3. Slots(q, calls[q]).rollback = Asked(q, calls[q])
        BY <2>0, <3>4, <4>2, UpgradedSlots DEF Slots, Asked, Holding
      <4> QED BY <3>3, <4>1, <4>3 DEF Released
    <3> QED BY <2>5, <3>5, <3>6
  <2>6. CASE TeeStep
    BY <2>5, <2>6, TeeStepCalls
  <2>7. ASSUME NEW p \in Proxies, NEW a, changeAdmin(p, a) PROVE FALSE
    BY <2>0, <2>7, Zenon DEF changeAdmin, IInv, TypeOK, ProxySlots
  <2> HIDE DEF Given
  <2> QED BY <2>1, <2>2, <2>3, <2>4, <2>6, <2>7, Zenon DEF Next, OwnerStep, MasterStep
<1> QED BY <1>1, Invariance, PTL DEF Spec, HandedBack

(***************************************************************************)
(* While a proxy is in the Service's hands, its business storage stays.    *)
(***************************************************************************)
THEOREM EscrowedStateIsFrozen == Spec => EscrowFreezesState
<1> DEFINE Frozen == \A p \in Proxies : Held(p) /\ Held(p)' => storage'[p] = storage[p]
<1>1. IInv /\ [Next]_vars => [Frozen]_vars
  <2> SUFFICES ASSUME IInv, Next PROVE Frozen
    OBVIOUS
  <2>0. \A p \in Proxies : Held(p) =>
           proxy[p].impl = stateFactory /\ proxy[p].admin = proxyFactory
    BY SystemAddresses, Zenon DEF IInv, Agreement, Agree, Holding, Free, Held
  <2>1. stateFactory \notin Logics
    BY SystemAddresses, Zenon DEF System, Targets, Contracts
  <2>2. ASSUME NEW p \in Proxies, NEW w \in Words, callLogic(p, w) PROVE Frozen
    BY <2>0, <2>1, <2>2, Zenon DEF callLogic, IInv, TypeOK
  <2>3. ASSUME NEW batch \in SUBSET Proxies, NEW calls \in [batch -> Calls],
               updateState(calls) \/ updateStateAndCancel(calls)
        PROVE  Frozen
    <3>1. Forward(calls) /\ DOMAIN calls = batch
      BY <2>3 DEF updateState, updateStateAndCancel
    <3>2. storage' = [p \in Proxies |-> IF p \in batch THEN Stored(p, calls[p]) ELSE storage[p]]
      BY <3>1 DEF Forward
    <3>3. ASSUME NEW p \in batch, Held(p) PROVE Stored(p, calls[p]) = storage[p]
      <4>1. Succeeds(p, calls[p]) /\ calls[p].op # "logic"
        BY <2>0, <2>1, <3>1, <3>3, SystemAddresses DEF Forward, Succeeds
      <4> QED BY <4>1 DEF Stored, State_updateState
    <3> QED BY <3>2, <3>3, Zenon
  <2>4. CASE TeeStep
    BY <2>3, <2>4, TeeStepCalls
  <2>5. ASSUME UNCHANGED storage PROVE Frozen
    BY <2>5
  <2> HIDE DEF Frozen
  <2> QED BY <2>2, <2>4, <2>5, ZenonT(40) DEF Next, OwnerStep, upgradeTo, changeAdmin, MasterStep,
         escrow, privacyEnhancement, upgrade, cancel, NetworkStep,
         registerNode, authorize, removeNode, updateNode,
         transferOwnership, serviceVars
<1> QED BY <1>1, Invariance, PTL DEF Spec, EscrowFreezesState

(***************************************************************************)
(* No node keeps or regains rights without being registered.               *)
(***************************************************************************)
THEOREM NodeRights == Spec => []RightsNeedRegistration
<1>1. Init => RightsNeedRegistration
  BY DEF Init, RightsNeedRegistration, NoNode
<1>2. TypeOK /\ RightsNeedRegistration /\ [Next]_vars => RightsNeedRegistration'
  <2> SUFFICES ASSUME TypeOK, RightsNeedRegistration, [Next]_vars
               PROVE  RightsNeedRegistration'
    OBVIOUS
  <2> USE DEF RightsNeedRegistration, TypeOK
  <2>1. ASSUME NEW n \in Users, registerNode(n) PROVE RightsNeedRegistration'
    BY <2>1, Zenon DEF registerNode
  <2>2. ASSUME NEW n \in Users, NEW a \in Users, authorize(a, n)
        PROVE  RightsNeedRegistration'
    BY <2>2, Zenon DEF authorize
  <2>3. ASSUME NEW n \in Users, NEW a \in Users, removeNode(a, n)
        PROVE  RightsNeedRegistration'
    BY <2>3, Zenon DEF removeNode, NoNode
  <2>4. ASSUME NEW n \in Users, NEW a \in Users, NEW b \in BOOLEAN,
               updateNode(a, n, b)
        PROVE  RightsNeedRegistration'
    BY <2>4, Zenon DEF updateNode
  <2>5. ASSUME UNCHANGED <<isRegistered, nodes>> PROVE RightsNeedRegistration'
    BY <2>5, Zenon
  <2> HIDE DEF RightsNeedRegistration, TypeOK
  <2>6. CASE NetworkStep
    BY <2>1, <2>2, <2>3, <2>4, <2>5, <2>6, Zenon DEF NetworkStep, transferOwnership
  <2>7. CASE OwnerStep \/ MasterStep \/ TeeStep \/ UNCHANGED vars
    <3>1. UNCHANGED networkVars
      BY <2>7, ZenonT(40)
         DEF OwnerStep, MasterStep, TeeStep, upgradeTo, changeAdmin, callLogic, escrow,
             privacyEnhancement, upgrade, cancel, updateState,
             updateStateAndCancel, Forward, vars
    <3> QED BY <2>5, <3>1 DEF networkVars
  <2> QED BY <2>6, <2>7 DEF Next
<1> QED BY <1>1, <1>2, TypeCorrect, PTL DEF Spec
===============================================================================

----------------------------- MODULE CloakService -----------------------------
(***************************************************************************)
(* The on-chain Cloak Service (service/contracts): a registry of TEE       *)
(* nodes (Network.sol) and the escrow of user proxies (Service.sol).       *)
(*                                                                         *)
(* A user's contract is an EIP-1967 proxy.  Its owner points it at the     *)
(* ProxyBridge and calls escrow: the ProxyFactory becomes the proxy's      *)
(* admin, the StateFactory its implementation, and three slots of the      *)
(* proxy hold the logic to roll back to, the executor (the Service) and    *)
(* the escrow proof.  cancel undoes all of it.                             *)
(*                                                                         *)
(* A transaction is atomic, so every external call is one action; a        *)
(* require that fails reverts the whole transaction and is a conjunct of   *)
(* the guard.  Owners point their proxies only at logic contracts and at   *)
(* the ProxyBridge, and give them only to users and wallets; the logics    *)
(* have no function named as one of the StateFactory's.                    *)
(***************************************************************************)
EXTENDS Naturals, FiniteSets

CONSTANTS
  Users,     \* externally owned accounts, tx.origin of every transaction
  Wallets,   \* contract accounts through which a user may call the Service
  Proxies,   \* TransparentUpgradeableProxy instances
  Logics,    \* deployed business contracts
  Unused,    \* addresses that hold no account at all
  Words,     \* what a business storage slot may hold
  MaxBatch   \* most iterations a uint8 loop counter allows (255 on chain)

VARIABLES
  proxy,       \* the EIP-1967 and State slots of each proxy
  escrows,     \* Service.escrows
  storage,     \* the business storage of each proxy, one slot of it
  latest,      \* history: the logic of the last initialize or upgrade, until the
               \* owner of the proxy points it elsewhere
  released,    \* history: proxies whose escrow was ended by a forwarded cancel
  isRegistered,\* Network.isRegistered
  nodes,       \* Network.nodes, registerTime left out
  owner        \* Ownable._owner of the Service

history == <<latest, released>>
serviceVars == <<proxy, escrows, storage, history>>
networkVars == <<isRegistered, nodes, owner>>
vars == <<serviceVars, networkVars>>

(***************************************************************************)
(* Addresses.  nil is address(0).                                          *)
(***************************************************************************)
nil == "nil"
Service == "Service"
stateFactory == "StateFactory"
proxyFactory == "ProxyFactory"
proxyBridge == "ProxyBridge"
System == {nil, Service, stateFactory, proxyFactory, proxyBridge}

Senders == Users \cup Wallets
Contracts == Logics \cup Proxies \cup Wallets
Targets == Contracts \cup Users \cup Unused

\* Who may be made the admin of a proxy.  Those who never call it (logics, users
\* who lost their keys, the factories) are all as an unused address.
Accounts == Senders \cup Unused \cup {Service}

ASSUME AddressesDistinct ==
  /\ (Targets \cap System) = {}
  /\ (Contracts \cap (Users \cup Unused)) = {}
  /\ (Proxies \cap (Logics \cup Wallets)) = {}

ASSUME MaxBatchIsNat == MaxBatch \in Nat

isContract(a) == a \in Contracts

(***************************************************************************)
(* extcodehash: an account that exists without code hashes to              *)
(* _ACCOUNT_HASH, one that does not exist to zero.  Contracts are told     *)
(* apart by their address, which stands for their code.                    *)
(***************************************************************************)
extcodehash(a) ==
  IF isContract(a) THEN a
  ELSE IF a \in Users THEN "_ACCOUNT_HASH" ELSE "no account"

\* keccak256(codehash . state), injective
keccak(codehash, state) == <<codehash, state>>

generateEscrowProof(account, state) == keccak(extcodehash(account), state)

NoEscrow == [master |-> nil, enhanced |-> FALSE]
NoNode == [active |-> FALSE, authorize |-> FALSE]

Hashes == Targets \cup {"_ACCOUNT_HASH", "no account"}

ProxySlots ==
  [admin : Accounts \cup {proxyFactory},
   impl : Contracts \cup {stateFactory, proxyBridge},
   rollback : Targets \cup {nil},
   executor : {nil, Service},
   proof : (Hashes \X {stateFactory}) \cup {nil}]

(***************************************************************************)
(* A proxy is deployed by a user on one of the logics.                     *)
(***************************************************************************)
Deployed(u, l) ==
  [admin |-> u, impl |-> l, rollback |-> nil, executor |-> nil, proof |-> nil]

Init ==
  /\ proxy \in [Proxies -> {Deployed(u, l) : u \in Users, l \in Logics}]
  /\ escrows = [p \in Proxies |-> NoEscrow]
  /\ storage \in [Proxies -> Words]
  /\ latest = [p \in Proxies |-> nil]
  /\ released = {}
  /\ isRegistered = [n \in Users |-> FALSE]
  /\ nodes = [n \in Users |-> NoNode]
  /\ owner \in Users

-------------------------------------------------------------------------------
(***************************************************************************)
(* What an account outside the Service does: the admin of a proxy points   *)
(* it at another implementation or gives it to another account, a caller   *)
(* runs the business logic.                                                *)
(***************************************************************************)
upgradeTo(p, i) ==
  /\ proxy[p].admin \in Senders
  /\ proxy' = [proxy EXCEPT ![p].impl = i]
  /\ latest' = [latest EXCEPT ![p] = nil]
  /\ UNCHANGED <<escrows, storage, released, networkVars>>

changeAdmin(p, a) ==
  /\ proxy[p].admin \in Senders
  /\ proxy' = [proxy EXCEPT ![p].admin = a]
  /\ UNCHANGED <<escrows, storage, history, networkVars>>

callLogic(p, w) ==
  /\ proxy[p].impl \in Logics
  /\ storage' = [storage EXCEPT ![p] = w]
  /\ UNCHANGED <<proxy, escrows, history, networkVars>>

(***************************************************************************)
(* Service.escrow called by sender in a transaction of origin.  The        *)
(* ProxyBridge hands the proxy over, StateFactory.initialize fills in the  *)
(* slots.                                                                  *)
(***************************************************************************)
upgradeAndChangeAdmin(p, origin) ==
  /\ proxy[p].impl = proxyBridge
  /\ proxy[p].admin = origin

initialize(p, logic) ==
  /\ proxy[p].executor = nil
  /\ proxy[p].rollback # logic
  /\ logic # nil
  /\ extcodehash(logic) # "_ACCOUNT_HASH"

escrow(origin, sender, p, logic) ==
  /\ sender \in Users => sender = origin
  /\ escrows[p].master # sender
  /\ p # logic
  /\ upgradeAndChangeAdmin(p, origin)
  /\ initialize(p, logic)
  /\ proxy' = [proxy EXCEPT ![p] =
                 [admin |-> proxyFactory, impl |-> stateFactory,
                  rollback |-> logic, executor |-> Service,
                  proof |-> generateEscrowProof(logic, stateFactory)]]
  /\ escrows' = [escrows EXCEPT ![p] = [master |-> sender, enhanced |-> FALSE]]
  /\ latest' = [latest EXCEPT ![p] = logic]
  /\ released' = released \ {p}
  /\ UNCHANGED <<storage, networkVars>>

privacyEnhancement(sender, p) ==
  /\ escrows[p].master = sender
  /\ ~escrows[p].enhanced
  /\ escrows' = [escrows EXCEPT ![p].enhanced = TRUE]
  /\ UNCHANGED <<proxy, storage, history, networkVars>>

(***************************************************************************)
(* StateFactory.upgrade, and the slots after it.                           *)
(***************************************************************************)
Upgradable(p, logic) ==
  /\ proxy[p].executor = Service
  /\ proxy[p].rollback # logic
  /\ logic # nil
  /\ extcodehash(logic) # "_ACCOUNT_HASH"

\* Mutant of StateFactory.upgrade: updateProof forgotten
UpgradedKeepsProof(p, logic) == [proxy[p] EXCEPT !.rollback = logic]

Upgraded(p, logic) ==
  [proxy[p] EXCEPT !.rollback = logic,
                   !.proof = generateEscrowProof(logic, proxy[p].impl)]

upgrade(sender, p, logic) ==
  /\ escrows[p].master = sender
  /\ Upgradable(p, logic)
  /\ proxy' = [proxy EXCEPT ![p] = Upgraded(p, logic)]
  /\ latest' = [latest EXCEPT ![p] = logic]
  /\ UNCHANGED <<escrows, storage, released, networkVars>>

(***************************************************************************)
(* StateFactory.cancel: the proxy goes back to its logic and to master,    *)
(* and _clearConfigure zeroes the three State slots.                       *)
(***************************************************************************)
Cancellable(q) ==
  /\ q.executor = Service
  /\ q.rollback # nil
  /\ isContract(q.rollback)

\* Mutants of StateFactory.cancel: admin kept, slots kept
ReleasedToFactory(q, master) ==
  [admin |-> q.admin, impl |-> q.rollback,
   rollback |-> nil, executor |-> nil, proof |-> nil]

ReleasedUncleared(q, master) == [q EXCEPT !.admin = master, !.impl = q.rollback]

Released(q, master) ==
  [admin |-> master, impl |-> q.rollback,
   rollback |-> nil, executor |-> nil, proof |-> nil]

cancel(sender, p) ==
  /\ escrows[p].master = sender
  /\ ~escrows[p].enhanced
  /\ Cancellable(proxy[p])
  /\ proxy' = [proxy EXCEPT ![p] = Released(proxy[p], sender)]
  /\ escrows' = [escrows EXCEPT ![p] = NoEscrow]
  /\ UNCHANGED <<storage, history, networkVars>>

(***************************************************************************)
(* Service.updateState asks only that the proxy is booked, and forwards    *)
(* any call to it: while the proxy is held, the functions of the           *)
(* StateFactory, for which the Service is the executor; after a forwarded  *)
(* cancel, those of its logic, or the proxy's own upgradeTo and            *)
(* changeAdmin when the Service was made its admin.  A call that changes   *)
(* nothing is the same as an updateState, whose body in State is empty:    *)
(* the proof test and keys.sstore(vals) are commented out.                 *)
(***************************************************************************)
Call(op, arg) == [op |-> op, arg |-> arg]
Calls ==
  {Call("updateState", w) : w \in Words} \cup {Call("upgrade", l) : l \in Targets}
    \cup {Call("cancel", a) : a \in Accounts} \cup {Call("logic", w) : w \in Words}
    \cup {Call("upgradeTo", i) : i \in Logics \cup {proxyBridge}}
    \cup {Call("changeAdmin", a) : a \in Accounts}

Succeeds(p, c) ==
  IF proxy[p].admin = Service THEN c.op \in {"upgradeTo", "changeAdmin"}
  ELSE \/ proxy[p].impl = stateFactory
            /\ \/ c.op = "updateState"
               \/ c.op = "upgrade" /\ Upgradable(p, c.arg)
               \/ c.op = "cancel" /\ Cancellable(proxy[p])
       \/ proxy[p].impl \in Logics /\ c.op = "logic"

\* The slots and the storage of p after the call c.
Slots(p, c) ==
  CASE c.op = "upgrade" -> Upgraded(p, c.arg)
    [] c.op = "cancel" -> Released(proxy[p], c.arg)
    [] c.op = "upgradeTo" -> [proxy[p] EXCEPT !.impl = c.arg]
    [] c.op = "changeAdmin" -> [proxy[p] EXCEPT !.admin = c.arg]
    [] OTHER -> proxy[p]

State_updateState(p, w) == storage[p]

Stored(p, c) ==
  CASE c.op = "updateState" -> State_updateState(p, c.arg)
    [] c.op = "logic" -> c.arg
    [] OTHER -> storage[p]

Escrowed(p) == escrows[p].master # nil

(***************************************************************************)
(* The batch forms walk the list with a uint8 and revert as a whole.  A    *)
(* proxy listed twice in updateState is as in two transactions; listed     *)
(* twice in updateStateAndCancel it is no longer booked the second time.   *)
(***************************************************************************)
Forward(calls) ==
  /\ DOMAIN calls # {} /\ Cardinality(DOMAIN calls) <= MaxBatch
  /\ \A p \in DOMAIN calls : Escrowed(p) /\ Succeeds(p, calls[p])
  /\ storage' = [p \in Proxies |-> IF p \in DOMAIN calls THEN Stored(p, calls[p])
                                                         ELSE storage[p]]
  /\ latest' = [p \in Proxies |-> IF p \in DOMAIN calls /\ calls[p].op = "upgrade"
                                   THEN calls[p].arg ELSE latest[p]]
  /\ UNCHANGED networkVars

updateState(calls) ==
  /\ Forward(calls)
  /\ proxy' = [p \in Proxies |-> IF p \in DOMAIN calls THEN Slots(p, calls[p]) ELSE proxy[p]]
  /\ released' = released \cup {p \in DOMAIN calls : calls[p].op = "cancel"}
  /\ UNCHANGED escrows

updateStateAndCancel(calls) ==
  /\ Forward(calls)
  /\ \A p \in DOMAIN calls : Cancellable(Slots(p, calls[p]))
  /\ proxy' = [p \in Proxies |-> IF p \in DOMAIN calls
                                 THEN Released(Slots(p, calls[p]), escrows[p].master)
                                 ELSE proxy[p]]
  /\ escrows' = [p \in Proxies |-> IF p \in DOMAIN calls THEN NoEscrow ELSE escrows[p]]
  /\ UNCHANGED released

-------------------------------------------------------------------------------
(***************************************************************************)
(* Network: nodes register themselves, the owner authorizes, updates and   *)
(* removes them.                                                           *)
(***************************************************************************)
registerNode(n) ==
  /\ ~isRegistered[n]
  /\ isRegistered' = [isRegistered EXCEPT ![n] = TRUE]
  /\ nodes' = [nodes EXCEPT ![n] = NoNode]
  /\ UNCHANGED <<owner, serviceVars>>

authorize(sender, n) ==
  /\ sender = owner
  /\ ~nodes[n].authorize
  /\ isRegistered[n]
  /\ nodes' = [nodes EXCEPT ![n] = [active |-> TRUE, authorize |-> TRUE]]
  /\ UNCHANGED <<isRegistered, owner, serviceVars>>

\* Mutant of removeNode: delete nodes[node] forgotten
RemoveKeepsNode(sender, n) ==
  /\ sender = owner
  /\ isRegistered[n]
  /\ isRegistered' = [isRegistered EXCEPT ![n] = FALSE]
  /\ UNCHANGED <<nodes, owner, serviceVars>>

removeNode(sender, n) ==
  /\ sender = owner
  /\ isRegistered[n]
  /\ nodes' = [nodes EXCEPT ![n] = NoNode]
  /\ isRegistered' = [isRegistered EXCEPT ![n] = FALSE]
  /\ UNCHANGED <<owner, serviceVars>>

updateNode(sender, n, active) ==
  /\ sender = owner
  /\ isRegistered[n]
  /\ nodes[n].active # active
  /\ nodes' = [nodes EXCEPT ![n].active = active]
  /\ UNCHANGED <<isRegistered, owner, serviceVars>>

transferOwnership(sender, newOwner) ==
  /\ sender = owner
  /\ owner' = newOwner
  /\ UNCHANGED <<isRegistered, nodes, serviceVars>>

-------------------------------------------------------------------------------
OwnerStep ==
  \E p \in Proxies :
     \/ \E i \in Logics \cup {proxyBridge} : upgradeTo(p, i)
     \/ \E a \in Senders : changeAdmin(p, a)
     \/ \E w \in Words : callLogic(p, w)

MasterStep ==
  \E sender \in Senders, p \in Proxies :
     \/ \E origin \in Users, logic \in Targets : escrow(origin, sender, p, logic)
     \/ privacyEnhancement(sender, p)
     \/ \E logic \in Targets : upgrade(sender, p, logic)
     \/ cancel(sender, p)

TeeStep ==
  \E batch \in SUBSET {p \in Proxies : Escrowed(p)} :
  \E calls \in [batch -> {c \in Calls : \E p \in batch : Succeeds(p, c)}] :
     \/ updateState(calls)
     \/ updateStateAndCancel(calls)

NetworkStep ==
  \E n \in Users :
     \/ registerNode(n)
     \/ \E sender \in Users :
          \/ authorize(sender, n)
          \/ removeNode(sender, n)
          \/ \E active \in BOOLEAN : updateNode(sender, n, active)
          \/ transferOwnership(sender, n)

Next == OwnerStep \/ MasterStep \/ TeeStep \/ NetworkStep

Spec == Init /\ [][Next]_vars

-------------------------------------------------------------------------------
TypeOK ==
  /\ proxy \in [Proxies -> ProxySlots]
  /\ escrows \in [Proxies -> [master : Senders \cup {nil}, enhanced : BOOLEAN]]
  /\ storage \in [Proxies -> Words]
  /\ latest \in [Proxies -> Targets \cup {nil}]
  /\ released \subseteq Proxies
  /\ isRegistered \in [Users -> BOOLEAN]
  /\ nodes \in [Users -> [active : BOOLEAN, authorize : BOOLEAN]]
  /\ owner \in Users

(***************************************************************************)
(* A proxy the Service books as escrowed really is in its hands, unless a  *)
(* call that updateState forwarded has cancelled the escrow: the factory   *)
(* administers it, the StateFactory implements it, the Service is its      *)
(* executor and the logic to go back to is the one last asked for (escrow, *)
(* upgrade and cancel write these slots through three other contracts).    *)
(***************************************************************************)
HeldByService ==
  \A p \in Proxies : Escrowed(p) /\ p \notin released =>
     /\ proxy[p].admin = proxyFactory
     /\ proxy[p].impl = stateFactory
     /\ proxy[p].executor = Service
     /\ proxy[p].rollback = latest[p] /\ latest[p] # nil

(***************************************************************************)
(* A proxy that is not in the Service's hands has no slot left that would  *)
(* make initialize refuse the next escrow, whether cancel,                 *)
(* updateStateAndCancel or a forwarded call has ended the last one.  If    *)
(* the Service does not book it, it has an owner who can use it.           *)
(***************************************************************************)
NothingLeftBehind ==
  \A p \in Proxies :
     /\ ~Escrowed(p) \/ p \in released =>
          /\ proxy[p].impl # stateFactory
          /\ proxy[p].executor = nil
          /\ proxy[p].rollback = nil
          /\ proxy[p].proof = nil
     /\ ~Escrowed(p) => proxy[p].admin \in Senders /\ ~escrows[p].enhanced

(***************************************************************************)
(* The proof slot, which the enclave compares with the code it fetched, is *)
(* always the one of the logic in the rollback slot: no upgrade, be it the *)
(* master's or a forwarded one, leaves the proof of the previous logic     *)
(* behind (StateFactory.updateProof), and no cancel leaves a proof without *)
(* a logic.                                                                *)
(***************************************************************************)
ProofCurrent ==
  \A p \in Proxies :
     proxy[p].proof = IF proxy[p].rollback = nil THEN nil
                      ELSE generateEscrowProof(proxy[p].rollback, stateFactory)

(***************************************************************************)
(* A proxy leaves the Service's hands to the account that opened the       *)
(* escrow, on the logic of the last upgrade, which may be one forwarded in *)
(* the same transaction (cancel, updateStateAndCancel).  The exception is  *)
(* a cancel that updateState forwards: it gives the proxy to the account   *)
(* named in the call.                                                      *)
(***************************************************************************)
Held(p) == proxy[p].executor = Service

HandedBack ==
  [][\A p \in Proxies : Held(p) /\ ~Held(p)' =>
        /\ proxy'[p].admin = escrows[p].master \/ p \in released'
        /\ proxy'[p].impl = latest'[p]]_vars

(***************************************************************************)
(* While a proxy is in the Service's hands its business storage stays as   *)
(* it is: no call reaches the logic, and State._updateState is empty.      *)
(***************************************************************************)
EscrowFreezesState ==
  [][\A p \in Proxies : Held(p) /\ Held(p)' => storage'[p] = storage[p]]_vars

(***************************************************************************)
(* Only a registered node is active or authorized: removing a node and     *)
(* registering it again does not revive its rights (Network.removeNode).   *)
(***************************************************************************)
RightsNeedRegistration ==
  \A n \in Users : nodes[n].active \/ nodes[n].authorize => isRegistered[n]

-------------------------------------------------------------------------------
(* What the repository's tests and messages say, and the code does not do. *)

(***************************************************************************)
(* service/test/test.js:114-121: after updateState every slot of the       *)
(* proxy equals the value sent.                                            *)
(***************************************************************************)
UpdateTakesEffect ==
  [][\A p \in Proxies, w \in Words :
        updateState([q \in {p} |-> Call("updateState", w)]) => storage'[p] = w]_vars

(***************************************************************************)
(* Service.sol:72: "implementation cannot be proxy".                       *)
(***************************************************************************)
ImplementationIsNotProxy ==
  \A p \in Proxies : proxy[p].rollback # p

(***************************************************************************)
(* StateFactory.sol:65 refuses a logic that "is a common address": the     *)
(* logic of an escrowed proxy is a contract.                               *)
(***************************************************************************)
RollbackIsContract ==
  \A p \in Proxies : Escrowed(p) /\ p \notin released => isContract(proxy[p].rollback)
===============================================================================

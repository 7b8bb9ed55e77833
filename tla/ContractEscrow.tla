---------------------------- MODULE ContractEscrow ----------------------------
(***************************************************************************)
(* How a contract that is escrowed on the chain gets into the enclave      *)
(* (tee/src/web3client), and how its level rises (set_contract_key).       *)
(*                                                                         *)
(* A user asks for a proxy.  The enclave reads the proxy's logic slot      *)
(* (GETCODE), the logic's code (GetCode) and the proxy's proof slot        *)
(* (GETPROOF), each with a message to the host, a call to the node and a   *)
(* message back.  It installs the code if the proof is the hash of the     *)
(* code and of the configured State contract.  Meanwhile it keeps the      *)
(* proxy in escrows, under its logic, and the code in contract_codes.      *)
(*                                                                         *)
(* The node answers calls in any order, or with an error, which the host   *)
(* drops.  The chain may change between the calls.                         *)
(***************************************************************************)
EXTENDS Naturals, FiniteSets

CONSTANTS
  Proxies,     \* proxies on the chain, in the Service's escrow or not
  Locals,      \* contracts that users deployed in the enclave
  Logics,      \* logic contracts on the chain
  Codes,       \* byte codes
  CodeOf,      \* CodeOf[l]: the code of l, NoCode if l is no contract
  States,      \* State contracts that the TEE may be configured with
  ChainState,  \* the one that the Service uses
  Starts,      \* s[p] for s in Starts: the logic of p at the start, Zero if not escrowed
  Short,       \* words that start with a zero byte
  Zero,        \* the zero word: an unset slot, a missing entry of a map
  Garbled,     \* what from_big_endian makes of too few bytes
  NoCode,      \* no code
  MaxAsked,    \* bound: requests for the escrow of a contract, for each contract
  MaxChanges,  \* bound: transactions of the Service and configurations
  MaxLost      \* bound: calls answered with an error

Contracts == Proxies \cup Locals

Requests == UNION {{a} \X (1..MaxAsked[a]) : a \in Contracts}

Kinds == {"GETCODE", "GetCode", "GETPROOF"}

\* extcodehash tells a missing account from an empty code
NoAccount == Zero

Proofs == [code : Codes \cup {NoAccount}, state : States \cup {Zero}]

Words == Contracts \cup Logics \cup {Zero, Garbled}

ASSUME DistinctWords ==
  /\ {Zero, Garbled} \cap (Contracts \cup Logics \cup Codes \cup Proofs) = {}
  /\ Zero # Garbled /\ NoCode \notin Codes \cup {Zero, Garbled}
  /\ Proxies \cap Locals = {} /\ Contracts \cap Logics = {}

ASSUME ChainAssumption ==
  /\ CodeOf \in [Logics -> Codes \cup {NoCode}]
  /\ ChainState \in States
  /\ Starts \subseteq [Proxies -> Logics \cup {Zero}]

ASSUME EscrowBounds == MaxAsked \in [Contracts -> Nat] /\ {MaxChanges, MaxLost} \subseteq Nat

VARIABLES
  logic_slot,     \* chain: the rollback slot of each proxy
  proof_slot,     \* chain: the proof slot of each proxy
  config,         \* config.state, Zero before it is set
  code,           \* table of codes
  level,          \* table of levels; no entry is BASIC
  encrypted,      \* contracts with an entry in the table of keys
  proof,          \* table of proofs
  escrows,        \* by logic, the proxy that waits for its code
  contract_codes, \* by contract, the code that waits for its proof
  calls,          \* messages to the host and calls without an answer
  answers,        \* answers on their way to the enclave
  stopped,        \* why the process ended, "no" while it runs
  proved,         \* history: the proofs each proxy has had on the chain
  asked,          \* the number of requests for each contract
  changes, lost

chainVars == <<logic_slot, proof_slot, proved, changes>>
tables == <<code, level, encrypted, proof>>
maps == <<escrows, contract_codes>>
vars == <<chainVars, config, tables, maps, calls, answers, stopped, asked, lost>>

Running == stopped = "no"

\* the escrow proof the Service computes for a logic
ChainProof(l) ==
  IF l = Zero THEN Zero
  ELSE [code |-> IF CodeOf[l] = NoCode THEN NoAccount ELSE CodeOf[l],
        state |-> ChainState]

Init ==
  /\ logic_slot \in Starts
  /\ proof_slot = [p \in Proxies |-> ChainProof(logic_slot[p])]
  /\ proved = {<<p, ChainProof(logic_slot[p])>> : p \in {q \in Proxies : logic_slot[q] # Zero}}
  /\ config \in {Zero, ChainState}
  /\ code \in {f \in [Contracts -> Codes \cup {NoCode}] :
                 \A a \in Contracts : f[a] = NoCode <=> a \in Proxies}
  /\ level = [a \in Contracts |-> "BASIC"]
  /\ encrypted = {}
  /\ proof = [a \in Contracts |-> Zero]
  /\ escrows = [l \in Logics \cup {Garbled} |-> Zero]
  /\ contract_codes = [a \in Contracts \cup {Zero, Garbled} |-> NoCode]
  /\ calls = {} /\ answers = {}
  /\ stopped = "no"
  /\ asked = [a \in Contracts |-> 0] /\ changes = 0 /\ lost = 0

-------------------------------------------------------------------------------
(***************************************************************************)
(* The chain: the Service escrows a proxy or upgrades its logic, or gives  *)
(* it back, which clears both slots.                                       *)
(***************************************************************************)
service_update(p, l) ==
  /\ changes < MaxChanges
  /\ changes' = changes + 1
  /\ logic_slot' = [logic_slot EXCEPT ![p] = l]
  /\ proof_slot' = [proof_slot EXCEPT ![p] = ChainProof(l)]
  /\ proved' = proved \cup (IF l = Zero THEN {} ELSE {<<p, ChainProof(l)>>})
  /\ UNCHANGED <<config, tables, maps, calls, answers, stopped, asked, lost>>

set_ethereum_configuration(s) ==
  /\ Running /\ changes < MaxChanges
  /\ changes' = changes + 1
  /\ config' = s
  /\ UNCHANGED <<logic_slot, proof_slot, proved, tables, maps, calls, answers,
                 stopped, asked, lost>>

-------------------------------------------------------------------------------
(***************************************************************************)
(* The endpoints.  ccf::make_error is thrown, which nothing catches.       *)
(***************************************************************************)
Call(n, kind, w) == [request |-> n, kind |-> kind, of |-> w]

\* The message leaves before the commit: a retried request is asked for twice.
send_contract_escrow(a) ==
  /\ Running /\ asked[a] < MaxAsked[a]
  /\ asked' = [asked EXCEPT ![a] = @ + 1]
  /\ IF code[a] = NoCode
     THEN /\ calls' = calls \cup {Call(<<a, asked'[a]>>, "GETCODE", a)}
          /\ UNCHANGED stopped
     ELSE stopped' = "has_code" /\ UNCHANGED calls
  /\ UNCHANGED <<chainVars, config, tables, maps, answers, lost>>

KeyRefused(a) ==
  \/ code[a] = NoCode
  \/ a \in encrypted
  \/ level[a] = "SOLIDITY_ENHANCE"

set_contract_key(a) ==
  /\ Running
  /\ IF KeyRefused(a)
     THEN stopped' = "key_refused" /\ UNCHANGED <<encrypted, level>>
     ELSE /\ encrypted' = encrypted \cup {a}
          /\ level' = [level EXCEPT ![a] = "SOLIDITY_ENHANCE"]
          /\ UNCHANGED stopped
  /\ UNCHANGED <<chainVars, config, code, proof, maps, calls, answers, asked, lost>>

-------------------------------------------------------------------------------
(***************************************************************************)
(* Words travel as to_byte_string, which drops leading zero bytes, and are *)
(* read back by from_big_endian with a fixed length.  The zero word is an  *)
(* empty vector, whose null pointer from_big_endian reads.                 *)
(***************************************************************************)
from_big_endian(w) == IF w \in Short THEN Garbled ELSE w

\* What the node says: the slots of a contract of the chain, Zero elsewhere.
Slot(kind, a) ==
  IF a \notin Proxies THEN Zero
  ELSE IF kind = "GETCODE" THEN logic_slot[a] ELSE proof_slot[a]

Answer(c, result) ==
  /\ calls' = calls \ {c}
  /\ answers' = answers \cup
       {[request |-> c.request, kind |-> c.kind, of |-> c.of, result |-> result]}
  /\ UNCHANGED <<chainVars, config, tables, maps, stopped, asked, lost>>

eth_getStorageAt(c) ==
  /\ Running /\ c \in calls /\ c.kind # "GetCode" /\ c.of # Zero
  /\ Answer(c, Slot(c.kind, from_big_endian(c.of)))

\* The host decodes the address of the call before it asks the node.
host_escrow_zero(c) ==
  /\ Running /\ c \in calls /\ c.kind # "GetCode" /\ c.of = Zero
  /\ stopped' = "zero_address"
  /\ UNCHANGED <<chainVars, config, tables, maps, calls, answers, asked, lost>>

eth_getCode(c) ==
  /\ Running /\ c \in calls /\ c.kind = "GetCode" /\ c.of \notin Short
  /\ Answer(c, CodeOf[c.of])

\* The host drops errors; an address with too few digits is one.
call_error(c) ==
  /\ Running /\ c \in calls
  /\ \/ lost < MaxLost /\ lost' = lost + 1
     \/ c.kind = "GetCode" /\ c.of \in Short /\ UNCHANGED lost
  /\ calls' = calls \ {c}
  /\ UNCHANGED <<chainVars, config, tables, maps, answers, stopped, asked>>

-------------------------------------------------------------------------------

(***************************************************************************)
(* The enclave's handlers, on its main thread.                             *)
(***************************************************************************)
escrow_getcode(m) ==
  /\ Running /\ m \in answers /\ m.kind = "GETCODE"
  /\ answers' = answers \ {m}
  /\ IF m.result = Zero
     THEN stopped' = "zero_slot" /\ UNCHANGED <<escrows, calls>>
     ELSE /\ escrows' = [escrows EXCEPT ![from_big_endian(m.result)]
                                          = from_big_endian(m.of)]
          /\ calls' = calls \cup {Call(m.request, "GetCode", m.result)}
          /\ UNCHANGED stopped
  /\ UNCHANGED <<chainVars, config, tables, contract_codes, asked, lost>>

call_response(m) ==
  /\ Running /\ m \in answers /\ m.kind = "GetCode"
  /\ answers' = answers \ {m}
  /\ LET contract_address == escrows[m.of]
     IN  IF m.result = NoCode
         THEN UNCHANGED <<contract_codes, calls>>
         ELSE /\ contract_codes' = [contract_codes EXCEPT ![contract_address] = m.result]
              /\ calls' = calls \cup {Call(m.request, "GETPROOF", contract_address)}
  /\ UNCHANGED <<chainVars, config, tables, escrows, stopped, asked, lost>>

\* [mutant of EraseEscrow] the map is cleared
EraseAll(addr) == escrows' = [l \in DOMAIN escrows |-> Zero]

\* the first entry for addr goes; which one is first is left open
EraseEscrow(addr) ==
  LET waiting == {l \in DOMAIN escrows : escrows[l] = addr}
  IN  IF waiting = {} THEN UNCHANGED escrows
      ELSE \E l \in waiting : escrows' = [escrows EXCEPT ![l] = Zero]

\* [mutant of ProofMatches] only the State contract is compared
StateMatches(addr, word) ==
  contract_codes[addr] # NoCode /\ word \in Proofs /\ word.state = config

ProofMatches(addr, word) ==
  /\ contract_codes[addr] # NoCode
  /\ config \notin Short
  /\ from_big_endian(word) = [code |-> contract_codes[addr], state |-> config]

install(addr, word) ==
  /\ level' = [level EXCEPT ![addr] = "SOLIDITY"]
  /\ proof' = [proof EXCEPT ![addr] = word]
  /\ code' = [code EXCEPT ![addr] = contract_codes[addr]]
  /\ contract_codes' = [contract_codes EXCEPT ![addr] = NoCode]

\* [mutant of escrow_getproof] code that is there is overwritten
Reinstall(m) ==
  /\ Running /\ m \in answers /\ m.kind = "GETPROOF"
  /\ answers' = answers \ {m}
  /\ LET addr == from_big_endian(m.of)
     IN  IF m.result = Zero
         THEN /\ stopped' = "zero_slot"
              /\ UNCHANGED <<escrows, contract_codes, level, proof, code>>
         ELSE /\ EraseEscrow(addr)
              /\ IF ProofMatches(addr, m.result)
                 THEN install(addr, m.result)
                 ELSE UNCHANGED <<contract_codes, level, proof, code>>
              /\ UNCHANGED stopped
  /\ UNCHANGED <<chainVars, config, encrypted, calls, asked, lost>>

escrow_getproof(m) ==
  /\ Running /\ m \in answers /\ m.kind = "GETPROOF"
  /\ answers' = answers \ {m}
  /\ LET addr == from_big_endian(m.of)
     IN  IF m.result = Zero
         THEN /\ stopped' = "zero_slot"
              /\ UNCHANGED <<escrows, contract_codes, level, proof, code>>
         ELSE /\ EraseEscrow(addr)
              /\ IF ProofMatches(addr, m.result) /\ code[addr] = NoCode
                 THEN install(addr, m.result)
                 ELSE UNCHANGED <<contract_codes, level, proof, code>>
              /\ UNCHANGED stopped
  /\ UNCHANGED <<chainVars, config, encrypted, calls, asked, lost>>

-------------------------------------------------------------------------------
ChainStep ==
  \/ \E p \in Proxies, l \in Logics \cup {Zero} : service_update(p, l)
  \/ \E s \in States : set_ethereum_configuration(s)

UserStep ==
  \E a \in Contracts : send_contract_escrow(a) \/ set_contract_key(a)

NodeStep ==
  \E c \in calls : eth_getStorageAt(c) \/ host_escrow_zero(c) \/ eth_getCode(c)

LossStep == \E c \in calls : call_error(c)

EnclaveStep ==
  \E m \in answers : escrow_getcode(m) \/ call_response(m) \/ escrow_getproof(m)

Next == ChainStep \/ UserStep \/ NodeStep \/ LossStep \/ EnclaveStep

Spec == Init /\ [][Next]_vars

(***************************************************************************)
(* The node answers every call and the enclave's main loop handles every   *)
(* message.                                                                *)
(***************************************************************************)
Fairness ==
  /\ \A n \in Requests : WF_vars(\E c \in calls : c.request = n /\
        (eth_getStorageAt(c) \/ host_escrow_zero(c) \/ eth_getCode(c) \/ call_error(c)))
  /\ \A n \in Requests : WF_vars(\E m \in answers : m.request = n /\
        (escrow_getcode(m) \/ call_response(m) \/ escrow_getproof(m)))

FairSpec == Spec /\ Fairness

-------------------------------------------------------------------------------
Levels == {"BASIC", "SOLIDITY", "SOLIDITY_ENHANCE"}

Results == Logics \cup Proofs \cup Codes \cup {Zero, NoCode}

TypeOK ==
  /\ logic_slot \in [Proxies -> Logics \cup {Zero}]
  /\ proof_slot \in [Proxies -> Proofs \cup {Zero}]
  /\ proved \subseteq Proxies \X Proofs
  /\ config \in States \cup {Zero}
  /\ code \in [Contracts -> Codes \cup {NoCode}]
  /\ level \in [Contracts -> Levels] /\ encrypted \subseteq Contracts
  /\ proof \in [Contracts -> Proofs \cup {Zero}]
  /\ escrows \in [Logics \cup {Garbled} -> Proxies \cup {Zero}]
  /\ contract_codes \in [Contracts \cup {Zero, Garbled} -> Codes \cup {NoCode}]
  /\ calls \subseteq [request : Requests, kind : Kinds, of : Words]
  /\ answers \subseteq [request : Requests, kind : Kinds, of : Words, result : Results]
  /\ stopped \in {"no", "has_code", "key_refused", "zero_slot", "zero_address"}
  /\ asked \in [Contracts -> Nat] /\ changes \in Nat /\ lost \in Nat

(***************************************************************************)
(* The code a proxy has in the enclave is the code the Service vouched     *)
(* for: the proof stored with it is the hash of that very code, and the    *)
(* chain has held that proof for that very proxy, although the code and    *)
(* the proof are read at different times and the map between them is keyed *)
(* by the logic (Web3Operation, GETPROOF).                                 *)
(***************************************************************************)
InstalledIsProved ==
  \A p \in Proxies : code[p] # NoCode =>
     /\ <<p, proof[p]>> \in proved
     /\ proof[p].code = code[p]

(***************************************************************************)
(* A code that waits for its proof waits under a proxy whose logic it has  *)
(* been, never under one that shares only the time of the request          *)
(* (escrows[logic], contract_codes[contract_address]).                     *)
(***************************************************************************)
CodesBelong ==
  \A p \in Proxies : contract_codes[p] # NoCode =>
     <<p, [code |-> contract_codes[p], state |-> ChainState]>> \in proved

(***************************************************************************)
(* A contract has a key exactly when its level is SOLIDITY_ENHANCE, so     *)
(* words are encrypted exactly for the contracts whose words are taken to  *)
(* be (set_contract_key, AccountProxy), and only contracts with code have  *)
(* a level.                                                                *)
(***************************************************************************)
LevelsMatchKeys ==
  \A a \in Contracts :
     /\ level[a] = "SOLIDITY_ENHANCE" <=> a \in encrypted
     /\ level[a] # "BASIC" => code[a] # NoCode

Rank(l) == IF l = "BASIC" THEN 0 ELSE IF l = "SOLIDITY" THEN 1 ELSE 2

(***************************************************************************)
(* What is installed is final: whatever requests, answers and changes of   *)
(* the chain follow, the code and the proof stay and the level only rises  *)
(* (the has_code test of GETPROOF).                                        *)
(***************************************************************************)
InstalledIsFinal ==
  [][\A a \in Contracts : code[a] # NoCode =>
       /\ code'[a] = code[a] /\ proof'[a] = proof[a]
       /\ Rank(level[a]) <= Rank(level'[a])]_vars

(***************************************************************************)
(* endpoint_registry.h:111, the answer to a request for an escrow:         *)
(* "contract escrow alread commited, please wait...".  Waiting is enough   *)
(* for an escrowed proxy, once the TEE is configured, if none of the words *)
(* of its handshake starts with a zero byte: its code is installed, unless *)
(* the chain changes, an answer is lost, a contract is asked for a second  *)
(* time, or a user's request ends the process before.  Of proxies that     *)
(* share their logic, and so their entry in escrows, one has its code      *)
(* installed; the others may wait for ever.                                *)
(***************************************************************************)
Legible(p) == {p, logic_slot[p], proof_slot[p], config} \cap Short = {}

SharedInstalled(p) ==
  \E q \in Proxies : logic_slot[q] = logic_slot[p] /\ code[q] # NoCode

EscrowCompletes ==
  \A p \in Proxies :
     (/\ asked[p] > 0 /\ logic_slot[p] # Zero /\ CodeOf[logic_slot[p]] # NoCode
      /\ config = ChainState /\ Legible(p))
       ~> (SharedInstalled(p) \/ stopped \in {"has_code", "key_refused"} \/ changes + lost > 0
           \/ \E a \in Contracts : asked[a] > 1)

-------------------------------------------------------------------------------
(* What the repository's texts say, and the code does not do.              *)

(***************************************************************************)
(* web3_operation.h:134 "contract {} is not a valid cloak contract": a     *)
(* request for a contract that is not escrowed is reported and ends.       *)
(***************************************************************************)
UnknownContractIsReported == stopped # "zero_slot"

(***************************************************************************)
(* endpoint_registry.h:95-101: a request for a contract that is there      *)
(* already is answered with HTTP_STATUS_BAD_REQUEST and "has alread be a   *)
(* contract".                                                              *)
(***************************************************************************)
RefusalIsAnswered == stopped # "has_code"

(***************************************************************************)
(* endpoint_registry.h:111 "contract escrow alread commited, please        *)
(* wait...": a second request while the first is under way is harmless.    *)
(***************************************************************************)
SecondRequestIsHarmless == stopped # "zero_address"
===============================================================================

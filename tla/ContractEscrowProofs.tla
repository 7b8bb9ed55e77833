------------------------- MODULE ContractEscrowProofs -------------------------
(***************************************************************************)
(* A contract that the handshake installs is the one the Service vouched   *)
(* for, for every number of proxies, logics, requests and changes of the   *)
(* chain.                                                                  *)
(*                                                                         *)
(* InstalledIsProved is not inductive: the proof that is stored comes from *)
(* an answer, and the code that is stored from contract_codes, which was   *)
(* filled through escrows.  The inductive invariant says of every place a  *)
(* word can be on its way (slots, calls, answers, the two maps) that the   *)
(* chain has held a proof that vouches for it.                             *)
(***************************************************************************)
EXTENDS ContractEscrow, TLAPS

\* The chain has held the proof of logic l for proxy p.
Vouched(p, l) == <<p, ChainProof(l)>> \in proved

SlotsVouched ==
  \A p \in Proxies :
     /\ proof_slot[p] = ChainProof(logic_slot[p])
     /\ logic_slot[p] # Zero => Vouched(p, logic_slot[p])

CallOK(c) ==
  /\ c.kind = "GETCODE" => c.of \in Proxies
  /\ c.kind = "GetCode" => c.of \in Logics
  /\ c.kind = "GETPROOF" => c.of \in Proxies \cup {Zero}

AnswerOK(m) ==
  /\ m.kind = "GETCODE" =>
       /\ m.of \in Proxies /\ m.result \in Logics \cup {Zero}
       /\ m.result # Zero => m.of \notin Short /\ Vouched(m.of, m.result)
  /\ m.kind = "GetCode" =>
       m.of \in Logics /\ m.of \notin Short /\ m.result = CodeOf[m.of]
  /\ m.kind = "GETPROOF" =>
       /\ m.of \in Proxies /\ m.result \in Proofs \cup {Zero}
       /\ m.result # Zero => m.of \notin Short /\ <<m.of, m.result>> \in proved

MessagesOK == (\A c \in calls : CallOK(c)) /\ (\A m \in answers : AnswerOK(m))

WaitersVouched ==
  \A l \in Logics : escrows[l] # Zero => Vouched(escrows[l], l)

LocalsHaveCode == \A a \in Locals : code[a] # NoCode

Vouching ==
  /\ SlotsVouched /\ MessagesOK /\ WaitersVouched /\ LocalsHaveCode
  /\ CodesBelong /\ InstalledIsProved

IInv == TypeOK /\ Vouching /\ LevelsMatchKeys

\* The proof of a logic contract is a proof, and names the logic's code.
LEMMA ChainProofType ==
  ASSUME NEW l \in Logics
  PROVE  /\ ChainProof(l) \in Proofs
         /\ CodeOf[l] # NoCode => ChainProof(l) = [code |-> CodeOf[l], state |-> ChainState]
<1>1. l # Zero
  BY DistinctWords
<1>2. CodeOf[l] \in Codes \cup {NoCode} /\ ChainState \in States
  BY ChainAssumption
<1> QED BY <1>1, <1>2, Zenon DEF ChainProof, Proofs, NoAccount

\* A slot's proof is a proof or unset.
LEMMA SlotProofType ==
  ASSUME NEW l \in Logics \cup {Zero}
  PROVE  ChainProof(l) \in Proofs \cup {Zero}
BY ChainProofType, Zenon DEF ChainProof

\* Initially the chain vouches for the proxies it holds, and nothing is on its way.
LEMMA InitIInv == Init => IInv
<1> SUFFICES ASSUME Init PROVE IInv
  OBVIOUS
<1>0. logic_slot \in [Proxies -> Logics \cup {Zero}] /\ ChainState \in States
  BY ChainAssumption DEF Init
<1>1. \A p \in Proxies : ChainProof(logic_slot[p]) \in Proofs \cup {Zero}
  BY <1>0, SlotProofType
<1>2. \A p \in Proxies : logic_slot[p] # Zero => ChainProof(logic_slot[p]) \in Proofs
  BY <1>0, ChainProofType
<1>3. proof_slot \in [Proxies -> Proofs \cup {Zero}] /\ proved \subseteq Proxies \X Proofs
  BY <1>1, <1>2 DEF Init
<1>4. code \in [Contracts -> Codes \cup {NoCode}]
      /\ \A a \in Contracts : code[a] = NoCode <=> a \in Proxies
  BY Zenon DEF Init
<1>5. TypeOK
  BY <1>0, <1>3, <1>4, Zenon DEF Init, TypeOK, Levels
<1>6. SlotsVouched
  BY <1>0, Zenon DEF Init, SlotsVouched, Vouched
<1>7. MessagesOK /\ WaitersVouched
  BY Zenon DEF Init, MessagesOK, WaitersVouched
<1>8. LocalsHaveCode /\ CodesBelong /\ InstalledIsProved
  BY <1>4, DistinctWords, Zenon
     DEF Init, LocalsHaveCode, CodesBelong, InstalledIsProved, Contracts
<1>9. LevelsMatchKeys
  BY DEF Init, LevelsMatchKeys
<1> QED BY <1>5, <1>6, <1>7, <1>8, <1>9 DEF IInv, Vouching

\* The chain moves on: what it has vouched for stays vouched for.
LEMMA ServiceStep ==
  ASSUME IInv, NEW p \in Proxies, NEW l \in Logics \cup {Zero}, service_update(p, l)
  PROVE  IInv'
<1> USE DEF IInv, Vouching
<1>1. /\ proved \subseteq proved'
      /\ l # Zero => <<p, ChainProof(l)>> \in proved'
  BY DEF service_update
<1>2. UNCHANGED <<config, code, level, encrypted, proof, escrows, contract_codes,
                  calls, answers, stopped, asked, lost>>
  BY DEF service_update, tables, maps
<1>3. ChainProof(l) \in Proofs \cup {Zero} /\ (l # Zero => ChainProof(l) \in Proofs)
  BY SlotProofType, ChainProofType
<1>4. TypeOK'
  <2>1. logic_slot' \in [Proxies -> Logics \cup {Zero}]
    BY Zenon DEF TypeOK, service_update
  <2>4. changes' \in Nat
    BY DEF TypeOK, service_update
  <2>2. proof_slot' \in [Proxies -> Proofs \cup {Zero}]
    BY <1>3, Zenon DEF TypeOK, service_update
  <2>3. proved' \subseteq Proxies \X Proofs
    <3>1. CASE l = Zero
      BY <3>1, Zenon DEF TypeOK, service_update
    <3>2. CASE l # Zero
      <4>1. proved' = proved \cup {<<p, ChainProof(l)>>}
        BY <3>2 DEF service_update
      <4> QED BY <1>3, <3>2, <4>1 DEF TypeOK
    <3> QED BY <3>1, <3>2
  <2> QED BY <1>2, <2>1, <2>2, <2>3, <2>4, Zenon DEF TypeOK
<1>5. SlotsVouched'
  BY <1>1, Zenon DEF SlotsVouched, Vouched, service_update, TypeOK
<1>6. MessagesOK'
  BY <1>1, <1>2, Zenon DEF MessagesOK, CallOK, AnswerOK, Vouched
<1>7. WaitersVouched' /\ LocalsHaveCode' /\ CodesBelong' /\ InstalledIsProved'
  BY <1>1, <1>2, Zenon DEF WaitersVouched, LocalsHaveCode, CodesBelong, InstalledIsProved, Vouched
<1>8. LevelsMatchKeys'
  BY <1>2, Zenon DEF LevelsMatchKeys
<1> QED BY <1>4, <1>5, <1>6, <1>7, <1>8, Zenon

\* The configuration is only compared with.
LEMMA ConfigurationStep ==
  ASSUME IInv, NEW s \in States, set_ethereum_configuration(s)
  PROVE  IInv'
<1>1. UNCHANGED <<logic_slot, proof_slot, proved, code, level, encrypted, proof,
                  escrows, contract_codes, calls, answers, stopped, asked, lost>>
  BY DEF set_ethereum_configuration, tables, maps
<1>2. TypeOK'
  BY <1>1 DEF IInv, TypeOK, set_ethereum_configuration
<1>3. Vouching'
  BY <1>1
     DEF IInv, Vouching, SlotsVouched, MessagesOK, CallOK, AnswerOK, WaitersVouched,
         LocalsHaveCode, CodesBelong, InstalledIsProved, Vouched
<1>4. LevelsMatchKeys'
  BY <1>1 DEF IInv, LevelsMatchKeys
<1> QED BY <1>2, <1>3, <1>4 DEF IInv

\* Only a proxy without code is asked for: the locals have code.
LEMMA RequestStep ==
  ASSUME IInv, NEW a \in Contracts, send_contract_escrow(a)
  PROVE  IInv'
<1> DEFINE c == Call(<<a, asked'[a]>>, "GETCODE", a)
<1>1. UNCHANGED <<chainVars, config, tables, maps, answers, lost>>
  BY DEF send_contract_escrow
<1>2. /\ asked' \in [Contracts -> Nat] /\ <<a, asked'[a]>> \in Requests
      /\ stopped' \in {stopped, "has_code"}
  <2>1. asked[a] \in Nat /\ MaxAsked[a] \in Nat /\ asked[a] < MaxAsked[a]
    BY EscrowBounds, Zenon DEF IInv, TypeOK, send_contract_escrow
  <2>2. asked' \in [Contracts -> Nat] /\ asked'[a] = asked[a] + 1
    BY DEF IInv, TypeOK, send_contract_escrow
  <2> QED BY <2>1, <2>2 DEF Requests, send_contract_escrow
<1>3. calls' = calls \/ (calls' = calls \cup {c} /\ code[a] = NoCode)
  BY DEF send_contract_escrow
<1>4. c \in [request : Requests, kind : Kinds, of : Words]
  BY <1>2 DEF Call, Kinds, Words
<1>5. code[a] = NoCode => CallOK(c)
  BY Zenon DEF IInv, Vouching, LocalsHaveCode, Contracts, CallOK, Call
<1>6. TypeOK'
  BY <1>1, <1>2, <1>3, <1>4, Zenon DEF IInv, TypeOK, chainVars, tables, maps
<1>7. MessagesOK'
  <2>1. \A d \in calls' : CallOK(d)
    BY <1>3, <1>5 DEF IInv, Vouching, MessagesOK
  <2>2. \A m \in answers' : AnswerOK(m)'
    BY <1>1, Zenon DEF IInv, Vouching, MessagesOK, AnswerOK, Vouched, chainVars
  <2> QED BY <2>1, <2>2 DEF MessagesOK, CallOK
<1>8. Vouching'
  BY <1>1, <1>7, Zenon
     DEF IInv, Vouching, SlotsVouched, WaitersVouched, LocalsHaveCode, CodesBelong,
         InstalledIsProved, Vouched, chainVars, tables, maps
<1>9. LevelsMatchKeys'
  BY <1>1 DEF IInv, LevelsMatchKeys, tables
<1> QED BY <1>6, <1>8, <1>9 DEF IInv

\* A key is made together with the level that needs it.
LEMMA KeyStep ==
  ASSUME IInv, NEW a \in Contracts, set_contract_key(a)
  PROVE  IInv'
<1>1. UNCHANGED <<logic_slot, proof_slot, proved, changes, config, code, proof,
                  escrows, contract_codes, calls, answers, asked, lost>>
  BY DEF set_contract_key, chainVars, maps
<1>2. TypeOK'
  BY <1>1 DEF IInv, TypeOK, set_contract_key, Levels
<1>3. Vouching'
  BY <1>1, Zenon
     DEF IInv, Vouching, SlotsVouched, MessagesOK, CallOK, AnswerOK, WaitersVouched,
         LocalsHaveCode, CodesBelong, InstalledIsProved, Vouched
<1>4. LevelsMatchKeys'
  BY <1>1 DEF IInv, TypeOK, LevelsMatchKeys, set_contract_key, KeyRefused
<1> QED BY <1>2, <1>3, <1>4 DEF IInv

\* An answer takes its call's place if the invariant holds of it.
LEMMA AnswerStep ==
  ASSUME IInv, NEW c \in calls, NEW r \in Results, Answer(c, r),
         AnswerOK([request |-> c.request, kind |-> c.kind, of |-> c.of, result |-> r])
  PROVE  IInv'
<1> DEFINE m == [request |-> c.request, kind |-> c.kind, of |-> c.of, result |-> r]
<1>1. UNCHANGED <<chainVars, config, tables, maps, stopped, asked, lost>>
  BY DEF Answer
<1>2. calls' \subseteq calls /\ answers' = answers \cup {m}
  BY DEF Answer
<1>3. TypeOK'
  <2>1. c \in [request : Requests, kind : Kinds, of : Words]
    BY Zenon DEF IInv, TypeOK
  <2>2. m \in [request : Requests, kind : Kinds, of : Words, result : Results]
    BY <2>1
  <2> QED BY <1>1, <1>2, <2>2, Zenon DEF IInv, TypeOK, chainVars, tables, maps
<1>4. MessagesOK'
  <2>1. \A d \in calls' : CallOK(d)
    BY <1>2, Zenon DEF IInv, Vouching, MessagesOK
  <2>2. \A n \in answers' : AnswerOK(n)
    BY <1>2, Zenon DEF IInv, Vouching, MessagesOK
  <2>3. \A n : AnswerOK(n)' <=> AnswerOK(n)
    BY <1>1, Zenon DEF AnswerOK, Vouched, chainVars
  <2> QED BY <2>1, <2>2, <2>3, Zenon DEF MessagesOK, CallOK
<1>5. Vouching'
  BY <1>1, <1>4, Zenon
     DEF IInv, Vouching, SlotsVouched, WaitersVouched, LocalsHaveCode, CodesBelong,
         InstalledIsProved, Vouched, chainVars, tables, maps
<1>6. LevelsMatchKeys'
  BY <1>1, Zenon DEF IInv, LevelsMatchKeys, tables
<1> QED BY <1>3, <1>5, <1>6, Zenon DEF IInv

\* What the node reads in a proxy's slots the chain has vouched for.
LEMMA StorageStep ==
  ASSUME IInv, NEW c \in calls, eth_getStorageAt(c)
  PROVE  IInv'
<1> DEFINE a == from_big_endian(c.of)
           r == Slot(c.kind, a)
           m == [request |-> c.request, kind |-> c.kind, of |-> c.of, result |-> r]
<1>1. /\ c \in [request : Requests, kind : Kinds, of : Words]
      /\ c.kind # "GetCode" /\ c.of # Zero /\ CallOK(c)
  BY Zenon DEF IInv, TypeOK, Vouching, MessagesOK, eth_getStorageAt
<1>2. c.kind \in {"GETCODE", "GETPROOF"} /\ c.of \in Proxies
  BY <1>1 DEF Kinds, CallOK
<1>3. r # Zero => c.of \notin Short /\ a = c.of
  BY <1>2, DistinctWords, Zenon DEF Slot, from_big_endian, Contracts
<1>4. r \in Results /\ (c.kind = "GETCODE" => r \in Logics \cup {Zero})
                     /\ (c.kind = "GETPROOF" => r \in Proofs \cup {Zero})
  BY <1>2, Zenon DEF Slot, Results, IInv, TypeOK
<1>5. AnswerOK(m)
  <2>1. CASE c.kind = "GETCODE"
    <3>1. r # Zero => Vouched(c.of, r)
      BY <1>2, <1>3, <2>1, Zenon DEF Slot, IInv, Vouching, SlotsVouched
    <3> QED BY <1>2, <1>3, <1>4, <2>1, <3>1, Zenon DEF AnswerOK
  <2>2. CASE c.kind = "GETPROOF"
    <3>1. r # Zero => r = proof_slot[c.of]
      BY <1>2, <1>3, <2>2, Zenon DEF Slot
    <3>2. r # Zero => logic_slot[c.of] # Zero
      BY <3>1, <1>2, Zenon DEF IInv, Vouching, SlotsVouched, ChainProof
    <3>3. r # Zero => <<c.of, r>> \in proved
      BY <1>2, <3>1, <3>2, Zenon DEF IInv, Vouching, SlotsVouched, Vouched
    <3> QED BY <1>2, <1>3, <1>4, <2>2, <3>3, Zenon DEF AnswerOK
  <2> QED BY <1>2, <2>1, <2>2, Zenon
<1>6. Answer(c, r)
  BY DEF eth_getStorageAt
<1> QED BY <1>4, <1>5, <1>6, AnswerStep, Zenon

\* The code of a logic does not change.
LEMMA CodeStep ==
  ASSUME IInv, NEW c \in calls, eth_getCode(c)
  PROVE  IInv'
<1>1. c.kind = "GetCode" /\ c.of \notin Short /\ CallOK(c) /\ Answer(c, CodeOf[c.of])
  BY DEF IInv, Vouching, MessagesOK, eth_getCode
<1>2. c.of \in Logics /\ CodeOf[c.of] \in Results
  BY <1>1, ChainAssumption, Zenon DEF CallOK, Results
<1>3. AnswerOK([request |-> c.request, kind |-> c.kind, of |-> c.of,
                result |-> CodeOf[c.of]])
  BY <1>1, <1>2, Zenon DEF AnswerOK
<1> QED BY <1>1, <1>2, <1>3, AnswerStep, Zenon

\* A call that gets no answer leaves the rest as it is.
LEMMA LossOfCall ==
  ASSUME IInv, NEW c \in calls, call_error(c) \/ host_escrow_zero(c)
  PROVE  IInv'
<1>1. /\ UNCHANGED <<chainVars, config, tables, maps, answers, asked>>
      /\ calls' \subseteq calls
      /\ stopped' \in {stopped, "zero_address"}
  BY DEF call_error, host_escrow_zero
<1>2. lost' \in Nat
  BY DEF IInv, TypeOK, call_error, host_escrow_zero
<1>3. TypeOK'
  BY <1>1, <1>2, Zenon DEF IInv, TypeOK, chainVars, tables, maps
<1>4. Vouching'
  BY <1>1, Zenon
     DEF IInv, Vouching, SlotsVouched, MessagesOK, CallOK, AnswerOK, WaitersVouched,
         LocalsHaveCode, CodesBelong, InstalledIsProved, Vouched, chainVars, tables, maps
<1>5. LevelsMatchKeys'
  BY <1>1, Zenon DEF IInv, LevelsMatchKeys, tables
<1> QED BY <1>3, <1>4, <1>5 DEF IInv

\* A proxy is entered under a logic the chain has vouched for.
LEMMA GetCodeStep ==
  ASSUME IInv, NEW m \in answers, escrow_getcode(m)
  PROVE  IInv'
<1> DEFINE c == Call(m.request, "GetCode", m.result)
           k == from_big_endian(m.result)
<1>1. /\ m \in [request : Requests, kind : Kinds, of : Words, result : Results]
      /\ m.kind = "GETCODE" /\ AnswerOK(m)
  BY Zenon DEF IInv, TypeOK, Vouching, MessagesOK, escrow_getcode
<1>2. UNCHANGED <<chainVars, config, tables, contract_codes, asked, lost>>
      /\ answers' \subseteq answers
  BY DEF escrow_getcode
<1>3. CASE m.result = Zero
  <2>1. UNCHANGED <<escrows, calls>> /\ stopped' = "zero_slot"
    BY <1>3 DEF escrow_getcode
  <2>2. TypeOK'
    BY <1>2, <2>1, Zenon DEF IInv, TypeOK, chainVars, tables
  <2>3. Vouching'
    BY <1>2, <2>1, Zenon
       DEF IInv, Vouching, SlotsVouched, MessagesOK, CallOK, AnswerOK, WaitersVouched,
           LocalsHaveCode, CodesBelong, InstalledIsProved, Vouched, chainVars, tables
  <2>4. LevelsMatchKeys'
    BY <1>2 DEF IInv, LevelsMatchKeys, tables
  <2> QED BY <2>2, <2>3, <2>4 DEF IInv
<1>4. CASE m.result # Zero
  <2>1. /\ m.of \in Proxies /\ m.of \notin Short /\ m.result \in Logics
        /\ Vouched(m.of, m.result)
    BY <1>1, <1>4, Zenon DEF AnswerOK
  <2>2. k \in Logics \cup {Garbled} /\ (k \in Logics => k = m.result)
    BY <2>1, DistinctWords, Zenon DEF from_big_endian
  <2>3. /\ escrows' = [escrows EXCEPT ![k] = m.of]
        /\ calls' = calls \cup {c} /\ UNCHANGED stopped
    BY <1>4, <2>1, Zenon DEF escrow_getcode, from_big_endian
  <2>4. c \in [request : Requests, kind : Kinds, of : Words] /\ CallOK(c)
    BY <1>1, <2>1, Zenon DEF Call, Kinds, Words, CallOK
  <2>5. escrows' \in [Logics \cup {Garbled} -> Proxies \cup {Zero}]
    BY <2>1, <2>2, <2>3, Zenon DEF IInv, TypeOK
  <2>6. TypeOK'
    BY <1>2, <2>3, <2>4, <2>5, Zenon DEF IInv, TypeOK, chainVars, tables
  <2>7. MessagesOK'
    <3>1. \A d \in calls' : CallOK(d)
      BY <2>3, <2>4, Zenon DEF IInv, Vouching, MessagesOK
    <3>2. \A n \in answers' : AnswerOK(n)
      BY <1>2 DEF IInv, Vouching, MessagesOK
    <3>3. \A n : AnswerOK(n)' <=> AnswerOK(n)
      BY <1>2 DEF AnswerOK, Vouched, chainVars
    <3> QED BY <3>1, <3>2, <3>3, Zenon DEF MessagesOK, CallOK
  <2>8. WaitersVouched'
    <3> SUFFICES ASSUME NEW l \in Logics, escrows'[l] # Zero
                 PROVE  <<escrows'[l], ChainProof(l)>> \in proved'
      BY DEF WaitersVouched, Vouched
    <3>1. CASE l = k
      <4>1. escrows'[l] = m.of /\ l = m.result
        BY <2>2, <2>3, <3>1, Zenon DEF IInv, TypeOK
      <4> QED BY <1>2, <2>1, <4>1, Zenon DEF Vouched, chainVars
    <3>2. CASE l # k
      <4>1. escrows'[l] = escrows[l]
        BY <2>3, <3>2, Zenon DEF IInv, TypeOK
      <4> QED BY <1>2, <4>1, Zenon DEF IInv, Vouching, WaitersVouched, Vouched, chainVars
    <3> QED BY <3>1, <3>2
  <2>9. Vouching'
    BY <1>2, <2>7, <2>8, Zenon
       DEF IInv, Vouching, SlotsVouched, LocalsHaveCode, CodesBelong,
           InstalledIsProved, Vouched, chainVars, tables
  <2>10. LevelsMatchKeys'
    BY <1>2, Zenon DEF IInv, LevelsMatchKeys, tables
  <2> QED BY <2>6, <2>9, <2>10 DEF IInv
<1> QED BY <1>3, <1>4

\* The code goes to the proxy that waits under its logic, if any.
LEMMA ResponseStep ==
  ASSUME IInv, NEW m \in answers, call_response(m)
  PROVE  IInv'
<1> DEFINE a == escrows[m.of]
           c == Call(m.request, "GETPROOF", a)
<1>1. /\ m \in [request : Requests, kind : Kinds, of : Words, result : Results]
      /\ m.kind = "GetCode" /\ AnswerOK(m)
  BY Zenon DEF IInv, TypeOK, Vouching, MessagesOK, call_response
<1>2. UNCHANGED <<chainVars, config, tables, escrows, stopped, asked, lost>>
      /\ answers' \subseteq answers
  BY DEF call_response
<1>3. m.of \in Logics /\ m.result = CodeOf[m.of] /\ a \in Proxies \cup {Zero}
  BY <1>1, Zenon DEF AnswerOK, IInv, TypeOK
<1>4. c \in [request : Requests, kind : Kinds, of : Words] /\ CallOK(c)
  BY <1>1, <1>3, Zenon DEF Call, Kinds, Words, Contracts, CallOK
<1>5. calls' = calls \/ calls' = calls \cup {c}
  BY DEF call_response
<1>6. \/ contract_codes' = contract_codes
      \/ /\ contract_codes' = [contract_codes EXCEPT ![a] = CodeOf[m.of]]
         /\ CodeOf[m.of] # NoCode
  BY <1>3, Zenon DEF call_response
<1>7. contract_codes' \in [Contracts \cup {Zero, Garbled} -> Codes \cup {NoCode}]
  <2>1. CodeOf[m.of] \in Codes \cup {NoCode}
    BY <1>3, ChainAssumption, Zenon
  <2> QED BY <1>6, <2>1, Zenon DEF IInv, TypeOK
<1>8. TypeOK'
  BY <1>2, <1>4, <1>5, <1>7, Zenon DEF IInv, TypeOK, chainVars, tables
<1>9. MessagesOK'
  <2>1. \A d \in calls' : CallOK(d)
    BY <1>4, <1>5, Zenon DEF IInv, Vouching, MessagesOK
  <2>2. \A n \in answers' : AnswerOK(n)
    BY <1>2 DEF IInv, Vouching, MessagesOK
  <2>3. \A n : AnswerOK(n)' <=> AnswerOK(n)
    BY <1>2, Zenon DEF AnswerOK, Vouched, chainVars
  <2> QED BY <2>1, <2>2, <2>3, Zenon DEF MessagesOK, CallOK
<1>10. CodesBelong'
  <2> SUFFICES ASSUME NEW p \in Proxies, contract_codes'[p] # NoCode
               PROVE  <<p, [code |-> contract_codes'[p], state |-> ChainState]>> \in proved
    BY <1>2, Zenon DEF CodesBelong, chainVars
  <2>1. CASE contract_codes'[p] = contract_codes[p]
    BY <2>1, Zenon DEF IInv, Vouching, CodesBelong
  <2>2. CASE contract_codes'[p] # contract_codes[p]
    <3>1. p = a /\ contract_codes'[p] = CodeOf[m.of] /\ CodeOf[m.of] # NoCode
      BY <1>6, <2>2, Zenon DEF IInv, TypeOK, Contracts
    <3>2. p # Zero
      BY DistinctWords DEF Contracts
    <3>3. <<p, ChainProof(m.of)>> \in proved
      BY <1>3, <3>1, <3>2, Zenon DEF IInv, Vouching, WaitersVouched, Vouched
    <3> QED BY <1>3, <3>1, <3>3, ChainProofType, Zenon
  <2> QED BY <2>1, <2>2, Zenon
<1>11. Vouching'
  BY <1>2, <1>9, <1>10, Zenon
     DEF IInv, Vouching, SlotsVouched, WaitersVouched, LocalsHaveCode,
         InstalledIsProved, Vouched, chainVars, tables
<1>12. LevelsMatchKeys'
  BY <1>2, Zenon DEF IInv, LevelsMatchKeys, tables
<1> QED BY <1>8, <1>11, <1>12 DEF IInv

\* A proof that is accepted is the one of the code that waits, as it was read.
LEMMA MatchingProof ==
  ASSUME TypeOK, NEW a \in Proxies, NEW w \in Proofs, ProofMatches(a, w)
  PROVE  w = [code |-> contract_codes[a], state |-> config]
<1>1. contract_codes[a] \in Codes /\ config \in States \cup {Zero}
  BY Zenon DEF TypeOK, ProofMatches, Contracts
<1>2. [code |-> contract_codes[a], state |-> config] \in Proofs
  BY <1>1 DEF Proofs
<1>3. [code |-> contract_codes[a], state |-> config] # Garbled
  BY <1>2, DistinctWords, Zenon
<1> QED BY <1>3 DEF ProofMatches, from_big_endian

\* Installing keeps the invariant and touches only a proxy without code.
LEMMA GetProofStep ==
  ASSUME IInv, NEW m \in answers, escrow_getproof(m)
  PROVE  /\ IInv'
         /\ \A b \in Contracts : code[b] # NoCode =>
              code'[b] = code[b] /\ proof'[b] = proof[b] /\ level'[b] = level[b]
<1> DEFINE a == from_big_endian(m.of)
           Goal == \A b \in Contracts : code[b] # NoCode =>
                     code'[b] = code[b] /\ proof'[b] = proof[b] /\ level'[b] = level[b]
<1>1. /\ m.kind = "GETPROOF" /\ AnswerOK(m)
      /\ m.of \in Proxies /\ m.result \in Proofs \cup {Zero}
      /\ m.result # Zero => a = m.of /\ <<m.of, m.result>> \in proved
  BY Zenon DEF IInv, Vouching, MessagesOK, escrow_getproof, AnswerOK, from_big_endian
<1>2. UNCHANGED <<chainVars, config, encrypted, calls, asked, lost>>
      /\ answers' \subseteq answers
  BY DEF escrow_getproof
<1>3. /\ escrows' \in [Logics \cup {Garbled} -> Proxies \cup {Zero}]
      /\ \A l \in Logics : escrows'[l] \in {escrows[l], Zero}
      /\ stopped' \in {stopped, "zero_slot"}
  <2>1. CASE m.result = Zero
    BY <2>1, Zenon DEF escrow_getproof, IInv, TypeOK
  <2>2. CASE m.result # Zero
    <3>1. EraseEscrow(a) /\ UNCHANGED stopped
      BY <2>2, Zenon DEF escrow_getproof
    <3> QED BY <3>1, Zenon DEF EraseEscrow, IInv, TypeOK
  <2> QED BY <2>1, <2>2, Zenon
<1>4. MessagesOK'
  <2>1. \A d \in calls' : CallOK(d)
    BY <1>2 DEF IInv, Vouching, MessagesOK
  <2>2. \A n \in answers' : AnswerOK(n)
    BY <1>2 DEF IInv, Vouching, MessagesOK
  <2>3. \A n : AnswerOK(n)' <=> AnswerOK(n)
    BY <1>2 DEF AnswerOK, Vouched, chainVars
  <2> QED BY <2>1, <2>2, <2>3, Zenon DEF MessagesOK, CallOK
<1>5. SlotsVouched' /\ WaitersVouched'
  BY <1>2, <1>3, Zenon DEF IInv, Vouching, SlotsVouched, WaitersVouched, Vouched, chainVars
<1>6. CASE UNCHANGED <<contract_codes, level, proof, code>>
  <2>1. TypeOK'
    BY <1>2, <1>3, <1>6, Zenon DEF IInv, TypeOK, chainVars
  <2>2. LocalsHaveCode' /\ CodesBelong' /\ InstalledIsProved' /\ LevelsMatchKeys'
    BY <1>2, <1>6, Zenon
       DEF IInv, Vouching, LocalsHaveCode, CodesBelong, InstalledIsProved,
           LevelsMatchKeys, chainVars
  <2>3. Goal
    BY <1>6
  <2> QED BY <1>4, <1>5, <2>1, <2>2, <2>3, Zenon DEF IInv, Vouching
<1>7. CASE ~UNCHANGED <<contract_codes, level, proof, code>>
  <2>1. /\ m.result # Zero /\ code[a] = NoCode
        /\ ProofMatches(a, m.result) /\ install(a, m.result)
    BY <1>7, Zenon DEF escrow_getproof
  <2>2. a = m.of /\ a \in Proxies /\ a \in Contracts /\ m.result \in Proofs
    BY <1>1, <2>1, Zenon DEF Contracts
  <2>3. m.result.code = contract_codes[a] /\ contract_codes[a] \in Codes
    BY <2>1, <2>2, MatchingProof DEF IInv, TypeOK, ProofMatches
  <2>4. /\ level' = [level EXCEPT ![a] = "SOLIDITY"]
        /\ proof' = [proof EXCEPT ![a] = m.result]
        /\ code' = [code EXCEPT ![a] = contract_codes[a]]
        /\ contract_codes' = [contract_codes EXCEPT ![a] = NoCode]
    BY <2>1, Zenon DEF install
  <2>5. /\ level' \in [Contracts -> Levels]
        /\ proof' \in [Contracts -> Proofs \cup {Zero}]
        /\ code' \in [Contracts -> Codes \cup {NoCode}]
        /\ contract_codes' \in [Contracts \cup {Zero, Garbled} -> Codes \cup {NoCode}]
    BY <2>2, <2>3, <2>4, Zenon DEF IInv, TypeOK, Levels
  <2>6. TypeOK'
    BY <1>2, <1>3, <2>5, Zenon DEF IInv, TypeOK, chainVars
  <2>7. LocalsHaveCode'
    BY <2>2, <2>4, DistinctWords DEF IInv, TypeOK, Vouching, LocalsHaveCode, Contracts
  <2>8. CodesBelong'
    BY <1>2, <2>2, <2>4, Zenon DEF IInv, TypeOK, Vouching, CodesBelong, chainVars, Contracts
  <2>9. InstalledIsProved'
    <3> SUFFICES ASSUME NEW p \in Proxies, code'[p] # NoCode
                 PROVE  <<p, proof'[p]>> \in proved /\ proof'[p].code = code'[p]
      BY <1>2, Zenon DEF InstalledIsProved, chainVars
    <3>1. CASE p = a
      <4>1. proof'[p] = m.result /\ code'[p] = contract_codes[a]
        BY <2>2, <2>4, <3>1, Zenon DEF IInv, TypeOK
      <4> QED BY <1>1, <2>1, <2>2, <2>3, <3>1, <4>1, Zenon
    <3>2. CASE p # a
      <4>1. proof'[p] = proof[p] /\ code'[p] = code[p]
        BY <2>4, <3>2, Zenon DEF IInv, TypeOK, Contracts
      <4> QED BY <4>1, Zenon DEF IInv, Vouching, InstalledIsProved
    <3> QED BY <3>1, <3>2, Zenon
  <2>10. LevelsMatchKeys'
    <3>1. NoCode \notin Codes
      BY DistinctWords
    <3> QED BY <1>2, <2>1, <2>2, <2>3, <2>4, <3>1, Zenon DEF IInv, TypeOK, LevelsMatchKeys
  <2>11. Goal
    BY <2>1, <2>2, <2>4, Zenon DEF IInv, TypeOK
  <2> QED BY <1>4, <1>5, <2>6, <2>7, <2>8, <2>9, <2>10, <2>11, Zenon DEF IInv, Vouching
<1> QED BY <1>6, <1>7, Zenon

\* Every step preserves the invariant.
LEMMA NextIInv == IInv /\ [Next]_vars => IInv'
<1> SUFFICES ASSUME IInv, [Next]_vars PROVE IInv'
  OBVIOUS
<1>1. CASE ChainStep
  BY <1>1, ServiceStep, ConfigurationStep DEF ChainStep
<1>2. CASE UserStep
  BY <1>2, RequestStep, KeyStep DEF UserStep
<1>3. CASE NodeStep
  BY <1>3, StorageStep, LossOfCall, CodeStep, Zenon DEF NodeStep
<1>4. CASE LossStep
  BY <1>4, LossOfCall DEF LossStep
<1>5. CASE EnclaveStep
  BY <1>5, GetCodeStep, ResponseStep, GetProofStep, Zenon DEF EnclaveStep
<1>6. CASE UNCHANGED vars
  <2>1. TypeOK'
    BY <1>6, Zenon DEF IInv, TypeOK, vars, chainVars, tables, maps
  <2>2. Vouching'
    BY <1>6, Zenon
       DEF IInv, Vouching, SlotsVouched, MessagesOK, CallOK, AnswerOK, WaitersVouched,
           LocalsHaveCode, CodesBelong, InstalledIsProved, Vouched, vars, chainVars,
           tables, maps
  <2>3. LevelsMatchKeys'
    BY <1>6, Zenon DEF IInv, LevelsMatchKeys, vars, tables
  <2> QED BY <2>1, <2>2, <2>3 DEF IInv
<1> QED BY <1>1, <1>2, <1>3, <1>4, <1>5, <1>6, Zenon DEF Next

\* The invariant holds of every behaviour of the handshake.
LEMMA Invariant == Spec => []IInv
BY InitIInv, NextIInv, PTL DEF Spec

(***************************************************************************)
(* Every variable of the handshake keeps its type; in particular only      *)
(* proxies are ever entered in escrows.                                    *)
(***************************************************************************)
THEOREM TypeCorrect == Spec => []TypeOK
<1>1. IInv => TypeOK
  BY DEF IInv
<1> QED BY <1>1, Invariant, PTL

(***************************************************************************)
(* The code of a proxy in the enclave is the code whose proof is stored    *)
(* with it, and the chain has held that proof for that proxy, however the  *)
(* handshakes interleave and the chain changes (Web3Operation, GETPROOF).  *)
(***************************************************************************)
THEOREM InstalledCodeIsProved == Spec => []InstalledIsProved
<1>1. IInv => InstalledIsProved
  BY DEF IInv, Vouching
<1> QED BY <1>1, Invariant, PTL

(***************************************************************************)
(* A code that waits for its proof belongs to the proxy it waits under     *)
(* (Web3Operation, call_response).                                         *)
(***************************************************************************)
THEOREM WaitingCodesBelong == Spec => []CodesBelong
<1>1. IInv => CodesBelong
  BY DEF IInv, Vouching
<1> QED BY <1>1, Invariant, PTL

(***************************************************************************)
(* A contract has a key exactly when its level says its words are          *)
(* encrypted (set_contract_key).                                           *)
(***************************************************************************)
THEOREM LevelsAndKeys == Spec => []LevelsMatchKeys
<1>1. IInv => LevelsMatchKeys
  BY DEF IInv
<1> QED BY <1>1, Invariant, PTL

\* What a step may do to a contract that has code.
Kept ==
  \A a \in Contracts : code[a] # NoCode =>
     /\ code'[a] = code[a] /\ proof'[a] = proof[a]
     /\ Rank(level[a]) <= Rank(level'[a])

\* A step keeps the code and the proof of every contract that has code.
LEMMA StepKeeps == IInv /\ [Next]_vars => [Kept]_vars
<1> SUFFICES ASSUME IInv, Next PROVE Kept
  BY Zenon DEF Kept, vars
<1>0. \A l : Rank(l) \in 0..2
  BY DEF Rank
<1>1. CASE UNCHANGED tables
  BY <1>0, <1>1 DEF tables, Kept
<1>2. ASSUME NEW a \in Contracts, set_contract_key(a) PROVE Kept
  <2>1. UNCHANGED <<code, proof>>
    BY <1>2 DEF set_contract_key
  <2>2. \A b \in Contracts : level'[b] \in {level[b], "SOLIDITY_ENHANCE"}
    BY <1>2, Zenon DEF set_contract_key, IInv, TypeOK
  <2>3. \A b \in Contracts : Rank(level[b]) <= Rank(level'[b])
    BY <1>0, <2>2 DEF Rank
  <2> QED BY <2>1, <2>3 DEF Kept
<1>3. ASSUME NEW m \in answers, escrow_getproof(m) PROVE Kept
  BY <1>0, <1>3, GetProofStep DEF Kept
<1>4. CASE ChainStep \/ NodeStep \/ LossStep
  BY <1>1, <1>4, Zenon
     DEF ChainStep, NodeStep, LossStep, service_update, set_ethereum_configuration,
         eth_getStorageAt, host_escrow_zero, eth_getCode, call_error, Answer
<1>5. CASE UserStep
  BY <1>1, <1>2, <1>5, Zenon DEF UserStep, send_contract_escrow
<1>6. CASE EnclaveStep
  BY <1>1, <1>3, <1>6, Zenon DEF EnclaveStep, escrow_getcode, call_response
<1> QED BY <1>4, <1>5, <1>6 DEF Next

(***************************************************************************)
(* What is installed is final: no later request, answer or change of the   *)
(* chain replaces the code or the proof, and levels only rise.             *)
(***************************************************************************)
THEOREM InstalledStays == Spec => InstalledIsFinal
<1>1. IInv /\ [Next]_vars => [Kept]_vars
  BY StepKeeps
<1>2. Spec => [][Kept]_vars
  BY <1>1, Invariant, PTL DEF Spec
<1> QED BY <1>2 DEF InstalledIsFinal, Kept
===============================================================================

---------------------------- MODULE WsServiceProofs ----------------------------
(***************************************************************************)
(* Proofs about WsService, for any number of connections, failed attempts, *)
(* lost sessions and requests.                                             *)
(***************************************************************************)
EXTENDS WsService, FiniteSetTheorems, TLAPS

(***************************************************************************)
(* The inductive invariant.  Neither of the two properties is inductive:   *)
(* that a finished attempt does not replace a session needs that attempts  *)
(* are under way only without one, and that a removal takes away the right *)
(* session needs that the pool holds no task but the one of a dropped      *)
(* m_session.                                                              *)
(***************************************************************************)
Attempts ==
  /\ pc = "idle" => pending = 0 /\ m_session = NoSession /\ ~timers
  /\ pending # 0 => m_session = NoSession

LiveIsCurrent == \A s \in Sessions : state[s] = "live" => m_session = s

Removal ==
  pool # <<>> =>
     /\ pool = <<m_session>> /\ m_session \in Sessions
     /\ state[m_session] = "dropped"

IInv == TypeOK /\ Attempts /\ LiveIsCurrent /\ Removal

(* The sessions made so far can be counted. *)
LEMMA MadeCount == Cardinality(Made) \in Nat
<1>1. MaxSessions \in Nat  BY ServiceAssumption
<1>2. IsFiniteSet(Sessions)  BY <1>1, FS_Interval DEF Sessions
<1>3. IsFiniteSet(Made)  BY <1>2, FS_Subset DEF Made
<1> QED  BY <1>3, FS_CardinalityType

(* NoSession is the null pointer, not a session. *)
LEMMA NoSessionIsNone == NoSession \notin Sessions
BY ServiceAssumption DEF Sessions, NoSession

\* A service that was not started satisfies the invariant.
LEMMA InitIInv == Init => IInv
<1> SUFFICES ASSUME Init PROVE IInv  OBVIOUS
<1>1. TypeOK
  <2>1. 0 \in 0..MaxFailures  BY ServiceAssumption
  <2>2. pool \in Seq(Sessions)  BY DEF Init
  <2>3. handshakes \subseteq Sessions  BY DEF Init
  <2>4. {m_running, timers, ioDone} \subseteq BOOLEAN  BY Zenon DEF Init
  <2>5. state \in [Sessions -> {"none", "live", "dropped"}]  BY DEF Init
  <2> QED  BY <2>1, <2>2, <2>3, <2>4, <2>5 DEF Init, TypeOK
<1>2. Attempts /\ LiveIsCurrent /\ Removal
  BY DEF Init, Attempts, LiveIsCurrent, Removal
<1> QED  BY <1>1, <1>2 DEF IInv

(* The steps of the host's thread leave the sessions alone. *)
LEMMA HostIInv == IInv /\ HostStep => IInv'
<1> SUFFICES ASSUME IInv, HostStep PROVE IInv'  OBVIOUS
<1> USE DEF IInv, TypeOK, Attempts, LiveIsCurrent, Removal, sessions, connector
<1>1. CASE start  BY <1>1 DEF start, async_connect_service
<1>2. CASE connect_to_service  BY <1>2, Zenon DEF connect_to_service, stop
<1>3. CASE wait_for_connectionEstablish
  BY <1>3, Zenon DEF wait_for_connectionEstablish, stop
<1>4. CASE stop_ioc_thread  BY <1>4, Zenon DEF stop_ioc_thread
<1>5. CASE send_test  BY <1>5 DEF send_test
<1>6. CASE send_use  BY <1>6 DEF send_use
<1> QED  BY <1>1, <1>2, <1>3, <1>4, <1>5, <1>6 DEF HostStep

(* The steps of the connector and of the timer before a connection is made. *)
LEMMA ConnectorIInv ==
  IInv /\ (connect_step \/ connect_error \/ ioc_thread_end \/ reconnect) => IInv'
<1> SUFFICES ASSUME IInv, connect_step \/ connect_error \/ ioc_thread_end \/ reconnect
             PROVE  IInv'
  OBVIOUS
<1> USE DEF IInv, TypeOK, Attempts, LiveIsCurrent, Removal, sessions, connector, host
<1>1. CASE connect_step  BY <1>1 DEF connect_step, Stages
<1>2. CASE connect_error
  <2>1. failures' \in 0..MaxFailures
    BY <1>2, ServiceAssumption DEF connect_error
  <2> QED  BY <1>2, <2>1 DEF connect_error, Stages
<1>3. CASE ioc_thread_end  BY <1>3 DEF ioc_thread_end
<1>4. CASE reconnect  BY <1>4 DEF reconnect, async_connect_service
<1> QED  BY <1>1, <1>2, <1>3, <1>4

(* A connection that is made finds no session, live or about to be removed. *)
LEMMA SuccessIInv == IInv /\ connect_success => IInv'
<1> SUFFICES ASSUME IInv, connect_success PROVE IInv'  OBVIOUS
<1> DEFINE s == Cardinality(Made) + 1
<1>1. s \in Sessions
  BY MadeCount, ServiceAssumption DEF connect_success, Sessions
<1>2. m_session = NoSession  BY DEF IInv, Attempts, connect_success
<1>3. pool = <<>>  BY <1>2, NoSessionIsNone DEF IInv, Removal
<1>4. \A t \in Sessions : state[t] # "live"
  BY <1>2, NoSessionIsNone DEF IInv, LiveIsCurrent
<1>5. m_session' = s /\ state' = [state EXCEPT ![s] = "live"]
  BY DEF connect_success, add_session
<1> HIDE DEF s
<1>6. state' \in [Sessions -> {"none", "live", "dropped"}]
  BY <1>1, <1>5 DEF IInv, TypeOK
<1>7. TypeOK'  BY <1>1, <1>5, <1>6 DEF IInv, TypeOK, connect_success
<1>8. LiveIsCurrent'  BY <1>4, <1>5 DEF IInv, TypeOK, LiveIsCurrent
<1>9. Attempts' /\ Removal'
  BY <1>3 DEF IInv, Attempts, Removal, connect_success
<1> QED  BY <1>7, <1>8, <1>9 DEF IInv

(* A session that is dropped is m_session, and nothing else is in the pool. *)
LEMMA DropIInv == \A s \in Sessions : IInv /\ drop(s) => IInv'
<1> SUFFICES ASSUME NEW s \in Sessions, IInv, drop(s) PROVE IInv'  OBVIOUS
<1>1. m_session = s /\ state[s] = "live"
  BY DEF IInv, LiveIsCurrent, drop, IsLive
<1>2. pool = <<>>  BY <1>1 DEF IInv, Removal
<1>3. pool' = <<s>>  BY <1>2 DEF drop
<1>4. state' = [state EXCEPT ![s] = "dropped"] /\ m_session' = m_session
  BY DEF drop
<1>5. TypeOK'
  BY <1>3, <1>4 DEF IInv, TypeOK, drop, host, connector
<1>6. Removal'  BY <1>1, <1>3, <1>4 DEF IInv, TypeOK, Removal
<1>7. LiveIsCurrent'  BY <1>4 DEF IInv, TypeOK, LiveIsCurrent
<1>8. Attempts'  BY DEF IInv, Attempts, drop, host, connector
<1> QED  BY <1>5, <1>6, <1>7, <1>8 DEF IInv

(* The removal takes away the dropped session and empties the pool. *)
LEMMA RemoveIInv == IInv /\ remove_session => IInv'
<1> SUFFICES ASSUME IInv, remove_session PROVE IInv'  OBVIOUS
<1>1. /\ pool = <<m_session>> /\ m_session \in Sessions
      /\ state[m_session] = "dropped"
  BY DEF IInv, Removal, remove_session
<1>2. pool' = <<>>  BY <1>1 DEF remove_session
<1>3. m_session' = NoSession /\ state' = state  BY DEF remove_session
<1>4. TypeOK'  BY <1>2, <1>3 DEF IInv, TypeOK, remove_session, host, connector
<1>5. LiveIsCurrent'  BY <1>1, <1>3 DEF IInv, LiveIsCurrent
<1>6. Attempts' /\ Removal'
  BY <1>2, <1>3 DEF IInv, Attempts, Removal, remove_session, host, connector
<1> QED  BY <1>4, <1>5, <1>6 DEF IInv

\* Every step of the service, its timers and its connector keeps the invariant.
LEMMA NextIInv == IInv /\ [Next]_vars => IInv'
<1> SUFFICES ASSUME IInv, [Next]_vars PROVE IInv'  OBVIOUS
<1>1. CASE HostStep  BY <1>1, HostIInv
<1>2. CASE connect_step \/ connect_error \/ ioc_thread_end \/ reconnect
  BY <1>2, ConnectorIInv
<1>3. CASE connect_success  BY <1>3, SuccessIInv
<1>4. CASE remove_session  BY <1>4, RemoveIInv
<1>5. CASE Answers
  <2>1. PICK s \in Sessions : handshake(s)  BY <1>5 DEF Answers
  <2> QED
    BY <2>1 DEF IInv, TypeOK, Attempts, LiveIsCurrent, Removal, handshake, host,
                connector
<1>6. CASE \E s \in Sessions : drop(s)  BY <1>6, DropIInv
<1>7. CASE UNCHANGED vars
  BY <1>7 DEF IInv, TypeOK, Attempts, LiveIsCurrent, Removal, vars, host, connector,
              sessions
<1> QED  BY <1>1, <1>2, <1>3, <1>4, <1>5, <1>6, <1>7 DEF Next

(* The invariant holds in every behaviour of the service. *)
THEOREM Invariant == Spec => []IInv
BY InitIInv, NextIInv, PTL DEF Spec

(* The variables of the service and of its connector keep their types. *)
THEOREM TypeCorrect == Spec => []TypeOK
<1>1. IInv => TypeOK  BY DEF IInv
<1> QED  BY <1>1, Invariant, PTL

(***************************************************************************)
(* However the timer, late callbacks of the connector and the removal of   *)
(* old sessions interleave, the service never has two connections.         *)
(***************************************************************************)
THEOREM NeverTwoConnections == Spec => []OneConnection
<1>1. IInv => OneConnection
  BY NoSessionIsNone
  DEF IInv, Attempts, LiveIsCurrent, OneConnection, IsLive
<1> QED  BY <1>1, Invariant, PTL

(***************************************************************************)
(* remove_session resets the pointer of the very session that was dropped, *)
(* and never follows the null pointer.                                     *)
(***************************************************************************)
THEOREM RemovalIsRight == Spec => []RemovesItsOwn
<1>1. ASSUME IInv PROVE RemovesItsOwn
  <2>1. CASE pool = <<>>  BY <2>1 DEF RemovesItsOwn
  <2>2. CASE pool # <<>>
    <3>1. /\ pool = <<m_session>> /\ m_session \in Sessions
          /\ state[m_session] = "dropped"
      BY <1>1, <2>2 DEF IInv, Removal
    <3>2. Len(pool) = 1 /\ pool[1] = m_session  BY <3>1
    <3> QED  BY <3>1, <3>2 DEF RemovesItsOwn, Lost
  <2> QED  BY <2>1, <2>2
<1> QED  BY <1>1, Invariant, PTL
===============================================================================

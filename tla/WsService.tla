------------------------------- MODULE WsService -------------------------------
(***************************************************************************)
(* The websocket service of the host (libweb3client, service.cpp,          *)
(* client.cpp, connector.cpp): it connects to the node at the start, keeps *)
(* one session, and connects again when the session is lost.               *)
(*                                                                         *)
(* The host's thread starts the service, waits for the connection and for  *)
(* the handshake, and then sends requests.  The io thread makes the        *)
(* connections and runs the timers.  The pool thread takes away sessions   *)
(* that were dropped.  A session is "live" until it is dropped; what       *)
(* happens inside it is the subject of WsSession.                          *)
(***************************************************************************)
EXTENDS Naturals, Sequences, FiniteSets

CONSTANTS
  MaxSessions,  \* bound: connections that are made
  MaxFailures,  \* bound: connection attempts that fail
  MaxLosses,    \* bound: sessions that are lost
  Slow,         \* whether the waits of start may time out
  Sends         \* whether the host sends requests

ASSUME ServiceAssumption ==
  /\ {MaxSessions, MaxFailures, MaxLosses} \subseteq Nat
  /\ {Slow, Sends} \subseteq BOOLEAN

Sessions == 1..MaxSessions
NoSession == 0

VARIABLES
  pc,          \* where the host's thread is
  m_running,
  promise,     \* result of the first connection: "none", "ok", "error"
  timers,      \* the reconnect and heartbeat timers have been set up
  pending,     \* stage of the connection attempt in m_pendingConns, 0 for none
  ioDone,      \* the io thread has returned
  m_session,
  state,       \* state of each session: "none", "live", "dropped"
  pool,        \* disconnect tasks of the thread pool
  handshakes,  \* sessions that have answered the handshake (handshakeSucCount)
  failures,    \* attempts that failed
  crashed

connector == <<pending, failures>>
host == <<pc, m_running, promise, timers>>
sessions == <<m_session, state, pool, handshakes>>
vars == <<host, connector, sessions, ioDone, crashed>>

Made == {s \in Sessions : state[s] # "none"}
Lost == {s \in Sessions : state[s] = "dropped"}
IsLive(s) == s \in Sessions /\ state[s] = "live"

Init ==
  /\ pc = "idle" /\ m_running = FALSE /\ promise = "none" /\ timers = FALSE
  /\ pending = 0 /\ failures = 0 /\ ioDone = FALSE
  /\ m_session = NoSession /\ state = [s \in Sessions |-> "none"] /\ pool = <<>>
  /\ handshakes = {} /\ crashed = "no"

-------------------------------------------------------------------------------
(***************************************************************************)
(* The connector resolves, connects and upgrades; an endpoint that is in   *)
(* m_pendingConns is not tried a second time.                              *)
(***************************************************************************)
Stages == 1..3

async_connect_service == pending' = IF pending = 0 THEN 1 ELSE pending

connect_step ==
  /\ pending \in Stages \ {3} /\ ~ioDone
  /\ pending' = pending + 1
  /\ UNCHANGED <<host, failures, sessions, ioDone, crashed>>

\* [mutant of connect_error] the attempt ends and stays in m_pendingConns
ConnectErrorKeeps ==
  /\ pending \in Stages /\ ~ioDone /\ failures < MaxFailures
  /\ pending' = 4 /\ failures' = failures + 1
  /\ promise' = IF promise = "none" THEN "error" ELSE promise
  /\ UNCHANGED <<pc, m_running, timers, sessions, ioDone, crashed>>

connect_error ==
  /\ pending \in Stages /\ ~ioDone /\ failures < MaxFailures
  /\ pending' = 0 /\ failures' = failures + 1
  /\ promise' = IF promise = "none" THEN "error" ELSE promise
  /\ UNCHANGED <<pc, m_running, timers, sessions, ioDone, crashed>>

\* new_session and, from its start, on_connect
add_session(s) == m_session' = s /\ state' = [state EXCEPT ![s] = "live"]

\* the callback of async_connect_service
connect_success ==
  /\ pending = 3 /\ ~ioDone /\ Cardinality(Made) < MaxSessions
  /\ pending' = 0
  /\ promise' = IF promise = "none" THEN "ok" ELSE promise
  /\ add_session(Cardinality(Made) + 1)
  /\ UNCHANGED <<pc, m_running, timers, failures, pool, handshakes, ioDone,
                 crashed>>

-------------------------------------------------------------------------------
(* The host's thread in start. *)

\* [mutant of start] the timers are set up before the first connection
StartTimersFirst ==
  /\ pc = "idle"
  /\ pc' = "connecting" /\ m_running' = TRUE /\ timers' = TRUE
  /\ async_connect_service
  /\ UNCHANGED <<promise, failures, sessions, ioDone, crashed>>

start ==
  /\ pc = "idle"
  /\ pc' = "connecting" /\ m_running' = TRUE
  /\ async_connect_service
  /\ UNCHANGED <<promise, timers, failures, sessions, ioDone, crashed>>

stop == m_running' = FALSE /\ pc' = "stopping"

connect_to_service ==
  /\ pc = "connecting"
  /\ \/ /\ promise = "ok"
        /\ pc' = "waiting" /\ timers' = TRUE
        /\ UNCHANGED m_running
     \/ promise = "error" /\ stop /\ UNCHANGED timers
     \/ promise = "none" /\ Slow /\ stop /\ UNCHANGED timers
  /\ UNCHANGED <<promise, connector, sessions, ioDone, crashed>>

wait_for_connectionEstablish ==
  /\ pc = "waiting"
  /\ \/ /\ handshakes # {}
        /\ pc' = "running" /\ UNCHANGED m_running
     \/ handshakes = {} /\ Slow /\ stop
  /\ UNCHANGED <<promise, timers, connector, sessions, ioDone, crashed>>

\* m_ioc->run returns when the io thread has nothing left to wait for
ioc_thread_end ==
  /\ ~m_running /\ pc = "stopping" /\ ~ioDone
  /\ ~timers /\ pending = 0 /\ \A s \in Sessions : ~IsLive(s)
  /\ ioDone' = TRUE
  /\ UNCHANGED <<host, connector, sessions, crashed>>

stop_ioc_thread ==
  /\ pc = "stopping" /\ ioDone
  /\ pc' = "failed"
  /\ UNCHANGED <<m_running, promise, timers, connector, sessions, ioDone, crashed>>

-------------------------------------------------------------------------------

(***************************************************************************)
(* The timer's handler does not look at its error code: cancelled or       *)
(* expired, it connects if there is no session and sets the timer again.   *)
(***************************************************************************)
reconnect ==
  /\ timers /\ m_session = NoSession
  /\ async_connect_service
  /\ UNCHANGED <<host, failures, sessions, ioDone, crashed>>

\* the session answers the handshake
handshake(s) ==
  /\ IsLive(s) /\ s \notin handshakes
  /\ handshakes' = handshakes \cup {s}
  /\ UNCHANGED <<host, connector, m_session, state, pool, ioDone, crashed>>

\* [mutant of drop] the session is taken away twice, as by two errors
DropTwice(s) ==
  /\ IsLive(s) /\ Cardinality(Lost) < MaxLosses
  /\ state' = [state EXCEPT ![s] = "dropped"]
  /\ pool' = pool \o <<s, s>>
  /\ UNCHANGED <<host, connector, m_session, handshakes, ioDone, crashed>>

drop(s) ==
  /\ IsLive(s) /\ Cardinality(Lost) < MaxLosses
  /\ state' = [state EXCEPT ![s] = "dropped"]
  /\ pool' = Append(pool, s)
  /\ UNCHANGED <<host, connector, m_session, handshakes, ioDone, crashed>>

remove_session ==
  /\ pool # <<>>
  /\ pool' = Tail(pool)
  /\ m_session' = NoSession
  /\ crashed' = IF m_session = NoSession THEN "null_session" ELSE crashed
  /\ UNCHANGED <<host, connector, state, handshakes, ioDone>>

-------------------------------------------------------------------------------
(***************************************************************************)
(* async_send_message tests m_session and uses it without the lock.        *)
(***************************************************************************)
send_test ==
  /\ Sends /\ pc = "running"
  /\ IF m_session = NoSession
     THEN crashed' = "null_message" /\ UNCHANGED pc
     ELSE pc' = "sending" /\ UNCHANGED crashed
  /\ UNCHANGED <<m_running, promise, timers, connector, sessions, ioDone>>

send_use ==
  /\ pc = "sending"
  /\ pc' = "running"
  /\ crashed' = IF m_session = NoSession THEN "null_session" ELSE crashed
  /\ UNCHANGED <<m_running, promise, timers, connector, sessions, ioDone>>

HostStep ==
  \/ start \/ connect_to_service \/ wait_for_connectionEstablish \/ stop_ioc_thread
  \/ send_test \/ send_use

Answers == \E s \in Sessions : handshake(s)

Next ==
  /\ crashed = "no"
  /\ \/ HostStep \/ connect_step \/ connect_error \/ connect_success
     \/ ioc_thread_end \/ reconnect \/ remove_session \/ Answers
     \/ \E s \in Sessions : drop(s)

Spec == Init /\ [][Next]_vars

(***************************************************************************)
(* The threads run, the timers expire, and attempts that do not fail come  *)
(* to an end.  Nothing makes the host send or a session fail.              *)
(***************************************************************************)
FairSpec ==
  /\ Spec
  /\ WF_vars(crashed = "no" /\ HostStep) /\ WF_vars(crashed = "no" /\ reconnect)
  /\ WF_vars(crashed = "no" /\ (connect_step \/ connect_success))
  /\ WF_vars(crashed = "no" /\ remove_session) /\ WF_vars(crashed = "no" /\ Answers)
  /\ WF_vars(crashed = "no" /\ ioc_thread_end)

-------------------------------------------------------------------------------
TypeOK ==
  /\ pc \in {"idle", "connecting", "waiting", "running", "sending", "stopping",
             "failed"}
  /\ {m_running, timers, ioDone} \subseteq BOOLEAN
  /\ promise \in {"none", "ok", "error"}
  /\ pending \in 0..3 /\ failures \in 0..MaxFailures
  /\ m_session \in Sessions \cup {NoSession}
  /\ state \in [Sessions -> {"none", "live", "dropped"}]
  /\ pool \in Seq(Sessions) /\ handshakes \subseteq Sessions
  /\ crashed \in {"no", "null_session", "null_message"}

(***************************************************************************)
(* There is never a second connection: a session that lives is m_session,  *)
(* and no attempt is under way while there is one (reconnect,              *)
(* m_pendingConns), whatever the order of the timer, the late callback of  *)
(* an attempt and the removal of the old session.                          *)
(***************************************************************************)
OneConnection ==
  \A s \in Sessions : IsLive(s) => m_session = s /\ pending = 0

(***************************************************************************)
(* remove_session takes away whatever m_session holds; it is always the    *)
(* session that was dropped, so a new one is never lost and the null       *)
(* pointer is never followed.                                              *)
(***************************************************************************)
RemovesItsOwn ==
  /\ Len(pool) <= 1
  /\ \A i \in 1..Len(pool) : pool[i] = m_session /\ m_session \in Lost

(***************************************************************************)
(* A lost session is followed by another one, as often as it is lost and   *)
(* however often connecting fails (reconnect), unless the host sends a     *)
(* request in between, which ends the process.                             *)
(***************************************************************************)
Reconnects ==
  timers /\ ~IsLive(m_session) ~> IsLive(m_session) \/ crashed # "no"

(***************************************************************************)
(* A connection that is refused at the start ends start with the error     *)
(* (connect_to_service): stop comes back.                                  *)
(***************************************************************************)
RefusalIsReported == pc = "connecting" /\ promise = "error" ~> pc = "failed"

-------------------------------------------------------------------------------
(* What the code says of itself and does not do.                           *)

(***************************************************************************)
(* client.cpp:63: a handshake that is not answered in time ends start with *)
(* "The websocket connection handshake timeout".                           *)
(***************************************************************************)
HandshakeTimeoutIsReported == pc = "stopping" /\ timers ~> pc = "failed"

(***************************************************************************)
(* service.cpp:254: a request that finds no session gets the error "there  *)
(* has no connection of the endpoint exist".                               *)
(***************************************************************************)
NoSessionIsReported == crashed # "null_session"
===============================================================================

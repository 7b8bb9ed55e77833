------------------------------ MODULE MCWsClient ------------------------------
(***************************************************************************)
(* The websocket client for TLC: WsService, which makes and replaces        *)
(* sessions, and WsSession, one session in detail.  They share no variable, *)
(* so each is explored while the other is in its initial state.             *)
(***************************************************************************)
EXTENDS WsService, WsSession

LastLarge == {MaxRequest}

all == <<vars, sessionVars>>

ServiceTurn == SessionInit /\ Next /\ UNCHANGED sessionVars
SessionTurn == Init /\ SessionNext /\ UNCHANGED vars

\* The fairness of either module, while it is its turn.
ServiceRuns(A) == SessionInit /\ crashed = "no" /\ A /\ UNCHANGED sessionVars
SessionRuns(A) == Init /\ ended = "no" /\ A /\ UNCHANGED vars

ClientInit == Init /\ SessionInit

ClientSpec ==
  /\ ClientInit /\ [][ServiceTurn \/ SessionTurn]_all
  /\ WF_all(ServiceRuns(HostStep)) /\ WF_all(ServiceRuns(reconnect))
  /\ WF_all(ServiceRuns(connect_step \/ connect_success)) /\ WF_all(ServiceRuns(remove_session))
  /\ WF_all(ServiceRuns(Answers)) /\ WF_all(ServiceRuns(ioc_thread_end))
  /\ WF_all(SessionRuns(send_register \/ send_post)) /\ WF_all(SessionRuns(IoStep))
  /\ WF_all(SessionRuns(NodeStep)) /\ WF_all(SessionRuns(run_task))
===============================================================================

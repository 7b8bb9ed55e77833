------------------------------ MODULE WsRequests ------------------------------
(***************************************************************************)
(* The requests of a websocket session and the ids of their messages:      *)
(* constants of WsSession.                                                 *)
(***************************************************************************)
EXTENDS Naturals

CONSTANTS
  MaxRequest,   \* bound: requests the host sends
  IdSpace,      \* number of message ids, 2^16 in the code
  Large,        \* requests longer than max_msg_size
  Closes,       \* whether the connection may be lost
  MaxTimeouts   \* bound: timers that expire

ASSUME RequestsAssumption ==
  /\ {MaxRequest, MaxTimeouts} \subseteq Nat /\ IdSpace \in Nat \ {0}
  /\ Closes \in BOOLEAN /\ Large \subseteq 1..MaxRequest

Requests == 0..MaxRequest
NoRequest == MaxRequest + 1

\* RpcMessageFactory.next_id counts in a uint16_t
Id(r) == r % IdSpace
Ids == 0..(IdSpace - 1)
===============================================================================

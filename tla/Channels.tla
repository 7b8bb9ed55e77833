------------------------------ MODULE Channels ------------------------------
(***************************************************************************)
(* A channel between two nodes: the key exchange, the messages under the   *)
(* keys it agrees on, and the exchange that replaces them after a number   *)
(* of messages.  The hosts carry the messages over TCP connections: each   *)
(* delivers in order, but a node may go over to another connection while   *)
(* the old one still has data, and what a connection holds is lost when it *)
(* closes.                                                                 *)
(***************************************************************************)
EXTENDS Integers, Sequences

CONSTANTS
  MessageLimit,  \* message_limit
  MaxShares,     \* bound on the key shares a node makes
  MaxData,       \* bound on the messages a node is given to send
  MaxCloses,     \* bound on calls of close_channel
  MaxFaults      \* bound on changes of connection and closed connections

VARIABLES
  ch,        \* the Channel object of each node: see Inactive
  net,       \* the connections each node has sent over, the current one last
  submitted, \* the number of messages each node was given to send
  received,  \* the messages each node has accepted
  closes, faults

channelVars == <<ch, net, submitted, received, closes, faults>>

\* NodeIds are compared: the first is the lower one.
Nodes == {1, 2}
Peer(n) == 3 - n
None == 0

\* A channel.  A key share, and the salt made with it, is named by its number
\* among those of its node; key is what recv_key and send_key are derived from.
Inactive(share) ==
  [status |-> "INACTIVE", own |-> share, peer |-> None, salt |-> <<>>, key |-> <<>>,
   made |-> share, send_nonce |-> 1, recv_nonce |-> 0, outgoing |-> None, waited |-> FALSE]

-----------------------------------------------------------------------------
(* Parts of the handlers: from a channel and what it has put out so far to  *)
(* the same after the part.                                                 *)

On(c, out) == [c |-> c, out |-> out]

\* KeyExchangeContext::reset.
NewShare(c) == [c EXCEPT !.own = c.made + 1, !.peer = None, !.made = c.made + 1]

reset(n, r) ==
  On([NewShare(r.c) EXCEPT !.status = "INACTIVE", !.key = <<>>, !.salt = <<>>], r.out)

\* The messages of the exchange: shares, and the shares a signature is over.
send_key_exchange_init(n, c) == [type |-> "init", share |-> c.own, salt |-> <<n, c.own>>]
send_key_exchange_response(c) ==
  [type |-> "response", share |-> c.own, signed |-> <<c.own, c.peer>>]
send_key_exchange_final(share) == [type |-> "final", signed |-> share]

initiate(n, r) ==
  LET c == [NewShare(r.c) EXCEPT !.status = "INITIATED", !.waited = FALSE]
  IN On([c EXCEPT !.salt = <<n, c.own>>],
        Append(r.out, send_key_exchange_init(n, c)))

advance_connection_attempt(n, r) ==
  IF r.c.status = "INACTIVE" \/ (r.c.status = "INITIATED" /\ r.c.waited) THEN initiate(n, r) ELSE r

send(n, r, m) ==
  IF r.c.status # "ESTABLISHED"
  THEN LET a == advance_connection_attempt(n, r) IN On([a.c EXCEPT !.outgoing = m], a.out)
  ELSE On([r.c EXCEPT !.send_nonce = @ + 1],
          Append(r.out, [type |-> "data", key |-> r.c.key, nonce |-> r.c.send_nonce, data |-> m]))

\* Both ends derive the keys from the two shares, that of the lower node first,
\* and the salt.
establish(n, r) ==
  LET shares == IF n = 1 THEN <<r.c.own, r.c.peer>> ELSE <<r.c.peer, r.c.own>>
      c == [r.c EXCEPT !.key = <<shares, r.c.salt>>, !.own = None, !.peer = None,
                       !.send_nonce = 1, !.recv_nonce = 0, !.status = "ESTABLISHED"]
  IN IF c.outgoing = None THEN On(c, r.out)
     ELSE send(n, On([c EXCEPT !.outgoing = None], r.out), c.outgoing)

-----------------------------------------------------------------------------
(* Received messages. *)

\* Mutant: a node that has initiated gives way to its peer, whichever it is.
GivesWay(n, r, m) ==
  LET c == [(IF r.c.status = "ESTABLISHED" THEN NewShare(r.c) ELSE r.c)
              EXCEPT !.salt = m.salt, !.peer = m.share, !.status = "WAITING_FOR_FINAL"]
  IN On(c, Append(r.out, send_key_exchange_response(c)))

\* Of two nodes that have both initiated, the one whose id is higher wins.
recv_key_exchange_init(n, r, m) ==
  IF r.c.status = "INITIATED" /\ n > Peer(n) THEN r
  ELSE LET c == [(IF r.c.status = "ESTABLISHED" THEN NewShare(r.c) ELSE r.c)
                   EXCEPT !.salt = m.salt, !.peer = m.share, !.status = "WAITING_FOR_FINAL"]
       IN On(c, Append(r.out, send_key_exchange_response(c)))

recv_key_exchange_response(n, r, m) ==
  IF r.c.status # "INITIATED" \/ m.signed # <<m.share, r.c.own>> THEN r
  ELSE establish(n, On([r.c EXCEPT !.peer = m.share],
                       Append(r.out, send_key_exchange_final(m.share))))

recv_key_exchange_final(n, r, m) ==
  IF r.c.status # "WAITING_FOR_FINAL" \/ m.signed # r.c.own THEN r ELSE establish(n, r)

\* Mutant: the nonce need not be later than the last one.
AcceptsAnyNonce(c, m) == c.status = "ESTABLISHED" /\ m.key = c.key

\* Whether decrypt accepts m, and what it leaves.
Accepts(c, m) == c.status = "ESTABLISHED" /\ m.nonce > c.recv_nonce /\ m.key = c.key

decrypt(n, r, m) ==
  LET c == IF Accepts(r.c, m) THEN [r.c EXCEPT !.recv_nonce = m.nonce] ELSE r.c
  IN IF m.nonce > r.c.recv_nonce /\ c.send_nonce + m.nonce >= MessageLimit
     THEN initiate(n, reset(n, On(c, r.out)))
     ELSE On(c, r.out)

recv_data(n, r, m) ==
  IF r.c.status # "ESTABLISHED" THEN advance_connection_attempt(n, r) ELSE decrypt(n, r, m)

recv_message(n, r, m) ==
  CASE m.type = "init" -> recv_key_exchange_init(n, r, m)
    [] m.type = "response" -> recv_key_exchange_response(n, r, m)
    [] m.type = "final" -> recv_key_exchange_final(n, r, m)
    [] m.type = "data" -> recv_data(n, r, m)

-----------------------------------------------------------------------------
(* Actions. *)

\* A connection that is no longer the current one is forgotten once it is empty;
\* a step empties or replaces at most one.
Trim(qs) ==
  LET idle == {i \in 1 .. Len(qs) - 1 : qs[i] = <<>>}
      k == CHOOSE i \in idle : TRUE
  IN IF idle = {} THEN qs ELSE SubSeq(qs, 1, k - 1) \o SubSeq(qs, k + 1, Len(qs))

\* node_outbound: the messages go to the node's current connection.
Put(qs, out) == [qs EXCEPT ![Len(qs)] = @ \o out]

Within(c) == c.made <= MaxShares

\* send_authenticated, send_encrypted: the node has a message for its peer.
Send(n) ==
  LET r == send(n, On(ch[n], <<>>), submitted[n] + 1)
  IN /\ submitted[n] < MaxData
     /\ Within(r.c)
     /\ submitted' = [submitted EXCEPT ![n] = @ + 1]
     /\ ch' = [ch EXCEPT ![n] = r.c]
     /\ net' = [net EXCEPT ![n] = Put(@, r.out)]
     /\ UNCHANGED <<received, closes, faults>>

\* node_inbound: the peer's message at the head of one of its connections.
Receive(n, i) ==
  /\ net[Peer(n)][i] # <<>>
  /\ LET m == Head(net[Peer(n)][i])
         r == recv_message(n, On(ch[n], <<>>), m)
         rest == [net[Peer(n)] EXCEPT ![i] = Tail(@)]
     IN /\ Within(r.c)
        /\ ch' = [ch EXCEPT ![n] = r.c]
        /\ net' = [net EXCEPT ![Peer(n)] = Trim(rest), ![n] = Put(@, r.out)]
        /\ received' = IF m.type = "data" /\ Accepts(ch[n], m)
                       THEN [received EXCEPT ![n] = Append(@, m.data)] ELSE received
  /\ UNCHANGED <<submitted, closes, faults>>

\* min_gap_between_initiation_attempts has passed since the node initiated.
Wait(n) ==
  /\ ch[n].status = "INITIATED" /\ ~ch[n].waited
  /\ ch' = [ch EXCEPT ![n].waited = TRUE]
  /\ UNCHANGED <<net, submitted, received, closes, faults>>

\* The host drops the connection: what it holds may still arrive.
close_channel(n) ==
  LET r == reset(n, On(ch[n], <<>>))
  IN /\ closes < MaxCloses
     /\ Within(r.c)
     /\ closes' = closes + 1
     /\ ch' = [ch EXCEPT ![n] = [r.c EXCEPT !.outgoing = None]]
     /\ net' = [net EXCEPT ![n] = Trim(Append(@, <<>>))]
     /\ UNCHANGED <<submitted, received, faults>>

\* associate_incoming: the node goes over to a newer connection.
Switch(n) ==
  /\ faults < MaxFaults
  /\ faults' = faults + 1
  /\ net[n][Len(net[n])] # <<>>
  /\ net' = [net EXCEPT ![n] = Trim(Append(@, <<>>))]
  /\ UNCHANGED <<ch, submitted, received, closes>>

\* remove_connection: what one of the node's connections holds is lost.
Lose(n, i) ==
  /\ faults < MaxFaults
  /\ faults' = faults + 1
  /\ net[n][i] # <<>>
  /\ net' = [net EXCEPT ![n] = Trim([@ EXCEPT ![i] = <<>>])]
  /\ UNCHANGED <<ch, submitted, received, closes>>

ChannelInit ==
  /\ ch = [n \in Nodes |-> Inactive(1)]
  /\ net = [n \in Nodes |-> <<<<>>>>]
  /\ submitted = [n \in Nodes |-> 0]
  /\ received = [n \in Nodes |-> <<>>]
  /\ closes = 0
  /\ faults = 0

ChannelNext ==
  \E n \in Nodes :
    \/ Send(n)
    \/ \E i \in DOMAIN net[Peer(n)] : Receive(n, i)
    \/ Wait(n)
    \/ close_channel(n)
    \/ Switch(n)
    \/ \E i \in DOMAIN net[n] : Lose(n, i)

ChannelSpec == ChannelInit /\ [][ChannelNext]_channelVars

-----------------------------------------------------------------------------
(* Properties. *)

\* A node accepts the messages it is sent in the order they were given to its
\* peer, and none twice, whatever connections they came over and however often
\* the keys were replaced ("they must be increasing", decrypt).
DeliveredInOrder ==
  \A n \in Nodes : \A i, j \in 1..Len(received[n]) : i < j => received[n][i] < received[n][j]

Quiet == \A n \in Nodes : net[n] = <<<<>>>>

SameKeys == /\ \A n \in Nodes : ch[n].status = "ESTABLISHED"
            /\ ch[1].key = ch[2].key

Retries(n) == ch[n].status \in {"INACTIVE", "INITIATED"}

\* With nothing in flight the two ends have the same keys, or one of them starts
\* a new exchange when it next has a message ("re-attempt connections in the
\* presence of dropped messages", advance_connection_attempt).
NeverStuck == Quiet => SameKeys \/ \E n \in Nodes : Retries(n)

\* The same, as long as no connection was replaced or lost and neither end closed
\* the channel (which a node does to one that was removed): exchanges started by
\* both ends, repeated ones, and ones that replace old keys while messages are
\* in flight all end well.
NotStuck == faults = 0 /\ closes = 0 => NeverStuck
=============================================================================

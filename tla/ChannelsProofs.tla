---------------------------- MODULE ChannelsProofs ----------------------------
(***************************************************************************)
(* A node accepts its peer's messages in the order they were submitted, for *)
(* every number of messages, exchanges, changes of connection and losses.   *)
(*                                                                          *)
(* DeliveredInOrder is not inductive: it does not say what a node may still *)
(* accept.  A message that can be accepted was sent under the node's keys   *)
(* with a later nonce, or under the share the node has now, which will be   *)
(* part of its next keys.  The inductive invariant says that all of these   *)
(* are later than what the node has accepted.  It rests on every exchange   *)
(* having a share of its own from either end: keys never come back.         *)
(***************************************************************************)
EXTENDS Channels, SequenceTheorems, TLAPS

-----------------------------------------------------------------------------
(* Types. *)

Salts == {<<>>} \cup (Nat \X Nat)
SharedKeys == (Nat \X Nat) \X Salts

InitMessages == [type : {"init"}, share : Nat, salt : Salts]
ResponseMessages == [type : {"response"}, share : Nat, signed : Nat \X Nat]
FinalMessages == [type : {"final"}, signed : Nat]
DataMessages == [type : {"data"}, key : SharedKeys, nonce : Nat, data : Nat]
ChannelMessages ==
  InitMessages \cup ResponseMessages \cup FinalMessages \cup DataMessages

Statuses == {"INACTIVE", "INITIATED", "WAITING_FOR_FINAL", "ESTABLISHED"}

ChannelStates ==
  [status : Statuses, own : Nat, peer : Nat, salt : Salts, key : {<<>>} \cup SharedKeys,
   made : Nat, send_nonce : Nat, recv_nonce : Nat, outgoing : Nat, waited : BOOLEAN]

\* What a sequence of connections holds.
Contents(qs) == UNION {{qs[i][j] : j \in 1 .. Len(qs[i])} : i \in 1 .. Len(qs)}

Elements(q) == {q[j] : j \in 1 .. Len(q)}

ChannelTypeOK ==
  /\ ch \in [Nodes -> ChannelStates]
  /\ net \in [Nodes -> Seq(Seq(ChannelMessages))]
  /\ \A n \in Nodes : net[n] # <<>>
  /\ submitted \in [Nodes -> Nat]
  /\ received \in [Nodes -> Seq(Nat)]

-----------------------------------------------------------------------------
(* The inductive invariant, of a node n with channel c and s messages given   *)
(* to it, which has the messages N in flight and has accepted those of R; its *)
(* peer has channel e, t messages given to it and M in flight.                *)

\* n's share in a key.
Part(n, key) == key[1][n]

\* Between exchanges a node has the share it made last; established, it has keys
\* made of one of its shares and one of its peer's, and nothing left to send.
Sound(n, c, e, s) ==
  /\ c.peer <= e.made
  /\ c.status # "ESTABLISHED" => c.own = c.made
  /\ c.status = "ESTABLISHED" =>
       /\ c.key \in SharedKeys /\ c.outgoing = None
       /\ Part(n, c.key) <= c.made /\ Part(Peer(n), c.key) <= e.made
  /\ c.outgoing # None => c.outgoing = s

\* What n has sent: shares it has made, and data under keys made of shares of
\* both, none of them under the keys that n is about to have.
SentSound(n, c, e, s, N) ==
  \A m \in N :
    /\ m.type \in {"init", "response"} => m.share <= c.made
    /\ m.type = "data" =>
         /\ Part(Peer(n), m.key) <= e.made
         /\ m.data <= s /\ (c.outgoing # None => m.data < s)
         /\ c.status = "ESTABLISHED" =>
              Part(n, m.key) <= c.made /\ (m.key = c.key => m.nonce < c.send_nonce)
         /\ c.status # "ESTABLISHED" => Part(n, m.key) < c.made

\* Under the same keys, nonces are in the order of the data.
NonceOrder(N) ==
  \A m, k \in N :
    m.type = "data" /\ k.type = "data" /\ m.key = k.key /\ m.nonce < k.nonce => m.data < k.data

\* A message that n accepts now, or may accept after its next exchange.
Fresh(n, c, m) ==
  IF c.status = "ESTABLISHED"
  THEN m.key = c.key /\ m.nonce > c.recv_nonce
  ELSE Part(n, m.key) = c.made

\* n has accepted nothing that is as late as a message it may still accept.
AcceptedEarlier(n, c, e, t, M, R) ==
  \A i \in 1 .. Len(R) :
    /\ R[i] <= t /\ (e.outgoing # None => R[i] < t)
    /\ \A m \in M : m.type = "data" /\ Fresh(n, c, m) => R[i] < m.data

Increasing(R) == \A i, j \in 1 .. Len(R) : i < j => R[i] < R[j]

HalfInv(n, c, e, s, t, N, M, R) ==
  /\ Sound(n, c, e, s)
  /\ SentSound(n, c, e, s, N)
  /\ NonceOrder(N)
  /\ AcceptedEarlier(n, c, e, t, M, R)
  /\ Increasing(R)

PairInv(n, c, e, s, t, N, M, R, Q) ==
  HalfInv(n, c, e, s, t, N, M, R) /\ HalfInv(Peer(n), e, c, t, s, M, N, Q)

ChannelInv ==
  /\ ChannelTypeOK
  /\ \A n \in Nodes :
       HalfInv(n, ch[n], ch[Peer(n)], submitted[n], submitted[Peer(n)],
               Contents(net[n]), Contents(net[Peer(n)]), received[n])

-----------------------------------------------------------------------------
(* Connections: what the operations on them leave in flight. *)

\* A message is in flight when one of the connections holds it.
LEMMA InContents ==
  ASSUME NEW qs, NEW m
  PROVE  m \in Contents(qs) <=> \E i \in 1 .. Len(qs) : m \in Elements(qs[i])
  BY Zenon DEF Contents, Elements

\* What a connection holds, by position.
LEMMA InElements ==
  ASSUME NEW q, NEW m
  PROVE  m \in Elements(q) <=> \E j \in 1 .. Len(q) : m = q[j]
  BY DEF Elements

\* Messages go to the last connection.
LEMMA PutContents ==
  ASSUME NEW M, NEW qs \in Seq(Seq(M)), qs # <<>>, NEW out \in Seq(M)
  PROVE  /\ Put(qs, out) \in Seq(Seq(M)) /\ Put(qs, out) # <<>>
         /\ Contents(Put(qs, out)) \subseteq Contents(qs) \cup Elements(out)
<1> DEFINE k == Len(qs)
           l == qs[k] \o out
           r == [qs EXCEPT ![k] = l]
<1>1. k \in Nat \ {0} /\ k \in 1 .. k /\ qs[k] \in Seq(M)
  BY EmptySeq, ElementOfSeq
<1>2. l \in Seq(M) /\ Elements(l) \subseteq Elements(qs[k]) \cup Elements(out)
  <2>1. /\ l \in Seq(M) /\ Len(l) = Len(qs[k]) + Len(out)
        /\ Len(qs[k]) \in Nat /\ Len(out) \in Nat
        /\ \A i \in 1 .. Len(qs[k]) + Len(out) :
             l[i] = IF i <= Len(qs[k]) THEN qs[k][i] ELSE out[i - Len(qs[k])]
    BY <1>1, ConcatProperties, LenProperties
  <2>2. ASSUME NEW j \in 1 .. Len(l)
        PROVE  l[j] \in Elements(qs[k]) \cup Elements(out)
    <3>1. CASE j <= Len(qs[k])
      BY <2>1, <3>1, InElements
    <3>2. CASE ~(j <= Len(qs[k]))
      <4>1. j - Len(qs[k]) \in 1 .. Len(out) /\ l[j] = out[j - Len(qs[k])]
        BY <2>1, <3>2
      <4> QED
        BY <4>1, InElements, Zenon
    <3> QED
      BY <3>1, <3>2, Zenon
  <2>3. ASSUME NEW m \in Elements(l)
        PROVE  m \in Elements(qs[k]) \cup Elements(out)
    <3>1. PICK j \in 1 .. Len(l) : m = l[j]
      BY InElements, Zenon
    <3> QED
      BY <2>2, <3>1, Zenon
  <2> QED
    BY <2>1, <2>3, Zenon
<1>3. Put(qs, out) = r
  BY DEF Put
<1> HIDE DEF l
<1>4. /\ r \in Seq(Seq(M)) /\ Len(r) = k
      /\ \A i \in 1 .. k : r[i] = IF i = k THEN l ELSE qs[i]
  BY <1>1, <1>2, ExceptSeq
<1> HIDE DEF r
<1>5. ASSUME NEW m \in Contents(r)
      PROVE  m \in Contents(qs) \cup Elements(out)
  <2>1. PICK i \in 1 .. k : m \in Elements(r[i])
    BY <1>4, InContents
  <2>2. CASE i = k
    BY <1>1, <1>2, <1>4, <2>1, <2>2, InContents, Zenon
  <2>3. CASE i # k
    <3>1. r[i] = qs[i]
      BY <1>4, <2>3, Zenon
    <3> QED
      BY <2>1, <3>1, InContents, Zenon
  <2> QED
    BY <2>2, <2>3
<1>6. r # <<>>
  BY <1>1, <1>4
<1> QED
  BY <1>3, <1>4, <1>5, <1>6, Zenon

\* A message or more may leave one of the connections.
LEMMA TakeContents ==
  ASSUME NEW M, NEW qs \in Seq(Seq(M)), NEW i \in 1 .. Len(qs), NEW q \in Seq(M),
         Elements(q) \subseteq Elements(qs[i])
  PROVE  /\ [qs EXCEPT ![i] = q] \in Seq(Seq(M))
         /\ qs # <<>> /\ [qs EXCEPT ![i] = q] # <<>>
         /\ Contents([qs EXCEPT ![i] = q]) \subseteq Contents(qs)
<1> DEFINE r == [qs EXCEPT ![i] = q]
<1>1. /\ r \in Seq(Seq(M)) /\ Len(r) = Len(qs)
      /\ \A j \in 1 .. Len(qs) : r[j] = IF j = i THEN q ELSE qs[j]
  BY ExceptSeq
<1>2. Len(qs) \in Nat \ {0} /\ Len(<<>>) = 0
  BY LenProperties
<1> HIDE DEF r
<1>3. ASSUME NEW j \in 1 .. Len(qs), NEW m \in Elements(r[j])
      PROVE  m \in Contents(qs)
  BY <1>1, InContents, Zenon
<1>4. Contents(r) \subseteq Contents(qs)
  BY <1>1, <1>3, InContents, Zenon
<1>5. qs # <<>> /\ r # <<>>
  BY <1>1, <1>2
<1> QED
  BY <1>1, <1>4, <1>5, Zenon DEF r

\* node_inbound takes the message at the head and leaves the others.
LEMMA TailElements ==
  ASSUME NEW M, NEW q \in Seq(M), q # <<>>
  PROVE  Tail(q) \in Seq(M) /\ Elements(Tail(q)) \subseteq Elements(q)
         /\ Head(q) \in M /\ Head(q) \in Elements(q)
<1>1. /\ Tail(q) \in Seq(M) /\ Head(q) \in M /\ Len(Tail(q)) = Len(q) - 1
      /\ \A i \in 1 .. Len(Tail(q)) : Tail(q)[i] = q[i + 1]
      /\ Len(q) \in Nat \ {0} /\ Head(q) = q[1]
  BY HeadTailProperties, LenProperties, EmptySeq
<1>2. ASSUME NEW m \in Elements(Tail(q))
      PROVE  m \in Elements(q)
  <2>1. PICK j \in 1 .. Len(Tail(q)) : m = Tail(q)[j]
    BY InElements, Zenon
  <2>2. j + 1 \in 1 .. Len(q) /\ m = q[j + 1]
    BY <1>1, <2>1
  <2> QED
    BY <2>2, InElements, Zenon
<1>3. Head(q) \in Elements(q)
  BY <1>1, InElements
<1> QED
  BY <1>1, <1>2, <1>3, Zenon

\* A new connection is empty.
LEMMA NewContents ==
  ASSUME NEW M, NEW qs \in Seq(Seq(M))
  PROVE  /\ Append(qs, <<>>) \in Seq(Seq(M)) /\ Append(qs, <<>>) # <<>>
         /\ Contents(Append(qs, <<>>)) \subseteq Contents(qs)
<1> DEFINE r == Append(qs, <<>>)
           k == Len(qs)
<1>1. <<>> \in Seq(M) /\ Elements(<<>>) = {} /\ k \in Nat
  BY EmptySeq, LenProperties, InElements
<1>2. /\ r \in Seq(Seq(M)) /\ Len(r) = k + 1
      /\ \A i \in 1 .. k : r[i] = qs[i]
      /\ r[k + 1] = <<>>
  BY <1>1, AppendProperties
<1> HIDE DEF r
<1>3. ASSUME NEW m \in Contents(r)
      PROVE  m \in Contents(qs)
  <2>1. PICK i \in 1 .. Len(r) : m \in Elements(r[i])
    BY InContents
  <2>2. i \in 1 .. k /\ r[i] = qs[i]
    <3>1. i # k + 1 /\ Len(r) = k + 1 /\ k \in Nat
      BY <1>1, <1>2, <2>1, Zenon
    <3>2. i \in 1 .. k
      <4> HIDE DEF k
      <4> QED BY <3>1
    <3> QED BY <1>2, <3>2, Zenon
  <2> QED
    BY <2>1, <2>2, InContents, Zenon
<1>4. r # <<>>
  BY <1>1, <1>2
<1> QED
  BY <1>2, <1>3, <1>4, Zenon DEF r

\* Forgetting an empty connection takes nothing away, and leaves the current one.
LEMMA TrimContents ==
  ASSUME NEW M, NEW qs \in Seq(Seq(M)), qs # <<>>
  PROVE  /\ Trim(qs) \in Seq(Seq(M)) /\ Trim(qs) # <<>>
         /\ Contents(Trim(qs)) \subseteq Contents(qs)
<1> DEFINE k == Len(qs)
           idle == {i \in 1 .. k - 1 : qs[i] = <<>>}
           x == CHOOSE i \in idle : TRUE
           f == SubSeq(qs, 1, x - 1)
           g == SubSeq(qs, x + 1, k)
           r == f \o g
<1>1. CASE idle = {}
  BY <1>1 DEF Trim
<1>2. CASE idle # {}
  <2>1. k \in Nat /\ x \in 1 .. k - 1 /\ \A i \in 1 .. k : qs[i] \in Seq(M)
    <3>1. x \in idle
      BY <1>2, Zenon
    <3> QED
      BY <3>1, LenProperties, ElementOfSeq, Zenon
  <2>2. Trim(qs) = r
    BY <1>2, Zenon DEF Trim
  <2> HIDE DEF x
  <2>3. /\ f \in Seq(Seq(M)) /\ Len(f) = x - 1
        /\ \A i \in 1 .. x - 1 : f[i] = qs[i]
    <3>1. \A i \in 1 .. x - 1 : qs[i] \in Seq(M)
      BY <2>1
    <3> QED
      BY <2>1, <3>1, SubSeqProperties
  <2>4. /\ g \in Seq(Seq(M)) /\ Len(g) = k - x
        /\ \A i \in 1 .. k - x : g[i] = qs[x + i]
    <3>1. \A i \in x + 1 .. k : qs[i] \in Seq(M)
      BY <2>1
    <3> HIDE DEF k
    <3>2. /\ g \in Seq(Seq(M)) /\ Len(g) = IF x + 1 <= k THEN k - (x + 1) + 1 ELSE 0
          /\ \A i \in 1 .. k - (x + 1) + 1 : g[i] = qs[(x + 1) + i - 1]
      BY <2>1, <3>1, SubSeqProperties
    <3> QED
      BY <2>1, <3>2
  <2> HIDE DEF f, g
  <2>5. /\ r \in Seq(Seq(M)) /\ Len(r) = k - 1
        /\ \A i \in 1 .. k - 1 : r[i] = IF i <= x - 1 THEN f[i] ELSE g[i - (x - 1)]
    <3>1. /\ r \in Seq(Seq(M)) /\ Len(r) = (x - 1) + (k - x)
          /\ \A i \in 1 .. (x - 1) + (k - x) : r[i] = IF i <= x - 1 THEN f[i] ELSE g[i - (x - 1)]
      <4>1. /\ r \in Seq(Seq(M)) /\ Len(r) = Len(f) + Len(g)
            /\ \A i \in 1 .. Len(f) + Len(g) : r[i] = IF i <= Len(f) THEN f[i] ELSE g[i - Len(f)]
        BY <2>3, <2>4, ConcatProperties, Zenon
      <4> QED
        BY <2>3, <2>4, <4>1, Zenon
    <3> HIDE DEF r, k
    <3>2. (x - 1) + (k - x) = k - 1
      BY <2>1
    <3> QED
      BY <3>1, <3>2, Zenon
  <2>6. \A i \in 1 .. k - 1 : \E j \in 1 .. k : r[i] = qs[j]
    <3> SUFFICES ASSUME NEW i \in 1 .. k - 1 PROVE \E j \in 1 .. k : r[i] = qs[j]
      BY Zenon
    <3>1. CASE i <= x - 1
      <4>1. i \in 1 .. x - 1 /\ i \in 1 .. k
        BY <2>1, <3>1
      <4>2. r[i] = qs[i]
        BY <2>3, <2>5, <3>1, <4>1, Zenon
      <4> QED
        BY <4>1, <4>2, Zenon
    <3>2. CASE ~(i <= x - 1)
      <4>1. i - (x - 1) \in 1 .. k - x /\ x + (i - (x - 1)) = i + 1
        BY <2>1, <3>2
      <4>2. r[i] = g[i - (x - 1)]
        BY <2>5, <3>2, Zenon
      <4>3. r[i] = qs[i + 1] /\ i + 1 \in 1 .. k
        <5>1. i + 1 \in 1 .. k
          BY <2>1
        <5> QED
          BY <2>4, <4>1, <4>2, <5>1, Zenon
      <4> QED
        BY <4>3
    <3> QED
      BY <3>1, <3>2, Zenon
  <2> HIDE DEF r
  <2>7. ASSUME NEW m \in Contents(r)
        PROVE  m \in Contents(qs)
    <3>1. PICK i \in 1 .. Len(r) : m \in Elements(r[i])
      BY InContents
    <3>2. PICK j \in 1 .. k : r[i] = qs[j]
      BY <2>5, <2>6, <3>1, Zenon
    <3> QED
      BY <3>1, <3>2, InContents, Zenon
  <2>8. r # <<>>
    BY <2>1, <2>5
  <2> QED
    BY <2>2, <2>5, <2>7, <2>8, Zenon
<1> QED
  BY <1>1, <1>2, Zenon

-----------------------------------------------------------------------------
(* What a step of n does to its channel c, with the messages it puts out. *)

\* Keys are made of Nat shares, whichever node is meant.
LEMMA PartType ==
  ASSUME NEW n \in Nodes, NEW key \in SharedKeys
  PROVE  Part(n, key) \in Nat /\ Part(Peer(n), key) \in Nat
<1>1. key[1] \in Nat \X Nat
  BY DEF SharedKeys
<1>2. key[1][1] \in Nat /\ key[1][2] \in Nat
  BY <1>1
<1> QED
  BY <1>2 DEF Part, Nodes, Peer

\* The type of a message says which fields it has.
LEMMA Kinds ==
  ASSUME NEW m \in ChannelMessages
  PROVE  /\ m.type = "init" => m \in InitMessages
         /\ m.type = "response" => m \in ResponseMessages
         /\ m.type = "final" => m \in FinalMessages
         /\ m.type = "data" => m \in DataMessages
         /\ m.type \in {"init", "response", "final", "data"}
  BY DEF ChannelMessages, InitMessages, ResponseMessages, FinalMessages, DataMessages

\* Two nodes are each other's peers.
LEMMA PeerOf ==
  ASSUME NEW n \in Nodes
  PROVE  Peer(n) \in Nodes /\ Peer(n) # n /\ Peer(Peer(n)) = n
  BY DEF Nodes, Peer

\* n has no keys, and a share that no message of its peer was sent under unless
\* it had it before.
Unkeys(c, e, s, d, u, new) ==
  /\ d.status # "ESTABLISHED" /\ d.own = d.made /\ d.peer <= e.made
  /\ d.made >= c.made /\ (c.status = "ESTABLISHED" => d.made > c.made)
  /\ u >= s
  /\ d.outgoing # None => d.outgoing = u /\ (c.outgoing # None \/ u > s)
  /\ \A m \in new : m.type # "data" /\ (m.type \in {"init", "response"} => m.share <= d.made)

\* n has new keys, made of the share it had, and sends what it had left to send.
Keys(n, c, e, d, new) ==
  /\ c.status # "ESTABLISHED" /\ d.status = "ESTABLISHED"
  /\ d.key \in SharedKeys /\ Part(n, d.key) = c.made /\ Part(Peer(n), d.key) <= e.made
  /\ d.made = c.made /\ d.peer = None /\ d.outgoing = None /\ d.recv_nonce = 0
  /\ \A m \in new :
       /\ m.type \in {"final", "data"}
       /\ m.type = "data" =>
            /\ m.key = d.key /\ m.nonce = 1 /\ d.send_nonce = 2
            /\ c.outgoing # None /\ m.data = c.outgoing

\* n sends the message it is given.
Sends(c, s, d, u, new) ==
  /\ c.status = "ESTABLISHED" /\ u = s + 1
  /\ d = [c EXCEPT !.send_nonce = c.send_nonce + 1]
  /\ \A m \in new : m.type = "data" /\ m.key = c.key /\ m.nonce = c.send_nonce /\ m.data = u

\* The messages in flight and those accepted, before the step.
Bounded(n, c, e, s, t, N, M, R, Q) ==
  /\ n \in Nodes /\ c \in ChannelStates /\ e \in ChannelStates /\ s \in Nat /\ t \in Nat
  /\ N \subseteq ChannelMessages /\ M \subseteq ChannelMessages
  /\ R \in Seq(Nat) /\ Q \in Seq(Nat)
  /\ PairInv(n, c, e, s, t, N, M, R, Q)

\* Messages given to a node are numbered.
LEMMA ElementsOfNat ==
  ASSUME NEW R \in Seq(Nat)
  PROVE  Len(R) \in Nat /\ \A i \in 1 .. Len(R) : R[i] \in Nat
  BY LenProperties, ElementOfSeq, Zenon

\* The fields of a Channel object have their types.
LEMMA ChannelFields ==
  ASSUME NEW c \in ChannelStates
  PROVE  /\ c.own \in Nat /\ c.peer \in Nat /\ c.made \in Nat /\ c.outgoing \in Nat
         /\ c.send_nonce \in Nat /\ c.recv_nonce \in Nat
         /\ c.key \in {<<>>} \cup SharedKeys /\ c.status \in Statuses
  BY DEF ChannelStates

\* An encrypted message has a key, a nonce and what it carries.
LEMMA DataFields ==
  ASSUME NEW m \in ChannelMessages, m.type = "data"
  PROVE  m.key \in SharedKeys /\ m.nonce \in Nat /\ m.data \in Nat
  BY Kinds DEF DataMessages

\* Messages may get lost.
LEMMA Fewer ==
  ASSUME NEW n, NEW c, NEW e, NEW s, NEW t, NEW N, NEW M, NEW R, NEW Q,
         PairInv(n, c, e, s, t, N, M, R, Q),
         NEW N1 \in SUBSET N, NEW M1 \in SUBSET M
  PROVE  PairInv(n, c, e, s, t, N1, M1, R, Q)
<1>1. HalfInv(n, c, e, s, t, N1, M1, R)
  BY Zenon DEF PairInv, HalfInv, SentSound, NonceOrder, AcceptedEarlier
<1>2. HalfInv(Peer(n), e, c, t, s, M1, N1, Q)
  BY Zenon DEF PairInv, HalfInv, SentSound, NonceOrder, AcceptedEarlier
<1> QED
  BY <1>1, <1>2, Zenon DEF PairInv

\* A handler that gives up the keys keeps both directions in order: nothing can be
\* accepted before the next exchange.
LEMMA UnkeysKeeps ==
  ASSUME NEW n, NEW c, NEW e, NEW s, NEW t, NEW N, NEW M, NEW R, NEW Q,
         Bounded(n, c, e, s, t, N, M, R, Q),
         NEW d \in ChannelStates, NEW u \in Nat, NEW new \in SUBSET ChannelMessages,
         Unkeys(c, e, s, d, u, new)
  PROVE  PairInv(n, d, e, u, t, N \cup new, M, R, Q)
<1>0. /\ n \in Nodes /\ Peer(n) \in Nodes /\ Peer(Peer(n)) = n
      /\ c \in ChannelStates /\ e \in ChannelStates /\ s \in Nat /\ t \in Nat
      /\ N \subseteq ChannelMessages /\ M \subseteq ChannelMessages
      /\ R \in Seq(Nat) /\ Q \in Seq(Nat)
  BY PeerOf, Zenon DEF Bounded
<1>1. /\ HalfInv(n, c, e, s, t, N, M, R)
      /\ HalfInv(Peer(n), e, c, t, s, M, N, Q)
  BY DEF Bounded, PairInv
<1>2. /\ c.made \in Nat /\ d.made \in Nat /\ e.made \in Nat
      /\ c.outgoing \in Nat /\ d.outgoing \in Nat
      /\ e.peer \in Nat
  BY <1>0, ChannelFields, Zenon
<1>3. \A m \in N \cup M : m.type = "data" =>
        /\ m.data \in Nat /\ m.nonce \in Nat
        /\ Part(n, m.key) \in Nat /\ Part(Peer(n), m.key) \in Nat
  BY <1>0, DataFields, PartType, Zenon
<1>4. Sound(n, d, e, u)
  BY <1>2, Zenon DEF Sound, Unkeys
<1>5. SentSound(n, d, e, u, N \cup new)
  <2> SUFFICES ASSUME NEW m \in N
               PROVE  /\ m.type \in {"init", "response"} => m.share <= d.made
                      /\ m.type = "data" =>
                           /\ Part(Peer(n), m.key) <= e.made
                           /\ m.data <= u /\ (d.outgoing # None => m.data < u)
                           /\ Part(n, m.key) < d.made
    BY Zenon DEF SentSound, Unkeys
  <2>1. CASE m.type \in {"init", "response"}
    <3>1. m.share <= c.made /\ m.share \in Nat
      BY <1>0, <1>1, <2>1, Kinds, Zenon DEF HalfInv, SentSound, InitMessages, ResponseMessages
    <3> QED
      BY <1>2, <2>1, <3>1 DEF Unkeys
  <2>2. CASE m.type = "data"
    <3>1. /\ Part(Peer(n), m.key) <= e.made
          /\ m.data <= s /\ (c.outgoing # None => m.data < s)
          /\ c.status = "ESTABLISHED" => Part(n, m.key) <= c.made
          /\ c.status # "ESTABLISHED" => Part(n, m.key) < c.made
      BY <1>1, <2>2, Zenon DEF HalfInv, SentSound
    <3>2. Part(n, m.key) \in Nat /\ m.data \in Nat /\ s \in Nat
      BY <1>0, <1>3, <2>2
    <3>3. Part(n, m.key) < d.made
      BY <1>2, <3>1, <3>2 DEF Unkeys
    <3>4. m.data <= u /\ (d.outgoing # None => m.data < u)
      BY <3>1, <3>2 DEF Unkeys
    <3> QED
      BY <2>2, <3>1, <3>3, <3>4, Zenon
  <2> QED
    BY <2>1, <2>2, Zenon
<1>6. NonceOrder(N \cup new)
  BY <1>1, Zenon DEF HalfInv, NonceOrder, Unkeys
<1>7. AcceptedEarlier(n, d, e, t, M, R)
  <2> SUFFICES ASSUME NEW i \in 1 .. Len(R), NEW m \in M, m.type = "data", Fresh(n, d, m)
               PROVE  R[i] < m.data
    BY <1>1, Zenon DEF HalfInv, AcceptedEarlier
  <2>1. Part(n, m.key) = d.made /\ Part(n, m.key) <= c.made
    BY <1>0, <1>1, Zenon DEF Fresh, Unkeys, HalfInv, SentSound
  <2>2. Fresh(n, c, m)
    BY <1>2, <2>1 DEF Fresh, Unkeys
  <2> QED
    BY <1>1, <2>2, Zenon DEF HalfInv, AcceptedEarlier
<1>8. Sound(Peer(n), e, d, t)
  <2>1. Sound(Peer(n), e, c, t) /\ d.made >= c.made
    BY <1>1, Zenon DEF HalfInv, Unkeys
  <2>2. e.peer <= d.made
    BY <1>2, <2>1 DEF Sound
  <2>3. CASE e.status = "ESTABLISHED"
    <3>1. e.key \in SharedKeys /\ Part(n, e.key) <= c.made
      BY <1>0, <2>1, <2>3, Zenon DEF Sound
    <3>2. Part(n, e.key) \in Nat
      BY <1>0, <3>1, PartType, Zenon
    <3>3. Part(n, e.key) <= d.made
      BY <1>2, <2>1, <3>1, <3>2
    <3> QED
      BY <1>0, <2>1, <2>2, <2>3, <3>3, Zenon DEF Sound
  <2>4. CASE e.status # "ESTABLISHED"
    BY <2>1, <2>2, <2>4, Zenon DEF Sound
  <2> QED
    BY <2>3, <2>4, Zenon
<1>9. SentSound(Peer(n), e, d, t, M)
  <2> SUFFICES ASSUME NEW m \in M, m.type = "data"
               PROVE  Part(n, m.key) <= d.made
    BY <1>0, <1>1, Zenon DEF HalfInv, SentSound
  <2>1. Part(n, m.key) <= c.made
    BY <1>0, <1>1, Zenon DEF HalfInv, SentSound
  <2> QED
    BY <1>2, <1>3, <2>1 DEF Unkeys
<1>10. AcceptedEarlier(Peer(n), e, d, u, N \cup new, Q)
  <2> SUFFICES ASSUME NEW i \in 1 .. Len(Q)
               PROVE  Q[i] <= u /\ (d.outgoing # None => Q[i] < u)
    BY <1>1, Zenon DEF HalfInv, AcceptedEarlier, Unkeys
  <2>1. Q[i] \in Nat /\ Q[i] <= s /\ (c.outgoing # None => Q[i] < s)
    BY <1>0, <1>1, ElementsOfNat, Zenon DEF HalfInv, AcceptedEarlier
  <2> QED
    <3>1. /\ s \in Nat /\ u >= s
          /\ d.outgoing # None => c.outgoing # None \/ u > s
      BY <1>0, Zenon DEF Unkeys
    <3> QED
      BY <2>1, <3>1
<1> QED
  BY <1>1, <1>4, <1>5, <1>6, <1>7, <1>8, <1>9, <1>10, Zenon DEF PairInv, HalfInv

\* establish keeps both directions in order: under the new keys no message of the
\* peer is in flight that is older than what the node accepted.
LEMMA KeysKeeps ==
  ASSUME NEW n, NEW c, NEW e, NEW s, NEW t, NEW N, NEW M, NEW R, NEW Q,
         Bounded(n, c, e, s, t, N, M, R, Q),
         NEW d \in ChannelStates, NEW new \in SUBSET ChannelMessages,
         Keys(n, c, e, d, new)
  PROVE  PairInv(n, d, e, s, t, N \cup new, M, R, Q)
<1>0. /\ n \in Nodes /\ Peer(n) \in Nodes /\ Peer(Peer(n)) = n
      /\ c \in ChannelStates /\ e \in ChannelStates /\ s \in Nat /\ t \in Nat
      /\ N \subseteq ChannelMessages /\ M \subseteq ChannelMessages
      /\ R \in Seq(Nat) /\ Q \in Seq(Nat)
  BY PeerOf, Zenon DEF Bounded
<1>1. /\ HalfInv(n, c, e, s, t, N, M, R)
      /\ HalfInv(Peer(n), e, c, t, s, M, N, Q)
  BY DEF Bounded, PairInv
<1>2. /\ c.made \in Nat /\ e.made \in Nat /\ d.made = c.made /\ d.outgoing = None
      /\ d.status = "ESTABLISHED" /\ c.status # "ESTABLISHED"
      /\ c.outgoing # None => c.outgoing = s
      /\ Part(n, d.key) = c.made
  BY <1>0, <1>1, ChannelFields, Zenon DEF Keys, HalfInv, Sound
<1>3. \A m \in N \cup M : m.type = "data" =>
        /\ m.data \in Nat /\ m.nonce \in Nat
        /\ Part(n, m.key) \in Nat /\ Part(Peer(n), m.key) \in Nat
  BY <1>0, DataFields, PartType, Zenon
<1>4. \A m \in N : m.type = "data" => Part(n, m.key) < c.made /\ m.key # d.key
  BY <1>1, <1>2, <1>3 DEF HalfInv, SentSound
<1>5. Sound(n, d, e, s)
  BY <1>2 DEF Sound, Keys, None
<1>6. SentSound(n, d, e, s, N \cup new)
  <2>1. ASSUME NEW m \in N
        PROVE  /\ m.type \in {"init", "response"} => m.share <= d.made
               /\ m.type = "data" =>
                    /\ Part(Peer(n), m.key) <= e.made /\ m.data <= s
                    /\ Part(n, m.key) <= d.made /\ m.key # d.key
    BY <1>1, <1>2, <1>3, <1>4 DEF HalfInv, SentSound
  <2>2. ASSUME NEW m \in new
        PROVE  /\ m.type \in {"final", "data"}
               /\ m.type = "data" =>
                    /\ Part(Peer(n), m.key) <= e.made /\ m.data <= s
                    /\ Part(n, m.key) <= d.made /\ m.nonce < d.send_nonce
    BY <1>0, <1>2 DEF Keys
  <2> QED
    BY <1>2, <2>1, <2>2, Zenon DEF SentSound
<1>7. NonceOrder(N \cup new)
  BY <1>1, <1>4 DEF HalfInv, NonceOrder, Keys
<1>8. AcceptedEarlier(n, d, e, t, M, R)
  <2> SUFFICES ASSUME NEW i \in 1 .. Len(R), NEW m \in M, m.type = "data", Fresh(n, d, m)
               PROVE  R[i] < m.data
    BY <1>1, Zenon DEF HalfInv, AcceptedEarlier
  <2>1. Fresh(n, c, m)
    BY <1>2, Zenon DEF Fresh
  <2> QED
    BY <1>1, <2>1, Zenon DEF HalfInv, AcceptedEarlier
<1>9. Sound(Peer(n), e, d, t)
  BY <1>1, <1>2, Zenon DEF HalfInv, Sound
<1>10. SentSound(Peer(n), e, d, t, M)
  BY <1>1, <1>2, Zenon DEF HalfInv, SentSound
<1>11. AcceptedEarlier(Peer(n), e, d, s, N \cup new, Q)
  <2> SUFFICES ASSUME NEW i \in 1 .. Len(Q), NEW m \in new, m.type = "data"
               PROVE  Q[i] < m.data
    BY <1>1, <1>2, Zenon DEF HalfInv, AcceptedEarlier
  <2>1. c.outgoing # None /\ m.data = s
    BY <1>2, Zenon DEF Keys
  <2> QED
    BY <1>1, <2>1, Zenon DEF HalfInv, AcceptedEarlier
<1> QED
  BY <1>1, <1>5, <1>6, <1>7, <1>8, <1>9, <1>10, <1>11, Zenon DEF PairInv, HalfInv

\* send under the current keys keeps both directions in order: its nonce and its
\* message are both the latest.
LEMMA SendsKeeps ==
  ASSUME NEW n, NEW c, NEW e, NEW s, NEW t, NEW N, NEW M, NEW R, NEW Q,
         Bounded(n, c, e, s, t, N, M, R, Q),
         NEW d, NEW u, NEW new \in SUBSET ChannelMessages,
         Sends(c, s, d, u, new)
  PROVE  PairInv(n, d, e, u, t, N \cup new, M, R, Q)
<1>0. /\ n \in Nodes /\ Peer(n) \in Nodes /\ Peer(Peer(n)) = n
      /\ c \in ChannelStates /\ e \in ChannelStates /\ s \in Nat /\ t \in Nat
      /\ N \subseteq ChannelMessages /\ M \subseteq ChannelMessages
      /\ R \in Seq(Nat) /\ Q \in Seq(Nat)
  BY PeerOf, Zenon DEF Bounded
<1>1. /\ HalfInv(n, c, e, s, t, N, M, R)
      /\ HalfInv(Peer(n), e, c, t, s, M, N, Q)
  BY DEF Bounded, PairInv
<1>2. /\ d.status = "ESTABLISHED" /\ c.status = "ESTABLISHED"
      /\ d.made = c.made /\ d.outgoing = c.outgoing /\ d.key = c.key
      /\ d.own = c.own /\ d.peer = c.peer
      /\ d.recv_nonce = c.recv_nonce /\ d.send_nonce = c.send_nonce + 1
      /\ u = s + 1 /\ c.send_nonce \in Nat
  BY <1>0, Zenon DEF Sends, ChannelStates
<1>3. /\ c.outgoing = None /\ Part(n, c.key) <= c.made /\ Part(Peer(n), c.key) <= e.made
      /\ c.key \in SharedKeys
  BY <1>1, <1>2, Zenon DEF HalfInv, Sound
<1>4. \A m \in N : m.type = "data" =>
        /\ m.data \in Nat /\ m.nonce \in Nat
        /\ m.data <= s /\ (m.key = c.key => m.nonce < c.send_nonce)
  BY <1>0, <1>1, <1>2, DataFields, Zenon DEF HalfInv, SentSound
<1>5. \A m \in new : m.type = "data" /\ m.key = c.key /\ m.nonce = c.send_nonce /\ m.data = s + 1
  BY DEF Sends
<1>6. Sound(n, d, e, u)
  BY <1>1, <1>2, <1>3, Zenon DEF HalfInv, Sound
<1>7. SentSound(n, d, e, u, N \cup new)
  <2>1. ASSUME NEW m \in N
        PROVE  /\ m.type \in {"init", "response"} => m.share <= d.made
               /\ m.type = "data" =>
                    /\ Part(Peer(n), m.key) <= e.made /\ m.data <= u
                    /\ Part(n, m.key) <= d.made
                    /\ m.key = d.key => m.nonce < d.send_nonce
    BY <1>0, <1>1, <1>2, <1>4 DEF HalfInv, SentSound
  <2>2. ASSUME NEW m \in new
        PROVE  /\ m.type = "data"
               /\ Part(Peer(n), m.key) <= e.made /\ m.data <= u
               /\ Part(n, m.key) <= d.made /\ m.nonce < d.send_nonce
    BY <1>0, <1>2, <1>3, <1>5
  <2> QED
    BY <1>2, <1>3, <2>1, <2>2 DEF SentSound
<1>8. NonceOrder(N \cup new)
  BY <1>0, <1>1, <1>2, <1>4, <1>5, SMTT(40) DEF HalfInv, NonceOrder
<1>9. AcceptedEarlier(n, d, e, t, M, R)
  BY <1>1, <1>2, Zenon DEF HalfInv, AcceptedEarlier, Fresh
<1>10. Sound(Peer(n), e, d, t)
  BY <1>1, <1>2, Zenon DEF HalfInv, Sound
<1>11. SentSound(Peer(n), e, d, t, M)
  BY <1>1, <1>2, Zenon DEF HalfInv, SentSound
<1>12. AcceptedEarlier(Peer(n), e, d, u, N \cup new, Q)
  <2> SUFFICES ASSUME NEW i \in 1 .. Len(Q)
               PROVE  Q[i] <= u /\ Q[i] < s + 1
    BY <1>1, <1>2, <1>3, <1>5, Zenon DEF HalfInv, AcceptedEarlier
  <2>1. Q[i] \in Nat /\ Q[i] <= s
    BY <1>0, <1>1, ElementsOfNat, Zenon DEF HalfInv, AcceptedEarlier
  <2> QED
    BY <1>0, <1>2, <2>1, SMTT(40)
<1> QED
  BY <1>1, <1>6, <1>7, <1>8, <1>9, <1>10, <1>11, <1>12, Zenon DEF PairInv, HalfInv

\* n accepts a message of its peer.
LEMMA AcceptKeeps ==
  ASSUME NEW n, NEW c, NEW e, NEW s, NEW t, NEW N, NEW M, NEW R, NEW Q,
         Bounded(n, c, e, s, t, N, M, R, Q),
         NEW m \in M, m.type = "data", Accepts(c, m)
  PROVE  Bounded(n, [c EXCEPT !.recv_nonce = m.nonce], e, s, t, N, M, Append(R, m.data), Q)
<1> DEFINE d == [c EXCEPT !.recv_nonce = m.nonce]
           S == Append(R, m.data)
<1>0. /\ n \in Nodes /\ Peer(n) \in Nodes /\ Peer(Peer(n)) = n
      /\ c \in ChannelStates /\ e \in ChannelStates /\ s \in Nat /\ t \in Nat
      /\ N \subseteq ChannelMessages /\ M \subseteq ChannelMessages
      /\ R \in Seq(Nat) /\ Q \in Seq(Nat)
  BY PeerOf, Zenon DEF Bounded
<1>1. /\ HalfInv(n, c, e, s, t, N, M, R)
      /\ HalfInv(Peer(n), e, c, t, s, M, N, Q)
  BY DEF Bounded, PairInv
<1>2. \A k \in M : k.type = "data" => k.data \in Nat /\ k.nonce \in Nat
  BY <1>0, DataFields, Zenon
<1>3. d \in ChannelStates
  BY <1>0, <1>2, Zenon DEF ChannelStates
<1>4. /\ d.status = "ESTABLISHED" /\ c.status = "ESTABLISHED"
      /\ d.made = c.made /\ d.outgoing = c.outgoing /\ d.key = c.key
      /\ d.own = c.own /\ d.peer = c.peer /\ c.recv_nonce \in Nat
      /\ d.recv_nonce = m.nonce /\ d.send_nonce = c.send_nonce
      /\ m.nonce > c.recv_nonce /\ m.key = c.key
  BY <1>0, Zenon DEF Accepts, ChannelStates
<1>5. /\ Len(R) \in Nat /\ Len(S) = Len(R) + 1 /\ S \in Seq(Nat)
      /\ \A i \in 1 .. Len(R) : S[i] = R[i] /\ R[i] \in Nat
      /\ S[Len(R) + 1] = m.data
  BY <1>0, <1>2, ElementsOfNat, AppendProperties
<1> HIDE DEF d, S
<1>6. \A i \in 1 .. Len(R) : R[i] < m.data
  BY <1>1, <1>4, Zenon DEF HalfInv, AcceptedEarlier, Fresh
<1>7. Increasing(S)
  <2> SUFFICES ASSUME NEW i \in 1 .. Len(S), NEW j \in 1 .. Len(S), i < j
               PROVE  S[i] < S[j]
    BY DEF Increasing
  <2>1. CASE j = Len(R) + 1
    BY <1>5, <1>6, <2>1
  <2>2. CASE j # Len(R) + 1
    <3>0. Len(R) \in Nat /\ i \in 1 .. Len(R) + 1 /\ j \in 1 .. Len(R) + 1
      BY <1>5, Zenon
    <3>1. i \in 1 .. Len(R) /\ j \in 1 .. Len(R)
      BY <2>2, <3>0
    <3> QED
      BY <1>1, <1>5, <3>1, Zenon DEF HalfInv, Increasing
  <2> QED
    BY <2>1, <2>2, Zenon
<1>8. AcceptedEarlier(n, d, e, t, M, S)
  <2> SUFFICES ASSUME NEW i \in 1 .. Len(S)
               PROVE  /\ S[i] <= t /\ (e.outgoing # None => S[i] < t)
                      /\ \A k \in M : k.type = "data" /\ Fresh(n, d, k) => S[i] < k.data
    BY Zenon DEF AcceptedEarlier
  <2>1. ASSUME NEW k \in M, k.type = "data", Fresh(n, d, k)
        PROVE  Fresh(n, c, k) /\ m.data < k.data
    <3>1. k.key = c.key /\ k.nonce > m.nonce /\ k.nonce \in Nat /\ m.nonce \in Nat
      BY <1>2, <1>4, <2>1, Zenon DEF Fresh
    <3> QED
      BY <1>1, <1>4, <2>1, <3>1 DEF Fresh, HalfInv, NonceOrder
  <2>2. CASE i = Len(R) + 1
    <3>1. m.data <= t /\ (e.outgoing # None => m.data < t)
      BY <1>1, Zenon DEF HalfInv, SentSound
    <3> QED
      BY <1>5, <2>1, <2>2, <3>1, Zenon
  <2>3. CASE i # Len(R) + 1
    <3>1. i \in 1 .. Len(R) /\ S[i] = R[i]
      BY <1>5, <2>3
    <3> QED
      BY <1>1, <2>1, <3>1, Zenon DEF HalfInv, AcceptedEarlier
  <2> QED
    BY <2>2, <2>3, Zenon
<1>9. Sound(n, d, e, s) /\ SentSound(n, d, e, s, N)
  BY <1>1, <1>4, Zenon DEF HalfInv, Sound, SentSound
<1>10. HalfInv(n, d, e, s, t, N, M, S)
  BY <1>1, <1>7, <1>8, <1>9, Zenon DEF HalfInv
<1>11. HalfInv(Peer(n), e, d, t, s, M, N, Q)
  BY <1>1, <1>4, Zenon DEF HalfInv, Sound, SentSound, AcceptedEarlier
<1> QED
  BY <1>0, <1>3, <1>5, <1>10, <1>11, Zenon DEF Bounded, PairInv, d, S

-----------------------------------------------------------------------------
(* The handlers: each leaves the channel as it was, or does one of these. *)

\* The messages put out so far, with those of a handler.
LEMMA AppendElements ==
  ASSUME NEW M, NEW q \in Seq(M), NEW m \in M
  PROVE  Append(q, m) \in Seq(M) /\ Elements(Append(q, m)) = Elements(q) \cup {m}
<1> DEFINE r == Append(q, m)
<1>1. /\ r \in Seq(M) /\ Len(r) = Len(q) + 1 /\ Len(q) \in Nat
      /\ \A i \in 1 .. Len(q) : r[i] = q[i]
      /\ r[Len(q) + 1] = m
  BY AppendProperties, LenProperties
<1> HIDE DEF r
<1>2. ASSUME NEW k \in Elements(r)
      PROVE  k \in Elements(q) \cup {m}
  <2>1. PICK j \in 1 .. Len(r) : k = r[j]
    BY InElements
  <2>2. CASE j = Len(q) + 1
    BY <1>1, <2>1, <2>2, Zenon
  <2>3. CASE j # Len(q) + 1
    <3>1. j \in 1 .. Len(q) /\ k = q[j]
      BY <1>1, <2>1, <2>3
    <3> QED
      BY <3>1, InElements, Zenon
  <2> QED
    BY <2>2, <2>3, Zenon
<1>3. ASSUME NEW k \in Elements(q)
      PROVE  k \in Elements(r)
  <2>1. PICK j \in 1 .. Len(q) : k = q[j]
    BY InElements
  <2>2. j \in 1 .. Len(r) /\ k = r[j]
    BY <1>1, <2>1
  <2> QED
    BY <2>2, InElements, Zenon
<1>4. m \in Elements(r)
  <2>1. Len(q) + 1 \in 1 .. Len(r)
    BY <1>1
  <2> QED
    BY <1>1, <2>1, InElements, Zenon
<1> QED
  BY <1>1, <1>2, <1>3, <1>4, Zenon DEF r

\* A handler that puts out nothing adds nothing to what is in flight.
LEMMA NoElements ==
  Elements(<<>>) = {} /\ <<>> \in Seq(ChannelMessages)
  BY EmptySeq, InElements

\* A handler that puts out one message adds just that one.
LEMMA OneElement ==
  ASSUME NEW m \in ChannelMessages
  PROVE  Append(<<>>, m) \in Seq(ChannelMessages) /\ Elements(Append(<<>>, m)) = {m}
<1> DEFINE r == Append(<<>>, m)
<1>1. r \in Seq(ChannelMessages) /\ Len(r) = 1 /\ r[1] = m
  OBVIOUS
<1> HIDE DEF r
<1>2. \A k : k \in Elements(r) <=> \E j \in 1 .. 1 : k = r[j]
  BY <1>1, InElements
<1>3. Elements(r) = {m}
  BY <1>1, <1>2
<1> QED
  BY <1>1, <1>3, Zenon DEF r

\* Setting outgoing_msg or send_nonce keeps the types and the shares.
LEMMA FieldUpdates ==
  ASSUME NEW c \in ChannelStates, NEW k \in Nat
  PROVE  /\ [c EXCEPT !.outgoing = k] \in ChannelStates
         /\ [c EXCEPT !.outgoing = k].outgoing = k
         /\ [c EXCEPT !.outgoing = k].status = c.status
         /\ [c EXCEPT !.outgoing = k].own = c.own
         /\ [c EXCEPT !.outgoing = k].made = c.made
         /\ [c EXCEPT !.outgoing = k].peer = c.peer
         /\ [c EXCEPT !.send_nonce = k] \in ChannelStates
  BY Zenon DEF ChannelStates

\* KeyExchangeContext::reset makes a share that was never used.
LEMMA ShareType ==
  ASSUME NEW c \in ChannelStates
  PROVE  /\ NewShare(c) \in ChannelStates /\ NewShare(c).own = c.made + 1
         /\ NewShare(c).made = c.made + 1 /\ NewShare(c).peer = None
         /\ NewShare(c).outgoing = c.outgoing
<1> DEFINE k == c.made + 1
<1>1. k \in Nat /\ None \in Nat
  BY ChannelFields DEF None
<1> HIDE DEF k
<1>2. NewShare(c) = [c EXCEPT !.own = k, !.peer = None, !.made = k]
  BY DEF NewShare, k
<1> QED
  BY <1>1, <1>2, Zenon DEF ChannelStates, k

\* A new exchange.
LEMMA InitiateUnkeys ==
  ASSUME NEW n \in Nodes, NEW c \in ChannelStates, NEW e \in ChannelStates, NEW s \in Nat,
         c.outgoing # None => c.outgoing = s
  PROVE  LET r == initiate(n, On(c, <<>>)) IN
         /\ r.c \in ChannelStates /\ r.out \in Seq(ChannelMessages)
         /\ r.c.made = c.made + 1 /\ r.c.status = "INITIATED"
         /\ Unkeys(c, e, s, r.c, s, Elements(r.out))
<1> DEFINE b == [NewShare(c) EXCEPT !.status = "INITIATED", !.waited = FALSE]
           d == [b EXCEPT !.salt = <<n, b.own>>]
           m == send_key_exchange_init(n, b)
           r == initiate(n, On(c, <<>>))
<1>1. NewShare(c) \in ChannelStates /\ NewShare(c).own = c.made + 1
      /\ NewShare(c).made = c.made + 1 /\ NewShare(c).peer = None
      /\ NewShare(c).outgoing = c.outgoing
  BY ShareType, Zenon
<1>2. /\ b \in ChannelStates /\ b.own = c.made + 1 /\ b.made = c.made + 1 /\ b.peer = None
      /\ b.status = "INITIATED" /\ b.outgoing = c.outgoing
  BY <1>1, Zenon DEF ChannelStates, Statuses
<1> HIDE DEF b
<1>3. n \in Nat
  BY DEF Nodes
<1>4. /\ d \in ChannelStates /\ d.own = c.made + 1 /\ d.made = c.made + 1 /\ d.peer = None
      /\ d.status = "INITIATED" /\ d.outgoing = c.outgoing
  BY <1>2, <1>3, ChannelFields, Zenon DEF ChannelStates, Salts
<1>5. m \in ChannelMessages /\ m.type = "init" /\ m.share = c.made + 1
  BY <1>2, <1>3, ChannelFields, Zenon
     DEF send_key_exchange_init, ChannelMessages, InitMessages, Salts
<1> HIDE DEF m, d
<1>6. r = [c |-> d, out |-> Append(<<>>, m)]
  BY DEF initiate, On, b, d, m
<1>7. r.c = d /\ r.out = Append(<<>>, m)
  BY <1>6
<1> HIDE DEF r
<1>8. r.out \in Seq(ChannelMessages) /\ Elements(r.out) = {m}
  BY <1>5, <1>7, OneElement, Zenon
<1>9. Unkeys(c, e, s, d, s, {m})
  BY <1>4, <1>5, ChannelFields DEF Unkeys, None
<1> QED
  BY <1>4, <1>7, <1>8, <1>9, Zenon DEF r

\* reset, and the exchange that decrypt starts after it.
LEMMA ResetUnkeys ==
  ASSUME NEW n \in Nodes, NEW c \in ChannelStates, NEW e \in ChannelStates, NEW s \in Nat,
         c.outgoing # None => c.outgoing = s
  PROVE  LET d == reset(n, On(c, <<>>)).c IN
         /\ reset(n, On(c, <<>>)) = On(d, <<>>)
         /\ d \in ChannelStates /\ d.made = c.made + 1 /\ d.own = d.made /\ d.peer = None
         /\ d.outgoing = c.outgoing /\ d.status = "INACTIVE"
<1> DEFINE d == [NewShare(c) EXCEPT !.status = "INACTIVE", !.key = <<>>, !.salt = <<>>]
<1>1. NewShare(c) \in ChannelStates /\ NewShare(c).own = c.made + 1
      /\ NewShare(c).made = c.made + 1 /\ NewShare(c).peer = None
      /\ NewShare(c).outgoing = c.outgoing
  BY ShareType, Zenon
<1>2. /\ d \in ChannelStates /\ d.own = c.made + 1 /\ d.made = c.made + 1 /\ d.peer = None
      /\ d.status = "INACTIVE" /\ d.outgoing = c.outgoing
  BY <1>1, Zenon DEF ChannelStates, Statuses, Salts
<1>3. reset(n, On(c, <<>>)) = [c |-> d, out |-> <<>>]
  BY DEF reset, On
<1> HIDE DEF d
<1> QED
  BY <1>2, <1>3 DEF On

\* advance_connection_attempt without keys starts an exchange or does nothing.
LEMMA AdvanceUnkeys ==
  ASSUME NEW n \in Nodes, NEW c \in ChannelStates, NEW e \in ChannelStates, NEW s \in Nat,
         Sound(n, c, e, s), c.status # "ESTABLISHED"
  PROVE  LET r == advance_connection_attempt(n, On(c, <<>>)) IN
         /\ r.c \in ChannelStates /\ r.out \in Seq(ChannelMessages)
         /\ Unkeys(c, e, s, r.c, s, Elements(r.out))
<1> DEFINE a == On(c, <<>>)
           r == advance_connection_attempt(n, a)
<1>1. a.c = c /\ a.out = <<>>
  BY DEF On
<1>2. CASE c.status = "INACTIVE" \/ (c.status = "INITIATED" /\ c.waited)
  <2>1. r = initiate(n, a)
    BY <1>1, <1>2, Zenon DEF advance_connection_attempt
  <2>2. c.outgoing # None => c.outgoing = s
    BY DEF Sound
  <2> QED
    BY <2>1, <2>2, InitiateUnkeys, Zenon
<1>3. CASE ~(c.status = "INACTIVE" \/ (c.status = "INITIATED" /\ c.waited))
  <2>1. r = a
    BY <1>1, <1>3, Zenon DEF advance_connection_attempt
  <2>2. Unkeys(c, e, s, c, s, {})
    BY ChannelFields DEF Sound, Unkeys
  <2> HIDE DEF r, a
  <2>3. r.c = c /\ r.out = <<>>
    BY <1>1, <2>1, Zenon
  <2> QED
    BY <2>2, <2>3, NoElements, Zenon DEF r, a
<1> QED
  BY <1>2, <1>3, Zenon

\* What n does with a message it is given to send.
LEMMA SendOutcome ==
  ASSUME NEW n \in Nodes, NEW c \in ChannelStates, NEW e \in ChannelStates, NEW s \in Nat,
         Sound(n, c, e, s)
  PROVE  LET r == send(n, On(c, <<>>), s + 1) IN
         /\ r.c \in ChannelStates /\ r.out \in Seq(ChannelMessages)
         /\ \/ Unkeys(c, e, s, r.c, s + 1, Elements(r.out))
            \/ Sends(c, s, r.c, s + 1, Elements(r.out))
<1> DEFINE b == On(c, <<>>)
           r == send(n, b, s + 1)
<1>1. b.c = c /\ b.out = <<>>
  BY DEF On
<1>2. CASE c.status # "ESTABLISHED"
  <2> DEFINE a == advance_connection_attempt(n, b)
             d == [a.c EXCEPT !.outgoing = s + 1]
  <2>1. /\ a.c \in ChannelStates /\ a.out \in Seq(ChannelMessages)
        /\ Unkeys(c, e, s, a.c, s, Elements(a.out))
    BY <1>2, AdvanceUnkeys, Zenon
  <2>2. r = [c |-> d, out |-> a.out]
    BY <1>1, <1>2, Zenon DEF send, On
  <2> HIDE DEF a, r, b
  <2>3. /\ d \in ChannelStates /\ d.outgoing = s + 1 /\ d.status = a.c.status
        /\ d.own = a.c.own /\ d.made = a.c.made /\ d.peer = a.c.peer
    <3> DEFINE k == s + 1
    <3>1. k \in Nat
      OBVIOUS
    <3> HIDE DEF k
    <3>2. d = [a.c EXCEPT !.outgoing = k]
      BY DEF k
    <3> HIDE DEF d
    <3>3. /\ d \in ChannelStates /\ d.outgoing = k /\ d.status = a.c.status
          /\ d.own = a.c.own /\ d.made = a.c.made /\ d.peer = a.c.peer
      BY <2>1, <3>1, <3>2, FieldUpdates, ZenonT(40)
    <3> QED
      BY <3>3, Zenon DEF k
  <2> HIDE DEF d
  <2>4. Unkeys(c, e, s, d, s + 1, Elements(a.out))
    BY <2>1, <2>3 DEF Unkeys
  <2>5. r.c = d /\ r.out = a.out
    BY <2>2, Zenon
  <2> QED
    BY <2>1, <2>3, <2>4, <2>5, Zenon DEF r, b
<1>3. CASE c.status = "ESTABLISHED"
  <2> DEFINE d == [c EXCEPT !.send_nonce = c.send_nonce + 1]
             m == [type |-> "data", key |-> c.key, nonce |-> c.send_nonce, data |-> s + 1]
  <2>1. r = [c |-> d, out |-> Append(<<>>, m)]
    BY <1>1, <1>3, Zenon DEF send, On
  <2>2. d \in ChannelStates
    <3> DEFINE k == c.send_nonce + 1
    <3>1. k \in Nat
      BY ChannelFields
    <3> HIDE DEF k
    <3>2. [c EXCEPT !.send_nonce = k] \in ChannelStates
      BY <3>1, FieldUpdates, Zenon
    <3> QED
      BY <3>2 DEF k
  <2>3. m \in ChannelMessages
    BY <1>3, ChannelFields DEF Sound, ChannelMessages, DataMessages
  <2>4. Sends(c, s, d, s + 1, {m})
    BY <1>3 DEF Sends
  <2> HIDE DEF m, d, r, b
  <2>5. r.c = d /\ r.out = Append(<<>>, m)
    BY <2>1, Zenon
  <2> QED
    BY <2>2, <2>3, <2>4, <2>5, OneElement, Zenon DEF r, b
<1> QED
  BY <1>2, <1>3, Zenon

\* The end of an exchange: share is the peer's, out holds no data.
LEMMA EstablishKeys ==
  ASSUME NEW n \in Nodes, NEW c \in ChannelStates, NEW e \in ChannelStates, NEW s \in Nat,
         Sound(n, c, e, s), c.status # "ESTABLISHED",
         NEW share \in Nat, share <= e.made,
         NEW out \in Seq(ChannelMessages), \A m \in Elements(out) : m.type = "final"
  PROVE  LET r == establish(n, On([c EXCEPT !.peer = share], out)) IN
         /\ r.c \in ChannelStates /\ r.out \in Seq(ChannelMessages)
         /\ Keys(n, c, e, r.c, Elements(r.out))
<1> DEFINE b == [c EXCEPT !.peer = share]
           shares == IF n = 1 THEN <<b.own, b.peer>> ELSE <<b.peer, b.own>>
           key == <<shares, b.salt>>
           x == [b EXCEPT !.key = key, !.own = None, !.peer = None,
                          !.send_nonce = 1, !.recv_nonce = 0, !.status = "ESTABLISHED"]
           r == establish(n, On(b, out))
<1>1. /\ b \in ChannelStates /\ b.peer = share /\ b.own = c.made /\ b.made = c.made
      /\ b.outgoing = c.outgoing /\ b.salt \in Salts
      /\ c.made \in Nat /\ c.outgoing \in Nat
  BY Zenon DEF ChannelStates, Sound
<1> HIDE DEF b
<1>2. shares \in Nat \X Nat /\ shares[n] = c.made /\ shares[Peer(n)] = share
  BY <1>1 DEF Nodes, Peer
<1> HIDE DEF shares
<1>3. key \in SharedKeys /\ Part(n, key) = c.made /\ Part(Peer(n), key) = share
  BY <1>1, <1>2, Zenon DEF SharedKeys, Part
<1> HIDE DEF key
<1>4. /\ x \in ChannelStates /\ x.key = key /\ x.peer = None /\ x.send_nonce = 1
      /\ x.recv_nonce = 0 /\ x.status = "ESTABLISHED"
      /\ x.made = c.made /\ x.outgoing = c.outgoing
  BY <1>1, <1>3, Zenon DEF ChannelStates, Statuses, None
<1>5. r = IF x.outgoing = None THEN On(x, out)
          ELSE send(n, On([x EXCEPT !.outgoing = None], out), x.outgoing)
  BY DEF establish, On, x, key, shares
<1> HIDE DEF x, r
<1>6. CASE c.outgoing = None
  <2>1. r.c = x /\ r.out = out
    BY <1>4, <1>5, <1>6, Zenon DEF On
  <2>2. Keys(n, c, e, x, Elements(out))
    BY <1>3, <1>4, <1>6, Zenon DEF Keys
  <2> QED
    BY <1>4, <2>1, <2>2, Zenon DEF r, b
<1>7. CASE c.outgoing # None
  <2> DEFINE y == [x EXCEPT !.outgoing = None]
             z == [y EXCEPT !.send_nonce = 2]
             m == [type |-> "data", key |-> key, nonce |-> 1, data |-> c.outgoing]
  <2>1. /\ y \in ChannelStates /\ y.outgoing = None /\ y.key = key /\ y.send_nonce = 1
        /\ y.peer = None /\ y.made = c.made /\ y.status = "ESTABLISHED" /\ y.recv_nonce = 0
    BY <1>4, Zenon DEF ChannelStates, None
  <2>2. r = send(n, On(y, out), c.outgoing)
    BY <1>4, <1>5, <1>7, Zenon
  <2> HIDE DEF y
  <2>3. /\ z \in ChannelStates /\ z.outgoing = None /\ z.key = key /\ z.send_nonce = 2
        /\ z.peer = None /\ z.made = c.made /\ z.status = "ESTABLISHED" /\ z.recv_nonce = 0
    BY <2>1, Zenon DEF ChannelStates
  <2>4. r = [c |-> [y EXCEPT !.send_nonce = y.send_nonce + 1], out |-> Append(out, m)]
    BY <2>1, <2>2, Zenon DEF send, On
  <2>5. r = [c |-> z, out |-> Append(out, m)]
    BY <2>1, <2>4
  <2>6. m \in ChannelMessages /\ m.type = "data" /\ m.key = key /\ m.nonce = 1 /\ m.data = c.outgoing
    BY <1>1, <1>3, Zenon DEF ChannelMessages, DataMessages
  <2> HIDE DEF z, m
  <2>7. r.c = z /\ r.out = Append(out, m)
    BY <2>5, Zenon
  <2>8. Append(out, m) \in Seq(ChannelMessages) /\ Elements(Append(out, m)) = Elements(out) \cup {m}
    BY <2>6, AppendElements
  <2>9. Keys(n, c, e, z, Elements(out) \cup {m})
    BY <1>3, <1>7, <2>3, <2>6 DEF Keys
  <2> QED
    BY <2>3, <2>7, <2>8, <2>9, Zenon DEF r, b
<1> QED
  BY <1>6, <1>7, Zenon

\* n leaves its channel as it was and puts out nothing, has no keys, or has new
\* ones.
Outcome(n, c, e, s, r) ==
  /\ r.c \in ChannelStates /\ r.out \in Seq(ChannelMessages)
  /\ \/ r.c = c /\ r.out = <<>>
     \/ Unkeys(c, e, s, r.c, s, Elements(r.out))
     \/ Keys(n, c, e, r.c, Elements(r.out))

\* A handler that returns early leaves things as they were.
LEMMA SameOutcome ==
  ASSUME NEW n, NEW c \in ChannelStates, NEW e, NEW s
  PROVE  Outcome(n, c, e, s, On(c, <<>>))
  BY NoElements, Zenon DEF Outcome, On

\* recv_key_exchange_init gives up the keys and answers, or returns early.
LEMMA InitOutcome ==
  ASSUME NEW n \in Nodes, NEW c \in ChannelStates, NEW e \in ChannelStates, NEW s \in Nat,
         Sound(n, c, e, s), NEW m \in InitMessages, m.share <= e.made
  PROVE  Outcome(n, c, e, s, recv_key_exchange_init(n, On(c, <<>>), m))
<1> DEFINE b == On(c, <<>>)
           r == recv_key_exchange_init(n, b, m)
           g == IF c.status = "ESTABLISHED" THEN NewShare(c) ELSE c
           d == [g EXCEPT !.salt = m.salt, !.peer = m.share, !.status = "WAITING_FOR_FINAL"]
           k == send_key_exchange_response(d)
<1>1. b.c = c /\ b.out = <<>>
  BY DEF On
<1>2. CASE c.status = "INITIATED" /\ n > Peer(n)
  <2>1. r = b
    BY <1>1, <1>2, Zenon DEF recv_key_exchange_init
  <2> QED
    BY <2>1, SameOutcome, Zenon
<1>3. CASE ~(c.status = "INITIATED" /\ n > Peer(n))
  <2>1. r = [c |-> d, out |-> Append(<<>>, k)]
    BY <1>1, <1>3, Zenon DEF recv_key_exchange_init, On
  <2>2. /\ g \in ChannelStates /\ g.own = g.made /\ g.outgoing = c.outgoing
        /\ g.made >= c.made /\ (c.status = "ESTABLISHED" => g.made > c.made)
    BY ShareType, ChannelFields DEF Sound
  <2>3. m.salt \in Salts /\ m.share \in Nat
    BY DEF InitMessages
  <2> HIDE DEF g
  <2>4. /\ d \in ChannelStates /\ d.own = g.own /\ d.made = g.made /\ d.peer = m.share
        /\ d.status = "WAITING_FOR_FINAL" /\ d.outgoing = g.outgoing
    BY <2>2, <2>3, Zenon DEF ChannelStates, Statuses
  <2> HIDE DEF d
  <2>5. k \in ChannelMessages /\ k.type = "response" /\ k.share = d.own
    BY <2>4, ChannelFields, Zenon DEF send_key_exchange_response, ChannelMessages, ResponseMessages
  <2> HIDE DEF k, r
  <2>6. Unkeys(c, e, s, d, s, {k})
    BY <2>2, <2>4, <2>5, ChannelFields DEF Unkeys, Sound
  <2>7. r.c = d /\ r.out = Append(<<>>, k)
    BY <2>1, Zenon
  <2> QED
    BY <2>4, <2>5, <2>6, <2>7, OneElement, Zenon DEF Outcome, r
<1> QED
  BY <1>2, <1>3, Zenon

\* recv_key_exchange_response establishes the keys, or returns early.
LEMMA ResponseOutcome ==
  ASSUME NEW n \in Nodes, NEW c \in ChannelStates, NEW e \in ChannelStates, NEW s \in Nat,
         Sound(n, c, e, s), NEW m \in ResponseMessages, m.share <= e.made
  PROVE  Outcome(n, c, e, s, recv_key_exchange_response(n, On(c, <<>>), m))
<1> DEFINE b == On(c, <<>>)
           r == recv_key_exchange_response(n, b, m)
           k == send_key_exchange_final(m.share)
<1>1. b.c = c /\ b.out = <<>>
  BY DEF On
<1>2. CASE c.status # "INITIATED" \/ m.signed # <<m.share, c.own>>
  <2>1. r = b
    BY <1>1, <1>2, Zenon DEF recv_key_exchange_response
  <2> QED
    BY <2>1, SameOutcome, Zenon
<1>3. CASE ~(c.status # "INITIATED" \/ m.signed # <<m.share, c.own>>)
  <2>1. r = establish(n, On([c EXCEPT !.peer = m.share], Append(<<>>, k)))
    BY <1>1, <1>3, Zenon DEF recv_key_exchange_response
  <2>2. k \in ChannelMessages /\ k.type = "final" /\ m.share \in Nat
    BY Zenon DEF send_key_exchange_final, ChannelMessages, FinalMessages, ResponseMessages
  <2> HIDE DEF k
  <2>3. Append(<<>>, k) \in Seq(ChannelMessages) /\ \A h \in Elements(Append(<<>>, k)) : h.type = "final"
    BY <2>2, OneElement, Zenon
  <2> HIDE DEF r
  <2>4. /\ r.c \in ChannelStates /\ r.out \in Seq(ChannelMessages)
        /\ Keys(n, c, e, r.c, Elements(r.out))
    BY <1>3, <2>1, <2>2, <2>3, EstablishKeys, Zenon
  <2> QED
    BY <2>4, Zenon DEF Outcome, r
<1> QED
  BY <1>2, <1>3, Zenon

\* recv_key_exchange_final establishes the keys, or returns early.
LEMMA FinalOutcome ==
  ASSUME NEW n \in Nodes, NEW c \in ChannelStates, NEW e \in ChannelStates, NEW s \in Nat,
         Sound(n, c, e, s), NEW m \in FinalMessages
  PROVE  Outcome(n, c, e, s, recv_key_exchange_final(n, On(c, <<>>), m))
<1> DEFINE b == On(c, <<>>)
           r == recv_key_exchange_final(n, b, m)
<1>1. b.c = c /\ b.out = <<>>
  BY DEF On
<1>2. CASE c.status # "WAITING_FOR_FINAL" \/ m.signed # c.own
  <2>1. r = b
    BY <1>1, <1>2, Zenon DEF recv_key_exchange_final
  <2> QED
    BY <2>1, SameOutcome, Zenon
<1>3. CASE ~(c.status # "WAITING_FOR_FINAL" \/ m.signed # c.own)
  <2>1. r = establish(n, b)
    BY <1>1, <1>3, Zenon DEF recv_key_exchange_final
  <2>2. c = [c EXCEPT !.peer = c.peer] /\ c.peer \in Nat /\ c.peer <= e.made
    BY Zenon DEF ChannelStates, Sound
  <2>3. r = establish(n, On([c EXCEPT !.peer = c.peer], <<>>))
    BY <2>1, <2>2, Zenon
  <2> HIDE DEF r
  <2>4. /\ r.c \in ChannelStates /\ r.out \in Seq(ChannelMessages)
        /\ Keys(n, c, e, r.c, Elements(r.out))
    BY <1>3, <2>2, <2>3, NoElements, EstablishKeys, Zenon
  <2> QED
    BY <2>4, Zenon DEF Outcome, r
<1> QED
  BY <1>2, <1>3, Zenon

\* The channel after decrypt has looked at m.
Opened(c, m) == IF Accepts(c, m) THEN [c EXCEPT !.recv_nonce = m.nonce] ELSE c

\* After the nonce is noted, decrypt and recv_data only start new exchanges.
LEMMA DataOutcome ==
  ASSUME NEW n \in Nodes, NEW c \in ChannelStates, NEW e \in ChannelStates, NEW s \in Nat,
         NEW m, Opened(c, m) \in ChannelStates, Sound(n, Opened(c, m), e, s)
  PROVE  Outcome(n, Opened(c, m), e, s, recv_data(n, On(c, <<>>), m))
<1> DEFINE b == On(c, <<>>)
           r == recv_data(n, b, m)
           x == Opened(c, m)
<1>1. b.c = c /\ b.out = <<>>
  BY DEF On
<1>2. CASE c.status # "ESTABLISHED"
  <2>1. x = c /\ r = advance_connection_attempt(n, b)
    BY <1>1, <1>2, Zenon DEF recv_data, Opened, Accepts
  <2> QED
    BY <1>2, <2>1, AdvanceUnkeys, Zenon DEF Outcome
<1>3. CASE c.status = "ESTABLISHED"
  <2>1. r = IF m.nonce > c.recv_nonce /\ x.send_nonce + m.nonce >= MessageLimit
            THEN initiate(n, reset(n, On(x, <<>>))) ELSE On(x, <<>>)
    BY <1>1, <1>3, Zenon DEF recv_data, decrypt, Opened
  <2> HIDE DEF r, x
  <2>2. CASE r = On(x, <<>>)
    BY <2>2, SameOutcome, Zenon DEF r, x
  <2>3. CASE r = initiate(n, reset(n, On(x, <<>>)))
    <3> DEFINE d == reset(n, On(x, <<>>)).c
    <3>1. x.outgoing # None => x.outgoing = s
      BY Zenon DEF Sound, x
    <3>2. /\ reset(n, On(x, <<>>)) = On(d, <<>>)
          /\ d \in ChannelStates /\ d.made = x.made + 1 /\ d.outgoing = x.outgoing
      BY <3>1, ResetUnkeys DEF x
    <3> HIDE DEF d
    <3>3. r = initiate(n, On(d, <<>>))
      BY <2>3, <3>2, Zenon
    <3>4. /\ r.c \in ChannelStates /\ r.out \in Seq(ChannelMessages)
          /\ r.c.made = d.made + 1
          /\ Unkeys(d, e, s, r.c, s, Elements(r.out))
      BY <3>1, <3>2, <3>3, InitiateUnkeys
    <3>5. x.made \in Nat
      BY ChannelFields, Zenon DEF x
    <3>6. Unkeys(x, e, s, r.c, s, Elements(r.out))
      BY <3>2, <3>4, <3>5 DEF Unkeys
    <3> QED
      BY <3>4, <3>6, Zenon DEF Outcome, r, x
  <2> QED
    BY <2>1, <2>2, <2>3, Zenon
<1> QED
  BY <1>2, <1>3, Zenon

\* Whatever a handler did, both directions are still in order.
LEMMA OutcomeKeeps ==
  ASSUME NEW n, NEW c, NEW e, NEW s, NEW t, NEW N, NEW M, NEW R, NEW Q,
         Bounded(n, c, e, s, t, N, M, R, Q),
         NEW r, Outcome(n, c, e, s, r)
  PROVE  PairInv(n, r.c, e, s, t, N \cup Elements(r.out), M, R, Q)
<1>1. CASE r.c = c /\ r.out = <<>>
  BY <1>1, NoElements, Zenon DEF Bounded
<1>2. Elements(r.out) \subseteq ChannelMessages /\ r.c \in ChannelStates /\ s \in Nat
  BY ElementOfSeq, InElements DEF Outcome, Bounded
<1>3. CASE Unkeys(c, e, s, r.c, s, Elements(r.out))
  BY <1>2, <1>3, UnkeysKeeps, Zenon
<1>4. CASE Keys(n, c, e, r.c, Elements(r.out))
  BY <1>2, <1>4, KeysKeeps, Zenon
<1> QED
  BY <1>1, <1>3, <1>4, Zenon DEF Outcome

\* A message of the peer.
LEMMA ReceivedKeeps ==
  ASSUME NEW n, NEW c, NEW e, NEW s, NEW t, NEW N, NEW M, NEW R, NEW Q,
         Bounded(n, c, e, s, t, N, M, R, Q), NEW m \in M
  PROVE  LET r == recv_message(n, On(c, <<>>), m) IN
         /\ r.c \in ChannelStates /\ r.out \in Seq(ChannelMessages)
         /\ PairInv(n, r.c, e, s, t, N \cup Elements(r.out), M,
                    IF m.type = "data" /\ Accepts(c, m) THEN Append(R, m.data) ELSE R, Q)
<1> DEFINE b == On(c, <<>>)
           r == recv_message(n, b, m)
<1>0. /\ n \in Nodes /\ c \in ChannelStates /\ e \in ChannelStates /\ s \in Nat
      /\ m \in ChannelMessages /\ Sound(n, c, e, s)
      /\ SentSound(Peer(n), e, c, t, M)
  BY Zenon DEF Bounded, PairInv, HalfInv
<1>1. CASE m.type = "init"
  <2>1. r = recv_key_exchange_init(n, b, m)
    BY <1>1, Zenon DEF recv_message
  <2>2. m \in InitMessages /\ m.share <= e.made
    BY <1>0, <1>1, Kinds, Zenon DEF SentSound
  <2>3. Outcome(n, c, e, s, r)
    BY <1>0, <2>1, <2>2, InitOutcome, Zenon
  <2> QED
    BY <1>1, <2>3, OutcomeKeeps, Zenon DEF Outcome
<1>2. CASE m.type = "response"
  <2>1. r = recv_key_exchange_response(n, b, m)
    BY <1>2, Zenon DEF recv_message
  <2>2. m \in ResponseMessages /\ m.share <= e.made
    BY <1>0, <1>2, Kinds, Zenon DEF SentSound
  <2>3. Outcome(n, c, e, s, r)
    BY <1>0, <2>1, <2>2, ResponseOutcome, Zenon
  <2> QED
    BY <1>2, <2>3, OutcomeKeeps, Zenon DEF Outcome
<1>3. CASE m.type = "final"
  <2>1. r = recv_key_exchange_final(n, b, m)
    BY <1>3, Zenon DEF recv_message
  <2>2. m \in FinalMessages
    BY <1>0, <1>3, Kinds, Zenon
  <2>3. Outcome(n, c, e, s, r)
    BY <1>0, <2>1, <2>2, FinalOutcome, Zenon
  <2> QED
    BY <1>3, <2>3, OutcomeKeeps, Zenon DEF Outcome
<1>4. CASE m.type = "data"
  <2> DEFINE x == Opened(c, m)
             S == IF m.type = "data" /\ Accepts(c, m) THEN Append(R, m.data) ELSE R
  <2>1. r = recv_data(n, b, m)
    BY <1>4, Zenon DEF recv_message
  <2>2. Bounded(n, x, e, s, t, N, M, S, Q)
    BY <1>4, AcceptKeeps, Zenon DEF Opened
  <2>3. x \in ChannelStates /\ Sound(n, x, e, s)
    BY <2>2, Zenon DEF Bounded, PairInv, HalfInv
  <2> HIDE DEF S
  <2>4. Outcome(n, x, e, s, r)
    BY <1>0, <2>1, <2>3, DataOutcome, Zenon
  <2> HIDE DEF x, r
  <2>5. PairInv(n, r.c, e, s, t, N \cup Elements(r.out), M, S, Q)
    BY <2>2, <2>4, OutcomeKeeps, Zenon
  <2> QED
    BY <2>4, <2>5, Zenon DEF Outcome, S, r
<1> QED
  BY <1>0, <1>1, <1>2, <1>3, <1>4, Kinds, Zenon

-----------------------------------------------------------------------------
(* Steps. *)

\* The invariant is about both nodes, whichever takes the step.
LEMMA InvIsPair ==
  ASSUME NEW n \in Nodes, ChannelInv
  PROVE  LET p == Peer(n) IN
         Bounded(n, ch[n], ch[p], submitted[n], submitted[p],
                 Contents(net[n]), Contents(net[p]), received[n], received[p])
<1>1. \A k \in Nodes : Contents(net[k]) \subseteq ChannelMessages
  <2> SUFFICES ASSUME NEW k \in Nodes, NEW m \in Contents(net[k])
               PROVE  m \in ChannelMessages
    OBVIOUS
  <2>1. net[k] \in Seq(Seq(ChannelMessages))
    BY Zenon DEF ChannelInv, ChannelTypeOK
  <2>2. PICK i \in 1 .. Len(net[k]) : m \in Elements(net[k][i])
    BY InContents, Zenon
  <2>3. net[k][i] \in Seq(ChannelMessages)
    BY <2>1, ElementOfSeq, Zenon
  <2>4. PICK j \in 1 .. Len(net[k][i]) : m = net[k][i][j]
    BY <2>2, InElements, Zenon
  <2> QED
    BY <2>3, <2>4, ElementOfSeq, Zenon
<1> QED
  BY <1>1, PeerOf, Zenon DEF ChannelInv, ChannelTypeOK, Bounded, PairInv

\* The invariant of the pair, seen from either node, is the invariant.
LEMMA PairIsInv ==
  ASSUME NEW n \in Nodes, ChannelTypeOK',
         PairInv(n, ch'[n], ch'[Peer(n)], submitted'[n], submitted'[Peer(n)],
                 Contents(net'[n]), Contents(net'[Peer(n)]), received'[n], received'[Peer(n)])
  PROVE  ChannelInv'
<1>1. \A k \in Nodes : k = n \/ k = Peer(n)
  BY DEF Nodes, Peer
<1> QED
  BY <1>1, PeerOf, Zenon DEF ChannelInv, PairInv

\* Channels without keys and connections without messages satisfy the invariant.
LEMMA InitChannelInv ==
  ASSUME ChannelInit
  PROVE  ChannelInv
<1>1. \A n \in Nodes : /\ ch[n] = Inactive(1) /\ net[n] = <<<<>>>>
                       /\ submitted[n] = 0 /\ received[n] = <<>>
  BY DEF ChannelInit
<1>2. Inactive(1) \in ChannelStates
  BY Zenon DEF Inactive, ChannelStates, Statuses, Salts, None
<1>3. <<<<>>>> \in Seq(Seq(ChannelMessages)) /\ <<<<>>>> # <<>> /\ Len(<<<<>>>>) = 1
      /\ <<<<>>>>[1] = <<>>
  BY NoElements
<1>4. Contents(<<<<>>>>) = {}
  <2> SUFFICES ASSUME NEW m \in Contents(<<<<>>>>) PROVE FALSE
    OBVIOUS
  <2>1. PICK i \in 1 .. Len(<<<<>>>>) : m \in Elements(<<<<>>>>[i])
    BY InContents, Zenon
  <2>2. i = 1
    BY <1>3, <2>1
  <2> QED
    BY <1>3, <2>1, <2>2, NoElements, Zenon
<1>5. ChannelTypeOK
  BY <1>2, <1>3 DEF ChannelInit, ChannelTypeOK
<1>6. ASSUME NEW n \in Nodes
      PROVE  HalfInv(n, Inactive(1), Inactive(1), 0, 0, {}, {}, <<>>)
  BY DEF HalfInv, Sound, SentSound, NonceOrder, AcceptedEarlier, Increasing, Inactive, None
<1> QED
  BY <1>1, <1>4, <1>5, <1>6, PeerOf, Zenon DEF ChannelInv

\* send keeps the invariant, whether the message goes out or waits for keys.
LEMMA SendStep ==
  ASSUME ChannelInv, NEW n \in Nodes, Send(n)
  PROVE  ChannelInv'
<1> DEFINE p == Peer(n)
           s == submitted[n]
           r == send(n, On(ch[n], <<>>), s + 1)
<1>0. p \in Nodes /\ p # n
  BY PeerOf, Zenon
<1>1. Bounded(n, ch[n], ch[p], s, submitted[p],
              Contents(net[n]), Contents(net[p]), received[n], received[p])
  BY InvIsPair, Zenon
<1>2. /\ r.c \in ChannelStates /\ r.out \in Seq(ChannelMessages)
      /\ \/ Unkeys(ch[n], ch[p], s, r.c, s + 1, Elements(r.out))
         \/ Sends(ch[n], s, r.c, s + 1, Elements(r.out))
  BY <1>1, SendOutcome, Zenon DEF Bounded, PairInv, HalfInv
<1>3. /\ submitted' = [submitted EXCEPT ![n] = s + 1] /\ ch' = [ch EXCEPT ![n] = r.c]
      /\ net' = [net EXCEPT ![n] = Put(net[n], r.out)] /\ received' = received
  BY Zenon DEF Send
<1> HIDE DEF r
<1>4. Elements(r.out) \subseteq ChannelMessages
  BY <1>2, ElementOfSeq, InElements
<1>5. PairInv(n, r.c, ch[p], s + 1, submitted[p], Contents(net[n]) \cup Elements(r.out),
              Contents(net[p]), received[n], received[p])
  <2>1. s + 1 \in Nat
    BY DEF ChannelInv, ChannelTypeOK
  <2> HIDE DEF s
  <2>2. CASE Unkeys(ch[n], ch[p], s, r.c, s + 1, Elements(r.out))
    <3> DEFINE u == s + 1
    <3> HIDE DEF u
    <3>1. Unkeys(ch[n], ch[p], s, r.c, u, Elements(r.out)) /\ u \in Nat
      BY <2>1, <2>2, Zenon DEF u
    <3>2. PairInv(n, r.c, ch[p], u, submitted[p], Contents(net[n]) \cup Elements(r.out),
                  Contents(net[p]), received[n], received[p])
      BY <1>1, <1>2, <1>4, <3>1, UnkeysKeeps, Zenon
    <3> QED
      BY <3>2, Zenon DEF u
  <2>3. CASE Sends(ch[n], s, r.c, s + 1, Elements(r.out))
    <3> DEFINE u == s + 1
    <3> HIDE DEF u
    <3>1. Sends(ch[n], s, r.c, u, Elements(r.out))
      BY <2>3, Zenon DEF u
    <3>2. PairInv(n, r.c, ch[p], u, submitted[p], Contents(net[n]) \cup Elements(r.out),
                  Contents(net[p]), received[n], received[p])
      BY <1>1, <1>4, <3>1, SendsKeeps, Zenon
    <3> QED
      BY <3>2, Zenon DEF u
  <2> QED
    BY <1>2, <2>2, <2>3, Zenon
<1>6. /\ Put(net[n], r.out) \in Seq(Seq(ChannelMessages)) /\ Put(net[n], r.out) # <<>>
      /\ Contents(Put(net[n], r.out)) \subseteq Contents(net[n]) \cup Elements(r.out)
  BY <1>2, PutContents, Zenon DEF ChannelInv, ChannelTypeOK
<1>7. ChannelTypeOK'
  <2>1. ch' \in [Nodes -> ChannelStates]
    BY <1>2, <1>3, Zenon DEF ChannelInv, ChannelTypeOK
  <2>2. net' \in [Nodes -> Seq(Seq(ChannelMessages))] /\ \A k \in Nodes : net'[k] # <<>>
    BY <1>3, <1>6, Zenon DEF ChannelInv, ChannelTypeOK
  <2>3. submitted' \in [Nodes -> Nat]
    BY <1>3 DEF ChannelInv, ChannelTypeOK
  <2> QED
    BY <1>3, <2>1, <2>2, <2>3, Zenon DEF ChannelInv, ChannelTypeOK
<1>8. PairInv(n, r.c, ch[p], s + 1, submitted[p], Contents(Put(net[n], r.out)),
              Contents(net[p]), received[n], received[p])
  BY <1>5, <1>6, Fewer, Zenon
<1>9. /\ ch'[n] = r.c /\ ch'[p] = ch[p] /\ submitted'[n] = s + 1 /\ submitted'[p] = submitted[p]
      /\ net'[n] = Put(net[n], r.out) /\ net'[p] = net[p]
  BY <1>0, <1>3, Zenon DEF ChannelInv, ChannelTypeOK
<1> QED
  BY <1>3, <1>7, <1>8, <1>9, PairIsInv, Zenon

\* recv_message keeps the invariant for each type of message.
LEMMA ReceiveStep ==
  ASSUME ChannelInv, NEW n \in Nodes, NEW i \in DOMAIN net[Peer(n)], Receive(n, i)
  PROVE  ChannelInv'
<1> DEFINE p == Peer(n)
           q == net[p][i]
           m == Head(q)
           r == recv_message(n, On(ch[n], <<>>), m)
           taken == [net[p] EXCEPT ![i] = Tail(q)]
           S == IF m.type = "data" /\ Accepts(ch[n], m) THEN Append(received[n], m.data)
                ELSE received[n]
<1>0. p \in Nodes /\ p # n
  BY PeerOf, Zenon
<1>1. Bounded(n, ch[n], ch[p], submitted[n], submitted[p],
              Contents(net[n]), Contents(net[p]), received[n], received[p])
  BY InvIsPair, Zenon
<1>2. /\ net[p] \in Seq(Seq(ChannelMessages)) /\ net[n] \in Seq(Seq(ChannelMessages))
      /\ net[n] # <<>> /\ i \in 1 .. Len(net[p]) /\ q \in Seq(ChannelMessages) /\ q # <<>>
  <2>1. net[p] \in Seq(Seq(ChannelMessages)) /\ net[n] \in Seq(Seq(ChannelMessages)) /\ net[n] # <<>>
    BY <1>0, Zenon DEF ChannelInv, ChannelTypeOK
  <2>2. i \in 1 .. Len(net[p])
    BY <2>1, LenProperties, Zenon
  <2> QED
    BY <2>1, <2>2, ElementOfSeq, Zenon DEF Receive
<1>3. Tail(q) \in Seq(ChannelMessages) /\ Elements(Tail(q)) \subseteq Elements(q) /\ m \in Elements(q)
  BY <1>2, TailElements, Zenon
<1>4. m \in Contents(net[p])
  BY <1>2, <1>3, InContents, Zenon
<1>5. /\ ch' = [ch EXCEPT ![n] = r.c] /\ submitted' = submitted
      /\ net' = [net EXCEPT ![p] = Trim(taken), ![n] = Put(net[n], r.out)]
      /\ received' = IF m.type = "data" /\ Accepts(ch[n], m)
                     THEN [received EXCEPT ![n] = Append(received[n], m.data)] ELSE received
  <2> DEFINE g == [net EXCEPT ![p] = Trim([net[p] EXCEPT ![i] = Tail(net[p][i])])]
  <2>1. g[n] = net[n]
    BY <1>0, Zenon DEF ChannelInv, ChannelTypeOK
  <2>2. net' = [g EXCEPT ![n] = Put(net[n], r.out)]
    BY <2>1, Zenon DEF Receive
  <2>3. /\ ch' = [ch EXCEPT ![n] = r.c] /\ submitted' = submitted
        /\ received' = IF m.type = "data" /\ Accepts(ch[n], m)
                       THEN [received EXCEPT ![n] = Append(received[n], m.data)] ELSE received
    BY Zenon DEF Receive
  <2> QED
    BY <2>2, <2>3, Zenon
<1>6. /\ r.c \in ChannelStates /\ r.out \in Seq(ChannelMessages)
      /\ PairInv(n, r.c, ch[p], submitted[n], submitted[p],
                 Contents(net[n]) \cup Elements(r.out), Contents(net[p]), S, received[p])
  BY <1>1, <1>4, ReceivedKeeps, Zenon
<1> HIDE DEF r
<1>7. taken \in Seq(Seq(ChannelMessages)) /\ taken # <<>> /\ Contents(taken) \subseteq Contents(net[p])
  BY <1>2, <1>3, TakeContents, Zenon
<1> HIDE DEF taken
<1>8. /\ Trim(taken) \in Seq(Seq(ChannelMessages)) /\ Trim(taken) # <<>>
      /\ Contents(Trim(taken)) \subseteq Contents(net[p])
  BY <1>7, TrimContents, Zenon
<1>9. /\ Put(net[n], r.out) \in Seq(Seq(ChannelMessages)) /\ Put(net[n], r.out) # <<>>
      /\ Contents(Put(net[n], r.out)) \subseteq Contents(net[n]) \cup Elements(r.out)
  BY <1>2, <1>6, PutContents, Zenon
<1>10. PairInv(n, r.c, ch[p], submitted[n], submitted[p], Contents(Put(net[n], r.out)),
               Contents(Trim(taken)), S, received[p])
  BY <1>6, <1>8, <1>9, Fewer, Zenon
<1>11. S \in Seq(Nat)
  <2>1. received[n] \in Seq(Nat) /\ m \in ChannelMessages
    BY <1>1, <1>4, Zenon DEF Bounded
  <2>2. m.type = "data" => m.data \in Nat
    BY <2>1, DataFields, Zenon
  <2> QED
    BY <2>1, <2>2, AppendProperties, Zenon
<1>12. received' \in [Nodes -> Seq(Nat)] /\ received'[n] = S /\ received'[p] = received[p]
  BY <1>0, <1>5, <1>11, Zenon DEF ChannelInv, ChannelTypeOK
<1>13. /\ net' \in [Nodes -> Seq(Seq(ChannelMessages))]
       /\ net'[n] = Put(net[n], r.out) /\ net'[p] = Trim(taken)
       /\ \A k \in Nodes : net'[k] # <<>>
  BY <1>0, <1>5, <1>8, <1>9, Zenon DEF ChannelInv, ChannelTypeOK
<1>14. ch' \in [Nodes -> ChannelStates] /\ ch'[n] = r.c /\ ch'[p] = ch[p]
  BY <1>0, <1>5, <1>6, Zenon DEF ChannelInv, ChannelTypeOK
<1>15. ChannelTypeOK'
  BY <1>5, <1>12, <1>13, <1>14, Zenon DEF ChannelInv, ChannelTypeOK
<1> HIDE DEF S
<1> QED
  BY <1>5, <1>10, <1>12, <1>13, <1>14, <1>15, PairIsInv, Zenon

\* The connections of n hold no more than they did.
LEMMA ConnectionStep ==
  ASSUME ChannelInv, NEW n \in Nodes, NEW qs \in Seq(Seq(ChannelMessages)), qs # <<>>,
         Contents(qs) \subseteq Contents(net[n]),
         net' = [net EXCEPT ![n] = Trim(qs)], UNCHANGED <<ch, submitted, received>>
  PROVE  ChannelInv'
<1> DEFINE p == Peer(n)
<1>0. p \in Nodes /\ p # n
  BY PeerOf, Zenon
<1>1. Bounded(n, ch[n], ch[p], submitted[n], submitted[p],
              Contents(net[n]), Contents(net[p]), received[n], received[p])
  BY InvIsPair, Zenon
<1>2. /\ Trim(qs) \in Seq(Seq(ChannelMessages)) /\ Trim(qs) # <<>>
      /\ Contents(Trim(qs)) \subseteq Contents(net[n])
  BY TrimContents, Zenon
<1>3. PairInv(n, ch[n], ch[p], submitted[n], submitted[p],
              Contents(Trim(qs)), Contents(net[p]), received[n], received[p])
  BY <1>1, <1>2, Fewer, Zenon DEF Bounded
<1>4. net'[n] = Trim(qs) /\ net'[p] = net[p]
  BY <1>0, Zenon DEF ChannelInv, ChannelTypeOK
<1>5. ChannelTypeOK'
  BY <1>2, Zenon DEF ChannelInv, ChannelTypeOK
<1> QED
  BY <1>3, <1>4, <1>5, PairIsInv, Zenon

\* Going over to another connection keeps the invariant: the old one still counts.
LEMMA SwitchStep ==
  ASSUME ChannelInv, NEW n \in Nodes, Switch(n)
  PROVE  ChannelInv'
<1>1. net[n] \in Seq(Seq(ChannelMessages))
  BY Zenon DEF ChannelInv, ChannelTypeOK
<1>2. /\ Append(net[n], <<>>) \in Seq(Seq(ChannelMessages)) /\ Append(net[n], <<>>) # <<>>
      /\ Contents(Append(net[n], <<>>)) \subseteq Contents(net[n])
  BY <1>1, NewContents, Zenon
<1>3. /\ net' = [net EXCEPT ![n] = Trim(Append(net[n], <<>>))]
      /\ UNCHANGED <<ch, submitted, received>>
  BY Zenon DEF Switch
<1> DEFINE qs == Append(net[n], <<>>)
<1> HIDE DEF qs
<1>4. /\ qs \in Seq(Seq(ChannelMessages)) /\ qs # <<>> /\ Contents(qs) \subseteq Contents(net[n])
      /\ net' = [net EXCEPT ![n] = Trim(qs)]
  BY <1>2, <1>3, Zenon DEF qs
<1> QED
  BY <1>3, <1>4, ConnectionStep, Zenon

\* A connection that closes only takes messages away.
LEMMA LoseStep ==
  ASSUME ChannelInv, NEW n \in Nodes, NEW i \in DOMAIN net[n], Lose(n, i)
  PROVE  ChannelInv'
<1> DEFINE qs == [net[n] EXCEPT ![i] = <<>>]
<1>1. net[n] \in Seq(Seq(ChannelMessages)) /\ i \in 1 .. Len(net[n])
  BY LenProperties, Zenon DEF ChannelInv, ChannelTypeOK
<1>2. /\ qs \in Seq(Seq(ChannelMessages)) /\ qs # <<>>
      /\ Contents(qs) \subseteq Contents(net[n])
  BY <1>1, NoElements, TakeContents, Zenon
<1>3. /\ net' = [net EXCEPT ![n] = Trim(qs)]
      /\ UNCHANGED <<ch, submitted, received>>
  BY Zenon DEF Lose
<1> HIDE DEF qs
<1> QED
  BY <1>2, <1>3, ConnectionStep, Zenon

\* n gives up its keys and puts out nothing.
LEMMA SilentStep ==
  ASSUME ChannelInv, NEW n \in Nodes, NEW d \in ChannelStates,
         Unkeys(ch[n], ch[Peer(n)], submitted[n], d, submitted[n], {}),
         NEW qs \in Seq(Seq(ChannelMessages)), qs # <<>>,
         Contents(qs) \subseteq Contents(net[n]),
         ch' = [ch EXCEPT ![n] = d], net' = [net EXCEPT ![n] = qs],
         UNCHANGED <<submitted, received>>
  PROVE  ChannelInv'
<1> DEFINE p == Peer(n)
<1>0. p \in Nodes /\ p # n /\ submitted[n] \in Nat
  BY PeerOf, Zenon DEF ChannelInv, ChannelTypeOK
<1>1. Bounded(n, ch[n], ch[p], submitted[n], submitted[p],
              Contents(net[n]), Contents(net[p]), received[n], received[p])
  BY InvIsPair, Zenon
<1>2. PairInv(n, d, ch[p], submitted[n], submitted[p],
              Contents(net[n]) \cup {}, Contents(net[p]), received[n], received[p])
  BY <1>0, <1>1, UnkeysKeeps, Zenon
<1>3. PairInv(n, d, ch[p], submitted[n], submitted[p],
              Contents(qs), Contents(net[p]), received[n], received[p])
  BY <1>2, Fewer, Zenon
<1>4. net'[n] = qs /\ net'[p] = net[p] /\ ch'[n] = d /\ ch'[p] = ch[p]
  BY <1>0, Zenon DEF ChannelInv, ChannelTypeOK
<1>5. ChannelTypeOK'
  BY Zenon DEF ChannelInv, ChannelTypeOK
<1> QED
  BY <1>3, <1>4, <1>5, PairIsInv, Zenon

\* The passing of min_gap_between_initiation_attempts touches no key.
LEMMA WaitStep ==
  ASSUME ChannelInv, NEW n \in Nodes, Wait(n)
  PROVE  ChannelInv'
<1> DEFINE c == ch[n]
           d == [ch[n] EXCEPT !.waited = TRUE]
<1>1. /\ c \in ChannelStates /\ Sound(n, c, ch[Peer(n)], submitted[n])
      /\ c.status = "INITIATED" /\ submitted[n] \in Nat
      /\ net[n] \in Seq(Seq(ChannelMessages)) /\ net[n] # <<>>
      /\ ch \in [Nodes -> ChannelStates] /\ net \in [Nodes -> Seq(Seq(ChannelMessages))]
  BY Zenon DEF ChannelInv, ChannelTypeOK, HalfInv, Wait
<1>2. /\ d \in ChannelStates /\ d.status = c.status /\ d.own = c.own /\ d.made = c.made
      /\ d.peer = c.peer /\ d.outgoing = c.outgoing
  BY <1>1, Zenon DEF ChannelStates
<1>3. /\ ch' = [ch EXCEPT ![n] = d] /\ net' = [net EXCEPT ![n] = net[n]]
      /\ UNCHANGED <<submitted, received>>
  BY <1>1, Zenon DEF Wait
<1> HIDE DEF d
<1>4. Unkeys(c, ch[Peer(n)], submitted[n], d, submitted[n], {})
  BY <1>1, <1>2, ChannelFields DEF Unkeys, Sound
<1> QED
  BY <1>1, <1>2, <1>3, <1>4, SilentStep, Zenon

\* close_channel keeps the invariant: the node's next share is a new one.
LEMMA CloseStep ==
  ASSUME ChannelInv, NEW n \in Nodes, close_channel(n)
  PROVE  ChannelInv'
<1> DEFINE c == ch[n]
           b == reset(n, On(ch[n], <<>>)).c
           d == [b EXCEPT !.outgoing = None]
           qs == Trim(Append(net[n], <<>>))
<1>1. /\ c \in ChannelStates /\ ch[Peer(n)] \in ChannelStates
      /\ Sound(n, c, ch[Peer(n)], submitted[n])
      /\ submitted[n] \in Nat /\ net[n] \in Seq(Seq(ChannelMessages))
  BY PeerOf, Zenon DEF ChannelInv, ChannelTypeOK, HalfInv
<1>2. /\ b \in ChannelStates /\ b.made = c.made + 1 /\ b.own = b.made /\ b.peer = None
      /\ b.status = "INACTIVE"
  BY <1>1, ResetUnkeys, Zenon DEF Sound
<1>3. /\ ch' = [ch EXCEPT ![n] = d] /\ net' = [net EXCEPT ![n] = qs]
      /\ UNCHANGED <<submitted, received>>
  BY Zenon DEF close_channel
<1> HIDE DEF b
<1>4. /\ d \in ChannelStates /\ d.status = b.status /\ d.own = b.own /\ d.made = b.made
      /\ d.peer = b.peer /\ d.outgoing = None
  BY <1>2, Zenon DEF ChannelStates, None
<1> HIDE DEF d
<1>5. Unkeys(c, ch[Peer(n)], submitted[n], d, submitted[n], {})
  BY <1>1, <1>2, <1>4, ChannelFields DEF Unkeys, None
<1>6. qs \in Seq(Seq(ChannelMessages)) /\ qs # <<>> /\ Contents(qs) \subseteq Contents(net[n])
  <2> DEFINE q == Append(net[n], <<>>)
  <2>1. q \in Seq(Seq(ChannelMessages)) /\ q # <<>> /\ Contents(q) \subseteq Contents(net[n])
    BY <1>1, NewContents, Zenon
  <2> HIDE DEF q
  <2>2. /\ Trim(q) \in Seq(Seq(ChannelMessages)) /\ Trim(q) # <<>>
        /\ Contents(Trim(q)) \subseteq Contents(net[n])
    BY <2>1, TrimContents, Zenon
  <2> QED
    BY <2>2, Zenon DEF q
<1> HIDE DEF qs
<1> QED
  BY <1>3, <1>4, <1>5, <1>6, SilentStep, Zenon

-----------------------------------------------------------------------------
(* Theorems. *)

\* The invariant holds: what a node may still accept is later than what it has
\* accepted, through every exchange of keys, change of connection and loss.
THEOREM ChannelInvariant == ChannelSpec => []ChannelInv
<1>1. ChannelInit => ChannelInv
  BY InitChannelInv, Zenon
<1>2. ChannelInv /\ [ChannelNext]_channelVars => ChannelInv'
  <2> SUFFICES ASSUME ChannelInv, [ChannelNext]_channelVars PROVE ChannelInv'
    OBVIOUS
  <2>1. CASE UNCHANGED channelVars
    BY <2>1, Zenon DEF channelVars, ChannelInv, ChannelTypeOK
  <2>2. CASE ChannelNext
    <3>1. PICK n \in Nodes :
            \/ Send(n) \/ Wait(n) \/ close_channel(n) \/ Switch(n)
            \/ \E i \in DOMAIN net[Peer(n)] : Receive(n, i)
            \/ \E i \in DOMAIN net[n] : Lose(n, i)
      BY <2>2, Zenon DEF ChannelNext
    <3> QED
      BY <3>1, SendStep, ReceiveStep, WaitStep, CloseStep, SwitchStep, LoseStep, Zenon
  <2> QED
    BY <2>1, <2>2, Zenon
<1> QED
  BY <1>1, <1>2, PTL DEF ChannelSpec

\* Messages are accepted in the order they were given to the peer and none
\* twice, for every message_limit and every number of exchanges and faults.
THEOREM InOrder == ChannelSpec => []DeliveredInOrder
<1>1. ChannelInv => DeliveredInOrder
  BY Zenon DEF ChannelInv, HalfInv, Increasing, DeliveredInOrder
<1> QED
  BY <1>1, ChannelInvariant, PTL
===============================================================================

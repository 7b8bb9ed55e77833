------------------------------ MODULE MCMessages ------------------------------
(***************************************************************************)
(* The two ways of messages for TLC: RingBuffer, between the host and the  *)
(* enclave of a node, and Channels, between two nodes.  Each is explored   *)
(* while the other is in its initial state.                                *)
(***************************************************************************)
EXTENDS RingBuffer, Channels

CONSTANTS w1, w2

\* Two writers; the second also gives messages up when there is no room.
TwoWriters == {w1, w2}
Waiting(n) == [size |-> n, wait |-> TRUE, more |-> FALSE]
Try(n) == [size |-> n, wait |-> FALSE, more |-> FALSE]
Fragment(n) == [size |-> n, wait |-> TRUE, more |-> TRUE]
MixedJobs ==
  w1 :> <<Fragment(2), Fragment(2), Waiting(1)>> @@ w2 :> <<Waiting(4), Waiting(5), Try(3)>>

BufferStep == ChannelInit /\ Next /\ UNCHANGED channelVars
ChannelStep == Init /\ ChannelNext /\ UNCHANGED vars
ReadStep == ChannelInit /\ Read /\ UNCHANGED channelVars
WriteStep(w) == ChannelInit /\ Write(w) /\ UNCHANGED channelVars

allVars == <<vars, channelVars>>

MessagesInit == Init /\ ChannelInit

MessagesSpec ==
  /\ MessagesInit
  /\ [][BufferStep \/ ChannelStep]_allVars
  /\ WF_allVars(ReadStep)
  /\ \A w \in TwoWriters : WF_allVars(WriteStep(w))

\* While the channels rest, every entry whose writer waits for room is handled
\* (WaitersGetThrough of RingBuffer).
WaitersServed == []ChannelInit => WaitersGetThrough
===============================================================================

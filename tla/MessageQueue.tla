---------------------------- MODULE MessageQueue ----------------------------
(***************************************************************************)
(* What the ring buffer between the host and the enclave promises: several *)
(* producers take places in one queue, each publishes its message when it  *)
(* is written, and the single consumer handles the published messages in   *)
(* the order in which their places were taken.                             *)
(***************************************************************************)
EXTENDS Naturals, Sequences, SequencesExt

CONSTANT Messages

VARIABLES
  queue,     \* places taken and not handled: [m, ready], oldest first
  handled    \* messages given to the consumer's handler, in order

vars == <<queue, handled>>

Queued == {queue[i].m : i \in DOMAIN queue}

Init ==
  /\ queue = <<>>
  /\ handled = <<>>

Reserve(m) ==
  /\ m \notin Queued \cup Range(handled)
  /\ queue' = Append(queue, [m |-> m, ready |-> FALSE])
  /\ UNCHANGED handled

Publish(m) ==
  \E i \in DOMAIN queue :
    /\ queue[i] = [m |-> m, ready |-> FALSE]
    /\ queue' = [queue EXCEPT ![i].ready = TRUE]
    /\ UNCHANGED handled

Handle ==
  /\ queue # <<>>
  /\ Head(queue).ready
  /\ handled' = Append(handled, Head(queue).m)
  /\ queue' = Tail(queue)

Next == Handle \/ \E m \in Messages : Reserve(m) \/ Publish(m)

Spec == Init /\ [][Next]_vars
=============================================================================

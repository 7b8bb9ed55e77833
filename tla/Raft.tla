-------------------------------- MODULE Raft --------------------------------
(***************************************************************************)
(* CCF's consensus, class Aft, in its crash fault tolerant mode with       *)
(* one-transaction reconfiguration.  Every handler holds the node's lock   *)
(* from its first line to its last, so a handler is one step: a function   *)
(* from the state of the node and the messages it sends to their next      *)
(* values, kept together in a record.  Time is left out: a timeout can     *)
(* expire at any moment.  An entry is the term it was written in and       *)
(* either a transaction, a signature or a configuration; the channel       *)
(* between two nodes is a queue that may lose messages.                    *)
(***************************************************************************)
EXTENDS Integers, Sequences, SequencesExt, FiniteSets, FiniteSetsExt

CONSTANTS
  Nodes, None,
  Plans,       \* [conf: first configuration, first: its primary, entries: what
               \* the primaries execute in turn, and the bounds on a behaviour:
               \* max_view: views, candidates: whose election timeout may expire, beats: heartbeats, stepdowns: primaries that
               \* miss their backups, losses: messages that are lost]
  MaxInFlight, \* bound on a channel
  MaxLog       \* bound on a log

VARIABLES
  node,        \* the state of class Aft on every node
  net,         \* net[i][j]: messages from i to j
  plan         \* the plan of this behaviour, with what remains of it

vars == <<node, net, plan>>

StartView == 2

\* An entry: what it is, its configuration if it is one, and for a signature
\* the root it signs, which stands for the terms of the entries before it.
Entry(term, kind, conf, root) == [term |-> term, kind |-> kind, conf |-> conf, root |-> root]

-----------------------------------------------------------------------------
(* ViewHistory: views[v] is the first index of view v. *)

view_at(views, idx) == Cardinality({v \in DOMAIN views : views[v] <= idx})

start_of_view(views, v) ==
  IF v \in DOMAIN views /\ (v + 1 \in DOMAIN views => views[v + 1] # views[v])
  THEN views[v] ELSE 0

end_of_view(views, v) ==
  IF start_of_view(views, v) # 0 /\ v + 1 \in DOMAIN views THEN views[v + 1] - 1 ELSE 0

\* An update that would move backwards throws: see threw.
update(views, idx, v) == views \o [k \in 1 .. v - Len(views) |-> idx]
Backwards(views, idx) == views # <<>> /\ idx < Last(views)

RollbackViews(views, idx) == SelectSeq(views, LAMBDA x : x <= idx)

-----------------------------------------------------------------------------
(* Parts of the handlers.  s is the state of node s.id; s.out collects what *)
(* it sends to each node.                                                   *)

last_idx(s) == Len(s.log)
last_committable_index(s) == Max({s.commit_idx} \cup s.committable)
get_term_internal(s, idx) == IF idx > last_idx(s) THEN 0 ELSE view_at(s.views, idx)
get_quorum(n) == (n \div 2) + 1
Members(s) == UNION {s.configurations[k].nodes : k \in DOMAIN s.configurations}
Others(s) == Members(s) \ {s.id}
Retired(s) == s.phase # None
can_replicate(s) == s.leadership = "leader" /\ s.retirement_committable_idx = 0
can_endorse_primary(s) == ~Retired(s)
Send(s, to, msg) == [s EXCEPT !.out[to] = Append(@, msg)]

\* The highest index that may still match T.n = <<term, idx>>.
find_highest_possible_match(s, term, idx) ==
  Max({0} \cup {k \in 1 .. Min({idx, last_idx(s)}) : view_at(s.views, k) <= term})

send_append_entries_range(s, to, start, end) ==
  IF s.phase = "completed" /\ start >= end THEN s
  ELSE [Send(s, to, [type |-> "append", term |-> s.current_view, idx |-> end,
                     prev_idx |-> start - 1, prev_term |-> get_term_internal(s, start - 1),
                     term_of_idx |-> get_term_internal(s, end),
                     leader_commit_idx |-> s.commit_idx,
                     entries |-> SubSeq(s.log, start, end)])
        EXCEPT !.sent_idx[to] = end]

\* One message for each term between start and the end of the log; a single
\* empty one if there is nothing new.
send_append_entries(s, to, start) ==
  LET ends == {last_idx(s)} \cup
                ({end_of_view(s.views, v) : v \in DOMAIN s.views} \cap start .. last_idx(s))
  IN FoldLeft(LAMBDA x, end :
                send_append_entries_range(x, to, Max({start} \cup {e + 1 : e \in {f \in ends : f < end}}), end),
              s, SetToSortSeq(ends, <))

\* The nodes of the active configurations other than this one; a node that
\* was not there before has no known match.
create_and_remove_node_state(old, s) ==
  LET new == Others(s) \ Others(old)
      t == [s EXCEPT !.match_idx = [n \in Nodes |-> IF n \in new THEN 0 ELSE @[n]],
                     !.sent_idx = [n \in Nodes |-> IF n \in new THEN last_idx(s) + 1 ELSE @[n]]]
  IN IF s.leadership # "leader" THEN s
     ELSE FoldSet(LAMBDA n, x : send_append_entries(x, n, last_idx(s) + 1), t, new)

\* This node is not in the configuration, and was in the one before.
become_retired(s, idx) == [s EXCEPT !.phase = "ordered", !.retirement_idx = idx]

add_configuration(s, idx, conf) ==
  LET back == Last(s.configurations).nodes
      t == IF s.id \in back \ conf THEN become_retired(s, idx) ELSE s
  IN IF conf = back THEN t
     ELSE create_and_remove_node_state(
            s, [t EXCEPT !.configurations = Append(@, [idx |-> idx, nodes |-> conf])])

\* A signature: from here the node's retirement, if any, can be committed.
SignAt(s, idx) ==
  [s EXCEPT !.committable = @ \cup {idx},
            !.phase = IF @ = "ordered" THEN "signed" ELSE @,
            !.retirement_committable_idx = IF s.phase = "ordered" THEN idx ELSE @]

commit(s, idx) ==
  LET left == IF s.phase = "signed" /\ idx >= s.retirement_committable_idx
              THEN [s EXCEPT !.phase = "completed", !.leader_id = None, !.leadership = None]
              ELSE s
      old == Max({1} \cup {k \in DOMAIN s.configurations : s.configurations[k].idx <= idx})
  IN IF idx <= s.commit_idx THEN s
     ELSE create_and_remove_node_state(
            s, [left EXCEPT !.commit_idx = idx,
                            !.threw = @ \/ idx > last_idx(s),
                            !.configurations = SubSeq(@, old, Len(@))])

commit_if_possible(s, idx) ==
  LET upto == {k \in s.committable : k <= idx}
  IN IF idx > s.commit_idx /\ get_term_internal(s, idx) <= s.current_view /\ upto # {}
     THEN commit([s EXCEPT !.committable = @ \ upto], Max(upto)) ELSE s

\* The index a majority of every active configuration has confirmed.
update_commit(s) ==
  LET match(n) == IF n = s.id THEN last_idx(s) ELSE s.match_idx[n]
      holds(conf, k) == Cardinality({n \in conf.nodes : match(n) >= k})
      confirmed(conf) == Max({k \in 0 .. last_idx(s) :
                                holds(conf, k) >= get_quorum(Cardinality(conf.nodes))})
      watermark == Min({confirmed(s.configurations[k]) : k \in DOMAIN s.configurations})
  IN commit_if_possible(s, watermark)

rollback(s, idx) ==
  LET unsigned == s.phase = "signed" /\ s.retirement_committable_idx > idx
      undone == Retired(s) /\ (s.phase = "ordered" \/ unsigned) /\ s.retirement_idx > idx
      t == [s EXCEPT
              !.log = SubSeq(@, 1, idx),
              !.views = RollbackViews(@, idx),
              !.committable = {k \in @ : k <= idx},
              !.phase = IF undone THEN None ELSE IF unsigned THEN "ordered" ELSE @,
              !.retirement_idx = IF undone THEN 0 ELSE @,
              !.retirement_committable_idx = IF unsigned THEN 0 ELSE @,
              !.configurations = SelectSeq(@, LAMBDA c : c.idx <= idx)]
  IN IF idx < s.commit_idx THEN s ELSE create_and_remove_node_state(s, t)

\* What only a primary or a candidate looks at is cleared with its role.
become_follower(s) ==
  LET t == rollback([s EXCEPT !.leader_id = None], last_committable_index(s))
      none == [n \in Nodes |-> 0]
  IN IF ~can_endorse_primary(t) THEN t
     ELSE [t EXCEPT !.leadership = "follower", !.votes = {}, !.should_sign = FALSE,
                    !.match_idx = none, !.sent_idx = none]

become_aware_of_new_term(s, term) ==
  [become_follower([s EXCEPT !.current_view = term, !.voted_for = None])
   EXCEPT !.is_new_follower = TRUE]

become_leader(s) ==
  LET t == rollback([s EXCEPT !.committable = {}], last_committable_index(s))
      l == [t EXCEPT !.leadership = "leader", !.leader_id = s.id, !.should_sign = TRUE,
                     !.votes = {}, !.match_idx = [n \in Nodes |-> 0]]
  IN IF Retired(s) THEN s
     ELSE IF Others(l) = {} THEN commit(l, last_idx(l))
     ELSE FoldSet(LAMBDA n, x : send_append_entries(x, n, last_idx(l) + 1), l, Others(l))

add_vote_for_me(s, from) ==
  LET t == [s EXCEPT !.votes = @ \cup {from}]
      elected == \A k \in DOMAIN s.configurations :
                   LET c == s.configurations[k].nodes
                   IN Cardinality(t.votes \cap c) >= get_quorum(Cardinality(c))
  IN IF elected THEN become_leader(t) ELSE t

send_append_entries_response(s, to, success, term, idx) ==
  Send(s, to, [type |-> "append_response", term |-> term, last_log_idx |-> idx,
               success |-> success])

-----------------------------------------------------------------------------
(* Handlers of messages. *)

Ok(s, to) == send_append_entries_response(s, to, TRUE, s.current_view, last_idx(s))
Fail(s, to) == send_append_entries_response(s, to, FALSE, s.current_view, last_idx(s))
Rejected(s, to, term, idx) ==
  LET k == find_highest_possible_match(s, term, idx)
  IN send_append_entries_response(s, to, FALSE, get_term_internal(s, k), k)

Terms(log) == [k \in DOMAIN log |-> log[k].term]

\* One entry of an append entries r is executed.  acc.ok turns false at the
\* first one that is refused: not of the announced term, or a signature over
\* something else than what this node holds.
Execute(acc, e, r) ==
  LET s == [acc.s EXCEPT !.log = Append(@, e)]
      idx == last_idx(s)
      good == e.term = r.term_of_idx /\ (e.kind = "sig" => e.root = Terms(acc.s.log))
      signed == [SignAt(s, idx) EXCEPT !.views = update(@, r.prev_idx + 1, e.term),
                                       !.threw = @ \/ Backwards(s.views, r.prev_idx + 1)]
  IN IF ~acc.ok \/ ~good THEN [acc EXCEPT !.ok = FALSE]
     ELSE [acc EXCEPT !.s = CASE e.kind = "sig" -> commit_if_possible(signed, r.leader_commit_idx)
                              [] e.kind = "conf" -> add_configuration(s, idx, e.conf)
                              [] e.kind = "tx" -> s]

\* The first append entries of a new primary decide where its log starts.
Truncate(s, prev_idx) ==
  [IF s.is_new_follower /\ last_idx(s) > prev_idx THEN rollback(s, prev_idx) ELSE s
   EXCEPT !.is_new_follower = FALSE]

execute_append_entries(s, from, r) ==
  LET new == SubSeq(r.entries, last_idx(s) - r.prev_idx + 1, Len(r.entries))
      done == FoldLeft(LAMBDA acc, e : Execute(acc, e, r), [s |-> s, ok |-> TRUE], new)
      t == commit_if_possible(done.s, r.leader_commit_idx)
      first == last_committable_index(t) + 1
      dated == IF r.idx < first THEN t
               ELSE [t EXCEPT !.views = update(@, first, r.term_of_idx),
                              !.threw = @ \/ Backwards(t.views, first)]
  IN IF done.ok THEN Ok(dated, from) ELSE Fail(done.s, from)

recv_append_entries(s, from, r) ==
  LET aware == s.current_view < r.term
               \/ (s.current_view = r.term /\ s.leadership = "candidate")
      t == IF aware THEN become_aware_of_new_term(s, r.term) ELSE s
      prev_term == get_term_internal(t, r.prev_idx)
      led == [t EXCEPT !.leader_id = from]
  IN IF s.current_view > r.term THEN Fail(s, from)
     ELSE IF prev_term # r.prev_term
          THEN IF prev_term = 0 THEN Fail(t, from)
               ELSE Rejected(t, from, r.prev_term, r.prev_idx)
     ELSE IF t.phase = "completed" /\ r.idx > t.retirement_committable_idx THEN Fail(t, from)
     ELSE IF r.prev_idx < t.commit_idx THEN led
     ELSE execute_append_entries(Truncate(led, r.prev_idx), from, r)

recv_append_entries_response(s, from, r) ==
  LET this_match == find_highest_possible_match(s, r.term, r.last_log_idx)
      match == IF s.match_idx[from] = 0 THEN this_match
               ELSE Min({s.match_idx[from], this_match})
      stale == r.success /\ (r.term # s.current_view \/ r.last_log_idx < s.match_idx[from])
  IN IF s.leadership # "leader" \/ from \notin Others(s) THEN s
     ELSE IF s.current_view < r.term THEN become_aware_of_new_term(s, r.term)
     ELSE IF stale THEN s
     ELSE IF r.success
          THEN update_commit([s EXCEPT !.match_idx[from] = Min({r.last_log_idx, last_idx(s)})])
          ELSE [s EXCEPT !.match_idx[from] = match, !.sent_idx[from] = match]

\* Mutant: a node that has voted votes again for whoever asks.
GrantsAgain(s, from, r) ==
  LET lci == last_committable_index(s)
      term == get_term_internal(s, lci)
  IN /\ s.leader_id = None
     /\ r.term_lci > term \/ (r.term_lci = term /\ r.lci >= lci)

\* Mutant: a candidate gets the vote whatever its log holds.
GrantsBehind(s, from, r) == s.leader_id = None /\ s.voted_for \in {None, from}

Grants(s, from, r) ==
  LET lci == last_committable_index(s)
      term == get_term_internal(s, lci)
  IN /\ s.leader_id = None /\ s.voted_for \in {None, from}
     /\ r.term_lci > term \/ (r.term_lci = term /\ r.lci >= lci)

recv_request_vote(s, from, r) ==
  LET t == IF s.current_view < r.term THEN become_aware_of_new_term(s, r.term) ELSE s
      granted == s.current_view <= r.term /\ Grants(t, from, r)
      v == IF granted THEN [t EXCEPT !.voted_for = from] ELSE t
  IN Send(v, from, [type |-> "vote_response", term |-> v.current_view, granted |-> granted])

recv_request_vote_response(s, from, r) ==
  IF s.leadership # "candidate" \/ from \notin Others(s) THEN s
  ELSE IF s.current_view < r.term THEN become_aware_of_new_term(s, r.term)
  ELSE IF s.current_view = r.term /\ r.granted THEN add_vote_for_me(s, from)
  ELSE s

recv_message(s, from, r) ==
  CASE r.type = "append" -> recv_append_entries(s, from, r)
    [] r.type = "append_response" -> recv_append_entries_response(s, from, r)
    [] r.type = "vote" -> recv_request_vote(s, from, r)
    [] r.type = "vote_response" -> recv_request_vote_response(s, from, r)

\* The primary appends an entry; hooks see the log without it.
replicate(s, e) ==
  LET idx == last_idx(s) + 1
      t == CASE e.kind = "sig" -> SignAt(s, idx)
             [] e.kind = "conf" -> add_configuration(s, idx, e.conf)
             [] e.kind = "tx" -> s
      u == [t EXCEPT !.log = Append(@, e), !.views = update(@, idx, s.current_view)]
  IN IF Others(u) = {} THEN update_commit(u) ELSE u


become_candidate(s) ==
  LET t == add_vote_for_me([s EXCEPT !.leadership = "candidate", !.leader_id = None,
                                     !.voted_for = s.id, !.votes = {}, !.current_view = @ + 1],
                           s.id)
      lci == last_committable_index(t)
      ask == [type |-> "vote", term |-> t.current_view, lci |-> lci,
              term_lci |-> get_term_internal(t, lci)]
  IN FoldSet(LAMBDA n, x : Send(x, n, ask), t, Others(t))

-----------------------------------------------------------------------------
(* Steps. *)

NoOut == [n \in Nodes |-> <<>>]

\* Node i ends a handler in state t; channels is the network without the
\* message that was handled.
Handled(i, t, channels) ==
  /\ node' = [node EXCEPT ![i] = [t EXCEPT !.out = NoOut]]
  /\ net' = [channels EXCEPT ![i] = [n \in Nodes |-> @[n] \o t.out[n]]]

Room(i) == \A n \in Nodes : Len(net[i][n]) < MaxInFlight

Receive(j, i) ==
  /\ net[j][i] # <<>>
  /\ Handled(i, recv_message(node[i], j, Head(net[j][i])), [net EXCEPT ![j][i] = Tail(@)])
  /\ UNCHANGED plan

Lose(j, i) ==
  /\ net[j][i] # <<>> /\ plan.losses > 0
  /\ net' = [net EXCEPT ![j][i] = Tail(@)]
  /\ plan' = [plan EXCEPT !.losses = @ - 1]
  /\ UNCHANGED node

\* The next transaction, or configuration, is executed on a primary.
Request(i) ==
  /\ can_replicate(node[i]) /\ plan.entries # <<>> /\ last_idx(node[i]) < MaxLog
  /\ LET e == Head(plan.entries)
     IN Handled(i, replicate(node[i], Entry(node[i].current_view, e.kind, e.conf, <<>>)), net)
  /\ plan' = [plan EXCEPT !.entries = Tail(@)]

\* emit_signature, when the primary is new or has entries to sign.
Sign(i) ==
  LET s == [node[i] EXCEPT !.should_sign = FALSE] IN
  /\ can_replicate(node[i]) /\ last_idx(s) < MaxLog
  /\ node[i].should_sign \/ Last(s.log).kind # "sig"
  /\ Handled(i, replicate(s, Entry(s.current_view, "sig", {}, Terms(s.log))), net)
  /\ UNCHANGED plan

\* periodic, on a primary: new entries are sent out ...
Heartbeat(i) ==
  /\ node[i].leadership = "leader" /\ Room(i) /\ plan.beats > 0
  /\ Handled(i, FoldSet(LAMBDA n, x : send_append_entries(x, n, x.sent_idx[n] + 1),
                        node[i], Others(node[i])), net)
  /\ plan' = [plan EXCEPT !.beats = @ - 1]

\* ... or it has not heard from a majority of backups for too long.
CheckQuorum(i) ==
  /\ node[i].leadership = "leader" /\ Others(node[i]) # {} /\ plan.stepdowns > 0
  /\ Handled(i, become_follower(node[i]), net)
  /\ plan' = [plan EXCEPT !.stepdowns = @ - 1]

\* periodic, on a backup or candidate whose election timeout has expired.
Timeout(i) ==
  /\ node[i].leadership # "leader" /\ can_endorse_primary(node[i]) /\ Room(i)
  /\ node[i].current_view < plan.max_view /\ i \in plan.candidates
  /\ Handled(i, become_candidate(node[i]), net)
  /\ UNCHANGED plan

\* A service that is up: every node of the first configuration holds the first
\* entries, signed and committed.
Init ==
  /\ plan \in Plans
  /\ node = [i \in Nodes |->
       [id |-> i, current_view |-> StartView, voted_for |-> None, leader_id |-> plan.first,
        leadership |-> IF i = plan.first THEN "leader" ELSE "follower",
        log |-> <<Entry(StartView, "sig", {}, <<>>)>>,
        views |-> [v \in 1 .. StartView |-> 1],
        commit_idx |-> 1, committable |-> {},
        configurations |-> <<[idx |-> 1, nodes |-> plan.conf]>>,
        votes |-> {}, is_new_follower |-> FALSE, should_sign |-> FALSE,
        sent_idx |-> [n \in Nodes |-> IF i = plan.first THEN 1 ELSE 0],
        match_idx |-> [n \in Nodes |-> IF i = plan.first THEN 1 ELSE 0],
        phase |-> None, retirement_idx |-> 0, retirement_committable_idx |-> 0,
        threw |-> FALSE, out |-> NoOut]]
  /\ net = [i \in Nodes |-> NoOut]

Next ==
  \E i \in Nodes :
    \/ Request(i) \/ Sign(i) \/ Heartbeat(i) \/ CheckQuorum(i) \/ Timeout(i)
    \/ \E j \in Nodes : Receive(j, i) \/ Lose(j, i)

Spec == Init /\ [][Next]_vars

-----------------------------------------------------------------------------
(* Properties. *)


\* The view history, which backups infer from signatures and message headers,
\* gives every entry the term it was written in, and is never asked to move
\* backwards (ViewHistory::update throws).
ViewsMatch(n) ==
  ~n.threw /\ \A k \in DOMAIN n.log : view_at(n.views, k) = n.log[k].term

\* Every node dates its entries as they were written, and two logs with entries of
\* the same view at an index agree up to there: this is what lets append entries
\* compare one view and index (prev_term, prev_idx) instead of the logs.
LogsMatch ==
  \A i, j \in Nodes :
    /\ ViewsMatch(node[i])
    /\ \A k \in 1 .. Min({last_idx(node[i]), last_idx(node[j])}) :
         node[i].log[k].term = node[j].log[k].term
           => SubSeq(node[i].log, 1, k) = SubSeq(node[j].log, 1, k)

\* "COMMITTED - this node knows that this transaction is committed, it is an
\* irrevocable and durable part of the service's transaction history"
\* (doc/use_apps/verify_tx.rst:27): no two nodes commit different entries.
CommittedIsIrrevocable ==
  \A i, j \in Nodes :
    \A k \in 1 .. Min({node[i].commit_idx, node[j].commit_idx}) :
      node[i].log[k] = node[j].log[k]
=============================================================================

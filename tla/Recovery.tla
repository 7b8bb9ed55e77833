------------------------------ MODULE Recovery ------------------------------
(***************************************************************************)
(* Ledger secrets and disaster recovery of a CCF service: the LedgerSecrets *)
(* every node keeps in memory, re-keying, the recovery shares and the chain *)
(* of encrypted past secrets that the ShareManager writes to the ledger,    *)
(* and the recovery of a crashed service: the public ledger is read, the    *)
(* members open the service and submit their shares, the restored secrets   *)
(* reach the backups through the ledger, and every node reads the private   *)
(* ledger.  Consensus is reduced to one log, of which each node has         *)
(* applied a prefix; Raft and Ledger have its details.                      *)
(***************************************************************************)
EXTENDS Integers, Sequences, SequencesExt, FiniteSets, FiniteSetsExt, TLC

CONSTANTS
  Nodes, First,  \* the nodes, and the one that starts and recovers the service
  Members, Threshold,  \* the recovery members and recovery_threshold
  Allow,         \* the schedules of Schedules that may happen
  MaxEvents      \* bound on re-keyings, refreshes, user transactions, wrong shares, trusted nodes, elections and disasters

\* "threads": governance transactions run on worker threads; "election": a
\* primary is elected while the service recovers; "refresh": shares are
\* refreshed then; "suffix": the ledger of a crashed service ends with an
\* unsigned re-keying; "joiner": an interrupted recovery is started again from
\* the ledger of a node that had joined; "late": a share is submitted, or
\* a node trusted, after enough shares were, before they commit; "lag": the
\* primary opens the service before the backups have read the private ledger.
Schedules == {"threads", "election", "refresh", "suffix", "joiner", "late", "lag"}

ASSUME RecoveryAssumption == First \in Nodes /\ Allow \subseteq Schedules /\ Threshold \in 1..Cardinality(Members)

VARIABLES
  log, commit, primary, node,
  txs,     \* executed transactions that have not committed
  fresh,   \* the last key that was generated
  era,     \* the number of disasters
  spent    \* the events so far

vars == <<log, commit, primary, node, txs, fresh, era, spent>>

Off == [sm |-> "off", secrets |-> {}, init |-> 0, used |-> 0, hook |-> "none", enc |-> <<>>, restored |-> {},
        at |-> 0, done |-> 0, rv |-> 0, base |-> 0, open |-> FALSE, lost |-> {}, failed |-> FALSE]

Spend == spent < MaxEvents /\ spent' = spent + 1

-----------------------------------------------------------------------------
(* The store, as of the first k entries of the log. *)

Written(t, k) == {i \in 1..k : t \in DOMAIN log[i].writes}
Table(t, k) == log[Max(Written(t, k))].writes[t]
Status(k) == Table("service", k).status
Trusted(k) == DOMAIN Table("nodes", k)
LastSig(k) == Max({0} \cup {i \in 1..k : log[i].sig})

\* r after Step for each of the entries from k + 1 to c.
After(Step(_, _), r, k, c) ==
  LET run[i \in k..c] == IF i = k THEN {r} ELSE {Step(b, i) : b \in run[i - 1]}
  IN CHOOSE a \in run[c] : TRUE

get_version_of_previous_write(t) == LET W == Written(t, Len(log)) IN IF W = {} THEN {} ELSE {Max(W)}

-----------------------------------------------------------------------------
(* LedgerSecrets: a map from the version a secret applies from. *)

Secret(version, key, stored) == [version |-> version, key |-> key, stored |-> stored]

Newest(S) == CHOOSE s \in S : \A t \in S : t.version <= s.version
Oldest(S) == CHOOSE s \in S : \A t \in S : s.version <= t.version

\* The slow path; key 0 stands for no secret.
SecretFor(S, v) ==
  LET before == {s \in S : s.version <= v}
  IN IF before = {} THEN Secret(0, 0, {}) ELSE Newest(before)

\* Along the fast path only the secret after the last one used is considered.
get_secret_for_version(r, v) ==
  LET later == {s \in r.secrets : s.version > r.used}
  IN IF r.used = 0 THEN SecretFor(r.secrets, v)
     ELSE IF later # {} /\ v >= Oldest(later).version THEN Oldest(later)
     ELSE SecretFor(r.secrets, r.used)

Overlap(r, restored) ==
  r.secrets # {} /\ restored # {} /\ Newest(restored).version >= Oldest(r.secrets).version

restore_historical(r, restored) ==
  IF Overlap(r, restored) THEN [r EXCEPT !.failed = TRUE] ELSE [r EXCEPT !.secrets = @ \cup restored]

set_secret(r, s) ==
  IF \E t \in r.secrets : t.version = s.version THEN r ELSE [r EXCEPT !.secrets = @ \cup {s}]

\* Mutant of the rollback: keeps the secret of a re-keying that is undone.
KeepSecrets(r, v) ==
  IF r.secrets = {} \/ v < Oldest(r.secrets).version THEN r ELSE [r EXCEPT !.used = 0]

RollbackSecrets(r, v) ==
  IF r.secrets = {} \/ v < Oldest(r.secrets).version THEN r
  ELSE [r EXCEPT !.secrets = {s \in @ : s.version <= v \/ s.version <= r.init}, !.used = 0]

adjust_previous_secret_stored_version(r, v) ==
  LET s == Newest(r.secrets)
  IN [r EXCEPT !.secrets = (@ \ {s}) \cup {[s EXCEPT !.stored = {v}]}]

-----------------------------------------------------------------------------
(* ShareManager.  A share is the wrapping key it is a share of. *)

Shares(key, wkey) == [shares |-> [wraps |-> key, wkey |-> wkey]]

Previous(key, previous) ==
  {[data |-> s.key, under |-> key, version |-> s.version, stored |-> get_version_of_previous_write("els")] : s \in previous}

set_recovery_shares_info(key, wkey, previous, next) ==
  Shares(key, wkey) @@ [els |-> [prev |-> Previous(key, previous), next |-> next]]

\* Mutant: the penultimate secret is not recorded.
IssueLatestOnly(r, wkey) ==
  set_recovery_shares_info(Newest(r.secrets).key, wkey, {}, {Newest(r.secrets).version})

issue_recovery_shares(r, wkey) ==
  LET latest == Newest(r.secrets)
      earlier == r.secrets \ {latest}
  IN set_recovery_shares_info(latest.key, wkey, IF earlier = {} THEN {} ELSE {Newest(earlier)}, {latest.version})

\* The secrets the chain enc unlocks from the latest one, or nothing when a
\* past secret does not decrypt.
Unlock(key, enc) ==
  LET Step(acc, e) ==
        IF acc.over \/ e.prev = {} THEN [acc EXCEPT !.over = TRUE]
        ELSE LET p == CHOOSE q \in e.prev : TRUE
             IN [key |-> p.data, over |-> FALSE, ok |-> acc.ok /\ p.under = acc.key,
                 found |-> acc.found \cup {Secret(p.version, p.data, p.stored)}]
  IN FoldLeft(Step, [key |-> key, over |-> FALSE, ok |-> TRUE, found |-> {}], Reverse(enc))

restore_recovery_shares_info(shares, enc, stored) ==
  LET chain == Unlock(shares.wraps, enc)
      version == CHOOSE v \in enc[Len(enc)].next : TRUE
  IN IF enc = <<>> \/ ~chain.ok THEN {} ELSE {Secret(version, shares.wraps, stored)} \cup chain.found

-----------------------------------------------------------------------------
(* Hooks. *)

\* The secrets in a write of the secrets table for node n.
Mine(n, w) ==
  IF "secrets" \in DOMAIN w /\ w.secrets.era = era /\ n \in w.secrets.to THEN w.secrets.list ELSE {}

\* When version v is written: a re-keying sets the secret of the next version;
\* a recovering node collects the chain, or corrects once where the secret
\* before its own is stored.
RekeyHook(n, r, v, w) ==
  IF r.sm = "partOfNetwork" /\ Mine(n, w) # {}
  THEN set_secret(r, Secret(v + 1, Oldest(Mine(n, w)).key, {v})) ELSE r

ChainHook(r, v, w) ==
  IF "els" \notin DOMAIN w \/ r.hook = "none" THEN r
  ELSE IF r.hook = "once" THEN [adjust_previous_secret_stored_version(r, v) EXCEPT !.hook = "none"]
  ELSE [r EXCEPT !.enc = Append(@, [w.els EXCEPT !.next = IF @ = {} THEN {v + 1} ELSE @])]

MapHooks(n, r, v, w) == ChainHook(RekeyHook(n, r, v, w), v, w)

setup_private_recovery_store(r, hook) ==
  IF r.failed THEN r ELSE [r EXCEPT !.rv = r.at, !.hook = hook, !.sm = "readingPrivateLedger"]

\* When entry i is committed: the restored secrets for this node, on a backup
\* the start of its private recovery.
SecretsCommitHook(n, r, i) ==
  LET mine == Mine(n, log[i].writes)
      r1 == restore_historical(r, mine)
  IN IF r.sm # "partOfPublicNetwork" \/ mine = {} THEN r
     ELSE IF n = primary THEN r1 ELSE setup_private_recovery_store(r1, "once")


\* On the node that combined the shares, a commit of submitted shares.
SharesCommitHook(r, i) ==
  IF "submitted" \notin DOMAIN log[i].writes \/ r.restored = {} THEN r
  ELSE setup_private_recovery_store([restore_historical(r, r.restored) EXCEPT !.restored = {}], "none")

\* The user frontend opens, and the host's ledger files lose their suffix.
ServiceCommitHook(r, i) ==
  IF "service" \in DOMAIN log[i].writes /\ log[i].writes.service = [status |-> "OPEN", era |-> era]
  THEN [r EXCEPT !.open = TRUE, !.base = 0] ELSE r

Compact(n, c) ==
  LET k == node[n].done
      r1 == After(LAMBDA r, i : SecretsCommitHook(n, r, i), node[n], k, c)
      r2 == After(SharesCommitHook, r1, k, c)
  IN [After(ServiceCommitHook, r2, k, c) EXCEPT !.done = c]

-----------------------------------------------------------------------------
(* The log and the nodes that follow it. *)

p == primary
self == node[primary]
end == Len(log)

Entry(key, private, sig, writes) == [key |-> key, private |-> private, sig |-> sig, writes |-> writes]

\* The primary, in state r, commits a transaction.
Write(r, private, sig, writes) ==
  LET s == get_secret_for_version(r, end + 1)
  IN /\ log' = Append(log, Entry(s.key, private, sig, writes))
     /\ node' = [node EXCEPT ![p] = MapHooks(p, [r EXCEPT !.used = s.version, !.at = end + 1], end + 1, writes)]

\* Without worker threads a transaction commits before the next one executes.
Free == txs = {} \/ "threads" \in Allow

Running(r) == r.sm \in {"partOfPublicNetwork", "readingPrivateLedger", "partOfNetwork"} /\ ~r.failed
Ready == Running(self) /\ Free

UserTx ==
  /\ Ready /\ self.open /\ Spend
  /\ Write(self, TRUE, FALSE, <<>>)
  /\ UNCHANGED <<commit, primary, txs, fresh, era>>

\* Signatures come at any time; those before which nothing changed that a
\* commit or a disaster would act on are left out.
Due == \E i \in LastSig(end) + 1..end :
  log[i].private \/ "shares" \in DOMAIN log[i].writes \/ "secrets" \in DOMAIN log[i].writes \/ "election" \in Allow

Sign ==
  /\ Ready /\ Due
  /\ UNCHANGED <<commit, primary, txs, fresh, era, spent>>
  /\ Write(self, FALSE, TRUE, <<>>)

\* A backup applies an entry; until its private recovery is over it skips the
\* private part.
Applied(n, r, v) ==
  LET s == get_secret_for_version(r, v)
      all == r.sm = "partOfNetwork"
      r1 == [r EXCEPT !.at = v, !.used = IF all THEN s.version ELSE @,
                      !.lost = IF log[v].private /\ ~all THEN @ \cup {v} ELSE @,
                      !.failed = @ \/ (all /\ s.key # log[v].key)]
  IN MapHooks(n, r1, v, log[v].writes)

Behind(n) == n # p /\ Running(node[n]) /\ node[n].at < end

\* A backup receives the entries it does not have.
Apply(n) ==
  LET r == node[n]
  IN /\ Behind(n)
     /\ UNCHANGED <<log, commit, primary, txs, fresh, era, spent>>
     /\ node' = [node EXCEPT ![n] = After(LAMBDA a, v : Applied(n, a, v), r, r.at, end)]

Replicated(c) ==
  /\ Running(self) /\ c > commit /\ c <= end /\ log[c].sig
  /\ 2 * Cardinality({n \in Trusted(end) : node[n].at >= c}) > Cardinality(Trusted(end))

Commit(c) ==
  /\ Replicated(c)
  /\ commit' = c
  /\ node' = [node EXCEPT ![p] = Compact(p, c)]
  /\ UNCHANGED <<log, primary, txs, fresh, era, spent>>

Learnable(n) == LastSig(Min({commit, node[n].at}))
Uncompacted(n) == n # p /\ Running(node[n]) /\ Learnable(n) > node[n].done

LearnCommit(n) ==
  /\ Uncompacted(n)
  /\ UNCHANGED <<log, commit, primary, txs, fresh, era, spent>>
  /\ node' = [node EXCEPT ![n] = Compact(n, Learnable(n))]

\* The new primary drops what it has after its last signature, and the others
\* what they have beyond that.
Elect(n) ==
  LET k == LastSig(node[n].at)
  IN /\ n # p /\ n \in Trusted(end) /\ Running(node[n]) /\ Spend
     /\ k > 0 /\ n \in Trusted(k) /\ \A m \in Trusted(end) : LastSig(node[m].at) <= k
     /\ "election" \in Allow \/ (Status(k) = "OPEN" /\ \A m \in Trusted(end) : node[m].sm = "partOfNetwork")
     /\ primary' = n
     /\ log' = SubSeq(log, 1, k)
     /\ node' = [m \in Nodes |-> IF node[m].at > k THEN [RollbackSecrets(node[m], k) EXCEPT !.at = k] ELSE node[m]]
     /\ txs' = {}
     /\ UNCHANGED <<commit, fresh, era>>

\* A node is trusted, and later given the secrets of when it was.
TrustNode(n) ==
  /\ Ready /\ node[n].sm = "off" /\ n \notin Trusted(end) /\ Spend
  /\ self.restored = {} \/ "late" \in Allow
  /\ Write(self, FALSE, FALSE, [nodes |-> n :> Newest(self.secrets).version @@ Table("nodes", end)])
  /\ UNCHANGED <<commit, primary, txs, fresh, era>>

Joining(n) == Running(self) /\ n \in Trusted(end) /\ node[n].sm = "off"

JoinResponse(n) ==
  LET seqno == Table("nodes", end)[n]
      public == self.sm = "partOfPublicNetwork"
  IN /\ Joining(n)
     /\ node' = [node EXCEPT ![n] = [Off EXCEPT !.secrets = {s \in self.secrets : s.version <= seqno}, !.init = seqno,
                                       !.hook = IF public THEN "recovery" ELSE "none",
                                       !.sm = IF public THEN "partOfPublicNetwork" ELSE "partOfNetwork"]]
     /\ UNCHANGED <<log, commit, primary, txs, fresh, era, spent>>

-----------------------------------------------------------------------------
(* Governance.  Re-keying and refreshing shares execute, and commit later. *)

Execute(op, writes, key) ==
  /\ Ready
  /\ txs' = txs \cup {[op |-> op, writes |-> writes, els |-> get_version_of_previous_write("els")]}
  /\ fresh' = key
  /\ UNCHANGED <<log, commit, primary, node, era>>

rekey_ledger ==
  LET key == fresh + 1
  IN /\ self.sm = "partOfNetwork" /\ Status(end) = "OPEN" /\ Spend
     /\ Execute("rekey",
          set_recovery_shares_info(key, key, {Newest(self.secrets)}, {})
            @@ [secrets |-> [era |-> era, to |-> Trusted(end), list |-> {Secret(0, key, {})}]], key)

shuffle_recovery_shares ==
  /\ Status(end) = "OPEN" \/ "refresh" \in Allow
  /\ Spend
  /\ Execute("refresh", Shares(Newest(self.secrets).key, fresh + 1), fresh + 1)

\* Only a table that a transaction writes is checked for conflicts.
Conflicts(t) == t.op = "rekey" /\ t.els # get_version_of_previous_write("els")

CommitTx(t) ==
  /\ Running(self)
  /\ txs' = txs \ {t}
  /\ IF Conflicts(t) THEN UNCHANGED <<log, node>> ELSE Write(self, FALSE, FALSE, t.writes)
  /\ UNCHANGED <<commit, primary, fresh, era, spent>>

Opening == Ready /\ Status(end) \in {"OPENING", "RECOVERING"} /\ self.sm # "readingPrivateLedger"

transition_service_to_open ==
  /\ Opening
  /\ \/ /\ self.sm = "partOfPublicNetwork"
        /\ Write(self, FALSE, FALSE, [submitted |-> <<>>, service |-> [status |-> "WAITING", era |-> era]])
        /\ UNCHANGED fresh
     \/ /\ self.sm = "partOfNetwork"
        /\ Write(self, FALSE, FALSE, issue_recovery_shares(self, fresh + 1)
             @@ [service |-> [status |-> "OPEN", era |-> era]])
        /\ fresh' = fresh + 1
  /\ UNCHANGED <<commit, primary, txs, era, spent>>

-----------------------------------------------------------------------------
(* Disaster and recovery. *)

\* All nodes stop; the ledger of one of them is kept, up to an entry it had.
\* What follows the last signature will be dropped.  Files of a recovery that was
\* not completed are not read again.
Disaster(m, c) ==
  LET k == IF node[m].base > 0 THEN node[m].base ELSE c
  IN /\ node[m].sm # "off" /\ c \in commit..node[m].at /\ Free /\ Spend
     /\ era = 0 \/ node[First].base = 0 \/ m = First \/ "joiner" \in Allow
     /\ (c > 0 /\ log[c].sig) \/ "suffix" \in Allow
     /\ LastSig(k) > 0 /\ Status(LastSig(k)) = "OPEN"
     /\ log' = SubSeq(log, 1, k)
     /\ node' = [n \in Nodes |-> Off]
     /\ primary' = First /\ era' = era + 1 /\ txs' = {}
     /\ UNCHANGED <<commit, fresh>>

\* The public ledger is read to its end, truncated to the last signature, and
\* the service created again with a new secret.
recover_public_ledger ==
  LET k == LastSig(end)
      r == [Off EXCEPT !.hook = "recovery"]
      read == After(LAMBDA a, i : ChainHook(a, i, log[i].writes), r, 0, end)
      secret == Secret(k + 1, fresh + 1, {})
  IN /\ self.sm = "off"
     /\ log' = Append(SubSeq(log, 1, k), Entry(fresh + 1, FALSE, FALSE,
                 [service |-> [status |-> "RECOVERING", era |-> era], nodes |-> p :> k + 1]))
     /\ node' = [node EXCEPT ![p] = [read EXCEPT !.sm = "partOfPublicNetwork", !.secrets = {secret}, !.init = k + 1,
                                       !.used = k + 1, !.at = k + 1, !.done = k, !.base = k]]
     /\ commit' = k /\ fresh' = fresh + 1
     /\ UNCHANGED <<primary, txs, era, spent>>

\* The shares submitted so far restore the secrets, or are cleared.
initiate_private_recovery(submitted) ==
  LET shares == Table("shares", end)
      good == \A m \in DOMAIN submitted : submitted[m] = shares.wkey
      restored == restore_recovery_shares_info(shares, self.enc, get_version_of_previous_write("els"))
  IN IF self.sm = "partOfPublicNetwork" /\ good /\ restored # {}
     THEN Write([self EXCEPT !.restored = restored], FALSE, FALSE,
            [submitted |-> submitted,
             secrets |-> [era |-> era, to |-> Trusted(end) \ {p}, list |-> restored]])
     ELSE Write([self EXCEPT !.failed = good], FALSE, FALSE, [submitted |-> <<>>])

Waiting(m, share) ==
  /\ Ready /\ Status(end) = "WAITING" /\ self.sm # "readingPrivateLedger"
  /\ self.restored = {} \/ "late" \in Allow
  /\ ~\E i \in DOMAIN Table("submitted", end) : i = m /\ Table("submitted", end)[i] = share


submit_recovery_share(m, share) ==
  LET submitted == m :> share @@ Table("submitted", end)
  IN /\ Waiting(m, share)
     /\ IF Cardinality(DOMAIN submitted) < Threshold
        THEN Write(self, FALSE, FALSE, [submitted |-> submitted])
        ELSE initiate_private_recovery(submitted)
     /\ UNCHANGED <<commit, primary, txs, fresh, era>>

\* Members are interchangeable: the correct shares come in a fixed order.
Missing == \E m \in Members : Waiting(m, Table("shares", end).wkey)
NextMember == CHOOSE m \in Members : Waiting(m, Table("shares", end).wkey)

SubmitShare == Missing /\ UNCHANGED spent /\ submit_recovery_share(NextMember, Table("shares", end).wkey)
SubmitBadShare(m) == submit_recovery_share(m, 0) /\ Spend

Reading(n) ==
  /\ node[n].sm = "readingPrivateLedger" /\ ~node[n].failed /\ Free
  /\ n # p \/ "lag" \in Allow \/ \A m \in Nodes \ {p} : node[m].sm \in {"off", "partOfNetwork"}

\* The private ledger is read up to where the public one was, and swapped in;
\* the primary then opens the service.
recover_private_ledger(n) ==
  LET r == node[n]
      ok == \A i \in 1..r.rv : i <= end /\ SecretFor(r.secrets, i).key = log[i].key
      r1 == [r EXCEPT !.sm = "partOfNetwork", !.enc = <<>>, !.lost = {i \in @ : i > r.rv}, !.failed = ~ok]
  IN /\ Reading(n)
     /\ IF n # p \/ ~ok \/ Status(end) # "WAITING"
        THEN node' = [node EXCEPT ![n] = [r1 EXCEPT !.failed = @ \/ n = p]] /\ UNCHANGED <<log, fresh>>
        ELSE /\ Write([r1 EXCEPT !.hook = "once"], FALSE, FALSE,
                  issue_recovery_shares(r1, fresh + 1)
                    @@ [submitted |-> <<>>, service |-> [status |-> "OPEN", era |-> era]])
             /\ fresh' = fresh + 1
     /\ UNCHANGED <<commit, primary, txs, era, spent>>

-----------------------------------------------------------------------------
\* First has started the service, and the other nodes have joined it.
Init ==
  /\ log = <<Entry(1, FALSE, FALSE, [service |-> [status |-> "OPENING", era |-> 0], nodes |-> First :> 1]),
             Entry(1, FALSE, FALSE, [nodes |-> [n \in Nodes |-> 1]])>>
  /\ commit = 0 /\ primary = First
  /\ node = [n \in Nodes |->
               [Off EXCEPT !.sm = "partOfNetwork", !.secrets = {Secret(1, 1, {})}, !.init = 1, !.used = 1, !.at = 2]]
  /\ txs = {} /\ fresh = 1 /\ era = 0 /\ spent = 0

Next ==
  \/ UserTx \/ Sign \/ rekey_ledger \/ shuffle_recovery_shares \/ transition_service_to_open
  \/ \E t \in txs : CommitTx(t)
  \/ \E c \in 1..end : Commit(c)
  \/ recover_public_ledger
  \/ SubmitShare \/ \E m \in Members : SubmitBadShare(m)
  \/ \E n \in Nodes : \/ Apply(n) \/ LearnCommit(n) \/ Elect(n) \/ TrustNode(n) \/ JoinResponse(n)
                      \/ recover_private_ledger(n)
                      \/ \E c \in 0..end : Disaster(n, c)

\* What the nodes do by themselves, the operator who restarts the service, and
\* the members who open the recovering service and submit their shares.
Progress ==
  \/ Sign \/ recover_public_ledger \/ (era > 0 /\ transition_service_to_open) \/ SubmitShare
  \/ \E t \in txs : CommitTx(t)
  \/ \E c \in 1..end : Commit(c)
  \/ \E n \in Nodes : Apply(n) \/ LearnCommit(n) \/ recover_private_ledger(n) \/ JoinResponse(n)

\* The guards of these steps.
Unfinished ==
  \/ (Ready /\ Due) \/ self.sm = "off" \/ (era > 0 /\ Opening) \/ Missing
  \/ Running(self) /\ (txs # {} \/ \E c \in 1..end : Replicated(c))
  \/ \E n \in Nodes : Behind(n) \/ Uncompacted(n) \/ Reading(n) \/ Joining(n)

\* They do not all stop while one of them has something left to do: weak
\* fairness of Progress, whose ENABLED condition is Unfinished.
Fairness == []<>~Unfinished \/ []<><<Progress>>_vars

Spec == Init /\ [][Next]_vars /\ Fairness

-----------------------------------------------------------------------------
(* Properties. *)

\* Every node that is part of the network decrypts each entry of its log with
\* the key it was encrypted with: re-keying, rollbacks, restored secrets and
\* secrets given to a joining node leave all nodes with the same map.
SecretsAgree ==
  \A n \in Nodes : node[n].sm = "partOfNetwork" =>
    \A i \in 1..node[n].at : SecretFor(node[n].secrets, i).key = log[i].key

\* Whenever the service stops, the shares and the chain of encrypted secrets in
\* the signed part of the ledger restore the key of every entry of that part.
Recoverable ==
  \A k \in {LastSig(c) : c \in commit..end} : k > 0 /\ Status(k) = "OPEN" =>
    LET chain == After(LAMBDA a, i : ChainHook(a, i, log[i].writes), [Off EXCEPT !.hook = "recovery"], 0, k).enc
        restored == restore_recovery_shares_info(Table("shares", k), chain, {})
    IN \A i \in 1..k : SecretFor(restored, i).key = log[i].key

\* Enough correct shares always start the private recovery, the restored secrets
\* are older than those a node has, the private ledger decrypts, and the
\* service can be opened.
NeverFails == \A n \in Nodes : ~node[n].failed

\* A node that is part of the network has the private part of every entry it
\* applied.
PrivateStateComplete == \A n \in Nodes : node[n].sm = "partOfNetwork" => node[n].lost = {}

=============================================================================

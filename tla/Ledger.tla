------------------------------- MODULE Ledger -------------------------------
(***************************************************************************)
(* The host's ledger: chunk files that entries are appended to, and that   *)
(* are completed, truncated, committed (renamed) and, during a disaster    *)
(* recovery, kept under a temporary name until the service opens.  The     *)
(* enclave that drives it is modelled as far as its calls go: what it      *)
(* appends, cuts back, commits, and reads when it restarts.  The process   *)
(* may crash between any two writes to the disk; what the C library has    *)
(* not flushed may then be lost.                                           *)
(***************************************************************************)
EXTENDS Integers, Sequences, SequencesExt, FiniteSets, FiniteSetsExt

CONSTANTS
  Chunk,           \* chunk_threshold, in entries
  Batch,           \* recovery_batch_size
  MaxLog,          \* bound on the entries of a log
  MaxCuts,         \* bound on truncations
  MaxCrashes,      \* bound on crashes
  TornTruncations  \* whether a crash may interrupt a truncation of several files

VARIABLES
  ledger,   \* the state of class Ledger and of its directory: see Fresh
  log,      \* the enclave's log: what the ledger should hold
  commit,   \* the enclave's commit index
  service,  \* what the service has committed
  kept,     \* the part of it that this ledger was told is committed
  mode,     \* "up", "recovering" or "crashed"
  cuts, crashes

vars == <<ledger, log, commit, service, kept, mode, cuts, crashes>>

None == -1

\* An entry: what distinguishes it, whether it is a signature (committable),
\* and the flags of its header that force a new chunk.
Entry(cut, sig, before, after) == [cut |-> cut, sig |-> sig, before |-> before, after |-> after]

-----------------------------------------------------------------------------
(* LedgerFile.  The first flushed entries are on disk for certain; a file   *)
(* is completed when its table of positions is on disk.                     *)

LedgerFile(start, recovery) ==
  [start |-> start, entries |-> <<>>, flushed |-> 0,
   completed |-> FALSE, committed |-> FALSE, recovery |-> recovery]

LastIdx(f) == f.start + Len(f.entries) - 1
Has(f, idx) == f.start <= idx /\ idx <= LastIdx(f)


WriteEntry(f, e) ==
  LET t == [f EXCEPT !.entries = Append(@, e)]
  IN IF e.sig THEN [t EXCEPT !.flushed = Len(t.entries)] ELSE t

complete(f) == [f EXCEPT !.completed = TRUE, !.flushed = Len(f.entries)]

\* What truncate leaves of f; a file that is cut down to nothing is removed.
Untouched(f, idx) == f.committed \/ idx < f.start - 1 \/ (f.completed /\ idx >= LastIdx(f))
Removed(f, idx) == ~Untouched(f, idx) /\ idx = f.start - 1
Cut(f, idx) ==
  IF Untouched(f, idx) THEN f
  ELSE LET left == SubSeq(f.entries, 1, idx - f.start + 1)
       IN [f EXCEPT !.completed = FALSE, !.entries = left, !.flushed = Len(left)]

\* Mutant: a chunk is committed with the first of its entries.
CommitsEarly(f, idx) == f.completed /\ ~f.committed

Commits(f, idx) == f.completed /\ ~f.committed /\ idx = LastIdx(f)

\* The constructor that reads a file back finds the entries on disk, and
\* truncates what follows the last whole one; nothing is left of a file
\* without any.
Recovered(f, flushed) == [f EXCEPT !.entries = SubSeq(@, 1, flushed), !.flushed = flushed]

-----------------------------------------------------------------------------
(* Ledger.  files are open for writing, the last one is current; closed are *)
(* the other committed files of the directory.                              *)

Fresh == [files |-> <<>>, closed |-> {}, last_idx |-> 0, committed_idx |-> 0,
          require_new_file |-> TRUE, recovery_start_idx |-> None]

\* The constructor: the files of a directory, temporary ones ignored.
Construct(dir) ==
  LET found == {f \in dir : ~f.recovery /\ f.entries # <<>>}
      closed == {f \in found : f.committed}
      files == SetToSortSeq(found \ closed, LAMBDA f, g : LastIdx(f) < LastIdx(g))
  IN [Fresh EXCEPT !.files = files, !.closed = closed,
                   !.last_idx = Max({0} \cup {LastIdx(f) : f \in found}),
                   !.committed_idx = Max({0} \cup {LastIdx(f) : f \in closed}),
                   !.require_new_file = files = <<>> \/ Last(files).completed]

\* Position in files of the first one that ends at or after idx.
Containing(l, idx) ==
  Min({Len(l.files) + 1} \cup {k \in DOMAIN l.files : idx <= LastIdx(l.files[k])})

get_file_from_idx(l, idx) ==
  LET open == {k \in DOMAIN l.files : l.files[k].start <= idx}
  IN IF open # {} THEN {l.files[Max(open)]}
     ELSE {f \in l.closed : Has(f, idx)}

\* Whether a read of from .. to succeeds, and what it returns.
Readable(l, from, to) ==
  \A idx \in from .. to :
    /\ get_file_from_idx(l, idx) # {}
    /\ \A f \in get_file_from_idx(l, idx) : Has(f, idx)
EntriesAt(l, idx) == {f.entries[idx - f.start + 1] : f \in get_file_from_idx(l, idx)}

\* write_entry up to the entry itself ...
Put(l, e) ==
  LET done == IF e.before /\ l.files # <<>>
              THEN [l EXCEPT !.files[Len(l.files)] = complete(@), !.require_new_file = TRUE]
              ELSE l
      start == l.last_idx + 1
      recovery == l.recovery_start_idx # None /\ start > l.recovery_start_idx
      files == IF done.require_new_file THEN Append(done.files, LedgerFile(start, recovery))
               ELSE done.files
      f == WriteEntry(Last(files), e)
  IN [done EXCEPT !.files = Append(Front(files), f), !.require_new_file = FALSE,
                  !.last_idx = LastIdx(f)]

\* ... and the end of the chunk.
write_entry(l, e) ==
  LET t == Put(l, e)
      full == e.sig /\ (e.after \/ Len(Last(t.files).entries) >= Chunk)
  IN IF full THEN [t EXCEPT !.files[Len(t.files)] = complete(@), !.require_new_file = TRUE] ELSE t

\* truncate after the first steps of its files, in their order.
TruncateSteps(l, idx, steps) ==
  LET from == Containing(l, idx + 1)
      to(k) == IF k = from THEN idx ELSE l.files[k].start - 1
      done == from .. (from + steps - 1)
      file(k) == IF k \in done THEN Cut(l.files[k], to(k)) ELSE l.files[k]
      left == {k \in DOMAIN l.files : ~(k \in done /\ Removed(l.files[k], to(k)))}
      order == SetToSortSeq(left, <)
  IN [l EXCEPT !.files = [k \in DOMAIN order |-> file(order[k])],
               !.require_new_file = left \cap done = {},
               !.last_idx = idx]

TruncateCount(l, idx) == Containing(l, l.last_idx) - Containing(l, idx + 1) + 1

\* The first thing it does to a file it does not remove is to reset its header.
Unlabelled(l, k, idx) ==
  IF Removed(l.files[k], idx) THEN l ELSE [l EXCEPT !.files[k].completed = FALSE]

\* Mutant: the files after the first are left.
TruncateFirst(l, idx) ==
  IF idx >= l.last_idx \/ idx < l.committed_idx THEN l ELSE TruncateSteps(l, idx, 1)

truncate(l, idx) ==
  IF idx >= l.last_idx \/ idx < l.committed_idx THEN l
  ELSE TruncateSteps(l, idx, TruncateCount(l, idx))

\* commit after the first steps of its files: a completed file whose last entry
\* is committed is renamed, and leaves the list unless it is temporary.
CommitSteps(l, idx, steps) ==
  LET from == Containing(l, Max({1, l.committed_idx}))
      to == Containing(l, idx)
      upto(k) == IF k = to THEN idx ELSE LastIdx(l.files[k])
      done == {k \in from .. (from + steps - 1) : Commits(l.files[k], upto(k))}
      file(k) == IF k \in done THEN [l.files[k] EXCEPT !.committed = TRUE] ELSE l.files[k]
      left == {k \in DOMAIN l.files : k \notin done \/ l.files[k].recovery}
      order == SetToSortSeq(left, <)
  IN [l EXCEPT !.files = [k \in DOMAIN order |-> file(order[k])],
               !.closed = @ \cup {file(k) : k \in DOMAIN l.files \ left},
               !.committed_idx = idx]

CommitCount(l, idx) == Containing(l, idx) - Containing(l, Max({1, l.committed_idx})) + 1

CommitLedger(l, idx) ==
  IF idx <= l.committed_idx \/ idx > l.last_idx THEN l
  ELSE CommitSteps(l, idx, CommitCount(l, idx))

\* A node that starts from a snapshot at idx sets aside what is not committed
\* or starts after it.
init(l, idx, recovery_start_idx) ==
  [Fresh EXCEPT !.closed = {f \in l.closed : f.start <= idx}, !.last_idx = idx,
                !.committed_idx = idx,
                !.recovery_start_idx = IF recovery_start_idx > 0 THEN recovery_start_idx ELSE None]

\* The first steps temporary files get their final name.
OpenSteps(l, steps) ==
  LET temporary == SetToSortSeq({k \in DOMAIN l.files : l.files[k].recovery}, <)
      done == {temporary[k] : k \in 1 .. steps}
      file(k) == IF k \in done THEN [l.files[k] EXCEPT !.recovery = FALSE] ELSE l.files[k]
      left == {k \in DOMAIN l.files : ~(k \in done /\ l.files[k].committed)}
      order == SetToSortSeq(left, <)
  IN [l EXCEPT !.files = [k \in DOMAIN order |-> file(order[k])],
               !.closed = @ \cup {file(k) : k \in DOMAIN l.files \ left},
               !.recovery_start_idx = None]

OpenCount(l) == Cardinality({k \in DOMAIN l.files : l.files[k].recovery})
complete_recovery(l) == OpenSteps(l, OpenCount(l))

-----------------------------------------------------------------------------
(* The enclave's calls. *)

\* A recovery that finds no signature does not get anywhere.
Running == mode = "up" \/ (mode = "recovering" /\ ledger.recovery_start_idx > 0)

\* A node that joined receives what the service has; the first entry of a
\* recovery starts a chunk.
NextEntries ==
  IF Len(log) < Len(service) THEN {service[Len(log) + 1]}
  ELSE {Entry(cuts + crashes, sig, mode = "recovering" /\ Len(log) = ledger.recovery_start_idx, after) :
          sig \in BOOLEAN, after \in BOOLEAN}

PutEntry(e) ==
  /\ Running /\ Len(log) < MaxLog /\ (e.after => e.sig)
  /\ log' = Append(log, e)
  /\ ledger' = write_entry(ledger, e)
  /\ UNCHANGED <<commit, service, kept, mode, cuts, crashes>>

Truncate(idx) ==
  /\ mode # "crashed" /\ cuts < MaxCuts
  /\ idx \in commit .. Len(log) - 1 /\ Len(service) <= idx
  /\ log' = SubSeq(log, 1, idx)
  /\ ledger' = truncate(ledger, idx)
  /\ cuts' = cuts + 1
  /\ UNCHANGED <<commit, service, kept, mode, crashes>>

\* Consensus commits up to a signature.  What a recovery has committed counts
\* only once the service is open.
Committed(idx) ==
  /\ mode # "crashed" /\ idx \in commit + 1 .. Len(log) /\ log[idx].sig
  /\ IF mode = "up" \/ idx <= Len(service)
     THEN /\ service' = IF idx > Len(service) THEN SubSeq(log, 1, idx) ELSE service
          /\ kept' = SubSeq(log, 1, idx)
     ELSE UNCHANGED <<service, kept>>

Commit(idx) ==
  /\ Committed(idx)
  /\ commit' = idx
  /\ ledger' = CommitLedger(ledger, idx)
  /\ UNCHANGED <<log, mode, cuts, crashes>>

\* The transaction that opens the service is committed.
Open ==
  /\ mode = "recovering" /\ commit > ledger.recovery_start_idx
  /\ ledger' = complete_recovery(ledger)
  /\ service' = SubSeq(log, 1, commit) /\ kept' = service'
  /\ mode' = "up"
  /\ UNCHANGED <<log, commit, cuts, crashes>>

\* The process stops with l in memory: the files that are on disk.
Stop(l) ==
  /\ crashes < MaxCrashes
  /\ \E n \in 0 .. MaxLog :
       LET dir == Range(l.files) \cup l.closed
           last == Last(l.files)
       IN /\ IF l.files = <<>> THEN n = 0 ELSE n \in last.flushed .. Len(last.entries)
          /\ ledger' = Construct(IF l.files = <<>> THEN dir
                                 ELSE (dir \ {last}) \cup {Recovered(last, n)})
  /\ mode' = "crashed"
  /\ log' = <<>> /\ commit' = 0
  /\ crashes' = crashes + 1
  /\ UNCHANGED cuts

Crash == mode # "crashed" /\ Stop(ledger) /\ UNCHANGED <<service, kept>>
CrashInWrite(e) ==
  /\ Running /\ Len(log) < MaxLog /\ (e.after => e.sig)
  /\ Stop(Put(ledger, e)) /\ UNCHANGED <<service, kept>>
CrashInCommit(idx) ==
  /\ Committed(idx) /\ idx > ledger.committed_idx
  /\ \E n \in 1 .. CommitCount(ledger, idx) - 1 : Stop(CommitSteps(ledger, idx, n))
CrashInOpen ==
  /\ mode = "recovering" /\ commit > ledger.recovery_start_idx
  /\ \E n \in 1 .. OpenCount(ledger) - 1 : Stop(OpenSteps(ledger, n))
  /\ service' = SubSeq(log, 1, commit)
  /\ UNCHANGED kept
CrashInTruncate(idx) ==
  /\ mode # "crashed"
  /\ idx \in commit .. Len(log) - 1 /\ idx >= ledger.committed_idx /\ Len(service) <= idx
  /\ TornTruncations \/ TruncateCount(ledger, idx) = 1
  /\ \E n \in 0 .. TruncateCount(ledger, idx) - 1 :
       Stop(IF n = 0 THEN Unlabelled(ledger, Containing(ledger, idx + 1), idx)
            ELSE TruncateSteps(ledger, idx, n))
  /\ UNCHANGED <<service, kept>>

\* A new process recovers the service from the directory: it reads whole
\* batches as long as it can, and what is signed becomes the service's.
LastRecovered(l) ==
  LET ends == {k \in 1 .. l.last_idx : k % Batch = 0 \/ k = l.last_idx}
  IN Max({0} \cup {k \in ends : Readable(l, 1, k)})

Recover ==
  LET entries == [k \in 1 .. LastRecovered(ledger) |->
                    CHOOSE e \in EntriesAt(ledger, k) : TRUE]
      signed == Max({0} \cup {k \in DOMAIN entries : entries[k].sig})
  IN /\ mode = "crashed"
     /\ log' = SubSeq(entries, 1, signed)
     /\ commit' = signed
     /\ ledger' = [truncate(ledger, signed) EXCEPT !.recovery_start_idx = signed]
     /\ service' = log'
     /\ mode' = "recovering"
     /\ UNCHANGED <<kept, cuts, crashes>>

\* Or it joins the service from a snapshot at the end of a committed chunk.
Join(f, recovering) ==
  /\ mode = "crashed" /\ f \in ledger.closed
  /\ LET idx == LastIdx(f)
     IN /\ log' = SubSeq(service, 1, idx)
        /\ commit' = idx /\ kept' = log'
        /\ ledger' = init(ledger, idx, IF recovering THEN Len(service) ELSE 0)
  /\ mode' = IF recovering THEN "recovering" ELSE "up"
  /\ UNCHANGED <<service, cuts, crashes>>

Init ==
  /\ ledger = Fresh /\ mode = "up"
  /\ log = <<>> /\ service = <<>> /\ kept = <<>>
  /\ commit = 0 /\ cuts = 0 /\ crashes = 0

Next ==
  \/ \E e \in NextEntries : PutEntry(e) \/ CrashInWrite(e)
  \/ \E idx \in 0 .. MaxLog :
       Truncate(idx) \/ Commit(idx) \/ CrashInCommit(idx) \/ CrashInTruncate(idx)
  \/ Open \/ Crash \/ CrashInOpen \/ Recover
  \/ \E f \in ledger.closed, recovering \in BOOLEAN : Join(f, recovering)

Spec == Init /\ [][Next]_vars

-----------------------------------------------------------------------------
(* Properties. *)

\* The ledger gives back every entry of the enclave's log, whatever chunks,
\* truncations, recoveries and restarts it went through.
ReadsMatchLog ==
  mode # "crashed" =>
    /\ ledger.last_idx = Len(log)
    /\ \A k \in DOMAIN log : EntriesAt(ledger, k) = {log[k]} /\ Readable(ledger, k, k)


\* A file under its committed name holds entries the service has committed,
\* and nothing else.
CommittedFilesFinal ==
  \A f \in ledger.closed :
    LastIdx(f) <= Len(service) /\ f.entries = SubSeq(service, f.start, LastIdx(f))
=============================================================================

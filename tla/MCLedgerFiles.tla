----------------------------- MODULE MCLedgerFiles -----------------------------
(***************************************************************************)
(* The files of a node for TLC: Ledger, its ledger files, and Snapshots, its *)
(* snapshots.  Each has a log of its own to follow, so each is explored while *)
(* the other is in its initial state.                                        *)
(***************************************************************************)
EXTENDS Ledger

CONSTANTS
  Interval, Threads, TornCommits, MaxForced,
  SnapshotLog, SnapshotCuts, SnapshotCrashes  \* MaxLog, MaxCuts and MaxCrashes of Snapshots

VARIABLES
  entries, longest, rollbacks, stops,  \* log, service, cuts and crashes of Snapshots
  compacted, primary, flag, snap, tasks, signing, rolling, to_host, dir, failed, forcings

S == INSTANCE Snapshots WITH
       MaxLog <- SnapshotLog, MaxCuts <- SnapshotCuts, MaxCrashes <- SnapshotCrashes,
       log <- entries, service <- longest, cuts <- rollbacks, crashes <- stops

snapshotVars ==
  <<entries, longest, rollbacks, stops, compacted, primary, flag, snap, tasks, signing, rolling, to_host, dir, failed, forcings>>

LedgerStep == S!Init /\ Next /\ UNCHANGED snapshotVars
SnapshotStep == Init /\ S!Next /\ UNCHANGED vars

FilesInit == Init /\ S!Init

FilesSpec == FilesInit /\ [][LedgerStep \/ SnapshotStep]_<<vars, snapshotVars>>


\* A snapshot is of the last entry of a ledger file (Snapshots).
SnapshotEndsChunk == S!SnapshotEndsChunk

\* No step of the snapshotter throws or fails an assertion (Snapshots).
NeverFails == S!NeverFails
===============================================================================

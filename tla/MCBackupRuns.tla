---------------------------- MODULE MCBackupRuns ----------------------------
(* Small instances of BackupRuns for TLC. *)
EXTENDS BackupRuns, TLC

\* Goroutines are interchangeable: no action names one.
WorkerSymmetry == Permutations(Worker)
=============================================================================

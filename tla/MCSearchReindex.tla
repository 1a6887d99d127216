-------------------------- MODULE MCSearchReindex --------------------------
(* The instances of SearchReindex that TLC checks: see the .cfg files.      *)
EXTENDS SearchReindex, TLC

\* Workers are interchangeable; used only where no liveness is checked.
WorkerSymmetry == Permutations(Workers)
=============================================================================

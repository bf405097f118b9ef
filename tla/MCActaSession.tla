--------------------------- MODULE MCActaSession ---------------------------
(* Two processes over one path, small frames and batches.                  *)
EXTENDS ActaSession, TLC

\* Processes and files are interchangeable.
Symmetry == Permutations(Procs) \cup Permutations(Inodes)
=============================================================================

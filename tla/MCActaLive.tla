----------------------------- MODULE MCActaLive -----------------------------
(* One writing process and one reader.                                     *)
EXTENDS ActaLive, TLC

Symmetry == Permutations(Inodes)
=============================================================================

-------------------------------- MODULE MCCA --------------------------------
(* CA for TLC: processes are interchangeable, and so are names.            *)
EXTENDS CA, TLC

Symmetry == Permutations(Procs) \cup Permutations(Names)

=============================================================================

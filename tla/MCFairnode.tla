----------------------------- MODULE MCFairnode -----------------------------
(***************************************************************************)
(* Instances of Fairnode for TLC.                                          *)
(***************************************************************************)
EXTENDS Fairnode, TLC

\* Otprns are interchangeable, and so are the miners that seal and those
\* that do not: a tie is broken in any way.
Symmetry == Permutations(Otprn) \cup Permutations(Sealer) \cup Permutations(Miner \ Sealer)

=============================================================================

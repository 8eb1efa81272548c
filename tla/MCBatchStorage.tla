--------------------------- MODULE MCBatchStorage ---------------------------
(* An instance of BatchStorage for TLC.                                     *)
EXTENDS BatchStorage, TLC
Symmetry == Permutations(Items) \cup Permutations(Keys) \cup Permutations(Parts)
=============================================================================

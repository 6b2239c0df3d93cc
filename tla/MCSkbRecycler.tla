--------------------------- MODULE MCSkbRecycler ---------------------------
(* Instances of SkbRecycler for TLC. *)
EXTENDS SkbRecycler, TLC

(* Buffers, CPUs and contexts are interchangeable in the safety runs. *)
Perms == Permutations(Skbs) \union Permutations(CPUs) \union Permutations(Ctxs)
=============================================================================

----------------------------- MODULE MCPageFrag -----------------------------
(* Instances of PageFrag for TLC. *)
EXTENDS PageFrag, TLC

(* Pages and fragment numbers are interchangeable. *)
Perms == Permutations(Pages) \union Permutations(Ids)
=============================================================================

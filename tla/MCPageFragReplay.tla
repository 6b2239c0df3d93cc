-------------------------- MODULE MCPageFragReplay --------------------------
(* Instances of PageFragReplay for TLC. *)
EXTENDS PageFragReplay, TLC

(* Pages and fragment numbers are interchangeable. *)
Perms == Permutations(Pages) \union Permutations(Ids)
=============================================================================

------------------------------ MODULE MCStories ------------------------------
(* Instances of Stories for TLC. *)
EXTENDS Stories, TLC

(* Patches of one field.                                                    *)
SmallPatches == {x \in Patch : Cardinality({f \in DOMAIN x : x[f] # None}) = 1}

Symmetry == Permutations(Clients) \cup Permutations(Titles) \cup Permutations(Texts)
              \cup Permutations(Projects)
=============================================================================

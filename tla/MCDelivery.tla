----------------------------- MODULE MCDelivery -----------------------------
(* Instances of Delivery for model checking.                                  *)
EXTENDS Delivery, TLC

Symmetry == Permutations(Items)
=============================================================================

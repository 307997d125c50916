------------------------------ MODULE MCSprints ------------------------------
(***************************************************************************)
(* Small instances of Sprints for TLC.                                     *)
(***************************************************************************)
EXTENDS Sprints, TLC

\* Projects, names, stories and requests are interchangeable.
Symmetry == Permutations(Projects) \cup Permutations(Names)
              \cup Permutations(Todos) \cup Permutations(Clients)
=============================================================================

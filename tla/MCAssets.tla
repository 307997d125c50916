------------------------------ MODULE MCAssets ------------------------------
(***************************************************************************)
(* Small instances of Assets for TLC.                                      *)
(***************************************************************************)
EXTENDS Assets, TLC

CONSTANTS a, b

\* Identities and upload requests are interchangeable; stories are not, the
\* reconciliation cursor orders them, and contents differ in size.
Symmetry == Permutations(Uuids) \cup Permutations(Uploaders)
sizes == (a :> 1) @@ (b :> 2)
oneSize == a :> 1
OneTodo == {1}
TwoTodos == {1, 2}
=============================================================================

------------------------------- MODULE MCHub -------------------------------
(* Instances of Hub for model checking.                                       *)
EXTENDS Hub, TLC

CONSTANTS p1, u1, c1, c2, c3, i1, i2, e1, e2

topics == {p1, u1}
addresses == {i1, i2}

(* A merged stream of a user who follows one project, and two anonymous       *)
(* streams of that project, for which there is one slot.                      *)
conns == {c1, c2, c3}
subscriptions == (c1 :> <<u1, p1>>) @@ (c2 :> <<p1>>) @@ (c3 :> <<p1>>)
onlyMerged == {c1}
visitors == {c2, c3}
origins == (c1 :> i1) @@ (c2 :> i2) @@ (c3 :> i2)

(* An assignment and a refresh.                                               *)
events == {e1, e2}
emits == (e1 :> <<p1, u1>>) @@ (e2 :> <<p1>>)
=============================================================================

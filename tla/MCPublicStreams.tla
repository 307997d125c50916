-------------------------- MODULE MCPublicStreams --------------------------
(* An instance of PublicStreams for model checking: two visitors of one       *)
(* board behind one address, where the hub admits one stream at a time.       *)
EXTENDS PublicStreams, TLC

CONSTANTS p1, i1, s1, s2

projects == {p1}
addresses == {i1}
streams == {s1, s2}
boards == [s \in streams |-> p1]
origins == [s \in streams |-> i1]
=============================================================================

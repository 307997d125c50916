------------------------------- MODULE MCWall --------------------------------
(* Instances of Wall for TLC. *)
EXTENDS Wall

CONSTANTS n1, m1, m2, c1, c2

storyEnd == FormatWallStoryEndpoint(1)

(* A backup of two stories, listed newest first, with the older one pinned  *)
(* and a line from it to a note.                                            *)
pinnedBackup ==
  [todos |-> <<2, 1>>,
   wall |-> [notes |-> <<<<m1, 2>>>>, edges |-> <<{m1, storyEnd}>>,
             stories |-> <<<<1, 0>>>>, version |-> 0]]

(* One from before stories could be pinned: a note listed twice, a note and *)
(* a line beyond the limits, and a line to the note beyond the limit.       *)
legacyBackup ==
  [todos |-> <<1>>,
   wall |-> [notes |-> <<<<m1, 1>>, <<m1, 2>>, <<m2, 1>>>>,
             edges |-> <<{m1, m2}, {m1, storyEnd}, {m1, FormatWallStoryEndpoint(2)}>>,
             stories |-> None, version |-> 1]]

(* An emptied wall that still has a line, and a backup without a wall. *)
emptyBackup ==
  [todos |-> <<>>, wall |-> [notes |-> <<>>, edges |-> <<{m1, storyEnd}>>,
                             stories |-> <<>>, version |-> 2]]

storiesBackup == [todos |-> <<1>>, wall |-> None]

MCPayloads == {pinnedBackup, legacyBackup, emptyBackup, storiesBackup}

PutSizes == {0, 1}

ClientSymmetry == Permutations(Clients)

=============================================================================

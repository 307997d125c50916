----------------------------- MODULE WallAtomic ------------------------------
(***************************************************************************)
(* What the wall promises: each request takes effect on the wall it finds,  *)
(* in one step, as if no other request were running.  The transactions on   *)
(* placements really are one step of the database; a note or edge request   *)
(* is one step only because of lockWall, which Wall.tla shows, and only     *)
(* until a merge, which does not take it, comes between its read and write. *)
(***************************************************************************)
EXTENDS WallDoc

VARIABLES
  stories,     \* the story numbers (todos.local_id) of the project
  wall,        \* the row of project_walls, or None
  placements   \* the version of each row of wall_story_placements, by story

boardVars == <<stories, wall, placements>>

AtomicInit ==
  /\ stories = {}
  /\ wall = None
  /\ placements = NoFunction

version(row) == IF row = None THEN 0 ELSE row.version

roomForVersion == version(wall) < MaxVersion

without(f, x) == [y \in DOMAIN f \ {x} |-> f[y]]

-----------------------------------------------------------------------------
(* A note or edge request that is accepted by the wall as it stands. *)
Edit(r) ==
  LET doc == GetWall(wall, placements) IN
  /\ UNCHANGED <<stories, placements>>
  /\ roomForVersion
  /\ accepts(r, doc)
  /\ fresh(r, doc) /\ inBounds(r, doc)
  /\ wall' = written(edited(r, doc))

(* Story numbers are the highest one in use plus one. *)
CreateTodo ==
  \E l \in LocalIds :
    /\ \A k \in stories : k < l
    /\ l = 1 \/ l - 1 \in stories
    /\ stories' = stories \cup {l}
    /\ UNCHANGED <<wall, placements>>

(* The placement goes with the todo by foreign key; the edges are removed   *)
(* in the same transaction, and the version moves once if the wall lost     *)
(* anything.                                                                *)
DeleteTodo(l) ==
  LET row == removeWallStoryEdgesTx(wall, l)
      wallChanged == row # wall \/ l \in DOMAIN placements IN
  /\ l \in stories
  /\ wallChanged => roomForVersion
  /\ stories' = stories \ {l}
  /\ placements' = without(placements, l)
  /\ wall' = IF wallChanged THEN bumpWallVersionTx(row) ELSE wall

(* Pinning a story that is already on the wall changes nothing. *)
PinWallStory(l) ==
  /\ roomForVersion
  /\ l \in stories \ DOMAIN placements
  /\ Cardinality(DOMAIN placements) < maxWallStories
  /\ placements' = [k \in DOMAIN placements \cup {l} |->
                      IF k = l THEN 1 ELSE placements[k]]
  /\ wall' = bumpWallVersionTx(wall)
  /\ UNCHANGED stories

PatchWallStory(l, ifVersion) ==
  /\ roomForVersion
  /\ l \in DOMAIN placements
  /\ ifVersion \in {0, placements[l]}
  /\ placements[l] < MaxVersion
  /\ placements' = [placements EXCEPT ![l] = @ + 1]
  /\ wall' = bumpWallVersionTx(wall)
  /\ UNCHANGED stories

UnpinWallStory(l) ==
  /\ roomForVersion
  /\ l \in DOMAIN placements
  /\ placements' = without(placements, l)
  /\ wall' = bumpWallVersionTx(removeWallStoryEdgesTx(wall, l))
  /\ UNCHANGED stories

(* Merging a backup, its stories and its wall, in one transaction.  Without *)
(* a wall in the backup the board keeps its own.  Bound: no merge that      *)
(* needs a number above MaxLocal.                                           *)
importMerge(p) ==
  LET m == importedTodos(p, stories) IN
  /\ m.stories \subseteq LocalIds
  /\ stories' = m.stories
  /\ IF p.wall = None THEN UNCHANGED <<wall, placements>>
     ELSE /\ placements' = importedPlacements(p.wall, placements, m)
          /\ wall' = importedRow(p.wall, placements', m)

AtomicNext ==
  \/ \E r \in Requests : Edit(r)
  \/ CreateTodo
  \/ \E l \in LocalIds :
       \/ DeleteTodo(l)
       \/ PinWallStory(l)
       \/ \E v \in 0..MaxVersion : PatchWallStory(l, v)
       \/ UnpinWallStory(l)
  \/ \E p \in Payloads : importMerge(p)

AtomicSpec == AtomicInit /\ [][AtomicNext]_boardVars

=============================================================================

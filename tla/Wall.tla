-------------------------------- MODULE Wall ---------------------------------
(***************************************************************************)
(* The wall as the store runs it (store/wall.go, DeleteTodo of              *)
(* store/todos.go, the wall part of a merged backup).  A note or edge       *)
(* request takes the project's mutex, reads the document in one transaction *)
(* (GetWall), decides and edits in memory, and writes the whole document    *)
(* back in another (writeWallLocked).  The transactions on placements, and  *)
(* the deletion of a todo, take the same mutex around one transaction.      *)
(* Creating a todo does not take it, and neither does merging a backup, so  *)
(* a merge may replace the document a running request has read.             *)
(*                                                                          *)
(* Taking the mutex and reading are one step here: nothing another request  *)
(* does between the two can be told from its being done before.             *)
(***************************************************************************)
EXTENDS WallAtomic

CONSTANT Clients   \* the requests that may be running at once

VARIABLES
  lock,       \* the client that holds the mutex of lockWall, or None
  pending,    \* per client, the request it runs and the document it read
  overtaken,  \* history: the clients whose document was replaced since they read it
  overwritten \* history: such a client has written, and no wall was merged since

vars == <<stories, wall, placements, lock, pending, overtaken, overwritten>>

Init ==
  /\ AtomicInit
  /\ lock = None
  /\ pending = [c \in Clients |-> None]
  /\ overtaken = {}
  /\ overwritten = FALSE

MutNoLock == TRUE

lockFree == lock = None

-----------------------------------------------------------------------------
(* The mutex is taken and the document is read. *)
Begin(c, r) ==
  LET doc == GetWall(wall, placements) IN
  /\ pending[c] = None
  /\ lockFree
  /\ fresh(r, doc) /\ inBounds(r, doc)
  /\ lock' = c
  /\ pending' = [pending EXCEPT ![c] = [req |-> r, read |-> doc]]
  /\ UNCHANGED <<boardVars, overtaken, overwritten>>

release(c) ==
  /\ lock' = None
  /\ pending' = [pending EXCEPT ![c] = None]
  /\ overtaken' = overtaken \ {c}

running(c, op) == pending[c] # None /\ pending[c].req.op = op

(* The edited document replaces the row, whatever the row is by now. *)
writeWallLocked(c) ==
  LET r == pending[c].req
      doc == pending[c].read IN
  /\ doc.version < MaxVersion
  /\ accepts(r, doc)
  /\ wall' = written(edited(r, doc))
  /\ overwritten' = (overwritten \/ c \in overtaken)
  /\ release(c)
  /\ UNCHANGED <<stories, placements>>

CreateNote(c) == running(c, "CreateNote") /\ writeWallLocked(c)

PatchNote(c) == running(c, "PatchNote") /\ writeWallLocked(c)

DeleteNote(c) == running(c, "DeleteNote") /\ writeWallLocked(c)

CreateEdge(c) == running(c, "CreateEdge") /\ writeWallLocked(c)

DeleteEdge(c) == running(c, "DeleteEdge") /\ writeWallLocked(c)

ReplaceWall(c) == running(c, "ReplaceWall") /\ writeWallLocked(c)

(* The request is answered without a write: a limit, a missing note, edge   *)
(* or endpoint, a version conflict, an edge that already exists.            *)
Reject(c) ==
  /\ pending[c] # None
  /\ ~accepts(pending[c].req, pending[c].read)
  /\ release(c)
  /\ UNCHANGED <<boardVars, overwritten>>

(* The read or the write fails, as when the client has gone away. *)
Fail(c) ==
  /\ pending[c] # None
  /\ release(c)
  /\ UNCHANGED <<boardVars, overwritten>>

(* One transaction under the mutex. *)
StoryTransaction ==
  /\ lockFree
  /\ UNCHANGED <<lock, pending, overtaken, overwritten>>
  /\ \E l \in LocalIds :
       \/ DeleteTodo(l)
       \/ PinWallStory(l)
       \/ \E v \in 0..MaxVersion : PatchWallStory(l, v)
       \/ UnpinWallStory(l)

(* Transactions that do not take the mutex: a request that holds it goes on *)
(* with the document it has read.                                           *)
MergeBackup(p) ==
  /\ UNCHANGED <<lock, pending>>
  /\ importMerge(p)
  /\ overtaken' = IF <<wall, placements>>' = <<wall, placements>> THEN overtaken
                  ELSE {c \in Clients : pending[c] # None}
  /\ overwritten' = (overwritten /\ p.wall = None)

UnlockedTransaction ==
  \/ CreateTodo /\ UNCHANGED <<lock, pending, overtaken, overwritten>>
  \/ \E p \in Payloads : MergeBackup(p)

Next ==
  \/ \E c \in Clients :
       \/ \E r \in Requests : Begin(c, r)
       \/ CreateNote(c) \/ PatchNote(c) \/ DeleteNote(c)
       \/ CreateEdge(c) \/ DeleteEdge(c) \/ ReplaceWall(c)
       \/ Reject(c) \/ Fail(c)
  \/ StoryTransaction
  \/ UnlockedTransaction

Spec == Init /\ [][Next]_vars

-----------------------------------------------------------------------------
(* The write of a request whose document a merge replaced after the request *)
(* had read it.                                                             *)
OvertakenWrite == \E c \in overtaken : writeWallLocked(c)

(* Every variable stays in its domain; the mutex is held exactly by the     *)
(* client whose request is running.                                         *)
TypeOK ==
  /\ stories \subseteq LocalIds
  /\ wall # None => isWall(wall)
  /\ DOMAIN placements \subseteq LocalIds
  /\ placements \in [DOMAIN placements -> Nat]
  /\ DOMAIN pending = Clients
  /\ \A c \in Clients :
       /\ pending[c] # None => /\ pending[c].req \in Requests
                               /\ isWall(pending[c].read)
                               /\ pending[c].read.stories \subseteq LocalIds
       /\ (lock = c) = (pending[c] # None)
  /\ overtaken \subseteq {c \in Clients : pending[c] # None}
  /\ overwritten \in BOOLEAN

(* No line hangs on a story that is not on the wall: unpinning or deleting  *)
(* the story takes its lines along, and no request that read the wall       *)
(* before puts one back (DeleteTodo: "no stale story edge can be written    *)
(* while a placement disappears").  The code keeps this except when a       *)
(* backup is merged between the read and the write of a request.            *)
StoryEdgesPlaced ==
  wall # None =>
    \A g \in wall.edges, l \in LocalIds :
      FormatWallStoryEndpoint(l) \in g => l \in DOMAIN placements

(* No line hangs on a note that is not on the wall (DeleteNote: "dangling   *)
(* edges would be invisible to the client and waste storage").  Replacing   *)
(* the whole wall does not keep this: its notes get fresh ids and its lines *)
(* stay.                                                                    *)
NoteEdgesResolve ==
  wall # None =>
    \A g \in wall.edges, n \in NoteIds : n \in g => n \in DOMAIN wall.notes

(* Deleting a note takes its lines along, no request that read the wall     *)
(* before draws one to a note that has gone, and a merge brings no line to  *)
(* a note it leaves out.  Two steps are exempt: a replacement of the whole  *)
(* wall, and the write of a request overtaken by a merge.                   *)
LinesKeepTheirNotes ==
  [][ wall' # None =>
        \A g \in wall'.edges : \A n \in g \cap NoteIds :
          \/ n \in DOMAIN wall'.notes
          \/ wall # None /\ g \in wall.edges /\ n \notin DOMAIN wall.notes
          \/ \E c \in Clients : ReplaceWall(c)
          \/ OvertakenWrite ]_vars

(* A pinned story is a story of the board and is shown: GetWall never hides *)
(* placements behind a missing row.                                         *)
PlacementsShown ==
  /\ DOMAIN placements \subseteq stories
  /\ placements # NoFunction => wall # None

(* The document stays within its limits, merged or not (the number of       *)
(* pinned stories need not: a merge does not count them).                   *)
WithinLimits ==
  wall # None => /\ Cardinality(DOMAIN wall.notes) <= maxWallNotes
                 /\ Cardinality(wall.edges) <= maxWallEdges

(* What requests, story transactions and merges keep: no placement is       *)
(* hidden, the document is within its limits, and lines hang on pinned      *)
(* stories unless a request overtaken by a merge has written over the       *)
(* merged wall.                                                             *)
WallInv ==
  /\ TypeOK
  /\ PlacementsShown
  /\ WithinLimits
  /\ overwritten \/ StoryEdgesPlaced

(* The mutex makes every read-modify-write of the document one step: what   *)
(* happens to the board, the wall and its placements is a behaviour of      *)
(* WallAtomic, in which no write overwrites a change it did not see.  The   *)
(* one exception is the write of a request overtaken by a merge, which does *)
(* not take the mutex and whose wall is lost.                               *)
WritesAreAtomic == AtomicInit /\ [][OvertakenWrite \/ AtomicNext]_boardVars

(* Whatever changes the wall moves its version on by exactly one, so that a *)
(* reader can tell any two states of the wall apart.  Two steps are exempt: *)
(* a merge sets the version to the backup's own, and the write of a request *)
(* overtaken by a merge goes on from the version the request had read.      *)
VersionCountsChanges ==
  [][ wall' # wall \/ placements' # placements
      => \/ version(wall') = version(wall) + 1
         \/ \E p \in Payloads : p.wall # None /\ MergeBackup(p)
         \/ OvertakenWrite ]_vars

(* "The document-level `version` on Wall is the only realtime fingerprint"  *)
(* (WallEdge): a change of the wall changes its version.  The code does not *)
(* satisfy this: a merged backup may bring the version the wall already has.  *)
VersionTellsWallsApart ==
  [][ wall' # wall \/ placements' # placements => version(wall') # version(wall) ]_vars

(* The wall of a merged backup shows the stories it showed when it was      *)
(* saved, whatever numbers they got on this board.  A story the board had   *)
(* before is pinned exactly when the backup has its number pinned, and has  *)
(* a line only when that number has one; each pinned story that came with   *)
(* the backup is pinned once, and no other is.                              *)
MergedWallKeepsItsStories ==
  [][ \A p \in Payloads :
        p.wall # None /\ p.wall.stories # None /\ MergeBackup(p) =>
          LET pinned == {s[1] : s \in ToSet(p.wall.stories)} IN
          /\ \A l \in stories : l \in DOMAIN placements' <=> l \in pinned
          /\ Cardinality(DOMAIN placements' \ stories)
               = Cardinality(pinned \cap (ToSet(p.todos) \ stories))
          /\ \A g \in wall'.edges, l \in stories :
               FormatWallStoryEndpoint(l) \in g =>
                 \E h \in ToSet(p.wall.edges) : FormatWallStoryEndpoint(l) \in h ]_vars

=============================================================================

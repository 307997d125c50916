------------------------------- MODULE WallDoc -------------------------------
(***************************************************************************)
(* The wall of one durable project, as a document: sticky notes, pinned     *)
(* stories and the lines drawn between them (store/wall.go,                 *)
(* store/wall_edge_endpoint.go).  This module holds the pure part: what     *)
(* GetWall returns, when each note or edge operation accepts the document   *)
(* it read, and the document it hands to writeWallLocked.  Wall.tla runs    *)
(* these operations as the code does (lock, read, write, unlock);           *)
(* WallAtomic.tla runs each in one step.                                    *)
(*                                                                          *)
(* Coordinates, sizes, colours and text are left out: a note is its id and  *)
(* its version, which every write of its content increments.  An edge is    *)
(* the unordered pair of its endpoints.                                     *)
(***************************************************************************)
EXTENDS Integers, FiniteSets, SequencesExt

CONSTANTS
  NoteIds,          \* the ids newNoteID may draw
  MaxLocal,         \* bound: the highest story number
  MaxVersion,       \* bound: the highest version of the wall, a note or a placement
  maxWallNotes,     \* the limit of that name
  maxWallStories,   \* the limit of that name
  maxWallEdges,     \* the limit of that name
  DraftCounts,      \* how many notes a PUT of the whole wall may carry
  Payloads,         \* the backups that may be merged in
  None

ASSUME WallAssumption ==
  /\ MaxLocal \in Nat /\ MaxVersion \in Nat
  /\ maxWallNotes \in Nat /\ maxWallStories \in Nat /\ maxWallEdges \in Nat
  /\ DraftCounts \subseteq Nat
  /\ None \notin NoteIds

LocalIds == 1..MaxLocal

(* The persisted form of an endpoint that names a pinned story. *)
FormatWallStoryEndpoint(l) == <<"story", l>>

Endpoints == NoteIds \cup {FormatWallStoryEndpoint(l) : l \in LocalIds}

Edges == {{a, b} : a, b \in Endpoints}

NoFunction == [x \in {} |-> 0]

(* The notes and edges of a row of project_walls, or of a document read    *)
(* from one.                                                                *)
isWall(w) ==
  /\ DOMAIN w.notes \subseteq NoteIds
  /\ w.notes \in [DOMAIN w.notes -> Nat]
  /\ w.edges \subseteq Edges
  /\ w.version \in Nat

(* What GetWall returns: without a row, an empty wall whose placements are  *)
(* not even looked at.                                                      *)
GetWall(row, placements) ==
  IF row = None
  THEN [notes |-> NoFunction, edges |-> {}, version |-> 0, stories |-> {}]
  ELSE [notes |-> row.notes, edges |-> row.edges, version |-> row.version,
        stories |-> DOMAIN placements]

MutKeepVersion(doc) ==
  [notes |-> doc.notes, edges |-> doc.edges, version |-> doc.version]

(* The row writeWallLocked stores for a document: the placements are not in *)
(* it, and every caller has incremented the version it read.                *)
written(doc) ==
  [notes |-> doc.notes, edges |-> doc.edges, version |-> doc.version + 1]

resolveWallEdgeEndpoint(doc, e) ==
  \/ e \in DOMAIN doc.notes
  \/ \E l \in doc.stories : e = FormatWallStoryEndpoint(l)

incident(e, edges) == {g \in edges : e \in g}

-----------------------------------------------------------------------------
(* The requests that read the document, change it and write it back. *)

Requests ==
  [op : {"CreateNote"}, note : NoteIds]
  \cup [op : {"PatchNote"}, note : NoteIds, ifVersion : 0..MaxVersion]
  \cup [op : {"DeleteNote"}, note : NoteIds]
  \cup [op : {"CreateEdge"}, edge : Edges]
  \cup [op : {"DeleteEdge"}, edge : Edges]
  \cup [op : {"ReplaceWall"}, notes : {N \in SUBSET NoteIds : Cardinality(N) \in DraftCounts}]

(* Ids drawn at random are met nowhere: not on the wall, not in an edge     *)
(* left behind, not in a backup.                                            *)
newNoteID(doc, n) ==
  /\ n \notin DOMAIN doc.notes
  /\ incident(n, doc.edges) = {}
  /\ \A p \in Payloads : p.wall # None => \A i \in DOMAIN p.wall.notes : p.wall.notes[i][1] # n

fresh(r, doc) ==
  /\ r.op = "CreateNote" => newNoteID(doc, r.note)
  /\ r.op = "ReplaceWall" => \A n \in r.notes : newNoteID(doc, n)

(* Bound: no note is patched beyond the highest version. *)
inBounds(r, doc) ==
  r.op = "PatchNote" /\ r.note \in DOMAIN doc.notes => doc.notes[r.note] < MaxVersion

(* The conditions under which each operation goes on to write. *)
acceptsCreateNote(doc) == Cardinality(DOMAIN doc.notes) < maxWallNotes

acceptsPatchNote(r, doc) ==
  /\ r.note \in DOMAIN doc.notes
  /\ r.ifVersion \in {0, doc.notes[r.note]}

acceptsCreateEdge(r, doc) ==
  /\ Cardinality(r.edge) = 2
  /\ \A e \in r.edge : resolveWallEdgeEndpoint(doc, e)
  /\ r.edge \notin doc.edges
  /\ Cardinality(doc.edges) < maxWallEdges

accepts(r, doc) ==
  \/ r.op = "CreateNote" /\ acceptsCreateNote(doc)
  \/ r.op = "PatchNote" /\ acceptsPatchNote(r, doc)
  \/ r.op = "DeleteNote" /\ r.note \in DOMAIN doc.notes
  \/ r.op = "CreateEdge" /\ acceptsCreateEdge(r, doc)
  \/ r.op = "DeleteEdge" /\ r.edge \in doc.edges
  \/ r.op = "ReplaceWall" /\ Cardinality(r.notes) <= maxWallNotes

(* The documents they write. *)
withNote(doc, n) ==
  [doc EXCEPT !.notes = [m \in DOMAIN @ \cup {n} |-> IF m = n THEN 1 ELSE @[m]]]

patched(doc, n) == [doc EXCEPT !.notes[n] = @ + 1]

MutKeepIncident(doc, n) ==
  [doc EXCEPT !.notes = [m \in DOMAIN @ \ {n} |-> @[m]]]

withoutNote(doc, n) ==
  [doc EXCEPT !.notes = [m \in DOMAIN @ \ {n} |-> @[m]],
              !.edges = @ \ incident(n, @)]

edited(r, doc) ==
  IF r.op = "CreateNote" THEN withNote(doc, r.note)
  ELSE IF r.op = "PatchNote" THEN patched(doc, r.note)
  ELSE IF r.op = "DeleteNote" THEN withoutNote(doc, r.note)
  ELSE IF r.op = "CreateEdge" THEN [doc EXCEPT !.edges = @ \cup {r.edge}]
  ELSE IF r.op = "DeleteEdge" THEN [doc EXCEPT !.edges = @ \ {r.edge}]
  ELSE [doc EXCEPT !.notes = [n \in r.notes |-> 1]]

-----------------------------------------------------------------------------
(* The transactions on placements. *)

bumpWallVersionTx(row) ==
  IF row = None THEN [notes |-> NoFunction, edges |-> {}, version |-> 1]
  ELSE [row EXCEPT !.version = @ + 1]

MutEdgesStay(row, l) == row

removeWallStoryEdgesTx(row, l) ==
  IF row = None THEN None
  ELSE [row EXCEPT !.edges = @ \ incident(FormatWallStoryEndpoint(l), @)]

-----------------------------------------------------------------------------
(* Merging a backup.  A backup is the numbers of its stories, in the order  *)
(* of the file, and its wall: None when it has none, otherwise its notes    *)
(* (ids with versions), lines, pinned stories (numbers with versions, or    *)
(* None when it predates pinning) and version.                              *)

(* One story of the backup lands on the board.  A story the board had       *)
(* before the merge is updated in place; any other is created, with a fresh *)
(* number when its own is not above every number in use.  The first story   *)
(* with a number is the one the backup's references to that number mean.    *)
land(m, k) ==
  LET existing == k \in m.stories \ m.created
      d == IF existing \/ \A l \in m.stories : l < k THEN k ELSE Max(m.stories) + 1
  IN  [stories |-> m.stories \cup {d},
       localIDs |-> [j \in DOMAIN m.localIDs \cup {k} |->
                       IF j \in DOMAIN m.localIDs THEN m.localIDs[j] ELSE d],
       created |-> IF existing THEN m.created ELSE m.created \cup {d}]

importedTodos(p, stories) ==
  FoldLeft(land, [stories |-> stories, localIDs |-> NoFunction, created |-> {}], p.todos)

(* The story of the board that number k of the backup means: the one it     *)
(* landed as, or the story of that number the board had before the merge.   *)
MutSameNumber(m, k) == IF k \in m.stories THEN k ELSE None

resolveStory(m, k) ==
  IF k \in DOMAIN m.localIDs THEN m.localIDs[k]
  ELSE IF k \in m.stories \ m.created THEN k ELSE None

(* The entries of a list of keys with versions: the first of each key       *)
(* counts, and a version is at least 1.                                     *)
firstOf(s) ==
  [k \in {s[i][1] : i \in DOMAIN s} |->
     Max({1, s[Min({i \in DOMAIN s : s[i][1] = k})][2]})]

truncated(s, limit) == SubSeq(s, 1, Min({Len(s), limit}))

(* The placements a merged wall w leaves: its own, each on the story it     *)
(* means, or those of the board when the backup predates pinning.           *)
importedPlacements(w, placements, m) ==
  IF w.stories = None THEN placements
  ELSE LET pins == firstOf(w.stories)
           kept == {k \in DOMAIN pins : resolveStory(m, k) # None}
       IN  [d \in {resolveStory(m, k) : k \in kept} |->
              pins[CHOOSE k \in kept : resolveStory(m, k) = d]]

importedEndpoint(e, m) ==
  IF \A l \in LocalIds : e # FormatWallStoryEndpoint(l) THEN e
  ELSE IF resolveStory(m, e[2]) = None THEN None
  ELSE FormatWallStoryEndpoint(resolveStory(m, e[2]))

(* The row it leaves.  The lists are cut before they are filtered; of the   *)
(* lines, those between two different things on the resulting wall survive. *)
importedRow(w, placements, m) ==
  LET doc == [notes |-> firstOf(truncated(w.notes, maxWallNotes)),
              stories |-> DOMAIN placements]
  IN  [notes |-> doc.notes,
       edges |-> {g \in {{importedEndpoint(e, m) : e \in h} :
                           h \in ToSet(truncated(w.edges, maxWallEdges))} :
                    /\ Cardinality(g) = 2
                    /\ \A e \in g : resolveWallEdgeEndpoint(doc, e)},
       version |-> Max({1, w.version})]

=============================================================================

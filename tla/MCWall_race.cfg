SPECIFICATION Spec
CONSTANTS
  n1 = n1
  m1 = m1
  m2 = m2
  c1 = c1
  c2 = c2
  None = None
  NoteIds = {n1, m1}
  Clients = {c1}
  MaxLocal = 3
  MaxVersion = 3
  maxWallNotes = 2
  maxWallStories = 1
  maxWallEdges = 2
  DraftCounts <- PutSizes
  Payloads <- MCPayloads
INVARIANT StoryEdgesPlaced

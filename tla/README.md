# Scrumboy: a TLA+ verification project

Scrumboy is a self-hosted kanban and scrum board. A Go server (`cmd/scrumboy`,
`internal/`) keeps its data in one SQLite database and image files beside it,
and serves a REST API, server-sent event streams, an MCP endpoint for agents and
a TypeScript single-page client. This directory holds TLA+ models of the parts
of the server whose state is shared between requests, goroutines and restarts,
the TLC configurations that check them on small instances, and TLAPS proofs for
the board.

Two facts about the server shape every module:

- The database pool has one connection (`internal/db/db.go:55`), so SQL
  transactions never overlap. A transaction is one action. Requests interleave
  *between* their transactions, and anything read in one and used in the next
  may be stale.
- Row ids are `INTEGER PRIMARY KEY` without `AUTOINCREMENT`, and story and
  sprint numbers are the largest in use plus one. All of them come back after
  the newest row is deleted.

A request that is refused rolls back and changes nothing, so only accepted
requests are actions, unless a refusal ends something that was begun earlier.
Authorization is taken as given, except where the code checks it again later.

## Inventory

What each part keeps, what changes it, and what makes it hard. `PROJECT.json`
lists every component, with the reason for those left out, and every hazard at
its source line.

| Part | State | Operations | Hard behaviours | Module |
|---|---|---|---|---|
| Card order (`store/ordering.go`) | rank per card | compute a rank, renumber a lane | exhausted gaps, equal ranks | `Ordering` |
| Board (`store/todos.go`, `workflows.go`, `todo_archival.go`) | cards, columns | create, move, archive, restore, delete; add and delete columns | stale neighbours, archived cards in deleted columns | `Board` |
| Stories and links (`store/todos.go`, `links.go`, `application/todo`) | stories, numbers, links | create, sparse update, delete, link, archive | copies read earlier, ids and numbers that come back | `Stories` |
| Sprints (`store/sprints.go`, `application/sprint`) | sprints, switch, assignments | create, update, activate, close, delete, assign, switch off | prepared requests, ids shared by projects | `Sprints` |
| Wall (`store/wall.go`) | one JSON row, placements | notes, edges, pinned stories, replace, merge a backup | read-modify-write under an in-process mutex | `WallDoc`, `WallAtomic`, `Wall` |
| Inline images (`store/assets*.go`, `application/asset`, `assets/blobstore`) | files, rows, references | upload, save, collect, sweep, reconcile, delete project | file and row are not one transaction; crashes; older binaries | `Assets` |
| Webhook and mail delivery (`httpapi/delivery_*.go`) | queue, worker, contexts | enqueue, drain, send, retry, shut down | lost wake-ups, lost answers, deadline of the shutdown | `Delivery` |
| Public streams (`httpapi/public_hub.go`, `sse.go`) | registrations, slots, channels | admit, revalidate, refresh, revoke, shut down | revocation races admission | `PublicStreams` |
| Signed-in and anonymous streams (`httpapi/hub.go`, `sse.go`, `streamslots.go`) | registry, channels, slots | subscribe, emit, evict, forward, clean up | snapshot sent after unlock, backpressure | `Hub` |
| Due-date reminders | claim marker per card | arm, claim, deliver | crash between claim and delivery | planned |
| Backup replacement | staged projects | stage, swap, reap | crash between stage and swap | planned |
| Single-use tokens (2FA, OAuth, OIDC) | tokens, codes, attempts | issue, match, consume, rotate | check and use in two steps | planned |
| Members and roles; tags; priorities; custom fields; calendars; anonymous boards | rows | create, change, delete | deletion of something in use | planned |
| Web client | cached board, streams | reload, optimistic change, reconnect | late answers | planned |

How they interact: a request handler calls an application service, which runs
store transactions and then publishes a domain event. The event bus calls its
consumers one after the other. The SSE bridges emit to `Hub` and `PublicHub`;
the webhook, mail and push dispatchers enqueue deliveries. Deleting or editing a
story touches cards, links, sprint assignment, wall placements and image
references in the same transaction; each module models its share of it.

## Modules

**Ordering** is `store/ordering.go` as operators on a *lane*, the function from
the active cards of a column to their ranks. `computeNewRank` accepts or refuses,
`settledLane` renumbers when the gap is used up, `newRank` is the result.

**Board** holds `workflow` (columns with position and done flag) and `todos`
(column, rank, archived, done stamp). Its actions are the transactions of the
store. Row ids are any id above the project's own, because other projects share
the table.

**Stories** holds `todos`, `links` and the `requests` on their way. An agent's
update goes through `PrepareTodo` (the copy), `GetTodoByLocalID` (the row id) and
`UpdateTodo`; a deletion through the last two. The title stands for the fields
an update replaces, the body for the one it may also append to.

**Sprints** holds the sprints of several projects, the per-project switch, the
stories' assignments and prepared updates. `PrepareUpdate` and `UpdateSprint` are
the two transactions of a definition update.

**WallDoc** says what each note or edge request does to the document it read.
**Wall** runs it as the code does: take `lockWall`, read, write the whole row,
release. **WallAtomic** is the abstract wall, in which each request is one step.
`Wall!WritesAreAtomic` states that `Wall` implements `WallAtomic` under the
identity mapping of board, wall and placements, with one exception that the
formula spells out. Merging a backup (`MergeBackup`) and creating a story do not
take the lock. A request that holds the lock while a backup is merged is
*overtaken*, and its write (`OvertakenWrite`) brings the old document back. The
history variables `overtaken` and `overwritten` record this; no action reads
them. A merged backup brings stories and, perhaps, a wall. Each story keeps its
number or gets a new one (`land`), the new numbers are recorded
(`importedTodos`), and placements and lines of its wall are renumbered, filtered
and cut to the limits (`resolveStory`, `importedPlacements`, `importedRow`). The
other fields of a story are left to `Stories`.

**Assets** follows an upload through its steps (dedupe pre-check, advisory
budget check, pending hold, file, row, cleanup), the janitor through
reconciliation, collection and sweep, and project deletion through its commit and
its file removals. `Restart` forgets the memory of the process; an older binary
may have edited a story meanwhile. Ages are two-valued: a draft is within its
retention or expired, a file within its grace period or old.

**Delivery** is the queue, its one-slot wake-up channel, the worker with its
attempts, and `Server.Close` in its steps: seal, link to the deadline, cancel,
wait. The endpoint may receive a request whose answer is lost. `Withdraw` is a
webhook deleted or a recipient who no longer qualifies. A request may publish
until the whole shutdown has returned, because the drain of the HTTP server is
bounded. An attempt that cannot be made settles its delivery as failed or, where
the mailer finds nothing left to send, as skipped.

**PublicStreams** has one action per step of `handlePublicBoardEvents`, and one
per operation of the hub, which runs under its mutex. Unpublishing and deleting
commit first and revoke in a later step, except a deletion through MCP
(`deletedByMCP`), which has no such step.

**Hub** separates what `Emit` does under the lock (`Snapshot`) from each send
(`Send`), and the removal of a subscriber from the closing of its channel. A
merged stream has a forwarding step per subscription (`Take`, `Put`). A send on a
closed channel panics and ends the rest of its snapshot.

The `MC*` modules name the constants of the instances. `OrderingProofs` and
`BoardProofs` hold the theorems. Definitions named `Mut...` are deliberately
wrong variants of the definition after them, one for each property; replacing the
right one by the wrong one makes TLC report the property.

## Runs

Eleven runs end without an error; `wall_race` is there for the violation it
reports. Numbers are distinct states. The
invariants named after their module (`BoardInv`, `AssetsInv`, `SprintsInv`,
`WallInv`, `StoriesInv`, `DeliveryInv`, `StreamsInv`, `HubInv`) join its type
invariant with what its transactions keep consistent.

| Run | Instance | What it shows |
|---|---|---|
| `board_order` (98,522) | 2 columns, 3 row ids, `RankStep` 2, ranks to 6 | a rank can always be computed, requested places are honoured, nobody else changes places, archived cards stay put |
| `board_workflow` | 4 column keys, 2 row ids | no card without a column, positive ranks, stamped done cards (`BoardInv`); columns stay a gapless sequence with one done column |
| `stories` | 2 projects, 2 clients, 2 rows, 2 numbers | numbers are unique, links join stories, a sparse patch keeps what others wrote, links of archived stories are frozen |
| `sprints` (68,642) | 2 projects, 2 sprint rows, 2 dates, 1 client | one active sprint, unique numbers and names, stamps match states, stories in own sprints, lifecycle forward only, switched off means frozen |
| `wall` (223,998) | 2 clients, 2 note ids, story numbers to 3, 4 backups, limits of 2 notes, 1 story, 2 edges | the locked wall implements the atomic one but for overtaken requests; versions count changes; lines keep their notes through deletions; a merged wall shows its stories under their new numbers |
| `wall_race` | the same with 1 client | violated: a line is left on a story that is not on the wall, after a merge between a read and its write |
| `assets_images` (1.75 M) | 2 identities, 2 contents of different size, 2 uploads, 2 stories, 1 restart | rows keep their files, references match bodies, embedded images are never collected, one row per content, budget kept |
| `assets_orphans` (202,396) | 1 content, 1 upload, 1 restart, 1 removal hold | files without a row are eventually unlinked |
| `delivery_queue` (5.0 M) | 3 deliveries, queue of 2, 2 attempts | order, settlement before the deadline, one late attempt at most, nothing sent after a withdrawal |
| `delivery_progress` | 2 deliveries | no lost wake-up; `Close` ends |
| `publicstreams` (100,021) | 2 visitors of one board, one slot for their address, 3 changes of publication, deletion through REST or MCP | slots are counted; a revocation is on its way to every stream admitted too long unless the project was deleted through MCP; changes and revocations arrive; streams are cut off, after a deletion through MCP by the revalidation |
| `hub` (2.2 M) | 1 merged and 2 anonymous streams, one slot, 2 events, channels of 1 | nothing leaks, messages keep their order, a full channel ends its subscription: nothing is sent on it after the message it missed |

**Bounds.** They are chosen so that the limits are met. With `RankStep` 2 a gap
is used up by the first insertion, so renumbering, ties and ranks below one step
occur with three cards; the proofs cover every step. The queue is smaller than
the number of deliveries, channels hold one element, there are fewer slots than
streams. Two rows suffice for an id or a number to come back in the other
project. Two images fill the budget. One restart reaches a crash at every step.
The bounds on versions, ranks, rows and changes only cut behaviours short.
Larger instances of `Sprints` and `Stories` (a third row) exceed the time a run
should take.

**Symmetry** is used only in runs without liveness properties, over sets whose
members the module never orders.

**Deadlock** is not checked where the system may come to rest: all streams ended
(`PublicStreams`, `Hub`), or the project deleted (`Assets`).

**Fairness.** Safety runs assume none.

- `Delivery`: weak fairness of the worker, of started producers and of `Close`
  once called. They are goroutines, sends have timeouts, and the backoff is
  bounded. The passing of the deadline is not assumed.
- `PublicStreams`: weak fairness of the revocation that follows a commit in the
  same request, and of each handler, whose ticker fires at a fixed interval.
- `Assets`: weak fairness of uploads, of the janitor, of removals, of file age
  and of the operator lifting a removal hold; strong fairness of the start of the
  sweep, which the janitor schedules on a ticker of its own, so other work does
  not put it off for ever.

## Proofs

TLAPS checks these for every value of the constants that satisfies their named
assumptions (`RankStep >= 2`, finite `Keys`, at least two columns allowed,
natural bounds). They need no bound on cards, columns or ranks.

- `OrderingProofs`: `NewRankBetween` (the new rank is positive and strictly
  between its neighbours after a possible renumbering) and `GapAlwaysFound` (after
  a renumbering there is room between any two ordered cards, so the last conflict
  of `computeNewRank` is never returned). The argument: `Precedes` is a strict
  order; row numbers grow along it; so renumbered ranks are at least `RankStep`
  apart, and half of such a gap is strictly inside it.
- `BoardProofs`: `BoardSafe` (`BoardInv`: types, `CardsHaveColumns`,
  `RanksPositive`, `DoneCardsAreStamped`), `RankComputable`, and the action properties `Placement`,
  `AppendLast`, `OrderKept` and `ArchivedStay`.

The inductive invariant is `BoardInv` itself, a conjunction of four parts. They
need one another: a positive new rank needs positive ranks in
the lane, the done stamp of a card needs its column to exist, and
`DeleteWorkflowColumn` keeps columns only because it counts archived cards. The
action properties use `BoardInv` in the state before and `LanesAfterPlacing`,
which says what a create or a move does to its own lane and to the others.

Only model-checked: `WorkflowShape` (its proof needs the cardinality of an
interval image, planned), every property of the other modules, and all liveness
properties, which are out of reach of the prover.

## Disagreements

Statements in the repository that the code does not satisfy. The modules state
them as definitions; to reproduce one, put the definition in the configuration
named, without its symmetry. `wall_race` checks one of them. Where a checked property is about the same behaviour, its
formula names the case that is excepted, and no instance leaves the conflicting
operation out.

| Statement | Where it is said | What happens | Reproduce |
|---|---|---|---|
| `Hub!PublishingSucceeds` | `httpapi/server.go:1256` "Best-effort: callers should not fail HTTP requests on publish errors" | `Emit` sends after its unlock; a stream that left in between has closed its channel and the send panics in the publishing request. `public_hub.go:91` knows the "snapshot/send-after-unlock close race" of the hub | `MCHub_streams` |
| `Hub!NobodyGoesOnWithAGap` | `httpapi/hub.go:81` "slow subscribers are disconnected" | a merged stream evicted from one subscription stays open without it; and when a send panics, the streams behind it in the snapshot miss the message and get the next | `MCHub_streams` |
| `PublicStreams!NoStaleAdmission` | `httpapi/sse.go:53` "A committed unpublish or project deletion calls PublicHub.RevokePublicProject" | a deletion through MCP publishes nothing; streams end at the next tick of the revalidation instead | `MCPublicStreams_streams` |
| `Delivery!PublishedAreEnqueued` | `cmd/scrumboy/main.go:354` "so any final todo.assigned events are published and enqueued before the webhook worker is stopped" | the goroutine that enqueues is not waited for and may find the queue sealed | `MCDelivery_queue` |
| `Stories!RequestsReachTheirStory` | migration `008:2` "We keep todos.id as the internal immutable key" | the id resolved by one transaction may belong to another story, of another project, in the next | `MCStories_stories` |
| `Sprints!UpdatesStayInTheirProject` | `application/sprint/rest_definition.go:84` "binds the exact authorized context, project identity, and verified stored sprint ID" | the store uses the id only; it may have passed to a sprint of another project | `MCSprints_sprints` |
| `Sprints!PlannedDatesOrdered` | `store/sprints.go:601` "end_at must be >= start_at" | an update of the start alone is not compared with the end | `MCSprints_sprints` |
| `Assets!RowsHaveFiles` | `store/assets.go:126` "the file must already be fully written"; migration `078:4` "never reused" | the row found by the dedupe pre-check is collected before `CreateProjectAsset`, which inserts it again without a file | `MCAssets_images` |
| `Wall!StoryEdgesPlaced` | `store/todos.go:1059` "no stale story edge can be written while a placement disappears" | merging a backup does not take `lockWall`; an edge request writes back the document it read before | run `wall_race` |
| `WallAtomic!AtomicSpec` | `store/wall.go:77` "Per-project mutex guards read/modify/write on the single JSON row" | the same race: the merged notes and lines are lost | `MCWall_wall` |
| `Wall!VersionTellsWallsApart` | `store/wall.go:34` "The document-level `version` on Wall is the only realtime fingerprint" | a merged backup sets the version it carries, which may be the one the wall has | `MCWall_wall` |
| `Wall!NoteEdgesResolve` | `store/wall.go:620` "dangling edges would be invisible to the client and waste storage" | replacing all notes keeps the edges | `MCWall_wall` |

## Not modelled

`PROJECT.json` gives the reason per component. In short: rendering, wording,
parsing and image decoding are pure; reports and public projections only read;
the mobile shell, the Agora adapter and the plugin hold no state of their own.
SQLite, the file system and the network appear as the code uses them: a
transaction is atomic, a file operation is one step that may fail, a send may
lose its answer.

## Plan

1. `Reminders`: arming, batched claims, delivery and restarts; a reminder is
   claimed at most once per arming, no overdue card is announced, a full batch is
   followed by the next.
2. `BackupReplace`: staging, swap, cleanup and reaping under crashes; the abstract
   specification is a replacement in one step.
3. `Tokens`: two-factor logins, recovery codes, OAuth codes and refresh tokens;
   each is consumed at most once and a rolled-back rotation leaves the old one.
4. `Members`: roles and the last owner; `Tags` and `Priorities`: deletion while in
   use; `Calendar`: a refresh that races a change of its source.
5. `Client`: the board cache of the web client against events and late answers.
6. An abstract specification of delivery (a bounded queue that loses only what it
   refused) for `Delivery` to implement; a composition of `Stories` and `Wall` over
   the shared deletion.
7. Proofs: `WorkflowShape`; `Wall` implements `WallAtomic`, with the lock invariant;
   `Sprints` (one active sprint, lifecycle); `Stories` (links, sparse patches);
   `Hub` and `PublicStreams` (slots); `Delivery` (settled for good).

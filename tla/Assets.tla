------------------------------- MODULE Assets -------------------------------
(***************************************************************************)
(* Inline images of one project: files on disk                             *)
(* (internal/assets/blobstore), their rows and references in the database  *)
(* (internal/store/assets*.go and the triggers of migration 078), the      *)
(* upload service and the janitor (internal/application/asset).            *)
(*                                                                         *)
(* A file is written before its row and unlinked after its row's deletion  *)
(* has committed; uploads, saves, the janitor and project deletion         *)
(* interleave between those steps, and the process may crash anywhere.     *)
(* Each action is one SQL transaction, one file operation or one step on   *)
(* process memory.                                                         *)
(***************************************************************************)
EXTENDS Integers, FiniteSets, FiniteSetsExt

CONSTANTS
  Uuids,        \* asset identities
  Shas,         \* image contents
  Todos,        \* story row ids, 1 .. n
  Uploaders,    \* concurrent upload requests
  size,         \* what each content takes of the budget
  Budget,       \* AssetBudgets.ProjectBytes
  BatchLimit,   \* stories per reconciliation transaction (200 in the code)
  MaxRestarts,  \* bound: process restarts
  MaxHolds,     \* bound: times the operator sets the removal hold
  None

ASSUME AssetsAssumption ==
  /\ Todos = 1 .. Cardinality(Todos)
  /\ size \in [Shas -> Nat \ {0}]
  /\ Budget \in Nat /\ BatchLimit \in Nat \ {0}
  /\ MaxRestarts \in Nat /\ MaxHolds \in Nat
  /\ None \notin Uuids

VARIABLES
  live,       \* the project exists
  rows,       \* project_assets: uuid -> [sha, unref]
  refs,       \* todo_assets: set of <<story, uuid>>
  bodies,     \* todos: story -> uuids its body embeds canonically
  files,      \* uuid -> "new" or "old" (older than OrphanFileGrace)
  hold,       \* DATA_DIR/assets/.removal-hold exists
  pending,    \* blobstore.Pending
  upload,     \* uploader -> [pc, sha, uuid, result]
  janitor,    \* [pc, listing, batch, cursor, reconciled]
  unlinking,  \* files a deleted project's RemoveFiles call still has to remove
  published,  \* uuids a client may have seen
  collected,  \* history: uuids whose row was deleted
  restarts, holds

vars == <<live, rows, refs, bodies, files, hold, pending, upload, janitor,
          unlinking, published, collected, restarts, holds>>
database == <<live, rows, refs, bodies, published, collected>>
disk == <<files, hold, holds>>

\* unreferenced_at against now: NULL, within DraftRetention, past it.
Unref == {"referenced", "draft", "expired"}
Idle == [pc |-> "idle", sha |-> None, uuid |-> None, result |-> None]
Janitor0 == [pc |-> "idle", listing |-> {}, batch |-> {}, cursor |-> 0, reconciled |-> FALSE]

Init ==
  /\ live = TRUE
  /\ rows = [u \in {} |-> None] /\ refs = {} /\ bodies = [t \in {} |-> {}]
  /\ files = [u \in {} |-> "new"] /\ hold = FALSE
  /\ pending = {} /\ upload = [p \in Uploaders |-> Idle]
  /\ janitor = Janitor0 /\ unlinking = {}
  /\ published = {} /\ collected = {} /\ restarts = 0 /\ holds = 0
-----------------------------------------------------------------------------
Referenced(R, u) == \E r \in R : r[2] = u

\* trg_todo_assets_referenced and trg_todo_assets_unreferenced, for all the
\* references one transaction inserts and deletes.
AfterTriggers(R, newRefs) ==
  [u \in DOMAIN R |->
     IF Referenced(newRefs \ refs, u) THEN [R[u] EXCEPT !.unref = "referenced"]
     ELSE IF Referenced(refs, u) /\ ~Referenced(newRefs, u) THEN [R[u] EXCEPT !.unref = "draft"]
     ELSE R[u]]

\* The references of the stories T become the embedded uuids that have a row.
\* Mutant: references are only ever added.
MutSyncOnlyAdds(T, B) ==
  refs \cup {r \in T \X DOMAIN rows : r[2] \in B[r[1]]}
syncTodoAssetsTx(T, B) ==
  {r \in refs : r[1] \notin T} \cup {r \in T \X DOMAIN rows : r[2] \in B[r[1]]}

Without(f, S) == [x \in DOMAIN f \ S |-> f[x]]

\* blobstore.Remove leaves the file while the removal hold exists.
AfterRemove(S) == IF hold THEN files ELSE Without(files, S)
-----------------------------------------------------------------------------
\* UpdateTodo and CreateTodo write a body and its references together.
SaveTodo(t, B) ==
  /\ live /\ B \subseteq published
  /\ LET newBodies == [x \in DOMAIN bodies \cup {t} |-> IF x = t THEN B ELSE bodies[x]]
         newRefs == syncTodoAssetsTx({t}, newBodies)
     IN  /\ bodies' = newBodies
         /\ refs' = newRefs
         /\ rows' = AfterTriggers(rows, newRefs)
  /\ UNCHANGED <<live, files, hold, pending, upload, janitor, unlinking, published,
                 collected, restarts, holds>>

DeleteTodo(t) ==
  /\ t \in DOMAIN bodies
  /\ bodies' = Without(bodies, {t})
  /\ refs' = {r \in refs : r[1] # t}
  /\ rows' = AfterTriggers(rows, refs')
  /\ UNCHANGED <<live, files, hold, pending, upload, janitor, unlinking, published,
                 collected, restarts, holds>>

\* The files are listed in the deleting transaction and removed after it.
DeleteProject ==
  /\ live /\ live' = FALSE
  /\ bodies' = Without(bodies, Todos) /\ refs' = {} /\ rows' = Without(rows, Uuids)
  /\ unlinking' = unlinking \cup DOMAIN rows
  /\ collected' = collected \cup DOMAIN rows
  /\ UNCHANGED <<files, hold, pending, upload, janitor, published, restarts, holds>>

RemoveFiles(u) ==
  /\ u \in unlinking
  /\ unlinking' = unlinking \ {u}
  /\ files' = AfterRemove({u})
  /\ UNCHANGED <<database, hold, holds, pending, upload, janitor, restarts>>
-----------------------------------------------------------------------------
AssetsWithSHA(sha) == {u \in DOMAIN rows : rows[u].sha = sha}

used == MapThenSumSet(LAMBDA u : size[rows[u].sha], DOMAIN rows)
check(sha) == used + size[sha] <= Budget

\* The transaction repeats both checks.
\* Mutant: the budget check is only done before it.
findProjectAssetBySHATx(sha) == AssetsWithSHA(sha)
MutBudgetOnlyBefore(sha) == TRUE
checkAssetBudgetTx(sha) == check(sha)
\* Mutant: a reused draft keeps its old clock.
MutNoRefresh(unref) == unref
refreshDedupedAssetTx(unref) == IF unref = "referenced" THEN unref ELSE "draft"

\* The three outcomes of CreateProjectAsset.  The authorization is repeated in
\* the transaction and may fail at any time (role revoked, story archived).
dedupes(sha, e) ==
  /\ live /\ e \in findProjectAssetBySHATx(sha)
  /\ rows' = [rows EXCEPT ![e].unref = refreshDedupedAssetTx(@)]
  /\ UNCHANGED published
inserts(sha, u) ==
  /\ live /\ findProjectAssetBySHATx(sha) = {} /\ u \notin DOMAIN rows /\ checkAssetBudgetTx(sha)
  /\ rows' = [x \in DOMAIN rows \cup {u} |->
                IF x = u THEN [sha |-> sha, unref |-> "draft"] ELSE rows[x]]
  /\ published' = published \cup {u}
refuses == UNCHANGED <<rows, published>>

\* Upload: the dedupe pre-check.
FindProjectAssetBySHA(p, sha) ==
  /\ upload[p].pc = "idle" /\ live
  /\ \/ \E e \in AssetsWithSHA(sha) :
          upload' = [upload EXCEPT ![p] = [Idle EXCEPT !.pc = "found", !.sha = sha, !.uuid = e]]
     \/ /\ AssetsWithSHA(sha) = {}
        /\ upload' = [upload EXCEPT ![p] = [Idle EXCEPT !.pc = "absent", !.sha = sha]]
  /\ UNCHANGED <<database, disk, pending, janitor, unlinking, restarts>>

\* The pre-check found a row: CreateProjectAsset runs with that row's uuid and
\* writes no file.
UploadReuse(p) ==
  /\ upload[p].pc = "found"
  /\ \/ \E e \in AssetsWithSHA(upload[p].sha) :
          /\ dedupes(upload[p].sha, e)
          /\ upload' = [upload EXCEPT ![p].pc = "returned", ![p].result = e]
     \/ /\ inserts(upload[p].sha, upload[p].uuid)
        /\ upload' = [upload EXCEPT ![p].pc = "returned", ![p].result = upload[p].uuid]
     \/ /\ refuses
        /\ upload' = [upload EXCEPT ![p] = Idle]
  /\ UNCHANGED <<live, refs, bodies, collected, disk, pending, janitor, unlinking, restarts>>

\* The advisory budget check, a fresh uuid and its pending hold.
CheckAssetBudget(p) ==
  /\ upload[p].pc = "absent"
  /\ \/ /\ check(upload[p].sha)
        /\ \E u \in Uuids \ (published \cup DOMAIN files \cup pending) :
             /\ pending' = pending \cup {u}
             /\ upload' = [upload EXCEPT ![p].pc = "holding", ![p].uuid = u]
     \/ /\ ~check(upload[p].sha)
        /\ upload' = [upload EXCEPT ![p] = Idle]
        /\ UNCHANGED pending
  /\ UNCHANGED <<database, disk, janitor, unlinking, restarts>>

\* Releasing a pending hold.  Mutant: the release is forgotten.
MutHoldLeaks(u) == pending
released(u) == pending \ {u}

\* A failed write removes its partial file unless the removal hold is set.
CreateExclusive(p) ==
  /\ upload[p].pc = "holding"
  /\ LET u == upload[p].uuid
         written == [x \in DOMAIN files \cup {u} |-> IF x = u THEN "new" ELSE files[x]]
     IN  \/ /\ files' = written
            /\ upload' = [upload EXCEPT ![p].pc = "written"]
            /\ UNCHANGED pending
         \/ /\ files' = IF hold THEN written ELSE files
            /\ upload' = [upload EXCEPT ![p] = Idle]
            /\ pending' = released(u)
  /\ UNCHANGED <<database, hold, holds, janitor, unlinking, restarts>>

\* The row makes the file reachable; otherwise the file has to go again.
CreateProjectAsset(p) ==
  /\ upload[p].pc = "written"
  /\ \/ /\ inserts(upload[p].sha, upload[p].uuid)
        /\ upload' = [upload EXCEPT ![p].pc = "returned", ![p].result = upload[p].uuid]
        /\ pending' = released(upload[p].uuid)
     \/ \E e \in AssetsWithSHA(upload[p].sha) :
          /\ dedupes(upload[p].sha, e)
          /\ upload' = [upload EXCEPT ![p].pc = "cleanup", ![p].result = e]
          /\ UNCHANGED pending
     \/ /\ refuses
        /\ upload' = [upload EXCEPT ![p].pc = "cleanup"]
        /\ UNCHANGED pending
  /\ UNCHANGED <<live, refs, bodies, collected, disk, janitor, unlinking, restarts>>

\* The file is removed first, the pending hold released after it.
UploadCleanup(p) ==
  /\ upload[p].pc = "cleanup"
  /\ files' = AfterRemove({upload[p].uuid})
  /\ pending' = released(upload[p].uuid)
  /\ upload' = [upload EXCEPT ![p] =
                  IF @.result = None THEN Idle ELSE [@ EXCEPT !.pc = "returned"]]
  /\ UNCHANGED <<database, hold, holds, janitor, unlinking, restarts>>

UploadReturn(p) ==
  /\ upload[p].pc = "returned"
  /\ upload' = [upload EXCEPT ![p] = Idle]
  /\ UNCHANGED <<database, disk, pending, janitor, unlinking, restarts>>
-----------------------------------------------------------------------------
\* The cursor moves to the last story of the batch.
nextAfter(items) ==
  IF items = {} THEN janitor.cursor ELSE CHOOSE t \in items : \A x \in items : x <= t

\* One goroutine runs the janitor.  RunReconcile: one transaction re-syncs the
\* next stories; the pass is over when it finds fewer than the limit.
RunReconcile ==
  /\ janitor.pc = "idle" /\ ~janitor.reconciled
  /\ LET after == {t \in DOMAIN bodies : t > janitor.cursor}
         items == {t \in after : Cardinality({x \in after : x < t}) < BatchLimit}
         newRefs == syncTodoAssetsTx(items, bodies)
     IN  /\ refs' = newRefs
         /\ rows' = AfterTriggers(rows, newRefs)
         /\ janitor' = [janitor EXCEPT
              !.cursor = nextAfter(items),
              !.reconciled = Cardinality(items) < BatchLimit]
  /\ UNCHANGED <<live, bodies, published, collected, disk, pending, upload, unlinking, restarts>>

\* CollectGarbageAssets: an expired asset that a body embeds gets its
\* references repaired instead.  The files go after the commit.
\* Mutant: the bodies are not looked at again.
MutNoCanonicalRecheck(u) == FALSE
embeddedCanonically(u) == \E t \in DOMAIN bodies : u \in bodies[t]

RunGC ==
  /\ janitor.pc = "idle" /\ janitor.reconciled
  /\ LET expired == {u \in DOMAIN rows : rows[u].unref = "expired"}
         repair == {u \in expired : embeddedCanonically(u)}
         notes == {t \in DOMAIN bodies : bodies[t] \cap repair # {}}
         newRefs == syncTodoAssetsTx(notes, bodies)
         deleted == {u \in expired \ repair : ~Referenced(newRefs, u)}
     IN  /\ expired # {}
         /\ refs' = newRefs
         /\ rows' = Without(AfterTriggers(rows, newRefs), deleted)
         /\ collected' = collected \cup deleted
         /\ janitor' = [janitor EXCEPT !.pc = IF deleted = {} THEN @ ELSE "unlink", !.batch = deleted]
  /\ UNCHANGED <<live, bodies, published, disk, pending, upload, unlinking, restarts>>

RunGCRemoveFile(u) ==
  /\ janitor.pc = "unlink" /\ u \in janitor.batch
  /\ files' = AfterRemove({u})
  /\ janitor' = [janitor EXCEPT !.batch = @ \ {u}, !.pc = IF janitor.batch = {u} THEN "idle" ELSE @]
  /\ UNCHANGED <<database, hold, holds, pending, upload, unlinking, restarts>>

\* RunSweep lists the files, keeps the old ones that are not in flight, looks
\* their rows up and removes those without one.
\* Mutant: files in flight are not spared.
MutNotHeld(u) == FALSE
Held(u) == u \in pending

SweepStart ==
  /\ janitor.pc = "idle" /\ ~hold /\ DOMAIN files # {}
  /\ janitor' = [janitor EXCEPT !.pc = "walk", !.listing = DOMAIN files, !.batch = {}]
  /\ UNCHANGED <<database, disk, pending, upload, unlinking, restarts>>

SweepVisit(u) ==
  /\ janitor.pc = "walk" /\ u \in janitor.listing
  /\ janitor' = [janitor EXCEPT !.listing = @ \ {u},
       !.batch = IF u \in DOMAIN files /\ files[u] = "old" /\ ~Held(u) THEN @ \cup {u} ELSE @]
  /\ UNCHANGED <<database, disk, pending, upload, unlinking, restarts>>

withoutRow(S) == S \ DOMAIN rows

ExistingAssetUUIDs ==
  /\ janitor.pc = "walk" /\ janitor.listing = {}
  /\ LET orphans == withoutRow(janitor.batch)
     IN  janitor' = [janitor EXCEPT !.pc = IF orphans = {} THEN "idle" ELSE "sweep", !.batch = orphans]
  /\ UNCHANGED <<database, disk, pending, upload, unlinking, restarts>>

SweepRemove(u) ==
  /\ janitor.pc = "sweep" /\ u \in janitor.batch
  /\ files' = IF Held(u) THEN files ELSE AfterRemove({u})
  /\ LET rest == IF hold /\ ~Held(u) THEN {} ELSE janitor.batch \ {u}
     IN  janitor' = [janitor EXCEPT !.batch = rest, !.pc = IF rest = {} THEN "idle" ELSE @]
  /\ UNCHANGED <<database, hold, holds, pending, upload, unlinking, restarts>>
-----------------------------------------------------------------------------
\* Time passes: a draft runs out its retention, a file its grace period.
ExpireDraft(u) ==
  /\ u \in DOMAIN rows /\ rows[u].unref = "draft"
  /\ rows' = [rows EXCEPT ![u].unref = "expired"]
  /\ UNCHANGED <<live, refs, bodies, published, collected, disk, pending, upload, janitor,
                 unlinking, restarts>>
AgeFile(u) ==
  /\ u \in DOMAIN files /\ files[u] = "new"
  /\ files' = [files EXCEPT ![u] = "old"]
  /\ UNCHANGED <<database, hold, holds, pending, upload, janitor, unlinking, restarts>>

SetHold ==
  /\ ~hold /\ holds < MaxHolds
  /\ hold' = TRUE /\ holds' = holds + 1
  /\ UNCHANGED <<database, files, pending, upload, janitor, unlinking, restarts>>
LiftHold ==
  /\ hold /\ hold' = FALSE
  /\ UNCHANGED <<database, files, holds, pending, upload, janitor, unlinking, restarts>>

\* A crash or restart forgets the memory of the process.  An older binary may
\* have run in between and edited a story without syncing its references.
Restart(edited) ==
  /\ restarts < MaxRestarts /\ restarts' = restarts + 1
  /\ bodies' = edited
  /\ pending' = {} /\ upload' = [p \in Uploaders |-> Idle]
  /\ janitor' = Janitor0 /\ unlinking' = {}
  /\ UNCHANGED <<live, rows, refs, published, collected, disk>>

UploadStep(p) ==
  \/ UploadReuse(p) \/ CheckAssetBudget(p) \/ CreateExclusive(p)
  \/ CreateProjectAsset(p) \/ UploadCleanup(p) \/ UploadReturn(p)
JanitorStep ==
  \/ RunReconcile \/ RunGC \/ SweepStart \/ ExistingAssetUUIDs
  \/ \E u \in Uuids : RunGCRemoveFile(u) \/ SweepVisit(u) \/ SweepRemove(u)

Next ==
  \/ \E t \in Todos : DeleteTodo(t) \/ \E B \in SUBSET published : SaveTodo(t, B)
  \/ DeleteProject
  \/ \E p \in Uploaders : UploadStep(p) \/ \E sha \in Shas : FindProjectAssetBySHA(p, sha)
  \/ JanitorStep
  \/ \E u \in Uuids : RemoveFiles(u) \/ ExpireDraft(u) \/ AgeFile(u)
  \/ SetHold \/ LiftHold
  \/ Restart(bodies)
  \/ \E t \in DOMAIN bodies, B \in SUBSET published : Restart([bodies EXCEPT ![t] = B])

Spec == Init /\ [][Next]_vars

\* Requests and the janitor loop keep running, time passes, and the operator
\* lifts the hold once the backup is taken.  The sweep comes round every day,
\* so it is not put off for ever by other janitor work.
Fairness ==
  /\ \A p \in Uploaders : WF_vars(UploadStep(p))
  /\ WF_vars(JanitorStep) /\ SF_vars(SweepStart)
  /\ \A u \in Uuids : WF_vars(AgeFile(u)) /\ WF_vars(RemoveFiles(u))
  /\ WF_vars(LiftHold)
FairSpec == Spec /\ Fairness
-----------------------------------------------------------------------------
\* Rows, files, requests and the janitor have their types.
TypeOK ==
  /\ live \in BOOLEAN /\ hold \in BOOLEAN /\ restarts \in 0 .. MaxRestarts /\ holds \in 0 .. MaxHolds
  /\ DOMAIN rows \subseteq Uuids /\ rows \in [DOMAIN rows -> [sha : Shas, unref : Unref]]
  /\ refs \subseteq Todos \X Uuids
  /\ DOMAIN bodies \subseteq Todos /\ bodies \in [DOMAIN bodies -> SUBSET Uuids]
  /\ DOMAIN files \subseteq Uuids /\ files \in [DOMAIN files -> {"new", "old"}]
  /\ pending \subseteq Uuids /\ unlinking \subseteq Uuids
  /\ published \subseteq Uuids /\ collected \subseteq published
  /\ upload \in [Uploaders ->
       [pc : {"idle", "found", "absent", "holding", "written", "cleanup", "returned"},
        sha : Shas \cup {None}, uuid : Uuids \cup {None}, result : Uuids \cup {None}]]
  /\ janitor \in [pc : {"idle", "unlink", "walk", "sweep"}, listing : SUBSET Uuids,
                  batch : SUBSET Uuids, cursor : Todos \cup {0}, reconciled : BOOLEAN]

\* unreferenced_at is NULL exactly when a todo_assets row exists, whichever
\* save, deletion, cascade, reconciliation or repair changed the references.
UnreferencedMatchesRefs ==
  \A u \in DOMAIN rows : rows[u].unref = "referenced" <=> Referenced(refs, u)

\* insertProjectAssetTx: "the file must already be fully written".  Every row
\* has its file, so no note shows a broken image.
RowsHaveFiles == DOMAIN rows \subseteq DOMAIN files

\* A row that was never collected has its file, through uploads, crashes,
\* sweeps, collections and removal holds in any order, and the sweep never
\* takes the file of an upload that is about to insert its row.
LiveRowsHaveFiles ==
  /\ DOMAIN rows \ collected \subseteq DOMAIN files
  /\ \A p \in Uploaders : upload[p].pc = "written" => upload[p].uuid \in DOMAIN files

\* Once this process has reconciled a story, its references are exactly the
\* images its body embeds, even if an older binary had edited the body.
RefsMatchBodies ==
  \A t \in DOMAIN bodies : janitor.reconciled \/ t <= janitor.cursor =>
    \A u \in DOMAIN rows \ collected : <<t, u>> \in refs <=> u \in bodies[t]

\* Concurrent uploads of the same bytes end in one row.
OneRowPerContent == \A u, v \in DOMAIN rows : rows[u].sha = rows[v].sha => u = v

\* Concurrent uploads that each fit the budget do not exceed it together.
BudgetKept == used <= Budget

\* The rows are consistent whatever runs concurrently: CreateProjectAsset
\* repeats the dedupe and the budget check in its transaction, and the triggers
\* keep unreferenced_at in step with the references.
AssetsInv == TypeOK /\ OneRowPerContent /\ BudgetKept /\ UnreferencedMatchesRefs

\* While the project lives, collection never deletes the row of an image that
\* some story's body embeds.
EmbeddedStep ==
  live' => \A u \in DOMAIN rows \ DOMAIN rows' : \A t \in DOMAIN bodies' : u \notin bodies'[t]
EmbeddedNeverCollected == [][EmbeddedStep]_vars

\* CreateProjectAsset restarts the draft window of what an upload will return,
\* so collection cannot take it before the client had time to save.
ReturnStep ==
  \A p \in Uploaders : upload[p].result = None /\ upload'[p].result # None =>
    /\ upload'[p].result \in DOMAIN rows'
    /\ rows'[upload'[p].result].unref # "expired"
UploadsReturnDrafts == [][ReturnStep]_vars

\* A file without a row is eventually unlinked (or gets its row), whatever
\* left it behind: a crash, a failed upload, a lost removal or a hold.
OrphansReclaimed ==
  \A u \in Uuids : (u \in DOMAIN files \ DOMAIN rows) ~> (u \notin DOMAIN files \/ u \in DOMAIN rows)
=============================================================================

------------------------------- MODULE Stories --------------------------------
(***************************************************************************)
(* Stories (rows of todos), their numbers and the links between them        *)
(* (store/todos.go, store/links.go, application/todo, application/todolink).*)
(*                                                                          *)
(* A story has a row id, which the database hands out, and a number within  *)
(* its project, which users see.  Both are the highest in use plus one, so  *)
(* both come back when the newest story is deleted.  A request names the    *)
(* number; one transaction resolves it to the row id (GetTodoByLocalID) and *)
(* a later one changes the row with that id, after an agent's update has    *)
(* read the story once more to validate its patch.  Links hold numbers and  *)
(* are not tied to todos by a foreign key.                                  *)
(*                                                                          *)
(* The title stands for the fields an update replaces, the body for the one *)
(* it may also append to; a body is the sequence of texts put into it.      *)
(***************************************************************************)
EXTENDS Integers, Sequences, FiniteSets

CONSTANTS
  Projects,
  Clients,     \* the requests that may be running at once
  Titles,      \* the titles users give
  Texts,       \* the paragraphs they write
  Patches,     \* the sparse patches agents send
  MaxRow,      \* bound: the highest row id
  MaxLocal,    \* bound: the highest number in a project
  MaxBody,     \* bound: how many texts a body holds
  None

(* A sparse patch: None is a field that is left out. *)
Patch == [title : Titles \cup {None}, body : {<<t>> : t \in Texts} \cup {None},
          append : Texts \cup {None}]

ASSUME StoriesAssumption ==
  /\ MaxRow \in Nat /\ MaxLocal \in Nat /\ MaxBody \in Nat
  /\ None \notin Titles \cup Texts
  /\ Patches \subseteq Patch

RowIds == 1..MaxRow
LocalIds == 1..MaxLocal

VARIABLES
  todos,      \* the rows of todos by row id
  links,      \* the rows of todo_links
  requests    \* per client, the update or deletion on its way

vars == <<todos, links, requests>>

Bodies == UNION {[1..n -> Texts] : n \in 0..MaxBody}

Todo == [project : Projects, local : LocalIds,
         title : Titles, body : Bodies, archived : BOOLEAN]

Link == [project : Projects, from : LocalIds, to : LocalIds]

Init ==
  /\ todos = [i \in {} |-> None]
  /\ links = {}
  /\ requests = [c \in Clients |-> None]

rowsOf(p) == {i \in DOMAIN todos : todos[i].project = p}

numbersOf(p) == {todos[i].local : i \in rowsOf(p)}

(* getTodoIDByLocalIDTx *)
hasNumber(i, p, l) == i \in rowsOf(p) /\ todos[i].local = l

above(k, S) == (\A j \in S : j < k) /\ (k = 1 \/ k - 1 \in S)

nextLocalId(p, l) == above(l, numbersOf(p))

-----------------------------------------------------------------------------
CreateTodo(p, t) ==
  \E i \in RowIds, l \in LocalIds :
    /\ above(i, DOMAIN todos)
    /\ nextLocalId(p, l)
    /\ todos' = [j \in DOMAIN todos \cup {i} |->
                   IF j = i THEN [project |-> p, local |-> l, title |-> t,
                                  body |-> <<>>, archived |-> FALSE]
                   ELSE todos[j]]
    /\ UNCHANGED <<links, requests>>

(* ArchiveTodos and RestoreTodos work by number in one transaction. *)
SetArchived(p, l, a) ==
  \E i \in DOMAIN todos :
    /\ hasNumber(i, p, l)
    /\ todos[i].archived # a
    /\ todos' = [todos EXCEPT ![i].archived = a]
    /\ UNCHANGED <<links, requests>>

-----------------------------------------------------------------------------
(* An update or a deletion by number. *)

(* The agent interface reads the story before it validates the patch.       *)
(* Requests of the web client carry every field and need no such copy.      *)
PrepareTodo(c, p, l, patch) ==
  \E i \in DOMAIN todos :
    /\ requests[c] = None
    /\ hasNumber(i, p, l)
    /\ requests' = [requests EXCEPT ![c] =
         [op |-> "update", project |-> p, local |-> l, patch |-> patch,
          existing |-> [title |-> todos[i].title, body |-> todos[i].body], id |-> None]]
    /\ UNCHANGED <<todos, links>>

RequestDelete(c, p, l) ==
  /\ requests[c] = None
  /\ requests' = [requests EXCEPT ![c] =
       [op |-> "delete", project |-> p, local |-> l, id |-> None]]
  /\ UNCHANGED <<todos, links>>

(* The first transaction of UpdateTodoByLocalID and DeleteTodoByLocalID.    *)
GetTodoByLocalID(c) ==
  LET r == requests[c] IN
  /\ r # None
  /\ r.id = None
  /\ UNCHANGED <<todos, links>>
  /\ \/ \E i \in DOMAIN todos :
          /\ hasNumber(i, r.project, r.local)
          /\ requests' = [requests EXCEPT ![c].id = i]
     \/ /\ r.local \notin numbersOf(r.project)
        /\ requests' = [requests EXCEPT ![c] = None]

resolved(c, op) == requests[c] # None /\ requests[c].id # None /\ requests[c].op = op

answered(c) == requests' = [requests EXCEPT ![c] = None]

(* The input of UpdateTodo: fields the patch leaves out are filled from the *)
(* copy, and marked to be kept.                                             *)
MutNothingKept(existing, patch) ==
  [title |-> IF patch.title # None THEN patch.title ELSE existing.title,
   body |-> IF patch.body # None THEN patch.body ELSE existing.body,
   keepTitle |-> FALSE, keepBody |-> FALSE,
   append |-> patch.append, bodyReplaces |-> patch.body # None]

MaterializeUpdateInput(existing, patch) ==
  [title |-> IF patch.title # None THEN patch.title ELSE existing.title,
   body |-> IF patch.body # None THEN patch.body ELSE existing.body,
   keepTitle |-> patch.title = None, keepBody |-> patch.body = None,
   append |-> patch.append, bodyReplaces |-> patch.body # None]

updatedBody(todo, in) ==
  LET kept == IF in.keepBody THEN todo.body ELSE in.body
      base == IF in.bodyReplaces THEN kept ELSE todo.body
  IN  IF in.append = None THEN kept ELSE Append(base, in.append)

updatedTitle(todo, in) == IF in.keepTitle THEN todo.title ELSE in.title

UpdateTodo(c) ==
  LET r == requests[c]
      in == MaterializeUpdateInput(r.existing, r.patch) IN
  /\ resolved(c, "update")
  /\ answered(c)
  /\ UNCHANGED links
  /\ IF /\ r.id \in DOMAIN todos
        /\ ~todos[r.id].archived
        /\ Len(updatedBody(todos[r.id], in)) <= MaxBody
     THEN todos' = [todos EXCEPT ![r.id] =
            [@ EXCEPT !.title = updatedTitle(todos[r.id], in),
                      !.body = updatedBody(todos[r.id], in)]]
     ELSE UNCHANGED todos

MutLinksStay(p, l) == links

withoutLinksOf(p, l) == {k \in links : ~(k.project = p /\ l \in {k.from, k.to})}

DeleteTodo(c) ==
  LET r == requests[c] IN
  /\ resolved(c, "delete")
  /\ answered(c)
  /\ IF r.id \in DOMAIN todos
     THEN /\ todos' = [i \in DOMAIN todos \ {r.id} |-> todos[i]]
          /\ links' = withoutLinksOf(todos[r.id].project, todos[r.id].local)
     ELSE UNCHANGED <<todos, links>>

-----------------------------------------------------------------------------
(* Links.  AddLink reads both ends in transactions of their own first, and  *)
(* then checks everything again in the one that writes.                     *)

MutArchivedIgnored(p, l) == \E i \in DOMAIN todos : hasNumber(i, p, l)

linkable(p, l) == \E i \in DOMAIN todos : hasNumber(i, p, l) /\ ~todos[i].archived

AddLink(p, a, b) ==
  /\ a # b
  /\ linkable(p, a) /\ linkable(p, b)
  /\ links' = links \cup {[project |-> p, from |-> a, to |-> b]}
  /\ UNCHANGED <<todos, requests>>

RemoveLink(p, a, b) ==
  /\ linkable(p, a) /\ linkable(p, b)
  /\ [project |-> p, from |-> a, to |-> b] \in links
  /\ links' = links \ {[project |-> p, from |-> a, to |-> b]}
  /\ UNCHANGED <<todos, requests>>

Next ==
  \/ \E p \in Projects :
       \/ \E t \in Titles : CreateTodo(p, t)
       \/ \E l \in LocalIds :
            \/ \E a \in BOOLEAN : SetArchived(p, l, a)
            \/ \E c \in Clients :
                 \/ \E patch \in Patches : PrepareTodo(c, p, l, patch)
                 \/ RequestDelete(c, p, l)
            \/ \E m \in LocalIds : AddLink(p, l, m) \/ RemoveLink(p, l, m)
  \/ \E c \in Clients : GetTodoByLocalID(c) \/ UpdateTodo(c) \/ DeleteTodo(c)

Spec == Init /\ [][Next]_vars

-----------------------------------------------------------------------------
(* Every variable stays in its domain. *)
TypeOK ==
  /\ DOMAIN todos \subseteq RowIds
  /\ \A i \in DOMAIN todos : todos[i] \in Todo
  /\ links \subseteq Link
  /\ \A c \in Clients : requests[c] # None =>
       /\ requests[c].project \in Projects /\ requests[c].local \in LocalIds
       /\ requests[c].id \in RowIds \cup {None}

(* A project never has two stories with one number, although numbers come   *)
(* back: what CreateTodo promises with its UNIQUE index.                    *)
NumbersUnique ==
  \A i, j \in DOMAIN todos :
    todos[i].project = todos[j].project /\ todos[i].local = todos[j].local => i = j

(* Both ends of a link are stories of its project, and are two.  Since      *)
(* numbers come back, a link that outlived its story would end up on a      *)
(* story nobody linked (DeleteTodo's manual cleanup).                       *)
LinksJoinStories ==
  \A k \in links : k.from # k.to /\ {k.from, k.to} \subseteq numbersOf(k.project)

(* What creation, deletion and linking keep, however ids and numbers come   *)
(* back: numbers name one story, and links join two that exist.             *)
StoriesInv == TypeOK /\ NumbersUnique /\ LinksJoinStories

(* A sparse patch changes what it names and nothing else, whatever other    *)
(* requests have written since the story was read for it: a field it leaves *)
(* out keeps its present value, and text is appended to the present body    *)
(* (UpdatePatch: "atomic with respect to concurrent writers").              *)
SparsePatchesKeepTheRest ==
  [][ \A c \in Clients, i \in DOMAIN todos \cap DOMAIN todos' :
        resolved(c, "update") /\ requests'[c] = None /\ todos'[i] # todos[i]
        => LET patch == requests[c].patch IN
           /\ patch.title = None => todos'[i].title = todos[i].title
           /\ patch.body = None /\ patch.append = None
                => todos'[i].body = todos[i].body
           /\ patch.body = None /\ patch.append # None
                => todos'[i].body = Append(todos[i].body, patch.append) ]_vars

(* The links of an archived story are frozen; they go only with a story.    *)
ArchivedLinksFrozen ==
  [][ \A k \in (links \ links') \cup (links' \ links) :
        \/ \A i \in rowsOf(k.project) :
             todos[i].archived => todos[i].local \notin {k.from, k.to}
        \/ ~({k.from, k.to} \subseteq numbersOf(k.project)') ]_vars

(* An update or deletion falls on the story the request named.  Migration   *)
(* 008 keeps todos.id "as the internal immutable key".                      *)
RequestsReachTheirStory ==
  [][ \A c \in Clients, i \in DOMAIN todos :
        /\ requests[c] # None /\ requests'[c] = None
        /\ i \notin DOMAIN todos' \/ todos'[i] # todos[i]
        => hasNumber(i, requests[c].project, requests[c].local) ]_vars

=============================================================================

------------------------------- MODULE Sprints -------------------------------
(***************************************************************************)
(* Sprints of several projects (internal/store/sprints.go), the prepared   *)
(* requests that change them (internal/application/sprint), the switch     *)
(* that turns sprints off for a project (internal/store/board_settings.go) *)
(* and the stories assigned to them (internal/store/todos.go).             *)
(*                                                                         *)
(* Every store method is one transaction.  A definition update verifies    *)
(* its target in an earlier transaction, and the HTTP handler reads the    *)
(* request body in between.                                                *)
(***************************************************************************)
EXTENDS Integers, FiniteSets

CONSTANTS
  Projects, Names, Todos,
  Clients,     \* concurrent definition updates
  Dates,       \* planned dates a request may name, a set of numbers
  MaxTime,     \* bound: the clock
  MaxSprints,  \* bound: row ids
  None

ASSUME SprintsAssumption ==
  /\ Dates \subseteq Nat /\ MaxTime \in Nat /\ MaxSprints \in Nat
  /\ None \notin Nat /\ None \notin Names /\ None \notin Projects

VARIABLES
  now,       \* the server's clock
  enabled,   \* projects.sprints_enabled
  sprints,   \* row id -> sprint, over all projects
  todos,     \* story -> [project, sprint]
  requests   \* client -> the target its update has verified

vars == <<now, enabled, sprints, todos, requests>>

States == {"PLANNED", "ACTIVE", "CLOSED"}
NoRequest == [project |-> None, sprint |-> None]
SprintsOf(p) == {i \in DOMAIN sprints : sprints[i].project = p}
ActiveOf(p) == {i \in SprintsOf(p) : sprints[i].state = "ACTIVE"}

Init ==
  /\ now = 0 /\ enabled = [p \in Projects |-> TRUE]
  /\ sprints = [i \in {} |-> None] /\ todos = [t \in {} |-> None]
  /\ requests = [c \in Clients |-> NoRequest]
-----------------------------------------------------------------------------
\* INTEGER PRIMARY KEY without AUTOINCREMENT: one more than the largest row id
\* that exists now, so the id of a deleted last row is used again.
nextRowId(i) ==
  /\ \A j \in DOMAIN sprints : j < i
  /\ i = 1 \/ i - 1 \in DOMAIN sprints

\* COALESCE(MAX(number), 0) + 1.
nextNumber(p, n) ==
  /\ \A i \in SprintsOf(p) : sprints[i].number < n
  /\ n = 1 \/ \E i \in SprintsOf(p) : sprints[i].number = n - 1

sprintNameExistsTx(p, name, exclude) ==
  \E i \in SprintsOf(p) \ {exclude} : sprints[i].name = name

\* Mutant: the switch is read before the transaction, so it may be stale.
MutSwitchNotChecked(p) == TRUE
lockProjectSprintsEnabledTx(p) == enabled[p]

CreateSprint(p, name, start, end) ==
  /\ start <= end
  /\ lockProjectSprintsEnabledTx(p)
  /\ ~sprintNameExistsTx(p, name, 0)
  /\ \E i, n \in 1 .. MaxSprints :
       /\ nextRowId(i) /\ nextNumber(p, n)
       /\ sprints' = [j \in DOMAIN sprints \cup {i} |->
            IF j = i
            THEN [project |-> p, number |-> n, name |-> name, start |-> start, end |-> end,
                  state |-> "PLANNED", started |-> None, closed |-> None]
            ELSE sprints[j]]
  /\ UNCHANGED <<now, enabled, todos, requests>>

\* COALESCE keeps the first time stamp.
stamp(t) == IF t = None THEN now ELSE t
closing(s) == [s EXCEPT !.state = "CLOSED", !.closed = stamp(@)]
starting(s) == [s EXCEPT !.state = "ACTIVE", !.started = stamp(@)]

\* The sprint that was active is closed by the same transaction.
\* Mutant: it is left running.
MutLeaveRunning(p, i) == {}
deactivated(p, i) == ActiveOf(p)

ActivateSprint(p, i) ==
  /\ i \in SprintsOf(p)
  /\ lockProjectSprintsEnabledTx(p)
  /\ sprints[i].state = "PLANNED"
  /\ now < sprints[i].end
  /\ sprints' = [j \in DOMAIN sprints |->
       IF j = i THEN starting(sprints[j])
       ELSE IF j \in deactivated(p, i) THEN closing(sprints[j]) ELSE sprints[j]]
  /\ UNCHANGED <<now, enabled, todos, requests>>

CloseSprint(p, i) ==
  /\ lockProjectSprintsEnabledTx(p)
  /\ i \in ActiveOf(p)
  /\ sprints' = [sprints EXCEPT ![i] = closing(@)]
  /\ UNCHANGED <<now, enabled, todos, requests>>

\* todos.sprint_id is ON DELETE SET NULL.  Mutant: stories keep the id.
MutKeepAssignment(T, i) == T
detached(T, i) == [t \in DOMAIN T |-> IF T[t].sprint = i THEN [T[t] EXCEPT !.sprint = None] ELSE T[t]]

DeleteSprint(p, i) ==
  /\ i \in SprintsOf(p)
  /\ lockProjectSprintsEnabledTx(p)
  /\ sprints' = [j \in DOMAIN sprints \ {i} |-> sprints[j]]
  /\ todos' = detached(todos, i)
  /\ UNCHANGED <<now, enabled, requests>>
-----------------------------------------------------------------------------
\* The handler has read the sprint and compared its project with the route's;
\* the requester is a maintainer of that project.
PrepareUpdate(c, p, i) ==
  /\ requests[c] = NoRequest
  /\ i \in SprintsOf(p)
  /\ requests' = [requests EXCEPT ![c] = [project |-> p, sprint |-> i]]
  /\ UNCHANGED <<now, enabled, sprints, todos>>

\* What the state of the sprint, the name and the dates permit.
\* Mutant: the dates of a closed sprint stay open for changes.
MutClosedDatesOpen(i, name, start, end) ==
  /\ sprints[i].state = "ACTIVE" => name = None /\ start = None
  /\ name # None => ~sprintNameExistsTx(sprints[i].project, name, i)
  /\ end # None => end >= (IF start = None THEN sprints[i].start ELSE start)
updateAllowed(i, name, start, end) ==
  /\ sprints[i].state = "ACTIVE" => name = None /\ start = None
  /\ sprints[i].state = "CLOSED" => start = None /\ end = None
  /\ name # None => ~sprintNameExistsTx(sprints[i].project, name, i)
  /\ end # None => end >= (IF start = None THEN sprints[i].start ELSE start)

\* Fields that a request omits keep their value.
supplied(new, old) == IF new = None THEN old ELSE new

\* The store takes the sprint's id only: its project is read from the row.
UpdateSprint(c, name, start, end) ==
  LET i == requests[c].sprint
      accepted == /\ i \in DOMAIN sprints
                  /\ lockProjectSprintsEnabledTx(sprints[i].project)
                  /\ updateAllowed(i, name, start, end)
  IN  /\ requests[c] # NoRequest
      /\ requests' = [requests EXCEPT ![c] = NoRequest]
      /\ \/ /\ accepted
            /\ sprints' = [sprints EXCEPT ![i].name = supplied(name, @),
                             ![i].start = supplied(start, @), ![i].end = supplied(end, @)]
         \/ ~accepted /\ UNCHANGED sprints
      /\ UNCHANGED <<now, enabled, todos>>
-----------------------------------------------------------------------------
\* applySprintsEnabledIfChangedTx leaves the sprints as they are.
UpdateProjectSprintsEnabled(p, b) ==
  /\ enabled[p] # b
  /\ enabled' = [enabled EXCEPT ![p] = b]
  /\ UNCHANGED <<now, sprints, todos, requests>>

\* A story may join a sprint of its own project while sprints are on.
mayJoin(p, i) == lockProjectSprintsEnabledTx(p) /\ i \in SprintsOf(p)

CreateTodo(t, p, i) ==
  /\ t \notin DOMAIN todos
  /\ i = None \/ mayJoin(p, i)
  /\ todos' = [u \in DOMAIN todos \cup {t} |->
                 IF u = t THEN [project |-> p, sprint |-> i] ELSE todos[u]]
  /\ UNCHANGED <<now, enabled, sprints, requests>>

UpdateTodo(t, i) ==
  /\ t \in DOMAIN todos
  /\ i # todos[t].sprint
  /\ i = None \/ mayJoin(todos[t].project, i)
  /\ todos' = [todos EXCEPT ![t].sprint = i]
  /\ UNCHANGED <<now, enabled, sprints, requests>>

DeleteTodo(t) ==
  /\ t \in DOMAIN todos
  /\ todos' = [u \in DOMAIN todos \ {t} |-> todos[u]]
  /\ UNCHANGED <<now, enabled, sprints, requests>>

Tick ==
  /\ now < MaxTime /\ now' = now + 1
  /\ UNCHANGED <<enabled, sprints, todos, requests>>

Next ==
  \/ \E p \in Projects, name \in Names, s, e \in Dates : CreateSprint(p, name, s, e)
  \/ \E p \in Projects, i \in 1 .. MaxSprints :
       ActivateSprint(p, i) \/ CloseSprint(p, i) \/ DeleteSprint(p, i)
  \/ \E c \in Clients, p \in Projects, i \in 1 .. MaxSprints : PrepareUpdate(c, p, i)
  \/ \E c \in Clients, name \in Names \cup {None}, s, e \in Dates \cup {None} :
       UpdateSprint(c, name, s, e)
  \/ \E p \in Projects, b \in BOOLEAN : UpdateProjectSprintsEnabled(p, b)
  \/ \E t \in Todos, i \in (1 .. MaxSprints) \cup {None} :
       UpdateTodo(t, i) \/ \E p \in Projects : CreateTodo(t, p, i)
  \/ \E t \in Todos : DeleteTodo(t)
  \/ Tick

Spec == Init /\ [][Next]_vars
-----------------------------------------------------------------------------
\* Sprints, stories and requests have their types.
Sprint ==
  [project : Projects, number : 1 .. MaxSprints, name : Names, start : Dates, end : Dates,
   state : States, started : (0 .. MaxTime) \cup {None}, closed : (0 .. MaxTime) \cup {None}]
TypeOK ==
  /\ now \in 0 .. MaxTime /\ enabled \in [Projects -> BOOLEAN]
  /\ DOMAIN sprints \subseteq 1 .. MaxSprints /\ sprints \in [DOMAIN sprints -> Sprint]
  /\ DOMAIN todos \subseteq Todos
  /\ todos \in [DOMAIN todos -> [project : Projects, sprint : (1 .. MaxSprints) \cup {None}]]
  /\ requests \in [Clients -> [project : Projects \cup {None}, sprint : (1 .. MaxSprints) \cup {None}]]

\* A project never has two active sprints, so the partial unique index never
\* makes an activation fail.
OneActiveSprint == \A p \in Projects : \A i, j \in ActiveOf(p) : i = j

\* Creating, deleting and renaming in any order keeps numbers and names unique
\* in a project, so the unique index on numbers never rejects a creation.
NumbersAndNamesUnique ==
  \A p \in Projects : \A i, j \in SprintsOf(p) :
    i # j => sprints[i].number # sprints[j].number /\ sprints[i].name # sprints[j].name

\* The time stamps tell the state: planned sprints have none, an active one
\* has been started, a closed one was started first and closed later.
StampsMatchState ==
  \A i \in DOMAIN sprints :
    LET s == sprints[i]
    IN  /\ s.state = "PLANNED" <=> s.started = None
        /\ s.state = "CLOSED" <=> s.closed # None
        /\ s.closed # None => s.started <= s.closed

\* What the transactions keep for the sprints of every project: at most one is
\* active, numbers and names are unique, and the stamps tell the state.
SprintsInv == TypeOK /\ OneActiveSprint /\ NumbersAndNamesUnique /\ StampsMatchState

\* A story is only ever in an existing sprint of its own project, although ids
\* of deleted sprints are given to sprints of other projects.
StoriesInOwnSprints ==
  \A t \in DOMAIN todos : todos[t].sprint # None => todos[t].sprint \in SprintsOf(todos[t].project)

\* A sprint goes from planned to active to closed and never back; its number,
\* project and stamps stay; what ran keeps its start and what is closed keeps
\* both dates and cannot be started again.
LifecycleStep ==
  \A i \in DOMAIN sprints \cap DOMAIN sprints' :
    LET s == sprints[i]
        t == sprints'[i]
    IN  /\ t.project = s.project /\ t.number = s.number
        /\ s.started # None => t.started = s.started /\ t.start = s.start
        /\ s.closed # None => t = [s EXCEPT !.name = t.name]
        /\ <<s.state, t.state>> \notin
             {<<"ACTIVE", "PLANNED">>, <<"PLANNED", "CLOSED">>, <<"CLOSED", "ACTIVE">>}
LifecycleForward == [][LifecycleStep]_vars

\* Once sprints are switched off for a project its sprints stay as they are and
\* no story joins one, whatever requests were prepared before the switch.
DisabledStep ==
  \A p \in Projects : ~enabled[p] =>
    /\ SprintsOf(p) = SprintsOf(p)'
    /\ \A i \in SprintsOf(p) : sprints'[i] = sprints[i]
    /\ \A t \in DOMAIN todos' : todos'[t].project = p /\ todos'[t].sprint # None =>
         t \in DOMAIN todos /\ todos[t] = todos'[t]
DisabledMeansFrozen == [][DisabledStep]_vars

\* CreateSprint and UpdateSprint: "end_at must be >= start_at".
PlannedDatesOrdered == \A i \in DOMAIN sprints : sprints[i].start <= sprints[i].end

\* PreparedRESTUpdate "binds the exact authorized context, project identity, and
\* verified stored sprint ID": an update only changes a sprint of the project
\* it was prepared for.
UpdateStep ==
  \A c \in Clients : requests[c] # NoRequest /\ requests'[c] = NoRequest =>
    \A i \in DOMAIN sprints : sprints'[i] # sprints[i] => sprints[i].project = requests[c].project
UpdatesStayInTheirProject == [][UpdateStep]_vars
=============================================================================

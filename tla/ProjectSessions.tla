-------------------------- MODULE ProjectSessions --------------------------
(***************************************************************************)
(* The rows of projects and project_sessions behind joinProject,           *)
(* leaveProject, updateCursorPosition (CollaborationService), update and   *)
(* remove (ProjectsService), statement by statement.  Calls for a session  *)
(* come from page:join, page:leave, cursor:move and a disconnection, those *)
(* for a project from REST: no guard sets req.user for the collaboration's *)
(* REST endpoints, which fail before they call the service.                *)
(*                                                                         *)
(* repository.save of an entity with an id is two statements: it looks the *)
(* row up and writes the columns that differ from what it found, or inserts*)
(* the row if there was none.  Sessions have a generated id and no unique  *)
(* index; they refer to their project with ON DELETE CASCADE.              *)
(***************************************************************************)
EXTENDS FiniteSets

CONSTANTS
    Users,
    Projects,
    RowIds,         \* ids of project_sessions
    Tasks,          \* bound: calls in flight at the same time
    LibertySets,    \* what may happen in a behaviour, see below
    None

(***************************************************************************)
(* "overlap":    a user joins or leaves a project while another such call  *)
(*               of the user is handled (two tabs, a page left and joined) *)
(* "manage":     owners update and remove their projects                   *)
(* "dbError":    a database call rejects                                   *)
(***************************************************************************)
AllLiberties == {"overlap", "manage", "dbError"}

ASSUME SessionConstants ==
    /\ LibertySets \subseteq SUBSET AllLiberties
    /\ None \notin Users \cup Projects \cup RowIds \cup BOOLEAN

VARIABLES
    owner,      \* projects.owner_id, None while there is no row
    rows,       \* project_sessions
    asked,      \* what the last join or leave of a user of a project that was
                \* answered asked for: TRUE present, FALSE not, None if unknown
    tasks,
    liberties   \* chosen at the start

vars == <<owner, rows, asked, tasks, liberties>>

-----------------------------------------------------------------------------

NoRow == [project |-> None, user |-> None, isActive |-> FALSE]

Row(p, u, isActive) == [project |-> p, user |-> u, isActive |-> isActive]

RowsOf(p, u) == {r \in RowIds : rows[r].project = p /\ rows[r].user = u}

Idle == [pc |-> "idle", project |-> None, user |-> None, isActive |-> FALSE,
         row |-> None, found |-> FALSE]

\* Where calls of ProjectsService are: its owner may manage a project while
\* joining or leaving it.
Managing == {"findOwned", "loadOwned", "insertOwned", "saveOwned",
             "findToRemove", "removing"}

Calling(p, u) ==
    \E t \in Tasks : /\ tasks[t].project = p /\ tasks[t].user = u
                     /\ tasks[t].pc \notin Managing

\* A call of u for p is taken up: at pc, to make the session isActive.
Begins(t, pc, p, u, isActive) ==
    /\ tasks[t] = Idle
    /\ "overlap" \in liberties \/ ~Calling(p, u)
    /\ tasks' = [tasks EXCEPT ![t] =
         [Idle EXCEPT !.pc = pc, !.project = p, !.user = u, !.isActive = isActive]]

At(t, pc) == tasks[t].pc = pc

GoOn(t, pc) == tasks' = [tasks EXCEPT ![t].pc = pc]

Finish(t) == tasks' = [tasks EXCEPT ![t] = Idle]

\* The call ends with an answer, which an error may keep from the caller.
Answer(t) ==
    /\ Finish(t)
    /\ \E known \in {tasks[t].isActive} \cup IF "dbError" \in liberties THEN {None} ELSE {} :
         asked' = [asked EXCEPT ![tasks[t].project][tasks[t].user] = known]

\* The call ends with an error.
Reject(t) ==
    /\ Finish(t)
    /\ asked' = [asked EXCEPT ![tasks[t].project][tasks[t].user] = None]

-----------------------------------------------------------------------------
(* joinProject: ensureProjectExists *)

JoinProject(t, p, u) ==
    /\ Begins(t, "findProject", p, u, TRUE)
    /\ UNCHANGED <<owner, rows, asked>>

FindProject(t) ==
    /\ At(t, "findProject")
    /\ GoOn(t, IF owner[tasks[t].project] = None THEN "loadProject" ELSE "findSession")
    /\ UNCHANGED <<owner, rows, asked>>

\* save looks the project up: it inserts or writes what differs.
Load(t, insert, write) ==
    LET o == owner[tasks[t].project] IN
    /\ tasks' = [tasks EXCEPT ![t].pc = IF o = None THEN insert ELSE write,
                             ![t].found = o = tasks[t].user]
    /\ UNCHANGED <<owner, rows, asked>>

\* Written to the row if it is still there.
WrittenOwner(k) ==
    [owner EXCEPT ![k.project] = IF @ = None \/ k.found THEN @ ELSE k.user]

\* Another join may have inserted the project since it was not found.
LoadProject(t) == At(t, "loadProject") /\ Load(t, "insertProject", "takeProject")

\* The key is taken if another join inserted the project after the look-up.
InsertProject(t) ==
    LET p == tasks[t].project IN
    /\ At(t, "insertProject")
    /\ IF owner[p] = None
       THEN /\ owner' = [owner EXCEPT ![p] = tasks[t].user]
            /\ GoOn(t, "findSession")
            /\ UNCHANGED asked
       ELSE /\ Reject(t)
            /\ UNCHANGED owner
    /\ UNCHANGED rows

\* The other join's project is written over, its owner included.
TakeProject(t) ==
    /\ At(t, "takeProject")
    /\ owner' = WrittenOwner(tasks[t])
    /\ GoOn(t, "findSession")
    /\ UNCHANGED <<rows, asked>>

-----------------------------------------------------------------------------
(* joinProject: createOrUpdateSession, and leaveProject *)

LeaveProject(t, p, u) ==
    /\ Begins(t, "findSession", p, u, FALSE)
    /\ UNCHANGED <<owner, rows, asked>>

\* Mutant: only an active session of the user is taken up again.
FindSession_ActiveOnly(t) ==
    LET found == {r \in RowsOf(tasks[t].project, tasks[t].user) : rows[r].isActive} IN
    /\ At(t, "findSession")
    /\ \/ /\ \E r \in found :
               tasks' = [tasks EXCEPT ![t].row = r, ![t].pc = "loadSession"]
          /\ UNCHANGED asked
       \/ /\ found = {} /\ tasks[t].isActive
          /\ GoOn(t, "insertSession")
          /\ UNCHANGED asked
       \/ /\ found = {} /\ ~tasks[t].isActive
          /\ Answer(t)
    /\ UNCHANGED <<owner, rows>>

\* findOne without an order: any row of the user.  A leave ends if there is none.
FindSession(t) ==
    LET found == RowsOf(tasks[t].project, tasks[t].user) IN
    /\ At(t, "findSession")
    /\ \/ /\ \E r \in found :
               tasks' = [tasks EXCEPT ![t].row = r, ![t].pc = "loadSession"]
          /\ UNCHANGED asked
       \/ /\ found = {} /\ tasks[t].isActive
          /\ GoOn(t, "insertSession")
          /\ UNCHANGED asked
       \/ /\ found = {} /\ ~tasks[t].isActive
          /\ Answer(t)
    /\ UNCHANGED <<owner, rows>>

\* save looks the session up, which a removal of the project may have deleted.
LoadSession(t) ==
    LET row == rows[tasks[t].row] IN
    /\ At(t, "loadSession")
    /\ IF row = NoRow THEN GoOn(t, "insertSession")
       ELSE tasks' = [tasks EXCEPT ![t].found = row.isActive, ![t].pc = "saveSession"]
    /\ UNCHANGED <<owner, rows, asked>>

\* Mutant: lastActivity is saved, isActive not.
SaveSession_KeepsActive(t) ==
    /\ At(t, "saveSession")
    /\ UNCHANGED rows
    /\ Answer(t)
    /\ UNCHANGED owner

\* The column is written if it differs from what was found.
SaveSession(t) ==
    LET r == tasks[t].row IN
    /\ At(t, "saveSession")
    /\ rows' = IF rows[r] = NoRow \/ tasks[t].found = tasks[t].isActive THEN rows
               ELSE [rows EXCEPT ![r].isActive = tasks[t].isActive]
    /\ Answer(t)
    /\ UNCHANGED owner

\* A session of a project that is gone breaks the foreign key, and the id of a
\* row that had gone since it was found may be back.
InsertRefused(t) ==
    LET k == tasks[t] IN
    owner[k.project] = None \/ (k.row # None /\ rows[k.row] # NoRow)

\* With a new id, or the one of the row that has gone.
InsertSession(t) ==
    LET k == tasks[t] IN
    /\ At(t, "insertSession")
    /\ IF InsertRefused(t)
       THEN Reject(t) /\ UNCHANGED rows
       ELSE /\ \E r \in RowIds :
                 /\ rows[r] = NoRow
                 /\ IF k.row = None THEN \A x \in Tasks : tasks[x].row # r ELSE r = k.row
                 /\ rows' = [rows EXCEPT ![r] = Row(k.project, k.user, k.isActive)]
            /\ Answer(t)
    /\ UNCHANGED owner

-----------------------------------------------------------------------------
(* updateCursorPosition, which answers before the statement runs *)

\* The position written is left out: no statement reads it.
UpdateCursorPosition(t) ==
    /\ At(t, "idle")
    /\ GoOn(t, "updating")
    /\ UNCHANGED <<owner, rows, asked>>

UpdateSession(t) ==
    /\ At(t, "updating")
    /\ GoOn(t, "idle")
    /\ UNCHANGED <<owner, rows, asked>>

-----------------------------------------------------------------------------
(* ProjectsService: update and remove *)

Manage(t, pc, p, u) ==
    /\ "manage" \in liberties
    /\ tasks[t] = Idle
    /\ tasks' = [tasks EXCEPT ![t] = [Idle EXCEPT !.pc = pc, !.project = p, !.user = u]]
    /\ UNCHANGED <<owner, rows, asked>>

UpdateProject(t, p, u) == Manage(t, "findOwned", p, u)

RemoveProject(t, p, u) == Manage(t, "findToRemove", p, u)

\* The project must be there and belong to the caller.
FindOwned(t, next) ==
    /\ IF owner[tasks[t].project] = tasks[t].user THEN GoOn(t, next) ELSE Finish(t)
    /\ UNCHANGED <<owner, rows, asked>>

FindToUpdate(t) == At(t, "findOwned") /\ FindOwned(t, "loadOwned")

FindToRemove(t) == At(t, "findToRemove") /\ FindOwned(t, "removing")

LoadOwned(t) == At(t, "loadOwned") /\ Load(t, "insertOwned", "saveOwned")

\* A project removed since the caller's right was checked comes back, unless it
\* is back already, which rejects.
InsertOwned(t) ==
    /\ At(t, "insertOwned")
    /\ owner' = [owner EXCEPT ![tasks[t].project] = IF @ = None THEN tasks[t].user ELSE @]
    /\ Finish(t)
    /\ UNCHANGED <<rows, asked>>

SaveOwned(t) ==
    /\ At(t, "saveOwned")
    /\ owner' = WrittenOwner(tasks[t])
    /\ Finish(t)
    /\ UNCHANGED <<rows, asked>>

\* Mutant: the sessions lose their project but stay (ON DELETE SET NULL).
DeleteProject_SetsNull(t) ==
    LET p == tasks[t].project IN
    /\ At(t, "removing")
    /\ owner' = [owner EXCEPT ![p] = None]
    /\ rows' = [r \in RowIds |-> IF rows[r].project = p
                                THEN [rows[r] EXCEPT !.project = None] ELSE rows[r]]
    /\ Finish(t)
    /\ UNCHANGED asked

\* The project goes with its sessions, whoever owns it by now.
DeleteProject(t) ==
    LET p == tasks[t].project IN
    /\ At(t, "removing")
    /\ owner' = [owner EXCEPT ![p] = None]
    /\ rows' = [r \in RowIds |-> IF rows[r].project = p THEN NoRow ELSE rows[r]]
    /\ Finish(t)
    /\ UNCHANGED asked

-----------------------------------------------------------------------------

\* Any other call of the database that rejects ends the call.
DbCallFails(t) ==
    /\ "dbError" \in liberties
    /\ tasks[t].pc \notin {"idle", "updating"}
    /\ IF tasks[t].pc \in Managing THEN Finish(t) /\ UNCHANGED asked ELSE Reject(t)
    /\ UNCHANGED <<owner, rows>>

\* Nobody handles the rejection of an update, or of leaveProject when it is
\* handleDisconnect that calls it: Node ends the process and every call in it.
ProcessEnds(t) ==
    /\ \/ tasks[t].pc \in {"findSession", "loadSession", "saveSession", "insertSession"}
          /\ ~tasks[t].isActive
       \/ At(t, "updating")
    /\ "dbError" \in liberties \/ (At(t, "insertSession") /\ InsertRefused(t))
    /\ tasks' = [x \in Tasks |-> Idle]
    /\ asked' = [p \in Projects |-> [u \in Users |->
                   IF Calling(p, u) THEN None ELSE asked[p][u]]]
    /\ UNCHANGED <<owner, rows>>

Init ==
    /\ owner = [p \in Projects |-> None]
    /\ rows = [r \in RowIds |-> NoRow]
    /\ asked = [p \in Projects |-> [u \in Users |-> None]]
    /\ tasks = [t \in Tasks |-> Idle]
    /\ liberties \in LibertySets

Step(t) ==
    \/ FindProject(t) \/ LoadProject(t) \/ InsertProject(t) \/ TakeProject(t)
    \/ FindSession(t) \/ LoadSession(t) \/ SaveSession(t) \/ InsertSession(t)
    \/ UpdateCursorPosition(t) \/ UpdateSession(t) \/ ProcessEnds(t)
    \/ FindToUpdate(t) \/ LoadOwned(t) \/ InsertOwned(t) \/ SaveOwned(t)
    \/ FindToRemove(t) \/ DeleteProject(t) \/ DbCallFails(t)

Call(t, p, u) ==
    \/ JoinProject(t, p, u) \/ LeaveProject(t, p, u)
    \/ UpdateProject(t, p, u) \/ RemoveProject(t, p, u)

Next ==
    /\ \E t \in Tasks : Step(t) \/ \E p \in Projects, u \in Users : Call(t, p, u)
    /\ UNCHANGED liberties

Spec == Init /\ [][Next]_vars

-----------------------------------------------------------------------------
(* Properties *)

Session == [project : Projects, user : Users, isActive : BOOLEAN]

TaskRecord ==
    [pc : {"idle", "findProject", "loadProject", "insertProject", "takeProject",
           "findSession", "loadSession", "saveSession", "insertSession",
           "updating"} \cup Managing,
     project : Projects \cup {None}, user : Users \cup {None}, isActive : BOOLEAN,
     row : RowIds \cup {None}, found : BOOLEAN]

\* Rows are whole or not there.
TypeOK ==
    /\ owner \in [Projects -> Users \cup {None}]
    /\ rows \in [RowIds -> Session \cup {NoRow}]
    /\ asked \in [Projects -> [Users -> BOOLEAN \cup {None}]]
    /\ tasks \in [Tasks -> TaskRecord]
    /\ liberties \in SUBSET AllLiberties

\* A user has one row per project, although nothing in the schema says so, as
\* long as the joins and leaves of the user come one after the other: over
\* removals of the project, updates that bring it back, errors and restarts.
SingleRow ==
    "overlap" \notin liberties =>
      \A r1, r2 \in RowIds :
        rows[r1] # NoRow /\ rows[r1].project = rows[r2].project
                        /\ rows[r1].user = rows[r2].user => r1 = r2

\* getActiveSessions lists whom it should: when no join or leave of a user is in
\* flight, what the last one answered asked for is what the row says,
\* although save writes only what differs from a row it read earlier, a removal
\* may have deleted the row in between, and others write while it waits.
AnsweredIsSaved ==
    "overlap" \notin liberties =>
      \A p \in Projects, u \in Users :
        ~Calling(p, u) /\ asked[p][u] # None =>
          \A r \in RowsOf(p, u) : rows[r].isActive = asked[p][u]
=============================================================================

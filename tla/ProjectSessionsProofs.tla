----------------------- MODULE ProjectSessionsProofs -----------------------
(***************************************************************************)
(* Type correctness and SingleRow of ProjectSessions, for any number of    *)
(* users, projects, rows and calls in flight.                              *)
(***************************************************************************)
EXTENDS ProjectSessions, TLAPS

\* A call in flight is some user's for some project; one that has found a
\* session knows its id, and no other has one.
Shaped(k) ==
    /\ k.pc \notin {"idle", "updating"} => k.project \in Projects /\ k.user \in Users
    /\ k.pc \in {"loadSession", "saveSession"} => k.row \in RowIds
    /\ k.pc \notin {"loadSession", "saveSession", "insertSession"} => k.row = None

Typed == TypeOK /\ \A t \in Tasks : Shaped(tasks[t])

\* A join or leave is in flight.
Awaited(k) == k.pc \notin {"idle", "updating"} \cup Managing

\* Calls of a user for a project do not overlap.
OneByOne ==
    \A x, y \in Tasks :
      /\ Awaited(tasks[x]) /\ Awaited(tasks[y])
      /\ tasks[x].project = tasks[y].project /\ tasks[x].user = tasks[y].user
      => x = y

Own(k, row) == row.project = k.project /\ row.user = k.user

\* What a call has learnt of the rows rs: it holds the only row of its user, or
\* there is none.
Learnt(k, rs) ==
    \A r \in RowIds : Own(k, rs[r]) =>
      /\ k.pc # "insertSession"
      /\ k.pc \in {"loadSession", "saveSession"} => r = k.row

\* It stays true until the call writes.
StillTrue == \A t \in Tasks : Learnt(tasks[t], rows)

Sequential ==
    "overlap" \notin liberties =>
      OneByOne /\ SingleRow /\ StillTrue

-----------------------------------------------------------------------------
(* Types *)

LEMMA NoneDistinct ==
    None \notin Users /\ None \notin Projects /\ None \notin RowIds
BY SessionConstants

LEMMA IdleTyped == Idle \in TaskRecord /\ Shaped(Idle)
BY DEF Idle, TaskRecord, Managing, Shaped

\* Replacing one task by a well formed one keeps the tasks well formed.
LEMMA TaskStep ==
    ASSUME Typed, NEW t \in Tasks, NEW k \in TaskRecord, Shaped(k),
           tasks' = [tasks EXCEPT ![t] = k]
    PROVE  tasks' \in [Tasks -> TaskRecord] /\ \A x \in Tasks : Shaped(tasks'[x])
BY DEF Typed, TypeOK

\* The steps that only go on to a place where nothing new need be known.
LEMMA GoOnTyped ==
    ASSUME Typed, NEW t \in Tasks,
           tasks[t].pc \notin {"idle", "updating", "saveSession", "insertSession"},
           NEW pc \in {"loadProject", "findSession", "insertSession",
                       "loadOwned", "removing"},
           tasks[t].pc = "loadSession" => pc = "insertSession",
           GoOn(t, pc)
    PROVE  tasks' \in [Tasks -> TaskRecord] /\ \A x \in Tasks : Shaped(tasks'[x])
<1> DEFINE k == [tasks[t] EXCEPT !.pc = pc]
<1>1. tasks[t] \in TaskRecord /\ Shaped(tasks[t])
  BY DEF Typed, TypeOK
<1>2. k \in TaskRecord /\ Shaped(k)
  BY <1>1 DEF TaskRecord, Managing, Shaped
<1>3. tasks' = [tasks EXCEPT ![t] = k]
  BY DEF GoOn
<1> QED
  BY <1>2, <1>3, TaskStep

\* Project saves that have looked the row up.
LEMMA LoadTyped ==
    ASSUME Typed, NEW t \in Tasks, tasks[t].pc \in {"loadProject", "loadOwned"},
           NEW insert \in {"insertProject", "insertOwned"},
           NEW write \in {"takeProject", "saveOwned"},
           Load(t, insert, write), UNCHANGED liberties
    PROVE  Typed'
<1> DEFINE pc == IF owner[tasks[t].project] = None THEN insert ELSE write
           k  == [tasks[t] EXCEPT !.pc = pc,
                                  !.found = owner[tasks[t].project] = tasks[t].user]
<1>1. tasks[t] \in TaskRecord /\ Shaped(tasks[t])
  BY DEF Typed, TypeOK
<1>2. k \in TaskRecord /\ Shaped(k)
  BY <1>1 DEF TaskRecord, Shaped, Managing
<1>3. tasks' = [tasks EXCEPT ![t] = k]
  BY <1>1 DEF Load, Typed, TypeOK
<1> QED
  BY <1>2, <1>3, TaskStep DEF Load, Typed, TypeOK

LEMMA FinishTyped ==
    ASSUME Typed, NEW t \in Tasks, Finish(t)
    PROVE  tasks' \in [Tasks -> TaskRecord] /\ \A x \in Tasks : Shaped(tasks'[x])
BY IdleTyped, TaskStep DEF Finish

LEMMA WrittenOwnerTyped ==
    ASSUME TypeOK, NEW k \in TaskRecord, k.user \in Users
    PROVE  WrittenOwner(k) \in [Projects -> Users \cup {None}]
BY DEF WrittenOwner, TypeOK

LEMMA AskedTyped ==
    ASSUME TypeOK, NEW p, NEW u, NEW known \in BOOLEAN \cup {None}
    PROVE  [asked EXCEPT ![p][u] = known] \in [Projects -> [Users -> BOOLEAN \cup {None}]]
BY DEF TypeOK

\* A call that ends, with an answer or an error.
LEMMA EndTyped ==
    ASSUME Typed, NEW t \in Tasks, Answer(t) \/ Reject(t)
    PROVE  /\ tasks' \in [Tasks -> TaskRecord] /\ \A x \in Tasks : Shaped(tasks'[x])
           /\ asked' \in [Projects -> [Users -> BOOLEAN \cup {None}]]
<1>1. tasks[t].isActive \in BOOLEAN
  BY DEF Typed, TypeOK, TaskRecord, Managing
<1>2. tasks' = [tasks EXCEPT ![t] = Idle]
  BY DEF Answer, Reject, Finish
<1>3. PICK known \in BOOLEAN \cup {None} :
        asked' = [asked EXCEPT ![tasks[t].project][tasks[t].user] = known]
  BY <1>1 DEF Answer, Reject
<1> QED
  BY <1>2, <1>3, IdleTyped, TaskStep, AskedTyped DEF Typed

LEMMA InitTyped == Init /\ liberties \in SUBSET AllLiberties => Typed
BY IdleTyped DEF Init, Typed, TypeOK

LEMMA BeginsTyped ==
    ASSUME Typed, NEW t \in Tasks, NEW p \in Projects, NEW u \in Users,
           NEW isActive \in BOOLEAN,
           NEW pc \in {"findProject", "findSession"},
           Begins(t, pc, p, u, isActive)
    PROVE  tasks' \in [Tasks -> TaskRecord] /\ \A x \in Tasks : Shaped(tasks'[x])
<1> DEFINE k == [Idle EXCEPT !.pc = pc, !.project = p, !.user = u, !.isActive = isActive]
<1>1. k \in TaskRecord /\ Shaped(k)
  BY DEF Idle, TaskRecord, Managing, Shaped
<1>2. tasks' = [tasks EXCEPT ![t] = k]
  BY DEF Begins
<1> QED
  BY <1>1, <1>2, TaskStep

LEMMA ManageTyped ==
    ASSUME Typed, NEW t \in Tasks, NEW p \in Projects, NEW u \in Users,
           NEW pc \in Managing, Manage(t, pc, p, u), UNCHANGED liberties
    PROVE  Typed'
<1> DEFINE k == [Idle EXCEPT !.pc = pc, !.project = p, !.user = u]
<1>1. k \in TaskRecord /\ Shaped(k)
  BY DEF Idle, TaskRecord, Shaped, Managing
<1>2. tasks' = [tasks EXCEPT ![t] = k]
  BY DEF Manage
<1> QED
  BY <1>1, <1>2, TaskStep DEF Manage, Typed, TypeOK

LEMMA CallTyped ==
    ASSUME Typed, NEW t \in Tasks, NEW p \in Projects, NEW u \in Users,
           Call(t, p, u), UNCHANGED liberties
    PROVE  Typed'
BY BeginsTyped, ManageTyped DEF Call, JoinProject, LeaveProject, UpdateProject,
   RemoveProject, Managing, Typed, TypeOK

\* The update nobody awaits.
LEMMA UpdateTyped ==
    ASSUME Typed, NEW t \in Tasks, UpdateCursorPosition(t) \/ UpdateSession(t),
           UNCHANGED liberties
    PROVE  Typed'
<1>1. PICK pc \in {"idle", "updating"} :
        tasks[t].pc \in {"idle", "updating"} /\ GoOn(t, pc) /\ UNCHANGED <<owner, rows, asked>>
  BY DEF UpdateCursorPosition, UpdateSession, At
<1> DEFINE k == [tasks[t] EXCEPT !.pc = pc]
<1>2. tasks[t] \in TaskRecord /\ Shaped(tasks[t])
  BY DEF Typed, TypeOK
<1>3. k \in TaskRecord /\ Shaped(k) /\ tasks' = [tasks EXCEPT ![t] = k]
  BY <1>1, <1>2 DEF TaskRecord, Managing, Shaped, GoOn
<1> HIDE DEF k
<1> QED
  BY <1>1, <1>3, TaskStep DEF Typed, TypeOK

\* Steps that change neither owner nor rows but the task, and end or go on.
LEMMA LookupTyped ==
    ASSUME Typed, NEW t \in Tasks, UNCHANGED liberties,
           \/ FindProject(t) \/ LoadProject(t) \/ FindSession(t) \/ LoadSession(t)
           \/ FindToUpdate(t) \/ LoadOwned(t) \/ FindToRemove(t) \/ DbCallFails(t)
    PROVE  Typed'
<1> DEFINE Goal == /\ tasks' \in [Tasks -> TaskRecord] /\ \A x \in Tasks : Shaped(tasks'[x])
                   /\ asked' \in [Projects -> [Users -> BOOLEAN \cup {None}]]
<1>0. tasks[t] \in TaskRecord /\ Shaped(tasks[t]) /\ TypeOK
  BY DEF Typed, TypeOK
<1>1. CASE FindProject(t)
  <2>1. PICK pc \in {"loadProject", "findSession"} : GoOn(t, pc)
    BY <1>1 DEF FindProject
  <2>2. tasks[t].pc = "findProject" /\ UNCHANGED asked
    BY <1>1 DEF FindProject, At
  <2>3. Goal
    BY <1>0, <2>1, <2>2, GoOnTyped DEF TypeOK
  <2> QED
    BY <1>1, <2>3 DEF FindProject, Typed, TypeOK
<1>6. CASE LoadProject(t) \/ LoadOwned(t)
  BY <1>6, LoadTyped DEF LoadProject, LoadOwned, At
<1>2. CASE FindSession(t)
  <2>1. ASSUME NEW r \in RowIds, UNCHANGED asked,
               tasks' = [tasks EXCEPT ![t].row = r, ![t].pc = "loadSession"]
        PROVE  Goal
    <3> DEFINE k == [tasks[t] EXCEPT !.row = r, !.pc = "loadSession"]
    <3>1. k \in TaskRecord /\ Shaped(k)
      BY <1>0, <1>2 DEF FindSession, At, TaskRecord, Managing, Shaped
    <3>2. tasks' = [tasks EXCEPT ![t] = k]
      BY <2>1, <1>0 DEF TypeOK
    <3> QED
      BY <3>1, <3>2, <2>1, <1>0, TaskStep DEF TypeOK
  <2>2. ASSUME GoOn(t, "insertSession"), UNCHANGED asked PROVE Goal
    BY <1>0, <1>2, <2>2, GoOnTyped DEF FindSession, At, TypeOK
  <2>3. ASSUME Answer(t) PROVE Goal
    BY <2>3, EndTyped
  <2>4. Goal
    BY <1>2, <2>1, <2>2, <2>3 DEF FindSession, RowsOf
  <2> QED
    BY <1>2, <2>4 DEF FindSession, Typed, TypeOK
<1>3. CASE LoadSession(t)
  <2> DEFINE row == rows[tasks[t].row]
             k   == [tasks[t] EXCEPT !.found = row.isActive, !.pc = "saveSession"]
  <2>1. tasks[t].row \in RowIds /\ tasks[t].pc = "loadSession"
    BY <1>0, <1>3 DEF LoadSession, At, Shaped
  <2>2. row.isActive \in BOOLEAN
    <3>1. row \in Session \cup {NoRow}
      BY <2>1, <1>0 DEF TypeOK
    <3>2. CASE row \in Session
      BY <3>2 DEF Session
    <3>3. CASE row = NoRow
      BY <3>3 DEF NoRow
    <3> QED
      BY <3>1, <3>2, <3>3
  <2>3. k \in TaskRecord /\ Shaped(k)
    BY <1>0, <2>1, <2>2 DEF TaskRecord, Managing, Shaped
  <2>4. CASE row = NoRow
    BY <1>0, <1>3, <2>1, <2>4, GoOnTyped DEF LoadSession, Typed, TypeOK
  <2>5. CASE row # NoRow
    <3>1. tasks' = [tasks EXCEPT ![t] = k]
      BY <1>0, <1>3, <2>5 DEF LoadSession, TypeOK
    <3> QED
      BY <1>3, <2>3, <3>1, TaskStep DEF LoadSession, Typed, TypeOK
  <2> QED
    BY <2>4, <2>5
<1>4. CASE FindToUpdate(t) \/ FindToRemove(t)
  <2>1. PICK pc \in {"loadOwned", "removing"} :
          tasks[t].pc \in {"findOwned", "findToRemove"} /\ FindOwned(t, pc)
    BY <1>4 DEF FindToUpdate, FindToRemove, At
  <2>2. Goal
    BY <1>0, <2>1, GoOnTyped, FinishTyped DEF FindOwned, TypeOK
  <2> QED
    BY <2>1, <2>2 DEF FindOwned, Typed, TypeOK
<1>5. CASE DbCallFails(t)
  BY <1>5, EndTyped, FinishTyped DEF DbCallFails, Typed, TypeOK
<1> QED
  BY <1>1, <1>2, <1>3, <1>4, <1>5, <1>6

LEMMA WriteTyped ==
    ASSUME Typed, NEW t \in Tasks, UNCHANGED liberties,
           \/ InsertProject(t) \/ TakeProject(t) \/ SaveSession(t) \/ InsertSession(t)
           \/ ProcessEnds(t) \/ DeleteProject(t) \/ InsertOwned(t) \/ SaveOwned(t)
    PROVE  Typed'
<1>0. tasks[t] \in TaskRecord /\ Shaped(tasks[t]) /\ TypeOK
  BY DEF Typed, TypeOK
<1>1. CASE InsertProject(t)
  <2>1. tasks[t].user \in Users /\ tasks[t].pc = "insertProject"
    BY <1>0, <1>1 DEF InsertProject, At, Shaped
  <2>2. CASE owner[tasks[t].project] = None
    BY <1>0, <1>1, <2>1, <2>2, GoOnTyped DEF InsertProject, Typed, TypeOK
  <2>3. CASE owner[tasks[t].project] # None
    BY <1>1, <2>3, EndTyped DEF InsertProject, Typed, TypeOK
  <2> QED
    BY <2>2, <2>3
<1>2. CASE TakeProject(t)
  <2>1. tasks[t].user \in Users /\ tasks[t].pc = "takeProject"
    BY <1>0, <1>2 DEF TakeProject, At, Shaped
  <2>2. owner' \in [Projects -> Users \cup {None}]
    BY <1>0, <1>2, <2>1, WrittenOwnerTyped DEF TakeProject
  <2> QED
    BY <1>2, <2>1, <2>2, GoOnTyped DEF TakeProject, Typed, TypeOK
<1>3. CASE SaveSession(t)
  <2>1. tasks[t].isActive \in BOOLEAN
    BY <1>0 DEF TaskRecord, Managing
  <2>2. rows' \in [RowIds -> Session \cup {NoRow}]
    <3>1. ASSUME NEW r \in RowIds, rows[r] # NoRow
          PROVE  [rows[r] EXCEPT !.isActive = tasks[t].isActive] \in Session
      BY <1>0, <2>1, <3>1 DEF TypeOK, Session
    <3>2. tasks[t].row \in RowIds
      BY <1>0, <1>3 DEF SaveSession, At, Shaped
    <3> QED
      BY <1>0, <1>3, <3>1, <3>2 DEF SaveSession, TypeOK
  <2> QED
    BY <1>3, <2>2, EndTyped DEF SaveSession, Typed, TypeOK
<1>4. CASE InsertSession(t)
  <2>1. /\ Row(tasks[t].project, tasks[t].user, tasks[t].isActive) \in Session
    BY <1>0, <1>4 DEF InsertSession, At, Shaped, TaskRecord, Managing, Row, Session
  <2>2. rows' \in [RowIds -> Session \cup {NoRow}]
    BY <1>0, <1>4, <2>1 DEF InsertSession, TypeOK
  <2>3. Answer(t) \/ Reject(t)
    BY <1>4 DEF InsertSession
  <2> QED
    BY <1>4, <2>2, <2>3, EndTyped DEF InsertSession, Typed, TypeOK
<1>5. CASE ProcessEnds(t)
  <2>1. asked' \in [Projects -> [Users -> BOOLEAN \cup {None}]]
    BY <1>0, <1>5 DEF ProcessEnds, TypeOK
  <2> QED
    BY <1>5, <2>1, IdleTyped DEF ProcessEnds, Typed, TypeOK
<1>6. CASE DeleteProject(t)
  <2>1. /\ owner' \in [Projects -> Users \cup {None}]
        /\ rows' \in [RowIds -> Session \cup {NoRow}]
    BY <1>0, <1>6 DEF DeleteProject, TypeOK
  <2> QED
    BY <1>6, <2>1, FinishTyped DEF DeleteProject, Typed, TypeOK
<1>7. CASE InsertOwned(t) \/ SaveOwned(t)
  <2>1. tasks[t].user \in Users /\ Finish(t) /\ UNCHANGED <<rows, asked>>
    BY <1>0, <1>7 DEF InsertOwned, SaveOwned, At, Shaped
  <2>2. owner' \in [Projects -> Users \cup {None}]
    BY <1>0, <1>7, <2>1, WrittenOwnerTyped DEF InsertOwned, SaveOwned, TypeOK
  <2> QED
    BY <2>1, <2>2, FinishTyped DEF Typed, TypeOK
<1> QED
  BY <1>1, <1>2, <1>3, <1>4, <1>5, <1>6, <1>7

LEMMA NextTyped ==
    ASSUME Typed, [Next]_vars
    PROVE  Typed'
<1>1. CASE Next
  <2>1. PICK t \in Tasks :
          (Step(t) \/ \E p \in Projects, u \in Users : Call(t, p, u)) /\ UNCHANGED liberties
    BY <1>1 DEF Next
  <2>2. CASE Step(t)
    BY <2>1, <2>2, LookupTyped, WriteTyped, UpdateTyped DEF Step
  <2>3. CASE \E p \in Projects, u \in Users : Call(t, p, u)
    BY <2>1, <2>3, CallTyped
  <2> QED
    BY <2>1, <2>2, <2>3
<1>2. CASE UNCHANGED vars
  BY <1>2 DEF vars, Typed, TypeOK
<1> QED
  BY <1>1, <1>2

\* Every call in flight is some user's for some project, and one that found a
\* session has its id, whatever calls, removals and restarts do to each other.
LEMMA AlwaysTyped == Spec => []Typed
<1>1. Init => Typed
  BY InitTyped, SessionConstants DEF Init
<1>2. Typed /\ [Next]_vars => Typed'
  BY NextTyped
<1> QED
  BY <1>1, <1>2, PTL DEF Spec

\* TypeOK: rows of project_sessions are whole or not there, however calls,
\* updates nobody awaits, removals of the project (ON DELETE CASCADE) and
\* restarts of the process interleave.
THEOREM SessionsTypeCorrect == Spec => []TypeOK
<1>1. Typed => TypeOK
  BY DEF Typed
<1> QED
  BY <1>1, AlwaysTyped, PTL

-----------------------------------------------------------------------------
(* One row per user and project, as long as calls do not overlap *)

\* A row that is not there is nobody's.
LEMMA NobodysRow ==
    ASSUME NEW k, Shaped(k), k.pc \notin {"idle", "updating"}
    PROVE  ~Own(k, NoRow)
BY NoneDistinct DEF Shaped, Own, NoRow

\* A step that gives no row to anybody, and takes one call further or ends it.
LEMMA FrameSequential ==
    ASSUME Typed, Sequential, "overlap" \notin liberties, UNCHANGED liberties,
           NEW t \in Tasks, NEW k,
           tasks' = [tasks EXCEPT ![t] = k],
           \A r \in RowIds : \/ rows'[r] = NoRow
                             \/ /\ rows[r] # NoRow
                                /\ rows'[r].project = rows[r].project
                                /\ rows'[r].user = rows[r].user,
           Awaited(k) => /\ Awaited(tasks[t])
                         /\ k.project = tasks[t].project /\ k.user = tasks[t].user,
           Learnt(k, rows')
    PROVE  Sequential'
<1>1. OneByOne'
  <2>1. \A x \in Tasks : Awaited(tasks'[x]) =>
          /\ Awaited(tasks[x])
          /\ tasks'[x].project = tasks[x].project /\ tasks'[x].user = tasks[x].user
    BY DEF Typed, TypeOK
  <2> QED
    BY <2>1 DEF Sequential, OneByOne, Awaited, Managing
<1>2. SingleRow'
  <2> SUFFICES ASSUME NEW r1 \in RowIds, NEW r2 \in RowIds, rows'[r1] # NoRow,
                      rows'[r1].project = rows'[r2].project,
                      rows'[r1].user = rows'[r2].user
               PROVE  r1 = r2
    BY DEF SingleRow
  <2>1. rows[r1] \in Session
    BY DEF Typed, TypeOK
  <2>2. rows'[r1].project \in Projects
    BY <2>1 DEF Session
  <2>3. rows'[r2] # NoRow
    BY <2>2, NoneDistinct DEF NoRow
  <2> QED
    BY <2>3 DEF Sequential, SingleRow
<1>3. StillTrue'
  <2> SUFFICES ASSUME NEW x \in Tasks
               PROVE  Learnt(tasks'[x], rows')
    BY DEF StillTrue
  <2>1. CASE x = t
    BY <2>1 DEF Typed, TypeOK
  <2>2. CASE x # t /\ tasks[x].pc \in {"loadSession", "saveSession", "insertSession"}
    <3>1. tasks'[x] = tasks[x]
      BY <2>2 DEF Typed, TypeOK
    <3>2. \A r \in RowIds : Own(tasks[x], rows'[r]) => Own(tasks[x], rows[r])
      BY <2>2, NobodysRow DEF Typed, Own
    <3> QED
      BY <3>1, <3>2 DEF Sequential, StillTrue, Learnt
  <2>3. CASE x # t /\ tasks[x].pc \notin {"loadSession", "saveSession", "insertSession"}
    BY <2>3 DEF Typed, TypeOK, Learnt
  <2> QED
    BY <2>1, <2>2, <2>3
<1> QED
  BY <1>1, <1>2, <1>3 DEF Sequential

\* A step after which the call knows nothing of the rows.
LEMMA KnowsNothing ==
    ASSUME NEW k, NEW rs, k.pc \notin {"loadSession", "saveSession", "insertSession"}
    PROVE  Learnt(k, rs)
BY DEF Learnt

\* A call that begins is the only awaited one of its user for the project.
LEMMA BeginsSequential ==
    ASSUME Typed, Sequential, "overlap" \notin liberties, UNCHANGED <<liberties, rows>>,
           NEW t \in Tasks, NEW p \in Projects, NEW u \in Users, NEW isActive \in BOOLEAN,
           NEW pc \in {"findProject", "findSession"},
           Begins(t, pc, p, u, isActive)
    PROVE  Sequential'
<1> DEFINE k == [Idle EXCEPT !.pc = pc, !.project = p, !.user = u, !.isActive = isActive]
<1>1. tasks'[t] = k /\ \A x \in Tasks \ {t} : tasks'[x] = tasks[x]
  BY DEF Begins, Typed, TypeOK
<1>2. k.project = p /\ k.user = u /\ k.pc = pc
  BY DEF Idle
<1>3. \A x \in Tasks : Awaited(tasks[x]) => tasks[x].project # p \/ tasks[x].user # u
  BY DEF Begins, Calling, Awaited, Managing
<1>4. OneByOne'
  <2> HIDE DEF k
  <2> SUFFICES ASSUME NEW x \in Tasks, NEW y \in Tasks,
                      Awaited(tasks'[x]), Awaited(tasks'[y]),
                      tasks'[x].project = tasks'[y].project,
                      tasks'[x].user = tasks'[y].user
               PROVE  x = y
    BY DEF OneByOne, Awaited, Managing
  <2>1. CASE x # t /\ y # t
    BY <1>1, <2>1 DEF Sequential, OneByOne
  <2>2. CASE x = t \/ y = t
    BY <1>1, <1>2, <1>3, <2>2
  <2> QED
    BY <2>1, <2>2
<1>5. SingleRow'
  BY DEF Sequential, SingleRow
<1>6. StillTrue'
  <2> HIDE DEF k
  <2>1. Learnt(k, rows)
    BY <1>2, KnowsNothing
  <2> QED
    BY <1>1, <2>1 DEF Sequential, StillTrue
<1> QED
  BY <1>4, <1>5, <1>6 DEF Sequential

\* Nothing is known of the rows where no join or leave is.
LEMMA UnawaitedSequential ==
    ASSUME Typed, Sequential, "overlap" \notin liberties, UNCHANGED <<liberties, rows>>,
           NEW t \in Tasks, NEW k, tasks' = [tasks EXCEPT ![t] = k],
           k.pc \in {"idle", "updating"} \cup Managing
    PROVE  Sequential'
<1>1. ~Awaited(k) /\ Learnt(k, rows')
  BY KnowsNothing DEF Awaited, Managing
<1> QED
  BY <1>1, FrameSequential

LEMMA CallSequential ==
    ASSUME Typed, Sequential, "overlap" \notin liberties, UNCHANGED liberties,
           NEW t \in Tasks, NEW p \in Projects, NEW u \in Users, Call(t, p, u)
    PROVE  Sequential'
<1>1. CASE JoinProject(t, p, u) \/ LeaveProject(t, p, u)
  BY <1>1, BeginsSequential DEF JoinProject, LeaveProject
<1>2. ASSUME NEW pc \in Managing, Manage(t, pc, p, u)
      PROVE  Sequential'
  <2> DEFINE k == [Idle EXCEPT !.pc = pc, !.project = p, !.user = u]
  <2>1. k.pc = pc /\ tasks' = [tasks EXCEPT ![t] = k] /\ UNCHANGED rows
    BY <1>2 DEF Manage, Idle
  <2> HIDE DEF k
  <2> QED
    BY <2>1, UnawaitedSequential
<1> QED
  BY <1>1, <1>2 DEF Call, UpdateProject, RemoveProject, Managing

\* The update nobody awaits.
LEMMA UpdateSequential ==
    ASSUME Typed, Sequential, "overlap" \notin liberties, UNCHANGED liberties,
           NEW t \in Tasks, UpdateCursorPosition(t) \/ UpdateSession(t)
    PROVE  Sequential'
<1>1. PICK pc \in {"idle", "updating"} : GoOn(t, pc) /\ UNCHANGED rows
  BY DEF UpdateCursorPosition, UpdateSession
<1> DEFINE k == [tasks[t] EXCEPT !.pc = pc]
<1>2. k.pc = pc /\ tasks' = [tasks EXCEPT ![t] = k]
  BY <1>1 DEF GoOn, Typed, TypeOK, TaskRecord
<1> HIDE DEF k
<1> QED
  BY <1>1, <1>2, UnawaitedSequential

LEMMA IdleLearnt == \A rs : Learnt(Idle, rs) /\ ~Awaited(Idle)
BY DEF Idle, Learnt, Awaited, Managing

\* Going on to a place where nothing is known of the rows.
LEMMA GoOnSequential ==
    ASSUME Typed, Sequential, "overlap" \notin liberties, UNCHANGED <<liberties, rows>>,
           NEW t \in Tasks, Awaited(tasks[t]), NEW k,
           tasks' = [tasks EXCEPT ![t] = k],
           k.project = tasks[t].project, k.user = tasks[t].user,
           k.pc \notin {"loadSession", "saveSession", "insertSession"}
    PROVE  Sequential'
BY KnowsNothing, FrameSequential

\* The call ends, and gives no row to anybody.
LEMMA EndSequential ==
    ASSUME Typed, Sequential, "overlap" \notin liberties, UNCHANGED liberties,
           NEW t \in Tasks,
           tasks' = [tasks EXCEPT ![t] = Idle],
           \A r \in RowIds : \/ rows'[r] = NoRow
                             \/ /\ rows[r] # NoRow
                                /\ rows'[r].project = rows[r].project
                                /\ rows'[r].user = rows[r].user
    PROVE  Sequential'
BY IdleLearnt, FrameSequential

LEMMA FindSessionSequential ==
    ASSUME Typed, Sequential, "overlap" \notin liberties, UNCHANGED liberties,
           NEW t \in Tasks, FindSession(t)
    PROVE  Sequential'
<1>1. /\ tasks[t] \in TaskRecord /\ tasks[t].pc = "findSession"
      /\ tasks[t].project \in Projects
  BY DEF Typed, TypeOK, Shaped, FindSession, At
<1>2. UNCHANGED rows
  BY DEF FindSession
<1>3. ASSUME NEW r \in RowsOf(tasks[t].project, tasks[t].user),
             tasks' = [tasks EXCEPT ![t].row = r, ![t].pc = "loadSession"]
      PROVE  Sequential'
  <2> DEFINE k == [tasks[t] EXCEPT !.row = r, !.pc = "loadSession"]
  <2>1. tasks' = [tasks EXCEPT ![t] = k]
    BY <1>3 DEF Typed, TypeOK
  <2>2. /\ k.pc = "loadSession" /\ k.row = r
        /\ k.project = tasks[t].project /\ k.user = tasks[t].user
    BY <1>1 DEF TaskRecord, Managing
  <2> HIDE DEF k
  <2>3. rows[r] # NoRow
    BY <1>1, <1>3, NoneDistinct DEF RowsOf, NoRow
  <2>4. Learnt(k, rows')
    BY <1>2, <2>2, <2>3 DEF Learnt, Own, RowsOf, Sequential, SingleRow
  <2> QED
    BY <1>1, <1>2, <2>1, <2>2, <2>4, FrameSequential DEF Awaited, Managing
<1>4. ASSUME RowsOf(tasks[t].project, tasks[t].user) = {}, GoOn(t, "insertSession")
      PROVE  Sequential'
  <2> DEFINE k == [tasks[t] EXCEPT !.pc = "insertSession"]
  <2>1. tasks' = [tasks EXCEPT ![t] = k]
    BY <1>4 DEF GoOn
  <2>2. k.project = tasks[t].project /\ k.user = tasks[t].user
    BY <1>1 DEF TaskRecord, Managing
  <2> HIDE DEF k
  <2>3. Learnt(k, rows')
    BY <1>2, <1>4, <2>2 DEF Learnt, Own, RowsOf
  <2> QED
    BY <1>1, <1>2, <2>1, <2>2, <2>3, FrameSequential DEF Awaited, Managing
<1>5. CASE Answer(t)
  BY <1>2, <1>5, EndSequential DEF Answer, Finish
<1> QED
  BY <1>3, <1>4, <1>5 DEF FindSession

LEMMA LoadSessionSequential ==
    ASSUME Typed, Sequential, "overlap" \notin liberties, UNCHANGED liberties,
           NEW t \in Tasks, LoadSession(t)
    PROVE  Sequential'
<1>1. /\ tasks[t] \in TaskRecord /\ tasks[t].pc = "loadSession"
      /\ tasks[t].project \in Projects /\ tasks[t].row \in RowIds
  BY DEF Typed, TypeOK, Shaped, LoadSession, At
<1>2. UNCHANGED rows /\ Learnt(tasks[t], rows)
  BY DEF LoadSession, Sequential, StillTrue
<1>3. PICK k : /\ tasks' = [tasks EXCEPT ![t] = k]
               /\ k.project = tasks[t].project /\ k.user = tasks[t].user
               /\ k.row = tasks[t].row
               /\ \/ k.pc = "saveSession"
                  \/ k.pc = "insertSession" /\ rows[k.row] = NoRow
  <2>1. CASE rows[tasks[t].row] = NoRow
    <3> WITNESS [tasks[t] EXCEPT !.pc = "insertSession"]
    <3> QED
      BY <1>1, <2>1 DEF LoadSession, GoOn, TaskRecord, Managing
  <2>2. CASE rows[tasks[t].row] # NoRow
    <3> WITNESS [tasks[t] EXCEPT !.found = rows[tasks[t].row].isActive, !.pc = "saveSession"]
    <3> QED
      BY <1>1, <2>2 DEF LoadSession, Typed, TypeOK, TaskRecord, Managing
  <2> QED
    BY <2>1, <2>2
<1>4. Learnt(k, rows')
  <2>1. \A r \in RowIds : Own(k, rows[r]) => r = k.row /\ rows[r] # NoRow
    BY <1>1, <1>2, <1>3, NoneDistinct DEF Learnt, Own, NoRow
  <2> QED
    BY <1>2, <1>3, <2>1 DEF Learnt
<1> QED
  BY <1>1, <1>2, <1>3, <1>4, FrameSequential DEF Awaited, Managing

\* The one step that gives somebody a row: nobody else awaits this user's call
\* for the project, and the user has no row there.
LEMMA InsertSessionSequential ==
    ASSUME Typed, Sequential, "overlap" \notin liberties, UNCHANGED liberties,
           NEW t \in Tasks, InsertSession(t)
    PROVE  Sequential'
<1> DEFINE k == tasks[t]
<1>1. k \in TaskRecord /\ k.pc = "insertSession" /\ k.project \in Projects
  BY DEF Typed, TypeOK, Shaped, InsertSession, At
<1>2. \A r \in RowIds : ~Own(k, rows[r])
  BY <1>1 DEF Sequential, StillTrue, Learnt
<1>3. CASE Reject(t) /\ UNCHANGED rows
  BY <1>3, EndSequential DEF Reject, Finish
<1>4. ASSUME NEW r \in RowIds, rows[r] = NoRow, Answer(t),
             rows' = [rows EXCEPT ![r] = Row(k.project, k.user, k.isActive)]
      PROVE  Sequential'
  <2>1. /\ rows'[r].project = k.project /\ rows'[r].user = k.user
        /\ \A q \in RowIds \ {r} : rows'[q] = rows[q]
    BY <1>4 DEF Row, Typed, TypeOK
  <2>2. tasks'[t] = Idle /\ \A x \in Tasks \ {t} : tasks'[x] = tasks[x]
    BY <1>4 DEF Answer, Finish, Typed, TypeOK
  <2>3. OneByOne'
    BY <2>2, IdleLearnt DEF Sequential, OneByOne, Awaited, Managing
  <2>4. SingleRow'
    BY <1>2, <2>1 DEF Sequential, SingleRow, Own
  <2>5. ASSUME NEW x \in Tasks PROVE Learnt(tasks'[x], rows')
    <3>1. CASE x = t
      BY <2>2, <3>1, IdleLearnt
    <3>2. CASE x # t /\ ~Own(tasks[x], rows'[r])
      BY <2>1, <2>2, <3>2 DEF Sequential, StillTrue, Learnt
    <3>3. CASE x # t /\ Own(tasks[x], rows'[r])
      <4>1. ~Awaited(tasks[x])
        BY <1>1, <2>1, <3>3 DEF Sequential, OneByOne, Awaited, Managing, Own
      <4> QED
        BY <2>2, <3>3, <4>1 DEF Learnt, Awaited, Managing
    <3> QED
      BY <3>1, <3>2, <3>3
  <2> QED
    BY <2>3, <2>4, <2>5 DEF Sequential, StillTrue
<1> QED
  BY <1>3, <1>4 DEF InsertSession

\* Steps that write what is there, delete it, or end the call.
LEMMA WriteSequential ==
    ASSUME Typed, Sequential, "overlap" \notin liberties, UNCHANGED liberties,
           NEW t \in Tasks,
           \/ SaveSession(t) \/ DeleteProject(t) \/ DbCallFails(t)
    PROVE  Sequential'
<1> DEFINE Kept == \A r \in RowIds : \/ rows'[r] = NoRow
                                    \/ /\ rows[r] # NoRow
                                       /\ rows'[r].project = rows[r].project
                                       /\ rows'[r].user = rows[r].user
<1>1. tasks' = [tasks EXCEPT ![t] = Idle]
  BY DEF SaveSession, DeleteProject, DbCallFails, Answer, Reject, Finish
<1>2. Kept
  <2>1. CASE SaveSession(t)
    <3> SUFFICES ASSUME NEW r \in RowIds, rows'[r] # rows[r]
                 PROVE  /\ rows[r] # NoRow
                        /\ rows'[r].project = rows[r].project
                        /\ rows'[r].user = rows[r].user
      OBVIOUS
    <3>1. /\ rows[r] # NoRow
          /\ rows'[r] = [rows[r] EXCEPT !.isActive = tasks[t].isActive]
      BY <2>1 DEF SaveSession, Typed, TypeOK
    <3>2. rows[r] \in Session
      BY <3>1 DEF Typed, TypeOK
    <3> QED
      BY <3>1, <3>2 DEF Session
  <2>2. CASE DeleteProject(t)
    BY <2>2 DEF DeleteProject
  <2>3. CASE DbCallFails(t)
    BY <2>3 DEF DbCallFails
  <2> QED
    BY <2>1, <2>2, <2>3
<1> QED
  BY <1>1, <1>2, EndSequential

\* How tasks change in the steps that find out about a project or write it.
LEMMA ProjectSteps ==
    ASSUME Typed, NEW t \in Tasks,
           \/ FindProject(t) \/ LoadProject(t) \/ InsertProject(t) \/ TakeProject(t)
           \/ FindToUpdate(t) \/ LoadOwned(t) \/ FindToRemove(t)
           \/ InsertOwned(t) \/ SaveOwned(t)
    PROVE  /\ UNCHANGED rows
           /\ \/ Reject(t) /\ tasks[t].pc = "insertProject"
              \/ /\ UNCHANGED asked
                 /\ \E k : /\ tasks' = [tasks EXCEPT ![t] = k]
                          /\ \/ tasks[t].pc \in Managing /\ k = Idle
                             \/ /\ k.project = tasks[t].project /\ k.user = tasks[t].user
                                /\ tasks[t].pc \in Managing <=> k.pc \in Managing
                                /\ k.pc \notin {"loadSession", "saveSession", "insertSession"}
                                /\ tasks[t].pc \notin {"idle", "updating"}
<1>1. tasks[t] \in TaskRecord
  BY DEF Typed, TypeOK
<1>2. CASE FindProject(t) \/ InsertProject(t) \/ TakeProject(t)
  <2>1. CASE InsertProject(t) /\ Reject(t)
    BY <2>1 DEF InsertProject, At
  <2>2. CASE ~(InsertProject(t) /\ Reject(t))
    <3>1. PICK pc \in {"loadProject", "findSession"} : GoOn(t, pc) /\ UNCHANGED asked
      BY <1>2, <2>2 DEF FindProject, InsertProject, TakeProject
    <3> DEFINE k == [tasks[t] EXCEPT !.pc = pc]
    <3>2. k.project = tasks[t].project /\ k.user = tasks[t].user /\ k.pc = pc
      BY <1>1 DEF TaskRecord
    <3>3. tasks' = [tasks EXCEPT ![t] = k]
      BY <3>1 DEF GoOn
    <3> HIDE DEF k
    <3> QED
      BY <1>2, <3>1, <3>2, <3>3 DEF FindProject, InsertProject, TakeProject, At, Managing
  <2> QED
    BY <2>1, <2>2
<1>3. CASE LoadProject(t) \/ LoadOwned(t)
  <2>1. PICK insert \in {"insertProject", "insertOwned"},
             write \in {"takeProject", "saveOwned"} :
          /\ Load(t, insert, write)
          /\ \/ tasks[t].pc = "loadProject" /\ insert = "insertProject" /\ write = "takeProject"
             \/ tasks[t].pc = "loadOwned" /\ insert = "insertOwned" /\ write = "saveOwned"
    BY <1>3 DEF LoadProject, LoadOwned, At
  <2> DEFINE pc == IF owner[tasks[t].project] = None THEN insert ELSE write
             k  == [tasks[t] EXCEPT !.pc = pc,
                                    !.found = owner[tasks[t].project] = tasks[t].user]
  <2>2. k.project = tasks[t].project /\ k.user = tasks[t].user /\ k.pc = pc
    BY <1>1 DEF TaskRecord
  <2>3. tasks' = [tasks EXCEPT ![t] = k] /\ UNCHANGED <<rows, asked>>
    BY <2>1, <1>1 DEF Load, Typed, TypeOK
  <2>4. pc \in {insert, write}
    OBVIOUS
  <2> HIDE DEF k, pc
  <2> QED
    BY <2>1, <2>2, <2>3, <2>4 DEF Managing
<1>4. CASE FindToUpdate(t) \/ FindToRemove(t)
  <2>1. PICK pc \in {"loadOwned", "removing"} :
          tasks[t].pc \in {"findOwned", "findToRemove"} /\ FindOwned(t, pc)
    BY <1>4 DEF FindToUpdate, FindToRemove, At
  <2> DEFINE k == [tasks[t] EXCEPT !.pc = pc]
  <2>2. k.project = tasks[t].project /\ k.user = tasks[t].user /\ k.pc = pc
    BY <1>1 DEF TaskRecord
  <2>3. /\ UNCHANGED <<rows, asked>>
        /\ tasks' = [tasks EXCEPT ![t] = k] \/ tasks' = [tasks EXCEPT ![t] = Idle]
    BY <2>1 DEF FindOwned, GoOn, Finish
  <2> HIDE DEF k
  <2> QED
    BY <2>1, <2>2, <2>3 DEF Managing
<1>5. CASE InsertOwned(t) \/ SaveOwned(t)
  BY <1>5 DEF InsertOwned, SaveOwned, At, Finish, Managing
<1> QED
  BY <1>2, <1>3, <1>4, <1>5

LEMMA LookupSequential ==
    ASSUME Typed, Sequential, "overlap" \notin liberties, UNCHANGED liberties,
           NEW t \in Tasks,
           \/ FindProject(t) \/ LoadProject(t) \/ InsertProject(t) \/ TakeProject(t)
           \/ FindToUpdate(t) \/ LoadOwned(t) \/ FindToRemove(t)
           \/ InsertOwned(t) \/ SaveOwned(t)
    PROVE  Sequential'
<1>1. UNCHANGED rows
  BY ProjectSteps
<1>2. CASE Reject(t)
  BY <1>1, <1>2, EndSequential DEF Reject, Finish
<1>3. CASE ~Reject(t)
  <2>1. PICK k : /\ tasks' = [tasks EXCEPT ![t] = k]
                 /\ \/ k = Idle
                    \/ /\ k.project = tasks[t].project /\ k.user = tasks[t].user
                       /\ tasks[t].pc \in Managing <=> k.pc \in Managing
                       /\ k.pc \notin {"loadSession", "saveSession", "insertSession"}
                       /\ tasks[t].pc \notin {"idle", "updating"}
    BY <1>3, ProjectSteps
  <2>2. CASE k = Idle
    BY <1>1, <2>1, <2>2, EndSequential
  <2>3. CASE k # Idle /\ k.pc \in Managing
    BY <1>1, <2>1, <2>3, UnawaitedSequential
  <2>4. CASE k # Idle /\ k.pc \notin Managing
    BY <1>1, <2>1, <2>4, GoOnSequential DEF Awaited
  <2> QED
    BY <2>2, <2>3, <2>4
<1> QED
  BY <1>2, <1>3

\* The process ends, and no call is left.
LEMMA ProcessEndsSequential ==
    ASSUME Typed, Sequential, NEW t \in Tasks, ProcessEnds(t), UNCHANGED liberties
    PROVE  Sequential'
<1>1. \A x \in Tasks : tasks'[x] = Idle
  BY DEF ProcessEnds
<1>2. UNCHANGED rows
  BY DEF ProcessEnds
<1>3. OneByOne' /\ StillTrue'
  BY <1>1, IdleLearnt DEF OneByOne, StillTrue
<1> QED
  BY <1>2, <1>3 DEF Sequential, SingleRow

LEMMA NextSequential ==
    ASSUME Typed, Sequential, [Next]_vars
    PROVE  Sequential'
<1>1. CASE UNCHANGED vars
  BY <1>1 DEF vars, Sequential, OneByOne, SingleRow, StillTrue
<1>2. CASE Next /\ "overlap" \in liberties
  BY <1>2 DEF Next, Sequential
<1>3. CASE Next /\ "overlap" \notin liberties
  <2>1. PICK t \in Tasks :
          (Step(t) \/ \E p \in Projects, u \in Users : Call(t, p, u)) /\ UNCHANGED liberties
    BY <1>3 DEF Next
  <2>2. CASE Step(t)
    BY <1>3, <2>1, <2>2, UpdateSequential, LookupSequential, FindSessionSequential,
       LoadSessionSequential,
       InsertSessionSequential, WriteSequential, ProcessEndsSequential DEF Step
  <2>3. CASE \E p \in Projects, u \in Users : Call(t, p, u)
    BY <1>3, <2>1, <2>3, CallSequential
  <2> QED
    BY <2>1, <2>2, <2>3
<1> QED
  BY <1>1, <1>2, <1>3

LEMMA InitSequential == Init => Sequential
<1> SUFFICES ASSUME Init PROVE Sequential
  OBVIOUS
<1>1. OneByOne /\ StillTrue
  BY IdleLearnt DEF Init, OneByOne, StillTrue
<1> QED
  BY <1>1 DEF Init, Sequential, SingleRow

\* SingleRow: createOrUpdateSession looks a session up and inserts one if it
\* found none, with nothing in the schema to keep a second one out; as long as
\* no call of a user overlaps another one of the user for the project, the user
\* has one row there: whatever other users do, owners remove, database calls
\* reject, and however often the process restarts.
THEOREM SessionsSingleRow == Spec => []SingleRow
<1>1. Init => Sequential
  BY InitSequential
<1>2. Typed /\ Sequential /\ [Next]_vars => Sequential'
  BY NextSequential
<1>3. Sequential => SingleRow
  BY DEF Sequential, SingleRow
<1> QED
  BY <1>1, <1>2, <1>3, AlwaysTyped, PTL DEF Spec

-----------------------------------------------------------------------------
(* What the last answered call asked for is saved *)

Holding(k) == k.pc \in {"loadSession", "saveSession", "insertSession"} /\ k.row # None

\* The row a call holds has gone or is its user's, and is as save found it.
Knows(k, rs) ==
    Holding(k) =>
      \/ rs[k.row] = NoRow
      \/ Own(k, rs[k.row]) /\ (k.pc = "saveSession" => rs[k.row].isActive = k.found)

\* Calls hold different rows.
Apart ==
    \A x, y \in Tasks :
      Holding(tasks[x]) /\ Holding(tasks[y]) /\ tasks[x].row = tasks[y].row => x = y

Answered ==
    "overlap" \notin liberties =>
      /\ Apart
      /\ \A x \in Tasks : Knows(tasks[x], rows)
      /\ AnsweredIsSaved

Ready == Typed /\ Sequential /\ Answered /\ "overlap" \notin liberties

\* A step of one call that writes no row, though it may delete some.
LEMMA FrameAnswered ==
    ASSUME Ready, UNCHANGED liberties, NEW t \in Tasks, NEW k,
           tasks' = [tasks EXCEPT ![t] = k],
           \A r \in RowIds : rows'[r] = NoRow \/ rows'[r] = rows[r],
           Knows(k, rows'),
           Holding(k) => \A y \in Tasks \ {t} : Holding(tasks[y]) => tasks[y].row # k.row,
           \A p \in Projects, u \in Users : ~Calling(p, u)' =>
             \/ ~Calling(p, u) /\ asked'[p][u] = asked[p][u]
             \/ asked'[p][u] = None
             \/ \A r \in RowIds : rows'[r].project # p \/ rows'[r].user # u
    PROVE  Answered'
<1>1. tasks'[t] = k /\ \A x \in Tasks \ {t} : tasks'[x] = tasks[x]
  BY DEF Ready, Typed, TypeOK
<1>2. Apart'
  <2>1. ASSUME NEW x \in Tasks, NEW y \in Tasks, Holding(tasks'[x]), Holding(tasks'[y]),
               tasks'[x].row = tasks'[y].row
        PROVE  x = y
    BY <1>1, <2>1 DEF Ready, Answered, Apart
  <2> QED
    BY <2>1 DEF Apart, Holding
<1>3. \A x \in Tasks : Knows(tasks'[x], rows')
  <2> SUFFICES ASSUME NEW x \in Tasks, x # t PROVE Knows(tasks'[x], rows')
    BY <1>1
  <2>1. tasks'[x] = tasks[x] /\ tasks[x].row \in RowIds \cup {None}
    BY <1>1 DEF Ready, Typed, TypeOK, TaskRecord, Managing
  <2>2. Knows(tasks[x], rows)
    BY DEF Ready, Answered
  <2> QED
    BY <2>1, <2>2 DEF Knows, Holding
<1>4. AnsweredIsSaved'
  <2> SUFFICES ASSUME NEW p \in Projects, NEW u \in Users, ~Calling(p, u)',
                      asked'[p][u] # None, NEW r \in RowIds,
                      rows'[r].project = p, rows'[r].user = u
               PROVE  rows'[r].isActive = asked'[p][u]
    BY DEF AnsweredIsSaved, RowsOf
  <2>1. rows'[r] = rows[r]
    BY NoneDistinct DEF NoRow
  <2>2. ~Calling(p, u) /\ asked'[p][u] = asked[p][u]
    OBVIOUS
  <2> QED
    BY <2>1, <2>2 DEF Ready, Answered, AnsweredIsSaved, RowsOf
<1> QED
  BY <1>2, <1>3, <1>4 DEF Answered, Knows, Holding, Own

\* Whoever still has no call in flight after the step had none before.
LEMMA StillCalling ==
    ASSUME Typed, NEW t \in Tasks, NEW k, tasks' = [tasks EXCEPT ![t] = k],
           NEW p \in Projects, NEW u \in Users, ~Calling(p, u)',
           \/ /\ k.project = tasks[t].project /\ k.user = tasks[t].user
              /\ k.pc \notin Managing
           \/ p # tasks[t].project \/ u # tasks[t].user
           \/ tasks[t].pc \in Managing
    PROVE  ~Calling(p, u)
<1>1. tasks'[t] = k /\ \A x \in Tasks \ {t} : tasks'[x] = tasks[x]
  BY DEF Typed, TypeOK
<1>2. \A x \in Tasks : \/ tasks'[x].project # p \/ tasks'[x].user # u
                       \/ tasks'[x].pc \in Managing
  BY DEF Calling
<1> QED
  BY <1>1, <1>2 DEF Calling

\* A call that goes on and writes nothing.
LEMMA GoOnAnswered ==
    ASSUME Ready, UNCHANGED <<liberties, rows, asked>>, NEW t \in Tasks, NEW k,
           tasks' = [tasks EXCEPT ![t] = k],
           k.project = tasks[t].project, k.user = tasks[t].user,
           k.pc \notin Managing, Knows(k, rows),
           Holding(k) => \A y \in Tasks \ {t} : Holding(tasks[y]) => tasks[y].row # k.row
    PROVE  Answered'
<1>1. \A p \in Projects, u \in Users : ~Calling(p, u)' => ~Calling(p, u)
  BY StillCalling DEF Ready
<1> QED
  BY <1>1, FrameAnswered

\* A call that ends: what it answers is true of its user's rows.
LEMMA EndAnswered ==
    ASSUME Ready, UNCHANGED liberties, NEW t \in Tasks, NEW known,
           tasks' = [tasks EXCEPT ![t] = Idle],
           asked' = [asked EXCEPT ![tasks[t].project][tasks[t].user] = known],
           \A r \in RowIds : rows'[r] = NoRow \/ rows'[r] = rows[r],
           known = None \/ \A r \in RowIds : ~Own(tasks[t], rows'[r])
    PROVE  Answered'
<1>1. ASSUME NEW p \in Projects, NEW u \in Users, ~Calling(p, u)'
      PROVE  \/ ~Calling(p, u) /\ asked'[p][u] = asked[p][u]
             \/ asked'[p][u] = None
             \/ \A r \in RowIds : rows'[r].project # p \/ rows'[r].user # u
  <2>1. CASE p = tasks[t].project /\ u = tasks[t].user
    BY <2>1 DEF Ready, Typed, TypeOK, Own
  <2>2. CASE p # tasks[t].project \/ u # tasks[t].user
    <3>1. ~Calling(p, u)
      BY <1>1, <2>2, StillCalling DEF Ready
    <3> QED
      BY <2>2, <3>1 DEF Ready, Typed, TypeOK
  <2> QED
    BY <2>1, <2>2
<1>2. ~Holding(Idle)
  BY DEF Holding, Idle
<1> QED
  BY <1>1, <1>2, FrameAnswered DEF Knows

LEMMA RejectAnswered ==
    ASSUME Ready, UNCHANGED <<liberties, rows>>, NEW t \in Tasks, Reject(t)
    PROVE  Answered'
BY EndAnswered DEF Reject, Finish

\* Calls that begin.
LEMMA BeginsAnswered ==
    ASSUME Ready, UNCHANGED <<liberties, rows, asked>>, NEW t \in Tasks,
           NEW p \in Projects, NEW u \in Users, NEW isActive \in BOOLEAN,
           NEW pc \in {"findProject", "findSession"}, Begins(t, pc, p, u, isActive)
    PROVE  Answered'
<1> DEFINE k == [Idle EXCEPT !.pc = pc, !.project = p, !.user = u, !.isActive = isActive]
<1>2. /\ tasks' = [tasks EXCEPT ![t] = k]
      /\ k.pc = pc /\ k.project = p /\ k.user = u
  BY DEF Begins, Idle
<1> HIDE DEF k
<1>3. ~Holding(k)
  BY <1>2 DEF Holding
<1>4. ASSUME NEW q \in Projects, NEW v \in Users, ~Calling(q, v)'
      PROVE  ~Calling(q, v)
  <2>1. tasks'[t] = k
    BY <1>2 DEF Ready, Typed, TypeOK
  <2>2. q # p \/ v # u
    BY <1>2, <1>4, <2>1 DEF Calling, Managing
  <2>3. tasks[t].project = None
    BY DEF Begins, Idle
  <2> QED
    BY <1>2, <1>4, <2>2, <2>3, NoneDistinct, StillCalling DEF Ready
<1> QED
  BY <1>2, <1>3, <1>4, FrameAnswered DEF Knows

\* What ProjectsService does is no join or leave, and takes rows only away.
LEMMA ManagingAnswered ==
    ASSUME Ready, UNCHANGED <<liberties, asked>>, NEW t \in Tasks, NEW k,
           tasks[t].pc \in Managing \/ tasks[t].project = None,
           tasks' = [tasks EXCEPT ![t] = k], ~Holding(k),
           \A r \in RowIds : rows'[r] = NoRow \/ rows'[r] = rows[r]
    PROVE  Answered'
<1>1. \A p \in Projects, u \in Users : ~Calling(p, u)' => ~Calling(p, u)
  BY NoneDistinct, StillCalling DEF Ready
<1> QED
  BY <1>1, FrameAnswered DEF Knows

LEMMA CallAnswered ==
    ASSUME Ready, UNCHANGED liberties, NEW t \in Tasks,
           NEW p \in Projects, NEW u \in Users, Call(t, p, u)
    PROVE  Answered'
<1>1. CASE JoinProject(t, p, u) \/ LeaveProject(t, p, u)
  BY <1>1, BeginsAnswered DEF JoinProject, LeaveProject
<1>2. ASSUME NEW pc \in Managing, Manage(t, pc, p, u)
      PROVE  Answered'
  <2> DEFINE k == [Idle EXCEPT !.pc = pc, !.project = p, !.user = u]
  <2>1. /\ k.pc = pc /\ tasks' = [tasks EXCEPT ![t] = k]
        /\ tasks[t].project = None /\ UNCHANGED <<rows, asked>>
    BY <1>2 DEF Manage, Idle
  <2>2. ~Holding(k)
    BY <2>1 DEF Holding, Managing
  <2> HIDE DEF k
  <2> QED
    BY <2>1, <2>2, ManagingAnswered
<1> QED
  BY <1>1, <1>2 DEF Call, UpdateProject, RemoveProject, Managing

\* Steps that learn nothing of the rows.
LEMMA ProjectAnswered ==
    ASSUME Ready, UNCHANGED liberties, NEW t \in Tasks,
           \/ FindProject(t) \/ LoadProject(t) \/ InsertProject(t) \/ TakeProject(t)
           \/ FindToUpdate(t) \/ LoadOwned(t) \/ FindToRemove(t)
           \/ InsertOwned(t) \/ SaveOwned(t)
    PROVE  Answered'
<1>1. Typed
  BY DEF Ready
<1>2. CASE Reject(t)
  BY <1>1, <1>2, ProjectSteps, RejectAnswered
<1>3. CASE ~Reject(t)
  <2>1. PICK k : /\ tasks' = [tasks EXCEPT ![t] = k]
                 /\ \/ tasks[t].pc \in Managing /\ k = Idle
                    \/ /\ k.project = tasks[t].project /\ k.user = tasks[t].user
                       /\ tasks[t].pc \in Managing <=> k.pc \in Managing
                       /\ k.pc \notin {"loadSession", "saveSession", "insertSession"}
    BY <1>1, <1>3, ProjectSteps
  <2>2. ~Holding(k) /\ UNCHANGED <<rows, asked>>
    BY <1>1, <1>3, <2>1, ProjectSteps DEF Holding, Idle
  <2>3. CASE tasks[t].pc \in Managing
    BY <2>1, <2>2, <2>3, ManagingAnswered
  <2>4. CASE tasks[t].pc \notin Managing
    BY <2>1, <2>2, <2>4, GoOnAnswered DEF Knows
  <2> QED
    BY <2>3, <2>4
<1> QED
  BY <1>2, <1>3

LEMMA FailureAnswered ==
    ASSUME Ready, UNCHANGED liberties, NEW t \in Tasks, DbCallFails(t)
    PROVE  Answered'
<1>1. CASE tasks[t].pc \in Managing
  <2>1. ~Holding(Idle)
    BY DEF Holding, Idle
  <2> QED
    BY <1>1, <2>1, ManagingAnswered DEF DbCallFails, Finish
<1>2. CASE tasks[t].pc \notin Managing
  BY <1>2, RejectAnswered DEF DbCallFails
<1> QED
  BY <1>1, <1>2

\* The update nobody awaits.
LEMMA UpdateAnswered ==
    ASSUME Ready, UNCHANGED liberties, NEW t \in Tasks,
           UpdateCursorPosition(t) \/ UpdateSession(t)
    PROVE  Answered'
<1>1. PICK pc \in {"idle", "updating"} : GoOn(t, pc) /\ UNCHANGED <<rows, asked>>
  BY DEF UpdateCursorPosition, UpdateSession
<1> DEFINE k == [tasks[t] EXCEPT !.pc = pc]
<1>2. /\ tasks' = [tasks EXCEPT ![t] = k] /\ k.pc = pc
      /\ k.project = tasks[t].project /\ k.user = tasks[t].user
  BY <1>1 DEF GoOn, Ready, Typed, TypeOK, TaskRecord
<1> HIDE DEF k
<1>3. ~Holding(k) /\ k.pc \notin Managing
  BY <1>2 DEF Holding, Managing
<1> QED
  BY <1>1, <1>2, <1>3, GoOnAnswered DEF Knows

\* The session found is held by nobody else.
LEMMA FindSessionAnswered ==
    ASSUME Ready, UNCHANGED liberties, NEW t \in Tasks, FindSession(t)
    PROVE  Answered'
<1>1. /\ tasks[t] \in TaskRecord /\ tasks[t].pc = "findSession"
      /\ tasks[t].project \in Projects /\ UNCHANGED rows
  BY DEF Ready, Typed, TypeOK, Shaped, FindSession, At
<1>2. ASSUME NEW r \in RowsOf(tasks[t].project, tasks[t].user), UNCHANGED asked,
             tasks' = [tasks EXCEPT ![t].row = r, ![t].pc = "loadSession"]
      PROVE  Answered'
  <2> DEFINE k == [tasks[t] EXCEPT !.row = r, !.pc = "loadSession"]
  <2>1. tasks' = [tasks EXCEPT ![t] = k]
    BY <1>2 DEF Ready, Typed, TypeOK
  <2>2. /\ k.pc = "loadSession" /\ k.row = r
        /\ k.project = tasks[t].project /\ k.user = tasks[t].user
    BY <1>1 DEF TaskRecord, Managing
  <2> HIDE DEF k
  <2>3. rows[r] # NoRow /\ Own(tasks[t], rows[r])
    BY <1>1, NoneDistinct DEF RowsOf, NoRow, Own
  <2>4. ASSUME NEW y \in Tasks \ {t}, Holding(tasks[y]) PROVE tasks[y].row # r
    <3>1. Knows(tasks[y], rows)
      BY DEF Ready, Answered
    <3>2. Awaited(tasks[t]) /\ Awaited(tasks[y])
      BY <1>1, <2>4 DEF Holding, Awaited, Managing
    <3>3. tasks[y].project # tasks[t].project \/ tasks[y].user # tasks[t].user
      BY <3>2 DEF Ready, Sequential, OneByOne
    <3> QED
      BY <2>3, <2>4, <3>1, <3>3 DEF Knows, Own
  <2>5. Knows(k, rows)
    BY <2>2, <2>3 DEF Knows, Own
  <2> QED
    BY <1>1, <1>2, <2>1, <2>2, <2>4, <2>5, GoOnAnswered DEF Managing
<1>3. ASSUME GoOn(t, "insertSession"), UNCHANGED asked
      PROVE  Answered'
  <2> DEFINE k == [tasks[t] EXCEPT !.pc = "insertSession"]
  <2>1. /\ tasks' = [tasks EXCEPT ![t] = k] /\ k.row = tasks[t].row
        /\ k.project = tasks[t].project /\ k.user = tasks[t].user
        /\ k.pc = "insertSession"
    BY <1>1, <1>3 DEF GoOn, TaskRecord, Managing
  <2> HIDE DEF k
  <2>2. tasks[t].row = None
    BY <1>1 DEF Ready, Typed, Shaped
  <2>3. ~Holding(k)
    BY <2>1, <2>2 DEF Holding
  <2> QED
    BY <1>1, <1>3, <2>1, <2>3, GoOnAnswered DEF Knows, Managing
<1>4. ASSUME RowsOf(tasks[t].project, tasks[t].user) = {}, Answer(t)
      PROVE  Answered'
  <2>1. \A r \in RowIds : ~Own(tasks[t], rows'[r])
    BY <1>1, <1>4 DEF RowsOf, Own
  <2> QED
    BY <1>1, <1>4, <2>1, EndAnswered DEF Answer, Finish
<1> QED
  BY <1>2, <1>3, <1>4 DEF FindSession

LEMMA LoadSessionAnswered ==
    ASSUME Ready, UNCHANGED liberties, NEW t \in Tasks, LoadSession(t)
    PROVE  Answered'
<1>1. /\ tasks[t] \in TaskRecord /\ tasks[t].pc = "loadSession"
      /\ tasks[t].row \in RowIds /\ UNCHANGED <<rows, asked>>
  BY DEF Ready, Typed, TypeOK, Shaped, LoadSession, At
<1>2. Holding(tasks[t]) /\ Knows(tasks[t], rows)
  BY <1>1, NoneDistinct DEF Holding, Ready, Answered
<1>3. PICK k : /\ tasks' = [tasks EXCEPT ![t] = k]
               /\ k.project = tasks[t].project /\ k.user = tasks[t].user
               /\ k.row = tasks[t].row
               /\ \/ k.pc = "saveSession" /\ k.found = rows[k.row].isActive
                  \/ k.pc = "insertSession"
  <2>1. CASE rows[tasks[t].row] = NoRow
    <3> WITNESS [tasks[t] EXCEPT !.pc = "insertSession"]
    <3> QED
      BY <1>1, <2>1 DEF LoadSession, GoOn, TaskRecord, Managing
  <2>2. CASE rows[tasks[t].row] # NoRow
    <3> WITNESS [tasks[t] EXCEPT !.found = rows[tasks[t].row].isActive, !.pc = "saveSession"]
    <3> QED
      BY <1>1, <2>2 DEF LoadSession, Ready, Typed, TypeOK, TaskRecord, Managing
  <2> QED
    BY <2>1, <2>2
<1>4. Knows(k, rows)
  BY <1>2, <1>3 DEF Knows, Holding, Own
<1>5. \A y \in Tasks \ {t} : Holding(tasks[y]) => tasks[y].row # k.row
  BY <1>2, <1>3 DEF Ready, Answered, Apart
<1> QED
  BY <1>1, <1>3, <1>4, <1>5, GoOnAnswered DEF Managing

\* The project goes with its sessions, the caller's among them.
LEMMA DeleteProjectAnswered ==
    ASSUME Ready, UNCHANGED liberties, NEW t \in Tasks, DeleteProject(t)
    PROVE  Answered'
<1>1. tasks[t].pc \in Managing /\ Finish(t) /\ UNCHANGED asked
  BY DEF DeleteProject, At, Managing
<1>2. \A r \in RowIds : rows'[r] = NoRow \/ rows'[r] = rows[r]
  BY DEF DeleteProject, Ready, Typed, TypeOK
<1>3. ~Holding(Idle)
  BY DEF Holding, Idle
<1> QED
  BY <1>1, <1>2, <1>3, ManagingAnswered DEF Finish

\* A call that ends having written its user's only row as it was asked to, a
\* row no other call holds.
LEMMA WrittenAnswered ==
    ASSUME Ready, UNCHANGED liberties, NEW t \in Tasks, Answer(t),
           NEW r \in RowIds, \A q \in RowIds \ {r} : rows'[q] = rows[q],
           \A q \in RowIds : Own(tasks[t], rows'[q]) => q = r,
           Own(tasks[t], rows'[r]) /\ rows'[r].isActive = tasks[t].isActive,
           \A y \in Tasks \ {t} : Holding(tasks[y]) => tasks[y].row # r
    PROVE  Answered'
<1>1. tasks'[t] = Idle /\ \A x \in Tasks \ {t} : tasks'[x] = tasks[x]
  BY DEF Answer, Finish, Ready, Typed, TypeOK
<1>2. ~Holding(Idle)
  BY DEF Holding, Idle
<1>3. Apart'
  <2>1. ASSUME NEW x \in Tasks, NEW y \in Tasks, Holding(tasks'[x]), Holding(tasks'[y]),
               tasks'[x].row = tasks'[y].row
        PROVE  x = y
    BY <1>1, <1>2, <2>1 DEF Ready, Answered, Apart
  <2> QED
    BY <2>1 DEF Apart, Holding
<1>4. \A x \in Tasks : Knows(tasks'[x], rows')
  <2> SUFFICES ASSUME NEW x \in Tasks, Holding(tasks'[x]) PROVE Knows(tasks'[x], rows')
    BY DEF Knows
  <2>1. x # t /\ tasks'[x] = tasks[x]
    BY <1>1, <1>2
  <2>2. tasks[x].row \in RowIds /\ tasks[x].row # r
    BY <2>1, NoneDistinct DEF Ready, Typed, TypeOK, TaskRecord, Managing, Holding
  <2>3. Knows(tasks[x], rows)
    BY DEF Ready, Answered
  <2> QED
    BY <2>1, <2>2, <2>3 DEF Knows
<1>5. AnsweredIsSaved'
  <2> SUFFICES ASSUME NEW p \in Projects, NEW u \in Users, ~Calling(p, u)',
                      asked'[p][u] # None, NEW q \in RowIds,
                      rows'[q].project = p, rows'[q].user = u
               PROVE  rows'[q].isActive = asked'[p][u]
    BY DEF AnsweredIsSaved, RowsOf
  <2>1. CASE p = tasks[t].project /\ u = tasks[t].user
    <3>1. q = r
      BY <2>1 DEF Own
    <3>2. asked'[p][u] \in {tasks[t].isActive, None}
      BY <2>1 DEF Answer, Finish, Ready, Typed, TypeOK
    <3> QED
      BY <3>1, <3>2
  <2>2. CASE p # tasks[t].project \/ u # tasks[t].user
    <3>1. q # r
      BY <2>2 DEF Own
    <3>2. ~Calling(p, u)
      BY <2>2, StillCalling DEF Ready, Answer, Finish
    <3>3. asked'[p][u] = asked[p][u] /\ rows'[q] = rows[q]
      BY <2>2, <3>1 DEF Answer, Finish, Ready, Typed, TypeOK
    <3> QED
      BY <3>2, <3>3 DEF Ready, Answered, AnsweredIsSaved, RowsOf
  <2> QED
    BY <2>1, <2>2
<1> QED
  BY <1>3, <1>4, <1>5 DEF Answered, Knows, Holding, Own

\* save writes only what differs from the row it read, which is as it was read.
LEMMA SaveSessionAnswered ==
    ASSUME Ready, UNCHANGED liberties, NEW t \in Tasks, SaveSession(t)
    PROVE  Answered'
<1> DEFINE k == tasks[t]
           r == k.row
<1>1. /\ k \in TaskRecord /\ k.pc = "saveSession" /\ r \in RowIds
      /\ k.project \in Projects /\ Answer(t)
  BY DEF Ready, Typed, TypeOK, Shaped, SaveSession, At
<1>2. Holding(k) /\ Knows(k, rows) /\ Learnt(k, rows)
  BY <1>1, NoneDistinct DEF Holding, Ready, Answered, Sequential, StillTrue
<1>3. \A q \in RowIds : Own(k, rows[q]) => q = r
  BY <1>1, <1>2 DEF Learnt
<1>4. CASE rows[r] = NoRow
  <2>1. UNCHANGED rows
    BY <1>4 DEF SaveSession
  <2>2. \A q \in RowIds : ~Own(k, rows[q])
    BY <1>1, <1>3, <1>4, NoneDistinct DEF Own, NoRow
  <2> QED
    BY <1>1, <2>1, <2>2, EndAnswered DEF Answer, Finish
<1>5. CASE rows[r] # NoRow
  <2>1. Own(k, rows[r]) /\ rows[r].isActive = k.found /\ rows[r] \in Session
    BY <1>1, <1>2, <1>5 DEF Knows, Ready, Typed, TypeOK
  <2>2. /\ \A q \in RowIds \ {r} : rows'[q] = rows[q]
        /\ rows'[r] = [rows[r] EXCEPT !.isActive = k.isActive]
    <3>1. CASE k.found = k.isActive
      BY <2>1, <3>1 DEF SaveSession, Session
    <3>2. CASE k.found # k.isActive
      BY <1>1, <1>5, <3>2 DEF SaveSession, Ready, Typed, TypeOK
    <3> QED
      BY <3>1, <3>2
  <2>3. Own(k, rows'[r]) /\ rows'[r].isActive = k.isActive
    BY <2>1, <2>2 DEF Own, Session
  <2>4. \A q \in RowIds : Own(k, rows'[q]) => q = r
    BY <1>3, <2>2 DEF Own
  <2>5. \A y \in Tasks \ {t} : Holding(tasks[y]) => tasks[y].row # r
    BY <1>2 DEF Ready, Answered, Apart
  <2> QED
    BY <1>1, <2>2, <2>3, <2>4, <2>5, WrittenAnswered
<1> QED
  BY <1>4, <1>5

LEMMA InsertSessionAnswered ==
    ASSUME Ready, UNCHANGED liberties, NEW t \in Tasks, InsertSession(t)
    PROVE  Answered'
<1> DEFINE k == tasks[t]
<1>1. k \in TaskRecord /\ k.pc = "insertSession" /\ k.project \in Projects
  BY DEF Ready, Typed, TypeOK, Shaped, InsertSession, At
<1>2. \A q \in RowIds : ~Own(k, rows[q])
  BY <1>1 DEF Ready, Sequential, StillTrue, Learnt
<1>3. CASE Reject(t) /\ UNCHANGED rows
  BY <1>3, RejectAnswered
<1>4. ASSUME NEW r \in RowIds, rows[r] = NoRow, Answer(t),
             IF k.row = None THEN \A x \in Tasks : tasks[x].row # r ELSE r = k.row,
             rows' = [rows EXCEPT ![r] = Row(k.project, k.user, k.isActive)]
      PROVE  Answered'
  <2>1. /\ \A q \in RowIds \ {r} : rows'[q] = rows[q]
        /\ Own(k, rows'[r]) /\ rows'[r].isActive = k.isActive
    BY <1>4 DEF Row, Own, Ready, Typed, TypeOK
  <2>2. \A q \in RowIds : Own(k, rows'[q]) => q = r
    BY <1>2, <2>1 DEF Own
  <2>3. \A y \in Tasks \ {t} : Holding(tasks[y]) => tasks[y].row # r
    BY <1>1, <1>4 DEF Ready, Answered, Apart, Holding
  <2> QED
    BY <1>4, <2>1, <2>2, <2>3, WrittenAnswered
<1> QED
  BY <1>3, <1>4 DEF InsertSession

LEMMA ProcessEndsAnswered ==
    ASSUME Ready, UNCHANGED liberties, NEW t \in Tasks, ProcessEnds(t)
    PROVE  Answered'
<1>1. \A x \in Tasks : tasks'[x] = Idle
  BY DEF ProcessEnds
<1>2. ~Holding(Idle)
  BY DEF Holding, Idle
<1>3. Apart' /\ \A x \in Tasks : Knows(tasks'[x], rows')
  BY <1>1, <1>2 DEF Apart, Knows, Holding
<1>4. AnsweredIsSaved'
  BY DEF ProcessEnds, Ready, Answered, AnsweredIsSaved, RowsOf
<1> QED
  BY <1>3, <1>4 DEF Answered, Knows, Holding, Own

LEMMA NextAnswered ==
    ASSUME Typed, Sequential, Answered, [Next]_vars
    PROVE  Answered'
<1>1. CASE UNCHANGED vars
  BY <1>1 DEF vars, Answered, Apart, Knows, Holding, Own, AnsweredIsSaved, RowsOf, Calling
<1>2. CASE Next /\ "overlap" \in liberties
  BY <1>2 DEF Next, Answered
<1>3. CASE Next /\ "overlap" \notin liberties
  <2>1. Ready
    BY <1>3 DEF Ready
  <2>2. PICK t \in Tasks :
          (Step(t) \/ \E p \in Projects, u \in Users : Call(t, p, u)) /\ UNCHANGED liberties
    BY <1>3 DEF Next
  <2>3. CASE Step(t)
    BY <2>1, <2>2, <2>3, ProjectAnswered, FailureAnswered, UpdateAnswered,
       FindSessionAnswered, LoadSessionAnswered,
       SaveSessionAnswered, InsertSessionAnswered, DeleteProjectAnswered,
       ProcessEndsAnswered DEF Step
  <2>4. CASE \E p \in Projects, u \in Users : Call(t, p, u)
    BY <2>1, <2>2, <2>4, CallAnswered
  <2> QED
    BY <2>2, <2>3, <2>4
<1> QED
  BY <1>1, <1>2, <1>3

LEMMA InitAnswered == Init => Answered
BY DEF Init, Answered, Apart, Knows, Holding, Idle, AnsweredIsSaved

\* AnsweredIsSaved: getActiveSessions lists whom it should.  A call that ends
\* found its user's only row, no other call holds it, and it is as save read it,
\* or it has gone with its project; so what is written is what was asked for.
THEOREM SessionsAnswered == Spec => []AnsweredIsSaved
<1>1. Init => Sequential /\ Answered
  BY InitSequential, InitAnswered
<1>2. Typed /\ Sequential /\ Answered /\ [Next]_vars => (Sequential /\ Answered)'
  BY NextSequential, NextAnswered
<1>3. Answered => AnsweredIsSaved
  BY DEF Answered, AnsweredIsSaved
<1> QED
  BY <1>1, <1>2, <1>3, AlwaysTyped, PTL DEF Spec
=============================================================================

--------------------------- MODULE GatewayProofs ---------------------------
(***************************************************************************)
(* Type correctness, CursorsOfMembers and ProjectIsolation of Gateway, for *)
(* any number of users, sockets, pages, session objects and handlers in    *)
(* flight, and whatever liberties clients, network and database take.      *)
(***************************************************************************)
EXTENDS Gateway, TLAPS

\* What a task holds at its program counter.
Shaped(k) ==
    /\ k.pc # "idle" => k.sock \in Sockets
    /\ k.pc \in {"entering", "joining", "projecting", "loading",
                 "roomLeft", "leaving"} => k.url \in Urls
    /\ k.pc \in {"joining", "projecting", "loading"} => k.sess \in SessionIds

TaskShapes == \A t \in Tasks : Shaped(tasks[t])

Typed == TypeOK /\ TaskShapes

\* A handler works on an object that was made for the page it works on.
TasksKeepTheirPage ==
    \A t \in Tasks :
      tasks[t].sess # None => session[tasks[t].sess].url = tasks[t].url

\* ProjectIsolation alone is not inductive: a handler writes a project to the
\* object it holds, which urlSessions may no longer lead to.
Isolated == ProjectIsolation /\ TasksKeepTheirPage

-----------------------------------------------------------------------------
(* Lemmas on the data *)

LEMMA NoneDistinct ==
    /\ None \notin Users /\ None \notin Sockets /\ None \notin Urls
    /\ None \notin Projects /\ None \notin SessionIds
BY GatewayConstants

LEMMA OwnerTyped == \A s \in Sockets : Owner[s] \in Users
BY GatewayConstants

LEMMA LinkTyped ==
    /\ \A link \in Links : normalizeUrl[link] \in Urls
    /\ \A url \in Urls : normalizeUrl[url] \in Urls /\ urlToProjectId[url] \in Projects
BY GatewayConstants

LEMMA TaskTyped ==
    ASSUME NEW pc \in MicroWaits \cup MacroWaits, NEW s \in Sockets \cup {None},
           NEW url \in Urls \cup {None}, NEW sess \in SessionIds \cup {None},
           NEW pid \in Projects \cup {None}, NEW goal \in Urls \cup {None}
    PROVE  Task(pc, s, url, sess, pid, goal) \in TaskRecord
BY DEF Task, TaskRecord

LEMMA IdleTyped == Idle \in TaskRecord /\ Shaped(Idle)
BY DEF Idle, TaskRecord, Shaped

\* Replacing one task by a well formed one keeps the tasks well formed.
LEMMA TaskStep ==
    ASSUME Typed, NEW t \in Tasks, NEW k \in TaskRecord, Shaped(k),
           tasks' = [tasks EXCEPT ![t] = k]
    PROVE  tasks' \in [Tasks -> TaskRecord] /\ TaskShapes'
BY DEF Typed, TypeOK, TaskShapes

LEMMA WithoutTyped ==
    ASSUME session \in [SessionIds -> SessionObject], NEW i, NEW u
    PROVE  WithoutUser(i, u) \in [SessionIds -> SessionObject]
BY DEF WithoutUser, SessionObject

\* The updates of a session object keep it a session object.
LEMMA SessionUpdates ==
    ASSUME session \in [SessionIds -> SessionObject], NEW i, NEW u \in Users,
           NEW pid \in Projects
    PROVE  /\ WithoutUser(i, u) \in [SessionIds -> SessionObject]
           /\ [session EXCEPT ![i].users = @ \cup {u}] \in [SessionIds -> SessionObject]
           /\ [session EXCEPT ![i].cursors = @ \cup {u}] \in [SessionIds -> SessionObject]
           /\ [session EXCEPT ![i].projectId = pid] \in [SessionIds -> SessionObject]
<1>1. WithoutUser(i, u) \in [SessionIds -> SessionObject]
  BY WithoutTyped
<1>2. [session EXCEPT ![i].users = @ \cup {u}] \in [SessionIds -> SessionObject]
  BY DEF SessionObject
<1>3. [session EXCEPT ![i].cursors = @ \cup {u}] \in [SessionIds -> SessionObject]
  BY DEF SessionObject
<1>4. [session EXCEPT ![i].projectId = pid] \in [SessionIds -> SessionObject]
  BY DEF SessionObject
<1> QED
  BY <1>1, <1>2, <1>3, <1>4

LEMMA HeardTyped ==
    ASSUME TypeOK, NEW s, NEW url, NEW u \in Users
    PROVE  /\ HearJoined(s, url, u) \in [Sockets -> SUBSET Users]
           /\ HearLeft(s, url, u) \in [Sockets -> SUBSET Users]
BY DEF HearJoined, HearLeft, TypeOK

\* The maps that cleanupEmptySession and forgetPage write keep their types.
LEMMA SweepTyped ==
    ASSUME TypeOK, NEW i, NEW url, cleanupEmptySession(i, url)
    PROVE  /\ urlSessions' \in [Urls -> SessionIds \cup {None}]
           /\ urlProjectMap' \in [Urls -> Projects \cup {None}]
           /\ projectIdUrlMap' \in [Projects -> Urls \cup {None}]
BY DEF cleanupEmptySession, TypeOK

LEMMA ForgetTyped ==
    ASSUME TypeOK, NEW s, forgetPage(s)
    PROVE  /\ socketUrlMap' \in [Sockets -> Urls \cup {None}]
           /\ socketProjectMap' \in [Sockets -> Projects \cup {None}]
BY DEF forgetPage, TypeOK

-----------------------------------------------------------------------------
(* Type correctness: connecting and disconnecting *)

LEMMA NewProcessTyped == NewProcess => Typed
BY IdleTyped DEF NewProcess, Typed, TypeOK, TaskShapes, SessionObject, NewSession

\* A process that is started again has the maps of a new one.
LEMMA DropFailsRestarts == ASSUME NEW t \in Tasks, DropFails(t) PROVE NewProcess'
BY DEF DropFails, NewProcess

LEMMA RestartTyped == NewProcess' => Typed'
BY NewProcessTyped, PTL

LEMMA ConnectTyped ==
    ASSUME Typed, NEW t \in Tasks, NEW s \in Sockets, Connect(t, s)
    PROVE  Typed'
<1>1. Task("connecting", s, None, None, None, None) \in TaskRecord
  BY TaskTyped DEF MacroWaits
<1>2. Shaped(Task("connecting", s, None, None, None, None))
  BY DEF Shaped, Task
<1>3. tasks' \in [Tasks -> TaskRecord] /\ TaskShapes'
  BY <1>1, <1>2, TaskStep DEF Connect
<1> QED
  BY <1>3 DEF Connect, Typed, TypeOK, userVars, socketVars, sessionVars

LEMMA AuthenticatedTyped ==
    ASSUME Typed, NEW t \in Tasks, Authenticated(t)
    PROVE  Typed'
<1>1. tasks[t].sock \in Sockets
  BY DEF Authenticated, At, Typed, TaskShapes, Shaped
<1>2. tasks' \in [Tasks -> TaskRecord] /\ TaskShapes'
  BY IdleTyped, TaskStep DEF Authenticated
<1> QED
  BY <1>1, <1>2, OwnerTyped
  DEF Authenticated, Typed, TypeOK, wireVars, socketVars, sessionVars

LEMMA RejectedTyped ==
    ASSUME Typed, NEW t \in Tasks, Rejected(t)
    PROVE  Typed'
<1>1. tasks' \in [Tasks -> TaskRecord] /\ TaskShapes'
  BY IdleTyped, TaskStep DEF Rejected
<1>2. forgetPage(tasks[t].sock)
  BY DEF Rejected
<1> QED
  BY <1>1, <1>2, ForgetTyped DEF Rejected, Typed, TypeOK, userVars, sessionVars

LEMMA DropDoneTyped ==
    ASSUME Typed, NEW t \in Tasks, DropDone(t)
    PROVE  Typed'
<1>1. tasks' \in [Tasks -> TaskRecord] /\ TaskShapes'
  BY IdleTyped, TaskStep DEF DropDone
<1>2. /\ socketUrlMap' \in [Sockets -> Urls \cup {None}]
      /\ socketProjectMap' \in [Sockets -> Projects \cup {None}]
  BY ForgetTyped DEF DropDone, socketVars, Typed, TypeOK
<1> QED
  BY <1>1, <1>2 DEF DropDone, Typed, TypeOK, wireVars, userVars, sessionVars

LEMMA DisconnectTyped ==
    ASSUME Typed, NEW t \in Tasks, NEW s \in Sockets, Disconnect(t, s)
    PROVE  Typed'
<1> DEFINE u    == socketUserMap[s]
           url  == socketUrlMap[s]
           pid  == socketProjectMap[s]
           sess == IF url = None THEN None ELSE urlSessions[url]
           rest == Task("dropping", s, None, None, pid, None)
<1>1. u \in Users \cup {None} /\ pid \in Projects \cup {None}
  BY DEF Typed, TypeOK
<1>2. /\ connected' \in SUBSET Sockets
      /\ rooms' \in [Urls -> SUBSET Sockets]
      /\ socketUserMap' \in [Sockets -> Users \cup {None}]
      /\ userSocketMap' \in [Users -> Sockets \cup {None}]
  BY DEF Disconnect, Typed, TypeOK
<1>3. heard' \in [Sockets -> SUBSET Users]
  <2>1. CASE u = None \/ sess = None
    BY <2>1 DEF Disconnect, Typed, TypeOK
  <2>2. CASE ~(u = None \/ sess = None)
    <3>1. HearLeft(s, url, u) \in [Sockets -> SUBSET Users]
      BY <1>1, <2>2, HeardTyped DEF Typed
    <3> QED
      BY <2>2, <3>1 DEF Disconnect
  <2> QED
    BY <2>1, <2>2
<1>4. /\ session' \in [SessionIds -> SessionObject]
      /\ urlSessions' \in [Urls -> SessionIds \cup {None}]
      /\ urlProjectMap' \in [Urls -> Projects \cup {None}]
      /\ projectIdUrlMap' \in [Projects -> Urls \cup {None}]
  <2>1. CASE u = None \/ sess = None
    BY <2>1 DEF Disconnect, sessionVars, Typed, TypeOK
  <2>2. CASE ~(u = None \/ sess = None)
    <3>1. session' = WithoutUser(sess, u)
      BY <2>2 DEF Disconnect
    <3>2. session' \in [SessionIds -> SessionObject]
      <4>1. u \in Users
        BY <1>1, <2>2
      <4> QED
        BY <3>1, <4>1, WithoutTyped DEF Typed, TypeOK
    <3>3. \/ cleanupEmptySession(sess, url)
          \/ UNCHANGED <<urlSessions, urlProjectMap, projectIdUrlMap>>
      BY <2>2 DEF Disconnect
    <3> QED
      BY <3>2, <3>3, SweepTyped DEF Typed, TypeOK
  <2> QED
    BY <2>1, <2>2
<1>5. /\ socketUrlMap' \in [Sockets -> Urls \cup {None}]
      /\ socketProjectMap' \in [Sockets -> Projects \cup {None}]
  BY ForgetTyped DEF Disconnect, socketVars, Typed, TypeOK
<1>6. tasks' \in [Tasks -> TaskRecord] /\ TaskShapes'
  <2>1. CASE u # None /\ pid # None
    <3>1. rest \in TaskRecord
      BY <1>1, TaskTyped DEF MacroWaits
    <3>2. Shaped(rest)
      BY DEF Shaped, Task
    <3>3. tasks' = [tasks EXCEPT ![t] = rest]
      BY <2>1 DEF Disconnect
    <3> QED
      BY <3>1, <3>2, <3>3, TaskStep
  <2>2. CASE ~(u # None /\ pid # None)
    BY <2>2 DEF Disconnect, Typed, TypeOK, TaskShapes
  <2> QED
    BY <2>1, <2>2
<1> QED
  BY <1>2, <1>3, <1>4, <1>5, <1>6 DEF Typed, TypeOK

-----------------------------------------------------------------------------
(* Type correctness: page:leave, page:join and cursor:move *)

LEMMA BeginLeaveTyped ==
    ASSUME Typed, NEW t \in Tasks, NEW s \in Sockets, NEW url \in Urls,
           NEW goal \in Urls \cup {None}, BeginLeave(t, s, url, goal)
    PROVE  Typed'
<1> DEFINE sess == urlSessions[url]
           pid  == IF sess # None /\ session[sess].projectId # None
                   THEN session[sess].projectId ELSE socketProjectMap[s]
           rest == Task("roomLeft", s, url, sess, pid, goal)
<1>1. sess \in SessionIds \cup {None}
  BY DEF Typed, TypeOK
<1>2. pid \in Projects \cup {None}
  BY <1>1 DEF Typed, TypeOK, SessionObject
<1>3. rest \in TaskRecord
  BY <1>1, <1>2, TaskTyped DEF MicroWaits
<1>4. Shaped(rest)
  BY DEF Shaped, Task
<1>5. tasks' \in [Tasks -> TaskRecord] /\ TaskShapes'
  BY <1>3, <1>4, TaskStep DEF BeginLeave
<1>6. session' \in [SessionIds -> SessionObject]
  BY WithoutTyped DEF BeginLeave, Typed, TypeOK
<1>7. rooms' \in [Urls -> SUBSET Sockets]
  BY DEF BeginLeave, Typed, TypeOK
<1> QED
  BY <1>5, <1>6, <1>7 DEF BeginLeave, Typed, TypeOK, userVars, socketVars

LEMMA LeaveTailTyped ==
    ASSUME Typed, NEW t \in Tasks, tasks[t].sock \in Sockets,
           LeaveTail(t), heard' \in [Sockets -> SUBSET Users]
    PROVE  Typed'
<1> DEFINE k    == tasks[t]
           next == IF k.goal = None THEN Idle
                   ELSE Task("entering", k.sock, k.goal, None, None, None)
<1>1. k \in TaskRecord
  BY DEF Typed, TypeOK
<1>2. next \in TaskRecord /\ Shaped(next)
  <2>1. CASE k.goal = None
    BY <2>1, IdleTyped
  <2>2. CASE k.goal # None
    <3>1. k.goal \in Urls
      BY <1>1, <2>2 DEF TaskRecord
    <3>2. Task("entering", k.sock, k.goal, None, None, None) \in TaskRecord
      BY <3>1, TaskTyped DEF MicroWaits
    <3>3. Shaped(Task("entering", k.sock, k.goal, None, None, None))
      BY <3>1 DEF Shaped, Task
    <3> QED
      BY <2>2, <3>2, <3>3
  <2> QED
    BY <2>1, <2>2
<1>3. tasks' \in [Tasks -> TaskRecord] /\ TaskShapes'
  BY <1>2, TaskStep DEF LeaveTail
<1>4. /\ urlSessions' \in [Urls -> SessionIds \cup {None}]
      /\ urlProjectMap' \in [Urls -> Projects \cup {None}]
      /\ projectIdUrlMap' \in [Projects -> Urls \cup {None}]
  <2>1. \/ cleanupEmptySession(k.sess, k.url)
        \/ UNCHANGED <<urlSessions, urlProjectMap, projectIdUrlMap>>
    BY DEF LeaveTail
  <2> QED
    BY <2>1, SweepTyped DEF Typed, TypeOK
<1>5. /\ socketUrlMap' \in [Sockets -> Urls \cup {None}]
      /\ socketProjectMap' \in [Sockets -> Projects \cup {None}]
  BY ForgetTyped DEF LeaveTail, Typed
<1> QED
  BY <1>3, <1>4, <1>5 DEF LeaveTail, Typed, TypeOK, userVars

LEMMA LeaveAnnounceTyped ==
    ASSUME Typed, NEW t \in Tasks, LeaveAnnounce(t)
    PROVE  Typed'
<1> DEFINE k    == tasks[t]
           rest == [k EXCEPT !.pc = "leaving"]
<1>1. /\ k \in TaskRecord /\ k.sock \in Sockets /\ k.url \in Urls
      /\ k.pc = "roomLeft"
  BY DEF LeaveAnnounce, At, Typed, TypeOK, TaskShapes, Shaped
<1>2. heard' \in [Sockets -> SUBSET Users]
  <2>1. CASE k.sess = None
    BY <2>1 DEF LeaveAnnounce, Typed, TypeOK
  <2>2. CASE k.sess # None
    BY <1>1, <2>2, OwnerTyped, HeardTyped DEF LeaveAnnounce, Typed
  <2> QED
    BY <2>1, <2>2
<1>3. CASE k.pid = None
  <2>1. LeaveTail(t)
    BY <1>3 DEF LeaveAnnounce
  <2> QED
    BY <1>1, <1>2, <2>1, LeaveTailTyped
<1>4. CASE k.pid # None
  <2>1. rest \in TaskRecord /\ Shaped(rest)
    BY <1>1 DEF TaskRecord, MacroWaits, Shaped
  <2>2. tasks' = [tasks EXCEPT ![t] = rest]
    BY <1>4 DEF LeaveAnnounce
  <2>3. tasks' \in [Tasks -> TaskRecord] /\ TaskShapes'
    BY <2>1, <2>2, TaskStep
  <2> QED
    BY <1>2, <1>4, <2>3
    DEF LeaveAnnounce, Typed, TypeOK, userVars, socketVars, sessionVars
<1> QED
  BY <1>3, <1>4

LEMMA LeaveProjectDoneTyped ==
    ASSUME Typed, NEW t \in Tasks, LeaveProjectDone(t)
    PROVE  Typed'
<1>1. tasks[t].sock \in Sockets
  BY DEF LeaveProjectDone, At, Typed, TaskShapes, Shaped
<1>2. heard' \in [Sockets -> SUBSET Users]
  BY DEF LeaveProjectDone, Typed, TypeOK
<1> QED
  BY <1>1, <1>2, LeaveTailTyped DEF LeaveProjectDone

LEMMA TaskEndTyped ==
    ASSUME Typed, NEW t \in Tasks, DbCallFails(t) \/ EnterUnparsable(t)
    PROVE  Typed'
<1>1. tasks' \in [Tasks -> TaskRecord] /\ TaskShapes'
  BY IdleTyped, TaskStep DEF DbCallFails, EnterUnparsable
<1> QED
  BY <1>1 DEF DbCallFails, EnterUnparsable, Typed, TypeOK,
              wireVars, userVars, socketVars, sessionVars

LEMMA PageJoinTyped ==
    ASSUME Typed, NEW t \in Tasks, NEW s \in Sockets, NEW link \in Links,
           PageJoin(t, s, link)
    PROVE  Typed'
<1> DEFINE url      == normalizeUrl[link]
           previous == socketUrlMap[s]
           rest     == Task("entering", s, url, None, None, None)
<1>1. url \in Urls
  BY LinkTyped
<1>2. CASE previous # None /\ previous # url
  <2>1. previous \in Urls
    BY <1>2 DEF Typed, TypeOK
  <2>2. BeginLeave(t, s, normalizeUrl[previous], url)
    BY <1>2 DEF PageJoin
  <2> QED
    BY <1>1, <2>1, <2>2, LinkTyped, BeginLeaveTyped
<1>3. CASE ~(previous # None /\ previous # url)
  <2>1. rest \in TaskRecord
    BY <1>1, TaskTyped DEF MicroWaits
  <2>2. Shaped(rest)
    BY <1>1 DEF Shaped, Task
  <2>3. tasks' = [tasks EXCEPT ![t] = rest]
    BY <1>3 DEF PageJoin
  <2>4. tasks' \in [Tasks -> TaskRecord] /\ TaskShapes'
    BY <2>1, <2>2, <2>3, TaskStep
  <2> QED
    BY <1>3, <2>4
    DEF PageJoin, Typed, TypeOK, wireVars, userVars, socketVars, sessionVars
<1> QED
  BY <1>2, <1>3

LEMMA EnterSessionTyped ==
    ASSUME Typed, NEW t \in Tasks, EnterSession(t)
    PROVE  Typed'
<1> DEFINE k == tasks[t]
<1>1. k.sock \in Sockets /\ k.url \in Urls
  BY DEF EnterSession, At, Typed, TaskShapes, Shaped
<1>2. PICK i \in SessionIds :
        /\ \/ /\ urlSessions' = [urlSessions EXCEPT ![k.url] = i]
              /\ session' = [session EXCEPT ![i] = NewSession(k.url, urlProjectMap[k.url])]
           \/ UNCHANGED <<urlSessions, session>>
        /\ tasks' = [tasks EXCEPT ![t] = Task("joining", k.sock, k.url, i, None, None)]
  BY DEF EnterSession
<1>3. Task("joining", k.sock, k.url, i, None, None) \in TaskRecord
  BY <1>1, TaskTyped DEF MicroWaits
<1>4. Shaped(Task("joining", k.sock, k.url, i, None, None))
  BY <1>1 DEF Shaped, Task
<1>5. tasks' \in [Tasks -> TaskRecord] /\ TaskShapes'
  BY <1>2, <1>3, <1>4, TaskStep
<1>6. /\ urlSessions' \in [Urls -> SessionIds \cup {None}]
      /\ session' \in [SessionIds -> SessionObject]
  <2>1. NewSession(k.url, urlProjectMap[k.url]) \in SessionObject
    BY <1>1 DEF NewSession, SessionObject, Typed, TypeOK
  <2> QED
    BY <1>2, <2>1 DEF Typed, TypeOK
<1>7. rooms' \in [Urls -> SUBSET Sockets]
  BY <1>1 DEF EnterSession, Typed, TypeOK
<1> QED
  BY <1>5, <1>6, <1>7 DEF EnterSession, Typed, TypeOK, userVars, socketVars

LEMMA JoinRegisterTyped ==
    ASSUME Typed, NEW t \in Tasks, JoinRegister(t)
    PROVE  Typed'
<1> DEFINE k    == tasks[t]
           rest == [k EXCEPT !.pc = "projecting"]
<1>1. /\ k \in TaskRecord /\ k.pc = "joining"
      /\ k.sock \in Sockets /\ k.url \in Urls /\ k.sess \in SessionIds
  BY DEF JoinRegister, At, Typed, TypeOK, TaskShapes, Shaped
<1>2. rest \in TaskRecord /\ Shaped(rest)
  BY <1>1 DEF TaskRecord, MacroWaits, Shaped
<1>3. tasks' = [tasks EXCEPT ![t] = rest]
  BY DEF JoinRegister
<1>4. tasks' \in [Tasks -> TaskRecord] /\ TaskShapes'
  BY <1>2, <1>3, TaskStep
<1>5. socketUrlMap' \in [Sockets -> Urls \cup {None}]
  BY <1>1 DEF JoinRegister, Typed, TypeOK
<1>6. session' \in [SessionIds -> SessionObject]
  BY <1>1, OwnerTyped, SessionUpdates, LinkTyped DEF JoinRegister, Typed, TypeOK
<1> QED
  BY <1>4, <1>5, <1>6 DEF JoinRegister, Typed, TypeOK, wireVars, userVars

LEMMA JoinProjectTyped ==
    ASSUME Typed, NEW t \in Tasks, JoinProject(t)
    PROVE  Typed'
<1> DEFINE k    == tasks[t]
           pid  == urlToProjectId[k.url]
           rest == [k EXCEPT !.pc = "loading"]
<1>1. /\ k \in TaskRecord /\ k.pc = "projecting"
      /\ k.sock \in Sockets /\ k.url \in Urls /\ k.sess \in SessionIds
  BY DEF JoinProject, At, Typed, TypeOK, TaskShapes, Shaped
<1>2. pid \in Projects
  BY <1>1, LinkTyped
<1>3. rest \in TaskRecord /\ Shaped(rest)
  BY <1>1 DEF TaskRecord, MacroWaits, Shaped
<1>4. tasks' = [tasks EXCEPT ![t] = rest]
  BY DEF JoinProject
<1>5. tasks' \in [Tasks -> TaskRecord] /\ TaskShapes'
  BY <1>3, <1>4, TaskStep
<1>6. session' \in [SessionIds -> SessionObject]
  BY <1>1, <1>2 DEF JoinProject, Typed, TypeOK, SessionObject
<1>7. /\ socketProjectMap' \in [Sockets -> Projects \cup {None}]
      /\ urlProjectMap' \in [Urls -> Projects \cup {None}]
      /\ projectIdUrlMap' \in [Projects -> Urls \cup {None}]
  BY <1>1, <1>2 DEF JoinProject, Typed, TypeOK
<1> QED
  BY <1>5, <1>6, <1>7 DEF JoinProject, Typed, TypeOK, wireVars, userVars

LEMMA JoinAnnounceTyped ==
    ASSUME Typed, NEW t \in Tasks, JoinAnnounce(t)
    PROVE  Typed'
<1> DEFINE k == tasks[t]
<1>1. k.sock \in Sockets /\ k.url \in Urls /\ k.sess \in SessionIds
  BY DEF JoinAnnounce, At, Typed, TaskShapes, Shaped
<1>2. tasks' \in [Tasks -> TaskRecord] /\ TaskShapes'
  BY IdleTyped, TaskStep DEF JoinAnnounce
<1>3. HearJoined(k.sock, k.url, Owner[k.sock]) \in [Sockets -> SUBSET Users]
  BY <1>1, OwnerTyped, HeardTyped DEF Typed
<1>4. session[k.sess].users \in SUBSET Users
  BY <1>1 DEF Typed, TypeOK, SessionObject
<1>5. heard' \in [Sockets -> SUBSET Users]
  BY <1>1, <1>3, <1>4 DEF JoinAnnounce
<1> QED
  BY <1>2, <1>5 DEF JoinAnnounce, Typed, TypeOK, userVars, socketVars, sessionVars

LEMMA CursorMoveTyped ==
    ASSUME Typed, NEW s \in Sockets, NEW link \in Links, handleCursorMove(s, link)
    PROVE  Typed'
<1>1. socketUserMap[s] \in Users
  BY DEF handleCursorMove, Receives, Typed, TypeOK
<1>2. session' \in [SessionIds -> SessionObject]
  BY <1>1 DEF handleCursorMove, Typed, TypeOK, SessionObject
<1> QED
  BY <1>2 DEF handleCursorMove, Typed, TypeOK, TaskShapes, wireVars, userVars, socketVars

LEMMA NextTyped == Typed /\ [Next]_vars => Typed'
<1> SUFFICES ASSUME Typed, [Next]_vars
             PROVE  Typed'
  OBVIOUS
<1>1. ASSUME NEW t \in Tasks, Resume(t)
      PROVE  Typed'
  BY <1>1, AuthenticatedTyped, RejectedTyped, DropDoneTyped, DropFailsRestarts,
     RestartTyped, LeaveAnnounceTyped, LeaveProjectDoneTyped, TaskEndTyped,
     EnterSessionTyped, JoinRegisterTyped, JoinProjectTyped, JoinAnnounceTyped DEF Resume
<1>2. ASSUME NEW t \in Tasks, NEW s \in Sockets, NEW link \in Links, PageLeave(t, s, link)
      PROVE  Typed'
  BY <1>2, LinkTyped, BeginLeaveTyped DEF PageLeave
<1>3. CASE UNCHANGED vars
  BY <1>3 DEF vars, wireVars, userVars, socketVars, sessionVars, Typed, TypeOK, TaskShapes
<1> QED
  BY <1>1, <1>2, <1>3, ConnectTyped, DisconnectTyped, PageJoinTyped, CursorMoveTyped DEF Next

\* No map of the gateway ever holds anything but what it is declared to hold,
\* also after a handler resumes for a socket that has gone.
THEOREM GatewayTypeCorrect == Spec => []TypeOK
<1>1. Spec => []Typed
  BY NewProcessTyped, NextTyped, PTL DEF Spec, Init
<1>2. Typed => TypeOK
  BY DEF Typed
<1> QED
  BY <1>1, <1>2, PTL

-----------------------------------------------------------------------------
(* Isolation of pages and projects *)

\* A step that changes no object's page or project, makes no entry in the three
\* page maps and starts no task on a foreign object.
LEMMA KeepsIsolation ==
    ASSUME Typed, Typed', Isolated,
           \A i \in SessionIds : /\ session'[i].url = session[i].url
                                 /\ session'[i].projectId = session[i].projectId,
           \A url \in Urls : /\ urlSessions'[url] \in {urlSessions[url], None}
                             /\ urlProjectMap'[url] \in {urlProjectMap[url], None},
           \A p \in Projects : projectIdUrlMap'[p] \in {projectIdUrlMap[p], None},
           \A t \in Tasks :
             \/ tasks'[t] = tasks[t]
             \/ tasks'[t].sess # None => session[tasks'[t].sess].url = tasks'[t].url
    PROVE  Isolated'
<1>1. \A url \in Urls : urlSessions[url] \in SessionIds \cup {None}
  BY DEF Typed, TypeOK
<1>2. \A t \in Tasks : tasks'[t].sess \in SessionIds \cup {None}
  BY DEF Typed, TypeOK, TaskRecord
<1>3. ProjectIsolation'
  BY <1>1 DEF Isolated, ProjectIsolation
<1>4. TasksKeepTheirPage'
  BY <1>2 DEF Isolated, TasksKeepTheirPage
<1> QED
  BY <1>3, <1>4 DEF Isolated

LEMMA SweepShrinks ==
    ASSUME Typed, NEW i, NEW url, cleanupEmptySession(i, url)
    PROVE  /\ \A x \in Urls : /\ urlSessions'[x] \in {urlSessions[x], None}
                              /\ urlProjectMap'[x] \in {urlProjectMap[x], None}
           /\ \A p \in Projects : projectIdUrlMap'[p] \in {projectIdUrlMap[p], None}
BY DEF cleanupEmptySession, Typed, TypeOK

LEMMA WithoutKeeps ==
    ASSUME Typed, NEW i, NEW u, session' = WithoutUser(i, u)
    PROVE  \A x \in SessionIds : /\ session'[x].url = session[x].url
                                 /\ session'[x].projectId = session[x].projectId
BY DEF WithoutUser, Typed, TypeOK, SessionObject

LEMMA NewProcessIsolated == NewProcess => Isolated
BY NoneDistinct DEF NewProcess, Isolated, ProjectIsolation, TasksKeepTheirPage, NewSession, Idle

LEMMA RestartIsolated == NewProcess' => Isolated'
BY NewProcessIsolated, PTL

\* Steps that leave the sessions and the three page maps alone.
LEMMA QuietIsolated ==
    ASSUME Typed, Typed', Isolated, UNCHANGED sessionVars, NEW t \in Tasks,
           \A x \in Tasks \ {t} : tasks'[x] = tasks[x],
           tasks'[t].sess = None \/ (/\ tasks'[t].sess = tasks[t].sess
                                     /\ tasks'[t].url = tasks[t].url)
    PROVE  Isolated'
<1>1. \A x \in Tasks :
        \/ tasks'[x] = tasks[x]
        \/ tasks'[x].sess # None => session[tasks'[x].sess].url = tasks'[x].url
  BY DEF Isolated, TasksKeepTheirPage
<1> QED
  BY <1>1, KeepsIsolation DEF sessionVars

LEMMA EndsIsolated ==
    ASSUME Typed, Typed', Isolated, NEW t \in Tasks,
           \/ Authenticated(t) \/ Rejected(t) \/ DropDone(t)
           \/ DbCallFails(t) \/ EnterUnparsable(t) \/ JoinAnnounce(t)
    PROVE  Isolated'
<1>1. UNCHANGED sessionVars
  BY DEF Authenticated, Rejected, DropDone, DbCallFails, EnterUnparsable, JoinAnnounce
<1>2. tasks' = [tasks EXCEPT ![t] = Idle]
  BY DEF Authenticated, Rejected, DropDone, DbCallFails, EnterUnparsable, JoinAnnounce
<1>3. tasks'[t].sess = None /\ \A x \in Tasks \ {t} : tasks'[x] = tasks[x]
  BY <1>2 DEF Idle, Typed, TypeOK
<1> QED
  BY <1>1, <1>3, QuietIsolated

LEMMA ConnectIsolated ==
    ASSUME Typed, Typed', Isolated, NEW t \in Tasks, NEW s \in Sockets, Connect(t, s)
    PROVE  Isolated'
<1>1. tasks'[t].sess = None /\ \A x \in Tasks \ {t} : tasks'[x] = tasks[x]
  BY DEF Connect, Task, Typed, TypeOK
<1> QED
  BY <1>1, QuietIsolated DEF Connect

LEMMA DisconnectIsolated ==
    ASSUME Typed, Typed', Isolated, NEW t \in Tasks, NEW s \in Sockets, Disconnect(t, s)
    PROVE  Isolated'
<1> DEFINE u    == socketUserMap[s]
           url  == socketUrlMap[s]
           sess == IF url = None THEN None ELSE urlSessions[url]
<1>1. \A x \in Tasks :
        \/ tasks'[x] = tasks[x]
        \/ tasks'[x].sess # None => session[tasks'[x].sess].url = tasks'[x].url
  BY DEF Disconnect, Task, Typed, TypeOK
<1>2. CASE u = None \/ sess = None
  <2>1. UNCHANGED sessionVars
    BY <1>2 DEF Disconnect
  <2> QED
    BY <1>1, <2>1, KeepsIsolation DEF sessionVars
<1>3. CASE ~(u = None \/ sess = None)
  <2>1. session' = WithoutUser(sess, u)
    BY <1>3 DEF Disconnect
  <2>2. \/ cleanupEmptySession(sess, url)
        \/ UNCHANGED <<urlSessions, urlProjectMap, projectIdUrlMap>>
    BY <1>3 DEF Disconnect
  <2>3. /\ \A x \in Urls : /\ urlSessions'[x] \in {urlSessions[x], None}
                           /\ urlProjectMap'[x] \in {urlProjectMap[x], None}
        /\ \A p \in Projects : projectIdUrlMap'[p] \in {projectIdUrlMap[p], None}
    BY <2>2, SweepShrinks
  <2> QED
    BY <1>1, <2>1, <2>3, WithoutKeeps, KeepsIsolation
<1> QED
  BY <1>2, <1>3

LEMMA BeginLeaveIsolated ==
    ASSUME Typed, Typed', Isolated, NEW t \in Tasks, NEW s, NEW url \in Urls, NEW goal,
           BeginLeave(t, s, url, goal)
    PROVE  Isolated'
<1>1. \A i \in SessionIds : /\ session'[i].url = session[i].url
                            /\ session'[i].projectId = session[i].projectId
  <2>1. CASE urlSessions[url] = None
    BY <2>1 DEF BeginLeave
  <2>2. CASE urlSessions[url] # None
    BY <2>2, WithoutKeeps DEF BeginLeave
  <2> QED
    BY <2>1, <2>2
<1>2. /\ tasks'[t].sess = urlSessions[url]
      /\ tasks'[t].url = url
      /\ \A x \in Tasks \ {t} : tasks'[x] = tasks[x]
  BY DEF BeginLeave, Task, Typed, TypeOK
<1>3. \A x \in Tasks :
        \/ tasks'[x] = tasks[x]
        \/ tasks'[x].sess # None => session[tasks'[x].sess].url = tasks'[x].url
  BY <1>2 DEF Isolated, ProjectIsolation
<1> QED
  BY <1>1, <1>3, KeepsIsolation DEF BeginLeave

LEMMA LeaveTailIsolated ==
    ASSUME Typed, Typed', Isolated, NEW t \in Tasks, LeaveTail(t)
    PROVE  Isolated'
<1>1. \A x \in Tasks :
        \/ tasks'[x] = tasks[x]
        \/ tasks'[x].sess # None => session[tasks'[x].sess].url = tasks'[x].url
  BY DEF LeaveTail, Task, Idle, Typed, TypeOK
<1>2. \/ cleanupEmptySession(tasks[t].sess, tasks[t].url)
      \/ UNCHANGED <<urlSessions, urlProjectMap, projectIdUrlMap>>
  BY DEF LeaveTail
<1>3. /\ \A x \in Urls : /\ urlSessions'[x] \in {urlSessions[x], None}
                         /\ urlProjectMap'[x] \in {urlProjectMap[x], None}
      /\ \A p \in Projects : projectIdUrlMap'[p] \in {projectIdUrlMap[p], None}
  BY <1>2, SweepShrinks
<1> QED
  BY <1>1, <1>3, KeepsIsolation DEF LeaveTail

LEMMA LeaveAnnounceIsolated ==
    ASSUME Typed, Typed', Isolated, NEW t \in Tasks, LeaveAnnounce(t)
    PROVE  Isolated'
<1>1. CASE tasks[t].pid = None
  BY <1>1, LeaveTailIsolated DEF LeaveAnnounce
<1>2. CASE tasks[t].pid # None
  <2>1. UNCHANGED sessionVars /\ tasks' = [tasks EXCEPT ![t].pc = "leaving"]
    BY <1>2 DEF LeaveAnnounce
  <2>2. /\ tasks'[t].sess = tasks[t].sess /\ tasks'[t].url = tasks[t].url
        /\ \A x \in Tasks \ {t} : tasks'[x] = tasks[x]
    BY <2>1 DEF Typed, TypeOK, TaskRecord
  <2> QED
    BY <2>1, <2>2, QuietIsolated
<1> QED
  BY <1>1, <1>2

LEMMA PageJoinIsolated ==
    ASSUME Typed, Typed', Isolated, NEW t \in Tasks, NEW s \in Sockets,
           NEW link \in Links, PageJoin(t, s, link)
    PROVE  Isolated'
<1> DEFINE url      == normalizeUrl[link]
           previous == socketUrlMap[s]
<1>1. CASE previous # None /\ previous # url
  <2>1. previous \in Urls
    BY <1>1 DEF Typed, TypeOK
  <2>2. BeginLeave(t, s, normalizeUrl[previous], url)
    BY <1>1 DEF PageJoin
  <2> QED
    BY <2>1, <2>2, LinkTyped, BeginLeaveIsolated
<1>2. CASE ~(previous # None /\ previous # url)
  <2>1. /\ UNCHANGED sessionVars
        /\ tasks' = [tasks EXCEPT ![t] = Task("entering", s, url, None, None, None)]
    BY <1>2 DEF PageJoin
  <2>2. tasks'[t].sess = None /\ \A x \in Tasks \ {t} : tasks'[x] = tasks[x]
    BY <2>1 DEF Task, Typed, TypeOK
  <2> QED
    BY <2>1, <2>2, QuietIsolated
<1> QED
  BY <1>1, <1>2

\* A new object is one that no map and no task refers to.
LEMMA EnterSessionIsolated ==
    ASSUME Typed, Typed', Isolated, NEW t \in Tasks, EnterSession(t)
    PROVE  Isolated'
<1> DEFINE k == tasks[t]
<1>1. k.url \in Urls
  BY DEF EnterSession, At, Typed, TaskShapes, Shaped
<1>2. PICK i \in SessionIds :
        /\ IF urlSessions[k.url] = None
           THEN /\ i \notin Held
                /\ urlSessions' = [urlSessions EXCEPT ![k.url] = i]
                /\ session' = [session EXCEPT ![i] = NewSession(k.url, urlProjectMap[k.url])]
           ELSE /\ i = urlSessions[k.url]
                /\ UNCHANGED <<urlSessions, session>>
        /\ tasks' = [tasks EXCEPT ![t] = Task("joining", k.sock, k.url, i, None, None)]
  BY DEF EnterSession
<1>3. UNCHANGED <<urlProjectMap, projectIdUrlMap>>
  BY DEF EnterSession
<1>4. CASE urlSessions[k.url] = None
  <2>1. /\ \A url \in Urls : urlSessions[url] # i
        /\ \A x \in Tasks : tasks[x].sess # i
    BY <1>2, <1>4 DEF Held
  <2>2. /\ session'[i] = NewSession(k.url, urlProjectMap[k.url])
        /\ \A x \in SessionIds \ {i} : session'[x] = session[x]
    BY <1>2, <1>4 DEF Typed, TypeOK
  <2>3. /\ urlSessions'[k.url] = i
        /\ \A url \in Urls \ {k.url} : urlSessions'[url] = urlSessions[url]
    BY <1>1, <1>2, <1>4 DEF Typed, TypeOK
  <2>4. /\ tasks'[t].sess = i /\ tasks'[t].url = k.url
        /\ \A x \in Tasks \ {t} : tasks'[x] = tasks[x]
    BY <1>2 DEF Task, Typed, TypeOK
  <2>5. ProjectIsolation'
    <3>1. session'[i].url = k.url /\ session'[i].projectId = urlProjectMap[k.url]
      BY <2>2 DEF NewSession
    <3>2. \A url \in Urls : urlSessions'[url] # None => session'[urlSessions'[url]].url = url
      <4> SUFFICES ASSUME NEW url \in Urls \ {k.url}, urlSessions[url] # None
                   PROVE  session'[urlSessions[url]].url = url
        BY <2>3, <3>1
      <4>1. urlSessions[url] \in SessionIds \ {i}
        BY <2>1 DEF Typed, TypeOK
      <4> QED
        BY <2>2, <4>1 DEF Isolated, ProjectIsolation
    <3>3. \A x \in SessionIds :
            session'[x].projectId # None =>
              /\ session'[x].url # None
              /\ session'[x].projectId = urlToProjectId[session'[x].url]
      BY <1>1, <2>2, <3>1, NoneDistinct DEF Isolated, ProjectIsolation
    <3> QED
      BY <1>3, <3>2, <3>3 DEF Isolated, ProjectIsolation
  <2>6. TasksKeepTheirPage'
    <3> SUFFICES ASSUME NEW x \in Tasks \ {t}, tasks[x].sess # None
                 PROVE  session'[tasks[x].sess].url = tasks[x].url
      BY <2>2, <2>4 DEF TasksKeepTheirPage, NewSession
    <3>1. tasks[x].sess \in SessionIds \ {i}
      BY <2>1 DEF Typed, TypeOK, TaskRecord
    <3> QED
      BY <2>2, <3>1 DEF Isolated, TasksKeepTheirPage
  <2> QED
    BY <2>5, <2>6 DEF Isolated
<1>5. CASE urlSessions[k.url] # None
  <2>1. UNCHANGED <<session, urlSessions>> /\ i = urlSessions[k.url]
    BY <1>2, <1>5
  <2>2. /\ tasks'[t].sess = i /\ tasks'[t].url = k.url
        /\ \A x \in Tasks \ {t} : tasks'[x] = tasks[x]
    BY <1>2 DEF Task, Typed, TypeOK
  <2>3. session[i].url = k.url
    BY <1>1, <1>5, <2>1 DEF Isolated, ProjectIsolation
  <2>4. \A x \in Tasks :
          \/ tasks'[x] = tasks[x]
          \/ tasks'[x].sess # None => session[tasks'[x].sess].url = tasks'[x].url
    BY <2>2, <2>3
  <2> QED
    BY <1>3, <2>1, <2>4, KeepsIsolation
<1> QED
  BY <1>4, <1>5

LEMMA JoinRegisterIsolated ==
    ASSUME Typed, Typed', Isolated, NEW t \in Tasks, JoinRegister(t)
    PROVE  Isolated'
<1>1. \A i \in SessionIds : /\ session'[i].url = session[i].url
                            /\ session'[i].projectId = session[i].projectId
  BY DEF JoinRegister, Typed, TypeOK, SessionObject
<1>2. /\ tasks'[t].sess = tasks[t].sess /\ tasks'[t].url = tasks[t].url
      /\ \A x \in Tasks \ {t} : tasks'[x] = tasks[x]
  BY DEF JoinRegister, Typed, TypeOK, TaskRecord
<1>3. \A x \in Tasks :
        \/ tasks'[x] = tasks[x]
        \/ tasks'[x].sess # None => session[tasks'[x].sess].url = tasks'[x].url
  BY <1>2 DEF Isolated, TasksKeepTheirPage
<1> QED
  BY <1>1, <1>3, KeepsIsolation DEF JoinRegister

\* The project goes to the object held, which is of the page hashed.
LEMMA JoinProjectIsolated ==
    ASSUME Typed, Typed', Isolated, NEW t \in Tasks, JoinProject(t)
    PROVE  Isolated'
<1> DEFINE k   == tasks[t]
           pid == urlToProjectId[k.url]
<1>1. k.url \in Urls /\ k.sess \in SessionIds
  BY DEF JoinProject, At, Typed, TaskShapes, Shaped
<1>2. session[k.sess].url = k.url
  BY <1>1, NoneDistinct DEF Isolated, TasksKeepTheirPage
<1>3. /\ \A i \in SessionIds : session'[i].url = session[i].url
      /\ session'[k.sess].projectId = pid
      /\ \A i \in SessionIds \ {k.sess} : session'[i].projectId = session[i].projectId
  BY <1>1 DEF JoinProject, Typed, TypeOK, SessionObject
<1>4. /\ tasks'[t].sess = tasks[t].sess /\ tasks'[t].url = tasks[t].url
      /\ \A x \in Tasks \ {t} : tasks'[x] = tasks[x]
  BY DEF JoinProject, Typed, TypeOK, TaskRecord
<1>5. ProjectIsolation'
  <2>1. \A url \in Urls :
          /\ urlProjectMap'[url] \in {None, urlToProjectId[url]}
          /\ urlSessions'[url] # None => session'[urlSessions'[url]].url = url
    BY <1>1, <1>3 DEF JoinProject, Isolated, ProjectIsolation, Typed, TypeOK
  <2>2. \A p \in Projects :
          projectIdUrlMap'[p] # None => urlToProjectId[projectIdUrlMap'[p]] = p
    BY <1>1 DEF JoinProject, Isolated, ProjectIsolation, Typed, TypeOK
  <2>3. \A i \in SessionIds :
          session'[i].projectId # None =>
            /\ session'[i].url # None
            /\ session'[i].projectId = urlToProjectId[session'[i].url]
    BY <1>1, <1>2, <1>3, NoneDistinct DEF Isolated, ProjectIsolation
  <2> QED
    BY <2>1, <2>2, <2>3 DEF ProjectIsolation
<1>6. TasksKeepTheirPage'
  BY <1>3, <1>4 DEF Isolated, TasksKeepTheirPage, Typed, TypeOK, TaskRecord
<1> QED
  BY <1>5, <1>6 DEF Isolated

LEMMA CursorMoveIsolated ==
    ASSUME Typed, Typed', Isolated, NEW s \in Sockets, NEW link \in Links,
           handleCursorMove(s, link)
    PROVE  Isolated'
<1>1. \A i \in SessionIds : /\ session'[i].url = session[i].url
                            /\ session'[i].projectId = session[i].projectId
  BY DEF handleCursorMove, Typed, TypeOK, SessionObject
<1> QED
  BY <1>1, KeepsIsolation DEF handleCursorMove

LEMMA NextIsolated == Typed /\ Typed' /\ Isolated /\ [Next]_vars => Isolated'
<1> SUFFICES ASSUME Typed, Typed', Isolated, [Next]_vars
             PROVE  Isolated'
  OBVIOUS
<1>1. ASSUME NEW t \in Tasks, Resume(t)
      PROVE  Isolated'
  <2>1. ASSUME LeaveProjectDone(t)
        PROVE  Isolated'
    BY <2>1, LeaveTailIsolated DEF LeaveProjectDone
  <2> QED
    BY <1>1, <2>1, EndsIsolated, DropFailsRestarts, RestartIsolated, LeaveAnnounceIsolated,
       EnterSessionIsolated, JoinRegisterIsolated, JoinProjectIsolated DEF Resume
<1>2. ASSUME NEW t \in Tasks, NEW s \in Sockets, NEW link \in Links, PageLeave(t, s, link)
      PROVE  Isolated'
  BY <1>2, LinkTyped, BeginLeaveIsolated DEF PageLeave
<1>3. CASE UNCHANGED vars
  BY <1>3 DEF vars, sessionVars, Isolated, ProjectIsolation, TasksKeepTheirPage
<1> QED
  BY <1>1, <1>2, <1>3, ConnectIsolated, DisconnectIsolated, PageJoinIsolated,
     CursorMoveIsolated DEF Next

\* However joins, leaves and disconnects of any number of clients interleave,
\* no page is given another page's project and no project another page's room.
THEOREM GatewayProjectIsolation == Spec => []ProjectIsolation
<1>1. Init => Typed /\ Isolated
  BY NewProcessTyped, NewProcessIsolated DEF Init
<1>2. Typed /\ Isolated /\ [Next]_vars => (Typed /\ Isolated)'
  BY NextTyped, NextIsolated
<1>3. Spec => [](Typed /\ Isolated)
  BY <1>1, <1>2, PTL DEF Spec
<1>4. Typed /\ Isolated => ProjectIsolation
  BY DEF Isolated
<1> QED
  BY <1>3, <1>4, PTL

-----------------------------------------------------------------------------
(* Cursors: each step changes one object in one of five ways *)

LEMMA CursorSteps ==
    ASSUME Typed, CursorsOfMembers, NEW i \in SessionIds, NEW u,
           \/ UNCHANGED session
           \/ session' = WithoutUser(i, u)
           \/ \E url, pid : session' = [session EXCEPT ![i] = NewSession(url, pid)]
           \/ session' = [session EXCEPT ![i].users = @ \cup {u}]
           \/ \E pid : session' = [session EXCEPT ![i].projectId = pid]
           \/ /\ session' = [session EXCEPT ![i].cursors = @ \cup {u}]
              /\ u \in session[i].users
    PROVE  CursorsOfMembers'
<1>1. session \in [SessionIds -> SessionObject]
  BY DEF Typed, TypeOK
<1> SUFFICES ASSUME NEW x \in SessionIds
             PROVE  session'[x].cursors \subseteq session'[x].users
  BY DEF CursorsOfMembers
<1>2. session[x].cursors \subseteq session[x].users
  BY DEF CursorsOfMembers
<1>3. CASE session' = WithoutUser(i, u)
  BY <1>1, <1>2, <1>3 DEF WithoutUser, SessionObject
<1>4. CASE \E url, pid : session' = [session EXCEPT ![i] = NewSession(url, pid)]
  BY <1>1, <1>2, <1>4 DEF NewSession, SessionObject
<1>5. CASE session' = [session EXCEPT ![i].users = @ \cup {u}]
  BY <1>1, <1>2, <1>5 DEF SessionObject
<1>6. CASE \E pid : session' = [session EXCEPT ![i].projectId = pid]
  BY <1>1, <1>2, <1>6 DEF SessionObject
<1>7. CASE session' = [session EXCEPT ![i].cursors = @ \cup {u}] /\ u \in session[i].users
  BY <1>1, <1>2, <1>7 DEF SessionObject
<1> QED
  BY <1>2, <1>3, <1>4, <1>5, <1>6, <1>7

\* The objects that stay as they are.
LEMMA CursorsUnchanged ==
    ASSUME CursorsOfMembers, UNCHANGED session
    PROVE  CursorsOfMembers'
BY DEF CursorsOfMembers

LEMMA NewProcessCursors == NewProcess => CursorsOfMembers
BY DEF NewProcess, CursorsOfMembers, NewSession

LEMMA RestartCursors == NewProcess' => CursorsOfMembers'
BY NewProcessCursors, PTL

LEMMA BeginLeaveCursors ==
    ASSUME Typed, CursorsOfMembers, NEW t \in Tasks, NEW s, NEW url \in Urls, NEW goal,
           BeginLeave(t, s, url, goal)
    PROVE  CursorsOfMembers'
<1>1. CASE urlSessions[url] = None
  BY <1>1, CursorsUnchanged DEF BeginLeave
<1>2. CASE urlSessions[url] # None
  <2>1. urlSessions[url] \in SessionIds
    BY <1>2 DEF Typed, TypeOK
  <2>2. session' = WithoutUser(urlSessions[url], socketUserMap[s])
    BY <1>2 DEF BeginLeave
  <2> QED
    BY <2>1, <2>2, CursorSteps
<1> QED
  BY <1>1, <1>2

LEMMA DisconnectCursors ==
    ASSUME Typed, CursorsOfMembers, NEW t \in Tasks, NEW s \in Sockets, Disconnect(t, s)
    PROVE  CursorsOfMembers'
<1> DEFINE u    == socketUserMap[s]
           url  == socketUrlMap[s]
           sess == IF url = None THEN None ELSE urlSessions[url]
<1>1. CASE u = None \/ sess = None
  BY <1>1, CursorsUnchanged DEF Disconnect, sessionVars
<1>2. CASE ~(u = None \/ sess = None)
  <2>1. sess \in SessionIds
    BY <1>2 DEF Typed, TypeOK
  <2>2. session' = WithoutUser(sess, u)
    BY <1>2 DEF Disconnect
  <2> HIDE DEF sess, u
  <2> QED
    BY <2>1, <2>2, CursorSteps
<1> QED
  BY <1>1, <1>2

LEMMA EnterSessionCursors ==
    ASSUME Typed, CursorsOfMembers, NEW t \in Tasks, EnterSession(t)
    PROVE  CursorsOfMembers'
<1> DEFINE k == tasks[t]
<1>1. PICK i \in SessionIds :
        IF urlSessions[k.url] = None
        THEN session' = [session EXCEPT ![i] = NewSession(k.url, urlProjectMap[k.url])]
        ELSE UNCHANGED session
  BY DEF EnterSession
<1> QED
  BY <1>1, CursorSteps

LEMMA ResumeCursors ==
    ASSUME Typed, CursorsOfMembers, NEW t \in Tasks, Resume(t)
    PROVE  CursorsOfMembers'
<1> DEFINE k == tasks[t]
<1>1. CASE JoinRegister(t)
  <2>1. k.sess \in SessionIds
    BY <1>1 DEF JoinRegister, At, Typed, TaskShapes, Shaped
  <2>2. session' = [session EXCEPT ![k.sess].users = @ \cup {Owner[k.sock]}]
    BY <1>1 DEF JoinRegister
  <2> QED
    BY <2>1, <2>2, CursorSteps
<1>2. CASE JoinProject(t)
  <2>1. k.sess \in SessionIds
    BY <1>2 DEF JoinProject, At, Typed, TaskShapes, Shaped
  <2>2. session' = [session EXCEPT ![k.sess].projectId = urlToProjectId[k.url]]
    BY <1>2 DEF JoinProject
  <2> QED
    BY <2>1, <2>2, CursorSteps
<1>3. CASE LeaveAnnounce(t) \/ LeaveProjectDone(t)
  <2>1. UNCHANGED session
    BY <1>3 DEF LeaveAnnounce, LeaveProjectDone, LeaveTail, sessionVars
  <2> QED
    BY <2>1, CursorsUnchanged
<1>4. CASE \/ Authenticated(t) \/ Rejected(t) \/ DropDone(t) \/ DbCallFails(t)
           \/ EnterUnparsable(t) \/ JoinAnnounce(t)
  <2>1. UNCHANGED session
    BY <1>4 DEF Authenticated, Rejected, DropDone, DbCallFails, EnterUnparsable,
                JoinAnnounce, sessionVars
  <2> QED
    BY <2>1, CursorsUnchanged
<1> QED
  BY <1>1, <1>2, <1>3, <1>4, EnterSessionCursors, DropFailsRestarts, RestartCursors DEF Resume

LEMMA PageJoinCursors ==
    ASSUME Typed, CursorsOfMembers, NEW t \in Tasks, NEW s \in Sockets,
           NEW link \in Links, PageJoin(t, s, link)
    PROVE  CursorsOfMembers'
<1> DEFINE url      == normalizeUrl[link]
           previous == socketUrlMap[s]
<1>1. CASE previous # None /\ previous # url
  <2>1. normalizeUrl[previous] \in Urls
    BY <1>1, LinkTyped DEF Typed, TypeOK
  <2>2. BeginLeave(t, s, normalizeUrl[previous], url)
    BY <1>1 DEF PageJoin
  <2> QED
    BY <2>1, <2>2, BeginLeaveCursors
<1>2. CASE ~(previous # None /\ previous # url)
  BY <1>2, CursorsUnchanged DEF PageJoin, sessionVars
<1> QED
  BY <1>1, <1>2

LEMMA CursorMoveCursors ==
    ASSUME Typed, CursorsOfMembers, NEW s \in Sockets, NEW link \in Links,
           handleCursorMove(s, link)
    PROVE  CursorsOfMembers'
<1> DEFINE sess == urlSessions[normalizeUrl[link]]
           u    == socketUserMap[s]
<1>1. sess \in SessionIds
  BY LinkTyped DEF handleCursorMove, Typed, TypeOK
<1>2. session' = [session EXCEPT ![sess].cursors = @ \cup {u}] /\ u \in session[sess].users
  BY DEF handleCursorMove
<1> HIDE DEF sess, u
<1> QED
  BY <1>1, <1>2, CursorSteps

LEMMA NextCursors == Typed /\ CursorsOfMembers /\ [Next]_vars => CursorsOfMembers'
<1> SUFFICES ASSUME Typed, CursorsOfMembers, [Next]_vars
             PROVE  CursorsOfMembers'
  OBVIOUS
<1>1. ASSUME NEW t \in Tasks, NEW s \in Sockets, Connect(t, s)
      PROVE  CursorsOfMembers'
  BY <1>1, CursorsUnchanged DEF Connect, sessionVars
<1>2. ASSUME NEW t \in Tasks, NEW s \in Sockets, NEW link \in Links, PageLeave(t, s, link)
      PROVE  CursorsOfMembers'
  BY <1>2, LinkTyped, BeginLeaveCursors DEF PageLeave
<1>3. CASE UNCHANGED vars
  BY <1>3, CursorsUnchanged DEF vars, sessionVars
<1> QED
  BY <1>1, <1>2, <1>3, ResumeCursors, DisconnectCursors, PageJoinCursors,
     CursorMoveCursors DEF Next

\* A joining client is never sent the cursor of somebody who is not on the page.
THEOREM GatewayCursorsOfMembers == Spec => []CursorsOfMembers
<1>1. Init => Typed /\ CursorsOfMembers
  BY NewProcessTyped, NewProcessCursors DEF Init
<1>2. Typed /\ CursorsOfMembers /\ [Next]_vars => (Typed /\ CursorsOfMembers)'
  BY NextTyped, NextCursors
<1>3. Spec => [](Typed /\ CursorsOfMembers)
  BY <1>1, <1>2, PTL DEF Spec
<1> QED
  BY <1>3, PTL
=============================================================================

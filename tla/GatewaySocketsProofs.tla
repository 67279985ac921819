----------------------- MODULE GatewaySocketsProofs -----------------------
(***************************************************************************)
(* What Gateway keeps of its sockets and of who is on a page, for any      *)
(* number of users, sockets, pages, session objects and handlers in flight:*)
(* ClosesOwnProject (the page and the project of a socket agree),          *)
(* NothingLeftOver (closed ones are forgotten), EmptySessionIsHeld (an     *)
(* empty session has a handler that fills or sweeps it) and NoGhost (a     *)
(* user in a session has a connection on its page).                        *)
(***************************************************************************)
EXTENDS GatewayProofs

\* Handlers of one socket are two only if one of them is handleDisconnect.
Alone ==
    \A x, y \in Tasks :
      x # y /\ tasks[x].sock = tasks[y].sock /\ tasks[x].sock # None =>
        ~(tasks[x].pc = "dropping" <=> tasks[y].pc = "dropping")

\* While k joins its page, the entries pages and projects of its socket are of
\* no other page; open are the connected sockets.
JoinsOnly(k, pages, projects, open) ==
    /\ k.pc \in {"entering", "joining", "projecting"} =>
         projects[k.sock] \in {None, urlToProjectId[k.url]}
    /\ k.pc = "projecting" =>
         /\ pages[k.sock] \in {None, k.url}
         /\ k.sock \in open => pages[k.sock] = k.url
    /\ k.pc = "dropping" => k.sock \notin open

\* The entries of s fit, and a project is not entered without its page.
EntriesFit(s, pages, projects, open) ==
    /\ pages[s] # None /\ projects[s] # None => projects[s] = urlToProjectId[pages[s]]
    /\ s \in open /\ pages[s] = None => projects[s] = None

\* The two, now and after a step.
Joins(k)      == JoinsOnly(k, socketUrlMap, socketProjectMap, connected)
JoinsAfter(k) == JoinsOnly(k, socketUrlMap', socketProjectMap', connected')
Fits(s)       == EntriesFit(s, socketUrlMap, socketProjectMap, connected)
FitsAfter(s)  == EntriesFit(s, socketUrlMap', socketProjectMap', connected')

Paired ==
    "overlap" \notin liberties =>
      /\ Alone
      /\ \A t \in Tasks : Joins(tasks[t])
      /\ \A s \in Sockets : Fits(s)

\* Paired, where it says something.
OneMessage == Typed /\ Paired /\ "overlap" \notin liberties

-----------------------------------------------------------------------------
(* A socket's page and project *)

\* A step of one handler that writes the entries of one socket.
WritesOne(t, k, s) ==
    /\ UNCHANGED liberties
    /\ tasks' = [tasks EXCEPT ![t] = k]
    /\ k.sock \in {s, None}
    /\ k.pc = "idle" \/ JoinsAfter(k)
    /\ FitsAfter(s)
    /\ \A x \in Sockets \ {s} : /\ socketUrlMap'[x] = socketUrlMap[x]
                                /\ socketProjectMap'[x] = socketProjectMap[x]
                                /\ x \in connected' <=> x \in connected
    /\ \A y \in Tasks \ {t} : tasks[y].sock = s =>
         /\ JoinsAfter(tasks[y])
         /\ k.sock = s => ~(k.pc = "dropping" <=> tasks[y].pc = "dropping")

LEMMA StepPaired ==
    ASSUME OneMessage, NEW t \in Tasks, NEW k, NEW s \in Sockets, WritesOne(t, k, s)
    PROVE  Paired'
<1>1. tasks'[t] = k /\ \A y \in Tasks \ {t} : tasks'[y] = tasks[y]
  BY DEF WritesOne, OneMessage, Typed, TypeOK
<1>2. /\ k.sock \in {s, None}
      /\ k.pc = "idle" \/ JoinsAfter(k)
      /\ FitsAfter(s)
      /\ UNCHANGED liberties
  BY DEF WritesOne
<1>3. \A x \in Sockets \ {s} : /\ socketUrlMap'[x] = socketUrlMap[x]
                               /\ socketProjectMap'[x] = socketProjectMap[x]
                               /\ x \in connected' <=> x \in connected
  BY DEF WritesOne
<1>4. \A y \in Tasks \ {t} : tasks[y].sock = s =>
        /\ JoinsAfter(tasks[y])
        /\ k.sock = s => ~(k.pc = "dropping" <=> tasks[y].pc = "dropping")
  BY DEF WritesOne
<1>5. Alone'
  <2>1. Alone
    BY DEF OneMessage, Paired
  <2> SUFFICES ASSUME NEW x \in Tasks, NEW y \in Tasks, x # y,
                      tasks'[x].sock = tasks'[y].sock, tasks'[x].sock # None
               PROVE  ~(tasks'[x].pc = "dropping" <=> tasks'[y].pc = "dropping")
    BY DEF Alone
  <2>2. CASE x # t /\ y # t
    BY <1>1, <2>1, <2>2 DEF Alone
  <2>3. CASE x = t \/ y = t
    BY <1>1, <1>2, <1>4, <2>3
  <2> QED
    BY <2>2, <2>3
<1>6. ASSUME NEW y \in Tasks
      PROVE  JoinsAfter(tasks'[y])
  <2>1. CASE y = t
    BY <1>1, <1>2, <2>1 DEF JoinsAfter, JoinsOnly
  <2>2. CASE y # t /\ tasks[y].sock = s
    BY <1>1, <1>4, <2>2
  <2>3. CASE y # t /\ tasks[y].sock # s
    <3>1. Joins(tasks[y])
      BY DEF OneMessage, Paired
    <3>2. tasks[y].pc # "idle" => tasks[y].sock \in Sockets
      BY DEF OneMessage, Typed, TaskShapes, Shaped
    <3>3. CASE tasks[y].pc # "idle"
      <4> DEFINE x == tasks[y].sock
      <4>1. /\ socketUrlMap'[x] = socketUrlMap[x]
            /\ socketProjectMap'[x] = socketProjectMap[x]
            /\ x \in connected' <=> x \in connected
        BY <1>3, <2>3, <3>2, <3>3
      <4>2. tasks'[y] = tasks[y]
        BY <1>1, <2>3
      <4> QED
        BY <3>1, <4>1, <4>2 DEF Joins, JoinsAfter, JoinsOnly
    <3>4. CASE tasks[y].pc = "idle"
      BY <1>1, <2>3, <3>4 DEF JoinsAfter, JoinsOnly
    <3> QED
      BY <3>3, <3>4
  <2> QED
    BY <2>1, <2>2, <2>3
<1>7. ASSUME NEW x \in Sockets PROVE FitsAfter(x)
  <2>1. CASE x # s
    <3>1. Fits(x)
      BY DEF OneMessage, Paired
    <3>2. /\ socketUrlMap'[x] = socketUrlMap[x]
          /\ socketProjectMap'[x] = socketProjectMap[x]
          /\ x \in connected' <=> x \in connected
      BY <1>3, <2>1
    <3> QED
      BY <3>1, <3>2 DEF Fits, FitsAfter, EntriesFit
  <2> QED
    BY <1>2, <2>1
<1> QED
  BY <1>2, <1>5, <1>6, <1>7 DEF Paired, Joins, JoinsAfter, Fits, FitsAfter

\* A handler other than handleDisconnect goes on or ends.
GoesOn(t, k) ==
    /\ UNCHANGED <<liberties, connected>>
    /\ tasks[t].pc \notin {"idle", "dropping"} /\ k.pc # "dropping"
    /\ tasks' = [tasks EXCEPT ![t] = k]
    /\ k.sock \in {tasks[t].sock, None}
    /\ k.pc = "idle" \/ JoinsAfter(k)
    /\ FitsAfter(tasks[t].sock)
    /\ \A x \in Sockets \ {tasks[t].sock} : /\ socketUrlMap'[x] = socketUrlMap[x]
                                            /\ socketProjectMap'[x] = socketProjectMap[x]

LEMMA GoOnPaired ==
    ASSUME OneMessage, NEW t \in Tasks, NEW k, GoesOn(t, k)
    PROVE  Paired'
<1>1. PICK s \in Sockets : s = tasks[t].sock
  BY DEF GoesOn, OneMessage, Typed, TaskShapes, Shaped
<1>2. ASSUME NEW y \in Tasks \ {t}, tasks[y].sock = s
      PROVE  /\ tasks[y].pc = "dropping"
             /\ JoinsAfter(tasks[y])
  <2>0. UNCHANGED connected
    BY DEF GoesOn
  <2>1. tasks[y].pc = "dropping"
    BY <1>1, <1>2, NoneDistinct DEF GoesOn, OneMessage, Paired, Alone
  <2> QED
    BY <2>0, <2>1 DEF OneMessage, Paired, Joins, JoinsAfter, JoinsOnly
<1>3. WritesOne(t, k, s)
  BY <1>1, <1>2 DEF WritesOne, GoesOn
<1> QED
  BY <1>3, StepPaired

\* The tail of a departure forgets the socket's page.
LEMMA LeaveTailPaired ==
    ASSUME OneMessage, UNCHANGED liberties, NEW t \in Tasks,
           tasks[t].pc \in {"roomLeft", "leaving"}, LeaveTail(t)
    PROVE  Paired'
<1> DEFINE k    == tasks[t]
           next == IF k.goal = None THEN Idle
                   ELSE Task("entering", k.sock, k.goal, None, None, None)
<1>1. k.sock \in Sockets
  BY DEF OneMessage, Typed, TaskShapes, Shaped
<1>2. tasks' = [tasks EXCEPT ![t] = next] /\ UNCHANGED connected
  BY DEF LeaveTail
<1>3. /\ socketUrlMap' = [socketUrlMap EXCEPT ![k.sock] = None]
      /\ socketProjectMap' = [socketProjectMap EXCEPT ![k.sock] = None]
  BY DEF LeaveTail, forgetPage
<1>4. socketUrlMap'[k.sock] = None /\ socketProjectMap'[k.sock] = None
  BY <1>1, <1>3 DEF OneMessage, Typed, TypeOK
<1>5. /\ next.sock \in {k.sock, None} /\ next.pc # "dropping"
      /\ next.pc = "idle" \/ JoinsAfter(next)
  BY <1>4 DEF Idle, Task, Joins, JoinsAfter, JoinsOnly
<1>6. FitsAfter(k.sock)
  BY <1>4 DEF Fits, FitsAfter, EntriesFit
<1> HIDE DEF next
<1>9. GoesOn(t, next)
  BY <1>2, <1>3, <1>5, <1>6 DEF GoesOn, OneMessage, Typed, TypeOK
<1> QED
  BY <1>9, GoOnPaired

\* The handlers that go on, but for those of a departure and of the last await
\* of page:join.
LEMMA ResumePaired ==
    ASSUME OneMessage, UNCHANGED liberties, NEW t \in Tasks,
           \/ Authenticated(t) \/ LeaveAnnounce(t) \/ LeaveProjectDone(t) \/ DbCallFails(t)
           \/ EnterUnparsable(t) \/ EnterSession(t) \/ JoinRegister(t) \/ JoinProject(t)
           \/ JoinAnnounce(t)
    PROVE  Paired'
<1> DEFINE k == tasks[t]
<1>0. /\ k \in TaskRecord
      /\ k.pc # "idle" => k.sock \in Sockets
      /\ Joins(k)
      /\ k.sock \in Sockets => Fits(k.sock)
      /\ Shaped(k)
  BY DEF OneMessage, Paired, Typed, TypeOK, TaskShapes, Shaped
<1>1. CASE \/ Authenticated(t) \/ DbCallFails(t) \/ EnterUnparsable(t) \/ JoinAnnounce(t)
  <2>1. /\ tasks' = [tasks EXCEPT ![t] = Idle]
        /\ UNCHANGED <<connected, socketUrlMap, socketProjectMap>>
        /\ k.pc \notin {"idle", "dropping"}
    BY <1>1 DEF Authenticated, DbCallFails, EnterUnparsable, JoinAnnounce, At,
                wireVars, socketVars
  <2>2. Idle.sock = None /\ Idle.pc = "idle"
    BY DEF Idle
  <2>3. FitsAfter(k.sock)
    BY <1>0, <2>1 DEF Fits, FitsAfter
  <2>9. GoesOn(t, Idle)
    BY <2>1, <2>2, <2>3 DEF GoesOn
  <2> QED
    BY <2>9, GoOnPaired
<1>2. CASE LeaveAnnounce(t) /\ k.pid # None
  <2> DEFINE next == [k EXCEPT !.pc = "leaving"]
  <2>1. /\ tasks' = [tasks EXCEPT ![t] = next] /\ k.pc = "roomLeft"
        /\ UNCHANGED <<connected, socketUrlMap, socketProjectMap>>
    BY <1>2 DEF LeaveAnnounce, At, socketVars
  <2>2. next.pc = "leaving" /\ next.sock = k.sock
    BY <1>0 DEF TaskRecord
  <2> HIDE DEF next
  <2>3. FitsAfter(k.sock) /\ JoinsAfter(next)
    BY <1>0, <2>1, <2>2 DEF Fits, FitsAfter, JoinsAfter, JoinsOnly
  <2>9. GoesOn(t, next)
    BY <2>1, <2>2, <2>3 DEF GoesOn
  <2> QED
    BY <2>9, GoOnPaired
<1>3. CASE (LeaveAnnounce(t) /\ k.pid = None) \/ LeaveProjectDone(t)
  BY <1>3, LeaveTailPaired DEF LeaveAnnounce, LeaveProjectDone, At
<1>4. CASE EnterSession(t)
  <2>1. PICK i \in SessionIds :
          tasks' = [tasks EXCEPT ![t] = Task("joining", k.sock, k.url, i, None, None)]
    BY <1>4 DEF EnterSession
  <2> DEFINE next == Task("joining", k.sock, k.url, i, None, None)
  <2>2. /\ next.pc = "joining" /\ next.sock = k.sock /\ next.url = k.url
        /\ tasks' = [tasks EXCEPT ![t] = next]
    BY <2>1 DEF Task
  <2>3. k.pc = "entering" /\ UNCHANGED <<connected, socketUrlMap, socketProjectMap>>
    BY <1>4 DEF EnterSession, At, socketVars
  <2> HIDE DEF next
  <2>4. FitsAfter(k.sock) /\ JoinsAfter(next)
    BY <1>0, <2>2, <2>3 DEF Fits, FitsAfter, Joins, JoinsAfter, JoinsOnly
  <2>9. GoesOn(t, next)
    BY <2>2, <2>3, <2>4 DEF GoesOn
  <2> QED
    BY <2>9, GoOnPaired
<1>5. CASE JoinRegister(t)
  <2> DEFINE next == [k EXCEPT !.pc = "projecting"]
  <2>1. /\ tasks' = [tasks EXCEPT ![t] = next] /\ k.pc = "joining"
        /\ socketUrlMap' = [socketUrlMap EXCEPT ![k.sock] = k.url]
        /\ UNCHANGED <<connected, socketProjectMap>>
    BY <1>5 DEF JoinRegister, At, wireVars
  <2>2. next.pc = "projecting" /\ next.sock = k.sock /\ next.url = k.url
    BY <1>0 DEF TaskRecord
  <2>3. socketUrlMap'[k.sock] = k.url /\ k.url \in Urls /\ k.sock \in Sockets
    BY <1>0, <2>1 DEF Shaped, OneMessage, Typed, TypeOK
  <2> HIDE DEF next
  <2>4. FitsAfter(k.sock) /\ JoinsAfter(next)
    BY <1>0, <2>1, <2>2, <2>3, NoneDistinct
    DEF Fits, FitsAfter, EntriesFit, Joins, JoinsAfter, JoinsOnly
  <2>9. GoesOn(t, next)
    BY <2>1, <2>2, <2>4 DEF GoesOn, OneMessage, Typed, TypeOK
  <2> QED
    BY <2>9, GoOnPaired
<1>6. CASE JoinProject(t)
  <2> DEFINE next == [k EXCEPT !.pc = "loading"]
             pid  == urlToProjectId[k.url]
  <2>1. /\ tasks' = [tasks EXCEPT ![t] = next] /\ k.pc = "projecting"
        /\ socketProjectMap' = [socketProjectMap EXCEPT ![k.sock] = pid]
        /\ UNCHANGED <<connected, socketUrlMap>>
    BY <1>6 DEF JoinProject, At, wireVars
  <2>2. next.pc = "loading" /\ next.sock = k.sock
    BY <1>0 DEF TaskRecord
  <2>3. socketProjectMap'[k.sock] = pid /\ k.url \in Urls /\ k.sock \in Sockets
    BY <1>0, <2>1 DEF Shaped, OneMessage, Typed, TypeOK
  <2> HIDE DEF next
  <2>4. FitsAfter(k.sock) /\ JoinsAfter(next)
    BY <1>0, <2>1, <2>2, <2>3, NoneDistinct
    DEF Fits, FitsAfter, EntriesFit, Joins, JoinsAfter, JoinsOnly
  <2>9. GoesOn(t, next)
    BY <2>1, <2>2, <2>4 DEF GoesOn, OneMessage, Typed, TypeOK
  <2> QED
    BY <2>9, GoOnPaired
<1> QED
  BY <1>1, <1>2, <1>3, <1>4, <1>5, <1>6

\* A message finds no other being handled, and its socket's entries fit.
BeginsAs(t, s, k) ==
    /\ UNCHANGED <<liberties, connected, socketUrlMap, socketProjectMap>>
    /\ ~Busy(s)
    /\ tasks' = [tasks EXCEPT ![t] = k]
    /\ k.sock = s /\ k.pc # "dropping" /\ Joins(k)

LEMMA BeginPaired ==
    ASSUME OneMessage, NEW t \in Tasks, NEW s \in Sockets, NEW k, BeginsAs(t, s, k)
    PROVE  Paired'
<1>1. \A y \in Tasks : tasks[y].sock # s
  BY DEF BeginsAs, Busy
<1>2. FitsAfter(s) /\ JoinsAfter(k)
  BY DEF BeginsAs, OneMessage, Paired, Fits, FitsAfter, Joins, JoinsAfter
<1>9. WritesOne(t, k, s)
  BY <1>1, <1>2 DEF WritesOne, BeginsAs
<1> QED
  BY <1>9, StepPaired

LEMMA PageMessagePaired ==
    ASSUME OneMessage, UNCHANGED liberties, NEW t \in Tasks, NEW s \in Sockets,
           NEW link \in Links, PageJoin(t, s, link) \/ PageLeave(t, s, link)
    PROVE  Paired'
<1>1. s \in connected /\ ~Busy(s)
  BY DEF PageJoin, PageLeave, Begins, Receives, OneMessage
<1>2. ASSUME NEW url, NEW goal, BeginLeave(t, s, url, goal)
      PROVE  Paired'
  <2>1. PICK sess, pid :
          tasks' = [tasks EXCEPT ![t] = Task("roomLeft", s, url, sess, pid, goal)]
    BY <1>2 DEF BeginLeave
  <2> DEFINE k == Task("roomLeft", s, url, sess, pid, goal)
  <2>2. k.pc = "roomLeft" /\ k.sock = s /\ tasks' = [tasks EXCEPT ![t] = k]
    BY <2>1 DEF Task
  <2>3. UNCHANGED <<connected, socketUrlMap, socketProjectMap>>
    BY <1>2 DEF BeginLeave, socketVars
  <2> HIDE DEF k
  <2>4. Joins(k)
    BY <2>2 DEF Joins, JoinsAfter, JoinsOnly
  <2>9. BeginsAs(t, s, k)
    BY <1>1, <2>2, <2>3, <2>4 DEF BeginsAs
  <2> QED
    BY <2>9, BeginPaired
<1>3. CASE PageLeave(t, s, link)
  BY <1>2, <1>3 DEF PageLeave
<1>4. CASE PageJoin(t, s, link) /\ ~(\E url, goal : BeginLeave(t, s, url, goal))
  <2> DEFINE url == normalizeUrl[link]
             k   == Task("entering", s, url, None, None, None)
  <2>1. /\ tasks' = [tasks EXCEPT ![t] = k]
        /\ UNCHANGED <<connected, socketUrlMap, socketProjectMap>>
        /\ socketUrlMap[s] \in {None, url}
    BY <1>4 DEF PageJoin, wireVars, socketVars
  <2>2. k.pc = "entering" /\ k.sock = s /\ k.url = url
    BY DEF Task
  <2>3. Fits(s)
    BY DEF OneMessage, Paired
  <2> HIDE DEF k
  <2>4. Joins(k)
    BY <1>1, <2>1, <2>2, <2>3, LinkTyped, NoneDistinct
    DEF Joins, JoinsAfter, JoinsOnly, Fits, FitsAfter, EntriesFit
  <2>9. BeginsAs(t, s, k)
    BY <1>1, <2>1, <2>2, <2>4 DEF BeginsAs
  <2> QED
    BY <2>9, BeginPaired
<1> QED
  BY <1>2, <1>3, <1>4

\* Connections that open and close.
LEMMA ConnectionPaired ==
    ASSUME OneMessage, UNCHANGED liberties, NEW t \in Tasks, NEW s \in Sockets,
           \/ Connect(t, s) \/ Disconnect(t, s)
           \/ tasks[t].sock = s /\ (Rejected(t) \/ DropDone(t))
    PROVE  Paired'
<1>0. Fits(s)
  BY DEF OneMessage, Paired
<1>1. CASE Connect(t, s)
  <2> DEFINE k == Task("connecting", s, None, None, None, None)
  <2>1. /\ tasks' = [tasks EXCEPT ![t] = k] /\ connected' = connected \cup {s}
        /\ UNCHANGED <<socketUrlMap, socketProjectMap>>
        /\ socketUrlMap[s] = None /\ socketProjectMap[s] = None
        /\ \A y \in Tasks : tasks[y].sock # s
    BY <1>1 DEF Connect, Fresh, Busy, socketVars
  <2>2. k.pc = "connecting" /\ k.sock = s
    BY DEF Task
  <2> HIDE DEF k
  <2>3. JoinsAfter(k) /\ FitsAfter(s)
    BY <2>1, <2>2 DEF Joins, JoinsAfter, JoinsOnly, Fits, FitsAfter, EntriesFit
  <2>9. WritesOne(t, k, s)
    BY <2>1, <2>2, <2>3 DEF WritesOne
  <2> QED
    BY <2>9, StepPaired
<1>2. CASE tasks[t].sock = s /\ (Rejected(t) \/ DropDone(t))
  <2>1. /\ tasks' = [tasks EXCEPT ![t] = Idle] /\ connected' \in {connected, connected \ {s}}
        /\ socketUrlMap' = [socketUrlMap EXCEPT ![s] = None]
        /\ socketProjectMap' = [socketProjectMap EXCEPT ![s] = None]
        /\ DropDone(t) => tasks[t].pc = "dropping"
        /\ Rejected(t) => s \notin connected'
    BY <1>2 DEF Rejected, DropDone, forgetPage, At, wireVars
  <2>2. socketUrlMap'[s] = None /\ socketProjectMap'[s] = None
    BY <2>1 DEF OneMessage, Typed, TypeOK
  <2>3. s \notin connected'
    BY <1>2, <2>1 DEF OneMessage, Paired, Joins, JoinsAfter, JoinsOnly
  <2>4. FitsAfter(s)
    BY <2>2 DEF Fits, FitsAfter, EntriesFit
  <2>5. \A y \in Tasks : tasks[y].sock = s =>
          JoinsAfter(tasks[y])
    BY <2>2, <2>3 DEF Joins, JoinsAfter, JoinsOnly
  <2>6. Idle.pc = "idle" /\ Idle.sock = None
    BY DEF Idle
  <2>9. WritesOne(t, Idle, s)
    BY <2>1, <2>4, <2>5, <2>6, NoneDistinct DEF WritesOne, OneMessage, Typed, TypeOK
  <2> QED
    BY <2>9, StepPaired
<1>3. CASE Disconnect(t, s)
  <2>1. connected' = connected \ {s} /\ s \in connected /\ tasks[t] = Idle
    BY <1>3 DEF Disconnect
  <2>2. \A y \in Tasks : tasks[y].sock = s => tasks[y].pc # "dropping"
    BY <2>1 DEF OneMessage, Paired, Joins, JoinsAfter, JoinsOnly
  <2>3. CASE UNCHANGED tasks
    <3>1. /\ socketUrlMap' = [socketUrlMap EXCEPT ![s] = None]
          /\ socketProjectMap' = [socketProjectMap EXCEPT ![s] = None]
      <4>1. forgetPage(s) \/ \E pid : tasks' = [tasks EXCEPT ![t] =
                                        Task("dropping", s, None, None, pid, None)]
        BY <1>3 DEF Disconnect
      <4>2. ASSUME NEW pid, tasks' = [tasks EXCEPT ![t] =
                                        Task("dropping", s, None, None, pid, None)]
            PROVE  FALSE
        BY <2>1, <2>3, <4>2 DEF Task, Idle, OneMessage, Typed, TypeOK
      <4> QED
        BY <4>1, <4>2 DEF forgetPage
    <3>2. socketUrlMap'[s] = None /\ socketProjectMap'[s] = None
      BY <3>1 DEF OneMessage, Typed, TypeOK
    <3>3. FitsAfter(s)
      BY <3>2 DEF Fits, FitsAfter, EntriesFit
    <3>4. \A y \in Tasks : tasks[y].sock = s =>
            JoinsAfter(tasks[y])
      BY <2>1, <2>2, <3>2 DEF Joins, JoinsAfter, JoinsOnly
    <3>5. Idle.pc = "idle" /\ Idle.sock = None /\ tasks' = [tasks EXCEPT ![t] = Idle]
      BY <2>1, <2>3 DEF Idle, OneMessage, Typed, TypeOK
    <3>9. WritesOne(t, Idle, s)
      BY <2>1, <3>1, <3>3, <3>4, <3>5, NoneDistinct DEF WritesOne, OneMessage, Typed, TypeOK
    <3> QED
      BY <3>9, StepPaired
  <2>4. CASE ~UNCHANGED tasks
    <3>1. PICK pid : /\ tasks' = [tasks EXCEPT ![t] = Task("dropping", s, None, None, pid, None)]
                     /\ UNCHANGED <<socketUrlMap, socketProjectMap>>
      BY <1>3, <2>4 DEF Disconnect, socketVars
    <3> DEFINE k == Task("dropping", s, None, None, pid, None)
    <3>2. k.pc = "dropping" /\ k.sock = s /\ tasks' = [tasks EXCEPT ![t] = k]
      BY <3>1 DEF Task
    <3> HIDE DEF k
    <3>3. FitsAfter(s) /\ JoinsAfter(k)
      BY <1>0, <2>1, <3>1, <3>2 DEF Fits, FitsAfter, EntriesFit, Joins, JoinsAfter, JoinsOnly
    <3>4. \A y \in Tasks : tasks[y].sock = s =>
            JoinsAfter(tasks[y])
      BY <2>1, <2>2, <3>1 DEF OneMessage, Paired, Joins, JoinsAfter, JoinsOnly
    <3>9. WritesOne(t, k, s)
      BY <2>1, <2>2, <3>1, <3>2, <3>3, <3>4 DEF WritesOne
    <3> QED
      BY <3>9, StepPaired
  <2> QED
    BY <2>3, <2>4
<1> QED
  BY <1>1, <1>2, <1>3

LEMMA NewProcessPaired == NewProcess => Paired
BY DEF NewProcess, Paired, Alone, Joins, JoinsAfter, JoinsOnly, Fits, FitsAfter, EntriesFit, Idle

LEMMA RestartPaired == NewProcess' => Paired'
BY NewProcessPaired, PTL

LEMMA UnchangedPaired ==
    ASSUME Paired,
           UNCHANGED <<tasks, socketUrlMap, socketProjectMap, connected, liberties>>
    PROVE  Paired'
BY DEF Paired, Alone, Joins, JoinsAfter, JoinsOnly, Fits, FitsAfter, EntriesFit

LEMMA NextPaired == Typed /\ Paired /\ [Next]_vars => Paired'
<1> SUFFICES ASSUME Typed, Paired, [Next]_vars
             PROVE  Paired'
  OBVIOUS
<1>1. CASE UNCHANGED vars
  BY <1>1, UnchangedPaired DEF vars, socketVars, wireVars
<1>2. CASE Next /\ "overlap" \in liberties
  BY <1>2 DEF Next, Paired
<1>3. CASE Next /\ "overlap" \notin liberties
  <2>1. OneMessage /\ UNCHANGED liberties
    BY <1>3 DEF OneMessage, Next
  <2>2. ASSUME NEW t \in Tasks, Resume(t)
        PROVE  Paired'
    <3>1. CASE DropFails(t)
      BY <3>1, DropFailsRestarts, RestartPaired
    <3>2. CASE Rejected(t) \/ DropDone(t)
      <4>1. tasks[t].sock \in Sockets
        BY <3>2 DEF Rejected, DropDone, At, Typed, TaskShapes, Shaped
      <4> QED
        BY <2>1, <3>2, <4>1, ConnectionPaired
    <3> QED
      BY <2>1, <2>2, <3>1, <3>2, ResumePaired DEF Resume
  <2>3. ASSUME NEW s \in Sockets, NEW link \in Links, handleCursorMove(s, link)
        PROVE  Paired'
    BY <2>1, <2>3, UnchangedPaired DEF handleCursorMove, wireVars, socketVars
  <2> QED
    BY <1>3, <2>1, <2>2, <2>3, ConnectionPaired, PageMessagePaired DEF Next
<1> QED
  BY <1>1, <1>2, <1>3

\* ClosesOwnProject: the two maps of a socket are written at two awaits of
\* page:join and forgotten at the end of a departure; as long as messages of the
\* socket do not overlap, whatever closes, strays or fails meanwhile, the project
\* that handleDisconnect closes is the one of the page it cleans up.
THEOREM GatewayClosesOwnProject == Spec => []ClosesOwnProject
<1>1. Init => Typed /\ Paired
  BY NewProcessTyped, NewProcessPaired DEF Init
<1>2. Typed /\ Paired /\ [Next]_vars => (Typed /\ Paired)'
  BY NextTyped, NextPaired
<1>3. Paired => ClosesOwnProject
  BY DEF Paired, Fits, FitsAfter, EntriesFit, ClosesOwnProject
<1> QED
  BY <1>1, <1>2, <1>3, PTL DEF Spec

-----------------------------------------------------------------------------
(* What is left of a closed connection *)

NoTrace(s) ==
    /\ \A url \in Urls : s \notin rooms[url]
    /\ socketUserMap[s] = None
    /\ \A u \in Users : userSocketMap[u] # s

NoPage(s) == socketUrlMap[s] = None /\ socketProjectMap[s] = None

\* A closed socket has only handleDisconnect left, and only its page; one whose
\* user is being looked up has nothing yet, and no other handler.
Known(s) ==
    /\ \A u \in Users : userSocketMap[u] = s => socketUserMap[s] = u
    /\ s \notin connected =>
         /\ NoTrace(s)
         /\ ~Busy(s) => NoPage(s)
         /\ \A t \in Tasks : tasks[t].sock = s => tasks[t].pc = "dropping"
    /\ \A t \in Tasks : tasks[t].sock = s /\ tasks[t].pc = "connecting" =>
         /\ s \in connected /\ NoTrace(s) /\ NoPage(s)
         /\ \A y \in Tasks \ {t} : tasks[y].sock # s

Forgotten == "dropBusy" \notin liberties => \A s \in Sockets : Known(s)

\* Forgotten, where it says something.
DropsIdle == Typed /\ Forgotten /\ "dropBusy" \notin liberties

\* A step of one handler of one socket: the other sockets gain nothing.
Touches(t, s) ==
    /\ UNCHANGED liberties
    /\ tasks' = [tasks EXCEPT ![t] = tasks'[t]]
    /\ tasks[t].sock \in {s, None} /\ tasks'[t].sock \in {s, None}
    /\ \A x \in Sockets \ {s} :
         /\ \A url \in Urls : x \in rooms'[url] => x \in rooms[url]
         /\ \A u \in Users : userSocketMap'[u] = x => userSocketMap[u] = x
         /\ socketUserMap'[x] = socketUserMap[x]
         /\ socketUrlMap'[x] = socketUrlMap[x]
         /\ socketProjectMap'[x] = socketProjectMap[x]
         /\ x \in connected' <=> x \in connected

LEMMA OthersUntouched ==
    ASSUME Typed, NEW t \in Tasks, NEW s \in Sockets, Touches(t, s),
           NEW x \in Sockets, x # s
    PROVE  /\ \A url \in Urls : x \in rooms'[url] => x \in rooms[url]
           /\ \A u \in Users : userSocketMap'[u] = x => userSocketMap[u] = x
           /\ socketUserMap'[x] = socketUserMap[x]
           /\ socketUrlMap'[x] = socketUrlMap[x]
           /\ socketProjectMap'[x] = socketProjectMap[x]
           /\ x \in connected' <=> x \in connected
           /\ \A y \in Tasks : /\ tasks'[y].sock = x <=> tasks[y].sock = x
                               /\ tasks[y].sock = x => tasks'[y] = tasks[y]
<1>1. \A y \in Tasks \ {t} : tasks'[y] = tasks[y]
  BY DEF Touches, Typed, TypeOK
<1>2. tasks[t].sock # x /\ tasks'[t].sock # x
  BY NoneDistinct DEF Touches
<1>3. \A y \in Tasks : /\ tasks'[y].sock = x <=> tasks[y].sock = x
                       /\ tasks[y].sock = x => tasks'[y] = tasks[y]
  BY <1>1, <1>2
<1> QED
  BY <1>3 DEF Touches

LEMMA TouchesOne ==
    ASSUME DropsIdle, NEW t \in Tasks, NEW s \in Sockets, Touches(t, s), Known(s)'
    PROVE  Forgotten'
<1> SUFFICES ASSUME NEW x \in Sockets, x # s
             PROVE  Known(x)'
  BY DEF Forgotten
<1>1. /\ \A url \in Urls : x \in rooms'[url] => x \in rooms[url]
      /\ \A u \in Users : userSocketMap'[u] = x => userSocketMap[u] = x
      /\ socketUserMap'[x] = socketUserMap[x]
      /\ socketUrlMap'[x] = socketUrlMap[x]
      /\ socketProjectMap'[x] = socketProjectMap[x]
      /\ x \in connected' <=> x \in connected
  BY OthersUntouched DEF DropsIdle
<1>2. \A y \in Tasks : /\ tasks'[y].sock = x <=> tasks[y].sock = x
                       /\ tasks[y].sock = x => tasks'[y] = tasks[y]
  BY OthersUntouched DEF DropsIdle
<1>3. Known(x)
  BY DEF DropsIdle, Forgotten
<1>4. (NoTrace(x) => NoTrace(x)') /\ (NoPage(x) => NoPage(x)')
  BY <1>1 DEF NoTrace, NoPage
<1>5. Busy(x)' <=> Busy(x)
  BY <1>2 DEF Busy
<1> QED
  BY <1>1, <1>2, <1>3, <1>4, <1>5 DEF Known

\* What a handler does for a socket that is open and registered.
LEMMA OpenKnown ==
    ASSUME DropsIdle, NEW t \in Tasks, NEW s \in Sockets, Touches(t, s),
           UNCHANGED <<socketUserMap, userSocketMap, connected>>,
           s \in connected, tasks'[t].pc # "connecting",
           \A y \in Tasks : tasks[y].sock = s => tasks[y].pc # "connecting"
    PROVE  Forgotten'
<1>1. \A y \in Tasks \ {t} : tasks'[y] = tasks[y]
  BY DEF Touches, DropsIdle, Typed, TypeOK
<1>2. \A y \in Tasks : tasks'[y].sock = s => tasks'[y].pc # "connecting"
  BY <1>1
<1>3. Known(s)
  BY DEF DropsIdle, Forgotten
<1>4. Known(s)'
  BY <1>2, <1>3 DEF Known
<1> QED
  BY <1>4, TouchesOne

-----------------------------------------------------------------------------
(* Each handler touches one socket *)

\* The handlers of page:join and page:leave after their first await.
Works(t) ==
    \/ LeaveAnnounce(t) \/ LeaveProjectDone(t) \/ DbCallFails(t)
    \/ EnterUnparsable(t) \/ EnterSession(t) \/ JoinRegister(t) \/ JoinProject(t)
    \/ JoinAnnounce(t)

LEMMA WorkingTouches ==
    ASSUME Typed, NEW t \in Tasks, UNCHANGED liberties, Works(t)
    PROVE  /\ tasks[t].pc \notin {"idle", "connecting", "dropping"}
           /\ tasks[t].sock \in Sockets
           /\ tasks'[t].pc \notin {"connecting", "dropping"}
           /\ UNCHANGED <<socketUserMap, userSocketMap, connected>>
           /\ Touches(t, tasks[t].sock)
<1>1. tasks[t].pc \notin {"idle", "connecting", "dropping"}
  BY DEF Works, LeaveAnnounce, LeaveProjectDone, DbCallFails, EnterUnparsable, EnterSession,
         JoinRegister, JoinProject, JoinAnnounce, At
<1>2. PICK s \in Sockets : s = tasks[t].sock
  BY <1>1 DEF Typed, TaskShapes, Shaped
<1>3. UNCHANGED <<socketUserMap, userSocketMap, connected>>
  BY DEF Works, LeaveAnnounce, LeaveProjectDone, LeaveTail, DbCallFails, EnterUnparsable,
         EnterSession, JoinRegister, JoinProject, JoinAnnounce, userVars, wireVars
<1>4. /\ tasks' = [tasks EXCEPT ![t] = tasks'[t]]
      /\ tasks'[t].sock \in {s, None} /\ tasks'[t].pc \notin {"connecting", "dropping"}
  <2>1. tasks[t] \in TaskRecord /\ tasks \in [Tasks -> TaskRecord]
    BY DEF Typed, TypeOK
  <2>2. Idle.sock = None /\ Idle.pc = "idle"
    BY DEF Idle
  <2>3. CASE DbCallFails(t) \/ EnterUnparsable(t) \/ JoinAnnounce(t)
    BY <2>1, <2>2, <2>3 DEF DbCallFails, EnterUnparsable, JoinAnnounce
  <2>4. CASE LeaveTail(t)
    BY <1>2, <2>1, <2>2, <2>4 DEF LeaveTail, Task
  <2>5. CASE LeaveAnnounce(t) /\ tasks[t].pid # None
    BY <1>2, <2>1, <2>5 DEF LeaveAnnounce, TaskRecord
  <2>6. CASE EnterSession(t)
    BY <1>2, <2>1, <2>6 DEF EnterSession, Task
  <2>7. CASE JoinRegister(t) \/ JoinProject(t)
    BY <1>2, <2>1, <2>7 DEF JoinRegister, JoinProject, TaskRecord
  <2> QED
    BY <2>3, <2>4, <2>5, <2>6, <2>7 DEF Works, LeaveAnnounce, LeaveProjectDone
<1>5. \A x \in Sockets \ {s} : /\ \A url \in Urls : x \in rooms'[url] => x \in rooms[url]
                               /\ socketUrlMap'[x] = socketUrlMap[x]
                               /\ socketProjectMap'[x] = socketProjectMap[x]
  BY <1>2 DEF Works, LeaveAnnounce, LeaveProjectDone, LeaveTail, forgetPage, DbCallFails,
     EnterUnparsable, EnterSession, JoinRegister, JoinProject, JoinAnnounce,
     socketVars, wireVars, Typed, TypeOK
<1>6. Touches(t, s)
  BY <1>2, <1>3, <1>4, <1>5 DEF Touches
<1> QED
  BY <1>1, <1>2, <1>3, <1>4, <1>6

LEMMA PageMessageTouches ==
    ASSUME Typed, UNCHANGED liberties, NEW t \in Tasks, NEW s \in Sockets,
           NEW link \in Links, PageJoin(t, s, link) \/ PageLeave(t, s, link)
    PROVE  /\ Receives(s) /\ tasks[t] = Idle
           /\ tasks'[t].sock = s /\ tasks'[t].pc \in {"entering", "roomLeft"}
           /\ UNCHANGED <<socketUserMap, userSocketMap, connected,
                          socketUrlMap, socketProjectMap>>
           /\ Touches(t, s)
<1>1. Receives(s) /\ tasks[t] = Idle
  BY DEF PageJoin, PageLeave, Begins
<1>2. \/ \E url, goal : BeginLeave(t, s, url, goal)
      \/ /\ UNCHANGED <<wireVars, userVars, socketVars>>
         /\ \E url : tasks' = [tasks EXCEPT ![t] = Task("entering", s, url, None, None, None)]
  BY DEF PageJoin, PageLeave
<1>3. /\ tasks' = [tasks EXCEPT ![t] = tasks'[t]]
      /\ tasks'[t].sock = s /\ tasks'[t].pc \in {"entering", "roomLeft"}
  BY <1>2 DEF BeginLeave, Task, Typed, TypeOK
<1>4. /\ UNCHANGED <<socketUserMap, userSocketMap, connected, socketUrlMap, socketProjectMap>>
      /\ \A x \in Sockets : \A url \in Urls : x \in rooms'[url] => x \in rooms[url]
  BY <1>2 DEF BeginLeave, wireVars, userVars, socketVars, Typed, TypeOK
<1>5. Touches(t, s)
  BY <1>1, <1>3, <1>4 DEF Touches, Idle
<1> QED
  BY <1>1, <1>3, <1>4, <1>5

LEMMA ConnectTouches ==
    ASSUME Typed, UNCHANGED liberties, NEW t \in Tasks, NEW s \in Sockets, Connect(t, s)
    PROVE  /\ tasks'[t].sock = s /\ tasks'[t].pc = "connecting"
           /\ Touches(t, s)
<1>1. /\ tasks' = [tasks EXCEPT ![t] = Task("connecting", s, None, None, None, None)]
      /\ connected' = connected \cup {s}
      /\ UNCHANGED <<rooms, userVars, socketVars>>
      /\ tasks[t] = Idle
  BY DEF Connect
<1>2. /\ tasks' = [tasks EXCEPT ![t] = tasks'[t]]
      /\ tasks'[t].sock = s /\ tasks'[t].pc = "connecting"
  BY <1>1 DEF Task, Typed, TypeOK
<1> QED
  BY <1>1, <1>2 DEF Touches, Idle, userVars, socketVars

\* The handlers of handleConnection and handleDisconnect that end.
LEMMA EndTouches ==
    ASSUME Typed, UNCHANGED liberties, NEW t \in Tasks,
           Authenticated(t) \/ Rejected(t) \/ DropDone(t)
    PROVE  /\ tasks[t].sock \in Sockets
           /\ tasks[t].pc = IF DropDone(t) THEN "dropping" ELSE "connecting"
           /\ tasks' = [tasks EXCEPT ![t] = Idle] /\ tasks'[t] = Idle
           /\ Touches(t, tasks[t].sock)
<1>1. tasks[t].pc = IF DropDone(t) THEN "dropping" ELSE "connecting"
  BY DEF Authenticated, Rejected, DropDone, At
<1>2. PICK s \in Sockets : s = tasks[t].sock
  BY <1>1 DEF Typed, TaskShapes, Shaped
<1>3. tasks' = [tasks EXCEPT ![t] = Idle]
  BY DEF Authenticated, Rejected, DropDone
<1>4. tasks'[t] = Idle /\ tasks' = [tasks EXCEPT ![t] = tasks'[t]] /\ Idle.sock = None
  BY <1>3 DEF Idle, Typed, TypeOK
<1>5. CASE Authenticated(t)
  <2>1. /\ socketUserMap' = [socketUserMap EXCEPT ![s] = Owner[s]]
        /\ userSocketMap' = [userSocketMap EXCEPT ![Owner[s]] = s]
        /\ UNCHANGED <<connected, rooms, socketUrlMap, socketProjectMap>>
    BY <1>2, <1>5 DEF Authenticated, wireVars, socketVars
  <2> QED
    BY <1>1, <1>2, <1>3, <1>4, <2>1 DEF Touches, Typed, TypeOK
<1>6. CASE Rejected(t) \/ DropDone(t)
  <2>1. /\ connected' \in {connected, connected \ {s}}
        /\ socketUrlMap' = [socketUrlMap EXCEPT ![s] = None]
        /\ socketProjectMap' = [socketProjectMap EXCEPT ![s] = None]
        /\ UNCHANGED <<rooms, socketUserMap, userSocketMap>>
    BY <1>2, <1>6 DEF Rejected, DropDone, forgetPage, userVars, wireVars
  <2> QED
    BY <1>1, <1>2, <1>3, <1>4, <2>1 DEF Touches, Typed, TypeOK
<1> QED
  BY <1>5, <1>6

LEMMA DisconnectTouches ==
    ASSUME Typed, UNCHANGED liberties, NEW t \in Tasks, NEW s \in Sockets, Disconnect(t, s)
    PROVE  /\ \/ /\ tasks'[t].sock = s /\ tasks'[t].pc = "dropping"
                 /\ UNCHANGED <<socketUrlMap, socketProjectMap>>
              \/ tasks'[t] = Idle /\ forgetPage(s)
           /\ Touches(t, s)
<1> DEFINE u == socketUserMap[s]
<1>1. /\ connected' = connected \ {s} /\ tasks[t] = Idle
      /\ rooms' = [r \in Urls |-> rooms[r] \ {s}]
      /\ socketUserMap' = [socketUserMap EXCEPT ![s] = None]
      /\ userSocketMap' = IF u = None THEN userSocketMap
                          ELSE [userSocketMap EXCEPT ![u] = None]
  BY DEF Disconnect
<1>2. /\ tasks' = [tasks EXCEPT ![t] = tasks'[t]]
      /\ \/ /\ tasks'[t].sock = s /\ tasks'[t].pc = "dropping"
            /\ UNCHANGED <<socketUrlMap, socketProjectMap>>
         \/ tasks'[t] = Idle /\ forgetPage(s)
  <2>1. CASE UNCHANGED tasks /\ forgetPage(s)
    BY <1>1, <2>1 DEF Typed, TypeOK
  <2>2. CASE \E pid : /\ tasks' = [tasks EXCEPT ![t] = Task("dropping", s, None, None, pid, None)]
                      /\ UNCHANGED socketVars
    BY <2>2 DEF Task, socketVars, Typed, TypeOK
  <2> QED
    BY <2>1, <2>2 DEF Disconnect
<1>3. tasks'[t].sock \in {s, None} /\ tasks[t].sock = None
  BY <1>1, <1>2 DEF Idle
<1>4. ASSUME NEW x \in Sockets \ {s}
      PROVE  /\ \A url \in Urls : x \in rooms'[url] => x \in rooms[url]
             /\ \A v \in Users : userSocketMap'[v] = x => userSocketMap[v] = x
             /\ socketUserMap'[x] = socketUserMap[x]
             /\ x \in connected' <=> x \in connected
  BY <1>1, NoneDistinct DEF Typed, TypeOK
<1>5. ASSUME NEW x \in Sockets \ {s}
      PROVE  /\ socketUrlMap'[x] = socketUrlMap[x]
             /\ socketProjectMap'[x] = socketProjectMap[x]
  BY <1>2 DEF forgetPage, Typed, TypeOK
<1>6. Touches(t, s)
  BY <1>2, <1>3, <1>4, <1>5 DEF Touches
<1> QED
  BY <1>2, <1>6

-----------------------------------------------------------------------------
(* ... and leaves it known *)

LEMMA WorkingOpen ==
    ASSUME DropsIdle, NEW t \in Tasks,
           tasks[t].pc \notin {"idle", "connecting", "dropping"}
    PROVE  /\ tasks[t].sock \in connected
           /\ \A y \in Tasks : tasks[y].sock = tasks[t].sock => tasks[y].pc # "connecting"
<1>1. PICK s \in Sockets : s = tasks[t].sock
  BY DEF DropsIdle, Typed, TaskShapes, Shaped
<1>2. Known(s)
  BY DEF DropsIdle, Forgotten
<1> QED
  BY <1>1, <1>2 DEF Known

LEMMA ReceivesOpen ==
    ASSUME DropsIdle, NEW s \in Sockets, Receives(s)
    PROVE  /\ s \in connected
           /\ \A y \in Tasks : tasks[y].sock = s => tasks[y].pc # "connecting"
<1>1. Known(s)
  BY DEF DropsIdle, Forgotten
<1> QED
  BY <1>1 DEF Known, NoTrace, Receives

LEMMA WorkingKnown ==
    ASSUME DropsIdle, NEW t \in Tasks, UNCHANGED liberties, Works(t)
    PROVE  Forgotten'
<1>1. /\ tasks[t].pc \notin {"idle", "connecting", "dropping"}
      /\ tasks'[t].pc # "connecting"
      /\ UNCHANGED <<socketUserMap, userSocketMap, connected>>
  BY WorkingTouches DEF DropsIdle
<1>2. PICK s \in Sockets : s = tasks[t].sock /\ Touches(t, s)
  BY WorkingTouches DEF DropsIdle
<1> QED
  BY <1>1, <1>2, WorkingOpen, OpenKnown

LEMMA PageMessageKnown ==
    ASSUME DropsIdle, UNCHANGED liberties, NEW t \in Tasks, NEW s \in Sockets,
           NEW link \in Links, PageJoin(t, s, link) \/ PageLeave(t, s, link)
    PROVE  Forgotten'
<1>1. /\ Receives(s) /\ Touches(t, s) /\ tasks'[t].pc # "connecting"
      /\ UNCHANGED <<socketUserMap, userSocketMap, connected>>
  BY PageMessageTouches DEF DropsIdle
<1> QED
  BY <1>1, ReceivesOpen, OpenKnown

LEMMA ConnectKnown ==
    ASSUME DropsIdle, UNCHANGED liberties, NEW t \in Tasks, NEW s \in Sockets, Connect(t, s)
    PROVE  Forgotten'
<1>1. tasks'[t].sock = s /\ tasks'[t].pc = "connecting" /\ Touches(t, s)
  BY ConnectTouches DEF DropsIdle
<1>2. NoTrace(s) /\ NoPage(s) /\ \A y \in Tasks : tasks[y].sock # s
  BY DEF Connect, Fresh, Busy, NoTrace, NoPage
<1>3. \A y \in Tasks \ {t} : tasks'[y] = tasks[y]
  BY <1>1 DEF Touches, DropsIdle, Typed, TypeOK
<1>4. NoTrace(s)' /\ NoPage(s)' /\ s \in connected'
  BY <1>2 DEF Connect, NoTrace, NoPage, userVars, socketVars
<1>5. Known(s)'
  BY <1>1, <1>2, <1>3, <1>4 DEF Known, NoTrace
<1> QED
  BY <1>1, <1>5, TouchesOne

LEMMA AuthenticatedKnown ==
    ASSUME DropsIdle, UNCHANGED liberties, NEW t \in Tasks, Authenticated(t)
    PROVE  Forgotten'
<1>1. PICK s \in Sockets : s = tasks[t].sock /\ Touches(t, s)
  BY EndTouches DEF DropsIdle
<1>2. /\ tasks' = [tasks EXCEPT ![t] = Idle]
      /\ socketUserMap' = [socketUserMap EXCEPT ![s] = Owner[s]]
      /\ userSocketMap' = [userSocketMap EXCEPT ![Owner[s]] = s]
      /\ UNCHANGED <<connected, rooms, socketUrlMap, socketProjectMap>>
      /\ tasks[t].pc = "connecting"
  BY <1>1 DEF Authenticated, At, wireVars, socketVars
<1>3. Known(s)
  BY DEF DropsIdle, Forgotten
<1>4. Idle.sock = None
  BY DEF Idle
<1>5. \A y \in Tasks : tasks'[y].sock # s
  BY <1>1, <1>2, <1>3, <1>4, NoneDistinct DEF Known, DropsIdle, Typed, TypeOK
<1>6. \A u \in Users : userSocketMap'[u] = s => socketUserMap'[s] = u
  <2> SUFFICES ASSUME NEW u \in Users, userSocketMap'[u] = s
               PROVE  u = Owner[s]
    BY <1>2 DEF DropsIdle, Typed, TypeOK
  <2>1. userSocketMap[u] # s
    BY <1>1, <1>2, <1>3 DEF Known, NoTrace
  <2> QED
    BY <1>2, <2>1 DEF DropsIdle, Typed, TypeOK
<1>7. Known(s)'
  BY <1>1, <1>2, <1>3, <1>5, <1>6 DEF Known
<1> QED
  BY <1>1, <1>7, TouchesOne

\* Rejected closes a socket that has nothing; DropDone forgets the page that
\* handleDisconnect left.
LEMMA EndKnown ==
    ASSUME DropsIdle, UNCHANGED liberties, NEW t \in Tasks, Rejected(t) \/ DropDone(t)
    PROVE  Forgotten'
<1>1. PICK s \in Sockets : s = tasks[t].sock /\ Touches(t, s)
  BY EndTouches DEF DropsIdle
<1>2. /\ tasks' = [tasks EXCEPT ![t] = Idle]
      /\ forgetPage(s)
      /\ UNCHANGED <<rooms, socketUserMap, userSocketMap>>
  BY <1>1 DEF Rejected, DropDone, userVars, wireVars
<1>3. NoPage(s)'
  BY <1>2 DEF NoPage, forgetPage, DropsIdle, Typed, TypeOK
<1>4. Known(s)
  BY DEF DropsIdle, Forgotten
<1>5. /\ tasks'[t].sock # s
      /\ \A y \in Tasks \ {t} : tasks'[y] = tasks[y]
  BY <1>2, NoneDistinct DEF Idle, DropsIdle, Typed, TypeOK
<1>6. NoTrace(s)' <=> NoTrace(s)
  BY <1>2 DEF NoTrace
<1>7. CASE Rejected(t)
  <2>1. tasks[t].pc = "connecting" /\ connected' = connected \ {s}
    BY <1>1, <1>7 DEF Rejected, At
  <2>2. NoTrace(s) /\ \A y \in Tasks : tasks'[y].sock # s
    BY <1>1, <1>4, <1>5, <2>1 DEF Known
  <2>3. Known(s)'
    BY <1>2, <1>3, <1>6, <2>2 DEF Known, NoTrace
  <2> QED
    BY <1>1, <2>3, TouchesOne
<1>8. CASE DropDone(t)
  <2>1. connected' = connected /\ tasks[t].pc = "dropping"
    BY <1>8 DEF DropDone, At, wireVars
  <2>2. Known(s)'
    BY <1>1, <1>2, <1>3, <1>4, <1>5, <1>6, <2>1 DEF Known
  <2> QED
    BY <1>1, <2>2, TouchesOne
<1> QED
  BY <1>7, <1>8

LEMMA DisconnectKnown ==
    ASSUME DropsIdle, UNCHANGED liberties, NEW t \in Tasks, NEW s \in Sockets,
           Disconnect(t, s)
    PROVE  Forgotten'
<1> DEFINE u == socketUserMap[s]
<1>1. /\ connected' = connected \ {s}
      /\ rooms' = [r \in Urls |-> rooms[r] \ {s}]
      /\ socketUserMap' = [socketUserMap EXCEPT ![s] = None]
      /\ userSocketMap' = IF u = None THEN userSocketMap
                          ELSE [userSocketMap EXCEPT ![u] = None]
      /\ \A y \in Tasks : tasks[y].sock # s
  BY DEF Disconnect, Busy, DropsIdle
<1>2. /\ \/ tasks'[t].sock = s /\ tasks'[t].pc = "dropping"
         \/ tasks'[t] = Idle /\ forgetPage(s)
      /\ Touches(t, s)
  BY DisconnectTouches DEF DropsIdle
<1>3. \A y \in Tasks \ {t} : tasks'[y] = tasks[y]
  BY <1>2 DEF Touches, DropsIdle, Typed, TypeOK
<1>4. Known(s)
  BY DEF DropsIdle, Forgotten
<1>5. NoTrace(s)'
  <2>1. \A url \in Urls : s \notin rooms'[url]
    BY <1>1
  <2>2. socketUserMap'[s] = None
    BY <1>1 DEF DropsIdle, Typed, TypeOK
  <2>3. ASSUME NEW v \in Users PROVE userSocketMap'[v] # s
    BY <1>1, <1>4, NoneDistinct DEF Known, DropsIdle, Typed, TypeOK
  <2> QED
    BY <2>1, <2>2, <2>3 DEF NoTrace
<1>6. CASE tasks'[t].sock = s /\ tasks'[t].pc = "dropping"
  <2>1. Busy(s)'
    BY <1>6 DEF Busy
  <2>2. Known(s)'
    BY <1>1, <1>3, <1>5, <1>6, <2>1 DEF Known, NoTrace
  <2> QED
    BY <1>2, <2>2, TouchesOne
<1>7. CASE tasks'[t] = Idle /\ forgetPage(s)
  <2>1. NoPage(s)'
    BY <1>7 DEF forgetPage, NoPage, DropsIdle, Typed, TypeOK
  <2>2. \A y \in Tasks : tasks'[y].sock # s
    BY <1>1, <1>3, <1>7, NoneDistinct DEF Idle
  <2>3. Known(s)'
    BY <1>1, <1>5, <2>1, <2>2 DEF Known, NoTrace
  <2> QED
    BY <1>2, <2>3, TouchesOne
<1> QED
  BY <1>2, <1>6, <1>7

LEMMA NewProcessForgotten == NewProcess => Forgotten
BY NoneDistinct DEF NewProcess, Forgotten, Known, NoTrace, NoPage, Busy, Idle

LEMMA RestartForgotten == NewProcess' => Forgotten'
BY NewProcessForgotten, PTL

LEMMA UnchangedForgotten ==
    ASSUME Forgotten,
           UNCHANGED <<tasks, rooms, socketVars, userVars, connected, liberties>>
    PROVE  Forgotten'
BY DEF Forgotten, Known, NoTrace, NoPage, Busy, socketVars, userVars

LEMMA NextForgotten == Typed /\ Forgotten /\ [Next]_vars => Forgotten'
<1> SUFFICES ASSUME Typed, Forgotten, [Next]_vars
             PROVE  Forgotten'
  OBVIOUS
<1>1. CASE UNCHANGED vars
  BY <1>1, UnchangedForgotten DEF vars, wireVars
<1>2. CASE Next /\ "dropBusy" \in liberties
  BY <1>2 DEF Next, Forgotten
<1>3. CASE Next /\ "dropBusy" \notin liberties
  <2>1. DropsIdle /\ UNCHANGED liberties
    BY <1>3 DEF DropsIdle, Next
  <2>2. ASSUME NEW t \in Tasks, Resume(t)
        PROVE  Forgotten'
    BY <2>1, <2>2, DropFailsRestarts, RestartForgotten, WorkingKnown, AuthenticatedKnown,
       EndKnown DEF Resume, Works
  <2>3. ASSUME NEW s \in Sockets, NEW link \in Links, handleCursorMove(s, link)
        PROVE  Forgotten'
    BY <2>1, <2>3, UnchangedForgotten DEF handleCursorMove, wireVars
  <2> QED
    BY <1>3, <2>1, <2>2, <2>3, ConnectKnown, DisconnectKnown, PageMessageKnown DEF Next
<1> QED
  BY <1>1, <1>2, <1>3

\* NothingLeftOver: unless a connection closes under a running handler, nothing
\* keeps its id once its handlers have ended, for any number of connections,
\* whatever messages overlap, stray or fail, and across a restart.
THEOREM GatewayNothingLeftOver == Spec => []NothingLeftOver
<1>1. Init => Typed /\ Forgotten
  BY NewProcessTyped, NewProcessForgotten DEF Init
<1>2. Typed /\ Forgotten /\ [Next]_vars => (Typed /\ Forgotten)'
  BY NextTyped, NextForgotten
<1>3. Forgotten => NothingLeftOver
  BY DEF Forgotten, Known, NoTrace, NoPage, NothingLeftOver, Fresh
<1> QED
  BY <1>1, <1>2, <1>3, PTL DEF Spec

-----------------------------------------------------------------------------
(* Empty sessions are held *)

Holding == {"joining", "roomLeft", "leaving"}

HeldBy(k, i) == k.sess = i /\ k.pc \in Holding

\* A live session that is empty after the step is held by the handler that made
\* the step, or was empty before and not held by it.
StaysHeld(t) ==
    /\ tasks' = [tasks EXCEPT ![t] = tasks'[t]]
    /\ \A url \in Urls :
         urlSessions'[url] # None /\ session'[urlSessions'[url]].users = {} =>
           \/ HeldBy(tasks'[t], urlSessions'[url])
           \/ /\ urlSessions'[url] = urlSessions[url]
              /\ session[urlSessions[url]].users = {}
              /\ ~HeldBy(tasks[t], urlSessions[url])

\* EmptySessionIsHeld, where it says something.
NoneRejects == Typed /\ Isolated /\ EmptySessionIsHeld /\ "dbError" \notin liberties

LEMMA StepHeld ==
    ASSUME NoneRejects, NEW t \in Tasks, StaysHeld(t)
    PROVE  EmptySessionIsHeld'
<1> SUFFICES ASSUME NEW url \in Urls, urlSessions'[url] # None,
                    session'[urlSessions'[url]].users = {}
             PROVE  \E y \in Tasks : HeldBy(tasks'[y], urlSessions'[url])
  BY DEF EmptySessionIsHeld, HeldBy, Holding
<1>1. CASE HeldBy(tasks'[t], urlSessions'[url])
  BY <1>1
<1>2. CASE ~HeldBy(tasks'[t], urlSessions'[url])
  <2>1. /\ urlSessions'[url] = urlSessions[url]
        /\ session[urlSessions[url]].users = {}
        /\ ~HeldBy(tasks[t], urlSessions[url])
    BY <1>2 DEF StaysHeld
  <2>2. PICK y \in Tasks : HeldBy(tasks[y], urlSessions[url])
    BY <2>1 DEF NoneRejects, EmptySessionIsHeld, HeldBy, Holding
  <2>3. y # t /\ tasks'[y] = tasks[y]
    BY <2>1, <2>2 DEF StaysHeld, NoneRejects, Typed, TypeOK
  <2> QED
    BY <2>1, <2>2, <2>3
<1> QED
  BY <1>1, <1>2

\* Two pages never lead to one session.
LEMMA SessionOfOnePage ==
    ASSUME NoneRejects, NEW u1 \in Urls, NEW u2 \in Urls,
           urlSessions[u1] # None, urlSessions[u1] = urlSessions[u2]
    PROVE  u1 = u2
BY DEF NoneRejects, Isolated, ProjectIsolation

LEMMA QuietHeld ==
    ASSUME NoneRejects, NEW t \in Tasks, tasks[t].pc \notin Holding,
           tasks' = [tasks EXCEPT ![t] = tasks'[t]], UNCHANGED <<urlSessions, session>>
    PROVE  EmptySessionIsHeld'
<1>1. StaysHeld(t)
  BY DEF StaysHeld, HeldBy
<1> QED
  BY <1>1, StepHeld

LEMMA LeaveTailHeld ==
    ASSUME NoneRejects, NEW t \in Tasks, tasks[t].pc \in {"roomLeft", "leaving"}, LeaveTail(t),
           tasks' = [tasks EXCEPT ![t] = tasks'[t]]
    PROVE  EmptySessionIsHeld'
<1> DEFINE k == tasks[t]
<1>1. UNCHANGED session
  BY DEF LeaveTail
<1>2. CASE k.sess # None /\ session[k.sess].users = {}
  <2>1. urlSessions' = [urlSessions EXCEPT ![k.url] = None]
    BY <1>2 DEF LeaveTail, cleanupEmptySession
  <2>2. ASSUME NEW url \in Urls, urlSessions'[url] # None
        PROVE  urlSessions'[url] = urlSessions[url] /\ urlSessions[url] # k.sess
    <3>1. url # k.url /\ urlSessions'[url] = urlSessions[url]
      BY <2>1, <2>2 DEF NoneRejects, Typed, TypeOK
    <3> QED
      BY <1>2, <2>2, <3>1 DEF NoneRejects, Isolated, ProjectIsolation, TasksKeepTheirPage
  <2>3. StaysHeld(t)
    BY <1>1, <2>2 DEF StaysHeld, HeldBy
  <2> QED
    BY <2>3, StepHeld
<1>3. CASE ~(k.sess # None /\ session[k.sess].users = {})
  <2>1. UNCHANGED urlSessions
    BY <1>3 DEF LeaveTail
  <2>2. StaysHeld(t)
    BY <1>1, <1>3, <2>1 DEF StaysHeld, HeldBy
  <2> QED
    BY <2>2, StepHeld
<1> QED
  BY <1>2, <1>3

LEMMA WorkingHeld ==
    ASSUME NoneRejects, NEW t \in Tasks, UNCHANGED liberties, Works(t)
    PROVE  EmptySessionIsHeld'
<1> DEFINE k == tasks[t]
<1>0. tasks' = [tasks EXCEPT ![t] = tasks'[t]]
  BY WorkingTouches DEF Touches, NoneRejects
<1>1. ~DbCallFails(t)
  BY DEF NoneRejects, DbCallFails
<1>2. CASE EnterUnparsable(t) \/ JoinAnnounce(t)
  <2>1. k.pc \notin Holding /\ UNCHANGED <<urlSessions, session>>
    BY <1>2 DEF EnterUnparsable, JoinAnnounce, At, Holding, sessionVars
  <2> QED
    BY <1>0, <2>1, QuietHeld
<1>3. CASE LeaveAnnounce(t) /\ k.pid # None
  <2>1. /\ UNCHANGED <<urlSessions, session>> /\ k.pc = "roomLeft"
        /\ tasks'[t].sess = k.sess /\ tasks'[t].pc = "leaving"
    BY <1>3 DEF LeaveAnnounce, At, sessionVars, NoneRejects, Typed, TypeOK, TaskRecord
  <2>2. StaysHeld(t)
    BY <1>0, <2>1 DEF StaysHeld, HeldBy, Holding
  <2> QED
    BY <2>2, StepHeld
<1>4. CASE (LeaveAnnounce(t) /\ k.pid = None) \/ LeaveProjectDone(t)
  BY <1>0, <1>4, LeaveTailHeld DEF LeaveAnnounce, LeaveProjectDone, At
<1>5. CASE EnterSession(t)
  <2>0. k.url \in Urls /\ k.pc = "entering"
    BY <1>5 DEF EnterSession, At, NoneRejects, Typed, TaskShapes, Shaped
  <2>1. PICK i \in SessionIds :
          /\ IF urlSessions[k.url] = None
             THEN /\ i \notin Held
                  /\ urlSessions' = [urlSessions EXCEPT ![k.url] = i]
                  /\ session' = [session EXCEPT ![i] = NewSession(k.url, urlProjectMap[k.url])]
             ELSE UNCHANGED <<urlSessions, session>>
          /\ tasks' = [tasks EXCEPT ![t] = Task("joining", k.sock, k.url, i, None, None)]
    BY <1>5 DEF EnterSession
  <2>2. CASE urlSessions[k.url] = None
    <3>1. tasks'[t].sess = i /\ tasks'[t].pc = "joining" /\ urlSessions'[k.url] = i
      BY <2>0, <2>1, <2>2 DEF Task, NoneRejects, Typed, TypeOK
    <3>2. ASSUME NEW url \in Urls \ {k.url}, urlSessions'[url] # None
          PROVE  /\ urlSessions'[url] = urlSessions[url]
                 /\ session'[urlSessions[url]] = session[urlSessions[url]]
      <4>1. urlSessions'[url] = urlSessions[url] /\ urlSessions[url] \in SessionIds
        BY <2>1, <2>2, <3>2 DEF NoneRejects, Typed, TypeOK
      <4>2. urlSessions[url] # i
        BY <2>1, <2>2 DEF Held
      <4> QED
        BY <2>1, <2>2, <4>1, <4>2 DEF NoneRejects, Typed, TypeOK
    <3>3. ~HeldBy(k, None) /\ \A x : ~HeldBy(k, x)
      BY <2>0 DEF HeldBy, Holding
    <3>4. HeldBy(tasks'[t], i)
      BY <3>1 DEF HeldBy, Holding
    <3>5. StaysHeld(t)
      BY <1>0, <3>1, <3>2, <3>3, <3>4 DEF StaysHeld
    <3> QED
      BY <3>5, StepHeld
  <2>3. CASE urlSessions[k.url] # None
    BY <1>0, <2>0, <2>1, <2>3, QuietHeld DEF Holding
  <2> QED
    BY <2>2, <2>3
<1>6. CASE JoinRegister(t)
  <2>0. k.sess \in SessionIds
    BY <1>6 DEF JoinRegister, At, NoneRejects, Typed, TaskShapes, Shaped
  <2>1. /\ UNCHANGED urlSessions
        /\ session' = [session EXCEPT ![k.sess].users = @ \cup {Owner[k.sock]}]
    BY <1>6 DEF JoinRegister
  <2>2. /\ session'[k.sess].users # {}
        /\ \A i \in SessionIds \ {k.sess} : session'[i] = session[i]
    BY <2>0, <2>1 DEF NoneRejects, Typed, TypeOK, SessionObject
  <2>3. StaysHeld(t)
    BY <1>0, <2>1, <2>2 DEF StaysHeld, HeldBy, NoneRejects, Typed, TypeOK
  <2> QED
    BY <2>3, StepHeld
<1>7. CASE JoinProject(t)
  <2>1. /\ UNCHANGED urlSessions /\ k.pc = "projecting"
        /\ \A i \in SessionIds : session'[i].users = session[i].users
    BY <1>7 DEF JoinProject, At, NoneRejects, Typed, TypeOK, SessionObject
  <2>2. StaysHeld(t)
    BY <1>0, <2>1 DEF StaysHeld, HeldBy, Holding, NoneRejects, Typed, TypeOK
  <2> QED
    BY <2>2, StepHeld
<1> QED
  BY <1>1, <1>2, <1>3, <1>4, <1>5, <1>6, <1>7 DEF Works

LEMMA PageMessageHeld ==
    ASSUME NoneRejects, UNCHANGED liberties, NEW t \in Tasks, NEW s \in Sockets,
           NEW link \in Links, PageJoin(t, s, link) \/ PageLeave(t, s, link)
    PROVE  EmptySessionIsHeld'
<1>1. /\ tasks' = [tasks EXCEPT ![t] = tasks'[t]]
      /\ tasks[t] = Idle
  BY PageMessageTouches DEF Touches, NoneRejects
<1>2. ASSUME NEW url, NEW goal, BeginLeave(t, s, url, goal)
      PROVE  EmptySessionIsHeld'
  <2> DEFINE i == urlSessions[url]
  <2>1. /\ UNCHANGED urlSessions
        /\ session' = IF i = None THEN session ELSE WithoutUser(i, socketUserMap[s])
    BY <1>2 DEF BeginLeave
  <2>2. tasks'[t].sess = i /\ tasks'[t].pc = "roomLeft"
    BY <1>2 DEF BeginLeave, Task, NoneRejects, Typed, TypeOK
  <2>3. \A x \in SessionIds \ {i} : session'[x] = session[x]
    BY <2>1 DEF WithoutUser, NoneRejects, Typed, TypeOK
  <2>4. StaysHeld(t)
    BY <1>1, <2>1, <2>2, <2>3 DEF StaysHeld, HeldBy, Holding, Idle, NoneRejects, Typed, TypeOK
  <2> QED
    BY <2>4, StepHeld
<1>3. CASE UNCHANGED <<urlSessions, session>>
  BY <1>1, <1>3, QuietHeld DEF Idle, Holding
<1> QED
  BY <1>2, <1>3 DEF PageJoin, PageLeave, sessionVars

LEMMA DisconnectHeld ==
    ASSUME NoneRejects, UNCHANGED liberties, NEW t \in Tasks, NEW s \in Sockets,
           Disconnect(t, s)
    PROVE  EmptySessionIsHeld'
<1> DEFINE u    == socketUserMap[s]
           url  == socketUrlMap[s]
           sess == IF url = None THEN None ELSE urlSessions[url]
<1>0. Touches(t, s) /\ tasks[t] = Idle
  BY DisconnectTouches DEF NoneRejects, Disconnect
<1>1. tasks' = [tasks EXCEPT ![t] = tasks'[t]] /\ tasks[t].pc \notin Holding
  BY <1>0 DEF Touches, Idle, Holding
<1>2. CASE u = None \/ sess = None
  BY <1>1, <1>2, QuietHeld DEF Disconnect, sessionVars
<1>3. CASE ~(u = None \/ sess = None)
  <2>1. /\ session' = WithoutUser(sess, u)
        /\ IF session'[sess].users = {} THEN urlSessions' = [urlSessions EXCEPT ![url] = None]
           ELSE UNCHANGED urlSessions
    BY <1>3 DEF Disconnect, cleanupEmptySession
  <2>2. url \in Urls /\ sess = urlSessions[url] /\ sess \in SessionIds
    BY <1>3 DEF NoneRejects, Typed, TypeOK
  <2> HIDE DEF u, url, sess
  <2>3. \A x \in SessionIds \ {sess} : session'[x] = session[x]
    BY <2>1 DEF WithoutUser, NoneRejects, Typed, TypeOK
  <2>4. ASSUME NEW v \in Urls, urlSessions'[v] # None, session'[urlSessions'[v]].users = {}
        PROVE  urlSessions'[v] = urlSessions[v] /\ session[urlSessions[v]].users = {}
    <3>1. urlSessions'[v] = urlSessions[v]
      BY <2>1, <2>2, <2>4 DEF NoneRejects, Typed, TypeOK
    <3>2. urlSessions[v] # sess
      <4>1. CASE v = url
        BY <2>1, <2>2, <2>4, <3>1, <4>1 DEF NoneRejects, Typed, TypeOK
      <4>2. CASE v # url
        BY <2>2, <2>4, <3>1, <4>2, SessionOfOnePage
      <4> QED
        BY <4>1, <4>2
    <3> QED
      BY <2>3, <2>4, <3>1, <3>2 DEF NoneRejects, Typed, TypeOK
  <2>5. StaysHeld(t)
    BY <1>1, <2>4 DEF StaysHeld, HeldBy
  <2> QED
    BY <2>5, StepHeld
<1> QED
  BY <1>2, <1>3

LEMMA NewProcessHeld == NewProcess => EmptySessionIsHeld
BY DEF NewProcess, EmptySessionIsHeld

LEMMA RestartHeld == NewProcess' => EmptySessionIsHeld'
BY NewProcessHeld, PTL

LEMMA UnchangedHeld ==
    ASSUME EmptySessionIsHeld, UNCHANGED <<tasks, urlSessions, session, liberties>>
    PROVE  EmptySessionIsHeld'
BY DEF EmptySessionIsHeld

LEMMA CursorMoveHeld ==
    ASSUME NoneRejects, UNCHANGED liberties, NEW s \in Sockets, NEW link \in Links,
           handleCursorMove(s, link)
    PROVE  EmptySessionIsHeld'
<1>1. /\ UNCHANGED <<tasks, urlSessions>>
      /\ \A i \in SessionIds : session'[i].users = session[i].users
  BY DEF handleCursorMove, NoneRejects, Typed, TypeOK, SessionObject
<1> QED
  BY <1>1 DEF EmptySessionIsHeld, NoneRejects, Typed, TypeOK

LEMMA NextHeld == Typed /\ Isolated /\ EmptySessionIsHeld /\ [Next]_vars => EmptySessionIsHeld'
<1> SUFFICES ASSUME Typed, Isolated, EmptySessionIsHeld, [Next]_vars
             PROVE  EmptySessionIsHeld'
  OBVIOUS
<1>1. CASE UNCHANGED vars
  BY <1>1, UnchangedHeld DEF vars, sessionVars
<1>2. CASE Next /\ "dbError" \in liberties
  BY <1>2 DEF Next, EmptySessionIsHeld
<1>3. CASE Next /\ "dbError" \notin liberties
  <2>1. NoneRejects /\ UNCHANGED liberties
    BY <1>3 DEF NoneRejects, Next
  <2>2. ASSUME NEW t \in Tasks, Resume(t)
        PROVE  EmptySessionIsHeld'
    <3>1. CASE Authenticated(t) \/ Rejected(t) \/ DropDone(t)
      <4>1. tasks[t].pc \notin Holding /\ UNCHANGED <<urlSessions, session>>
        BY <3>1 DEF Authenticated, Rejected, DropDone, At, Holding, sessionVars
      <4>2. tasks' = [tasks EXCEPT ![t] = tasks'[t]]
        BY <2>1, <3>1, EndTouches DEF Touches
      <4> QED
        BY <2>1, <4>1, <4>2, QuietHeld
    <3> QED
      BY <2>1, <2>2, <3>1, DropFailsRestarts, RestartHeld, WorkingHeld DEF Resume, Works
  <2>3. ASSUME NEW t \in Tasks, NEW s \in Sockets, Connect(t, s)
        PROVE  EmptySessionIsHeld'
    <3>1. tasks[t].pc \notin Holding /\ UNCHANGED <<urlSessions, session>>
      BY <2>3 DEF Connect, Idle, Holding, sessionVars
    <3>2. tasks' = [tasks EXCEPT ![t] = tasks'[t]]
      BY <2>1, <2>3, ConnectTouches DEF Touches
    <3> QED
      BY <2>1, <3>1, <3>2, QuietHeld
  <2> QED
    BY <1>3, <2>1, <2>2, <2>3, DisconnectHeld, PageMessageHeld, CursorMoveHeld DEF Next
<1> QED
  BY <1>1, <1>2, <1>3

\* EmptySessionIsHeld: as long as no database call rejects, a session that is live
\* and empty has a handler on its way that fills or sweeps it, for any number of
\* handlers in flight, whatever messages overlap and connections close.
THEOREM GatewayEmptySessionIsHeld == Spec => []EmptySessionIsHeld
<1>1. Init => Typed /\ Isolated /\ EmptySessionIsHeld
  BY NewProcessTyped, NewProcessIsolated, NewProcessHeld DEF Init
<1>2. Typed /\ Isolated /\ EmptySessionIsHeld /\ [Next]_vars
        => (Typed /\ Isolated /\ EmptySessionIsHeld)'
  BY NextTyped, NextIsolated, NextHeld
<1> QED
  BY <1>1, <1>2, PTL DEF Spec

-----------------------------------------------------------------------------
(* No ghosts *)

JoinWaits == {"entering", "joining", "projecting", "loading"}

\* The connection that keeps a user on a page: settled there, or joining it again.
Present(s, url) ==
    /\ s \in connected /\ socketUrlMap[s] = url
    /\ \A t \in Tasks : tasks[t].sock = s => tasks[t].pc \in JoinWaits

Attendance ==
    \A url \in Urls : urlSessions[url] # None =>
      \A u \in session[urlSessions[url]].users :
        \E s \in Sockets : Owner[s] = u /\ Present(s, url)

\* A socket on a page or at work is registered for its user, and has no other
\* page when it joins one.
Signed(s) ==
    /\ socketUserMap[s] \in {None, Owner[s]}
    /\ s \in connected /\ socketUrlMap[s] # None => socketUserMap[s] = Owner[s]
    /\ \A t \in Tasks : tasks[t].sock = s =>
         /\ tasks[t].pc \notin {"connecting", "dropping"} => socketUserMap[s] = Owner[s]
         /\ tasks[t].pc \in {"entering", "joining"} => socketUrlMap[s] \in {None, tasks[t].url}

Attended == liberties \subseteq {"dbError"} => Attendance /\ \A s \in Sockets : Signed(s)

\* Attended, where it says something.
Orderly ==
    /\ liberties \subseteq {"dbError"}
    /\ Typed /\ Isolated /\ Paired /\ Forgotten
    /\ Attendance
    /\ \A s \in Sockets : Signed(s)

LEMMA OrderlyIsTidy == Orderly => OneMessage /\ DropsIdle /\ "strayLeave" \notin liberties
BY DEF Orderly, OneMessage, DropsIdle

\* The users of a session after the step are those before, and s stays for its
\* own, or are attended anyway.
Attends(s) ==
    \A url \in Urls : urlSessions'[url] # None =>
      \A u \in session'[urlSessions'[url]].users :
        \/ /\ urlSessions[url] # None
           /\ u \in session[urlSessions[url]].users
           /\ Owner[s] = u /\ Present(s, url) => Present(s, url)'
        \/ Owner[s] = u /\ Present(s, url)'

LEMMA StepAttended ==
    ASSUME Orderly, NEW t \in Tasks, NEW s \in Sockets, Touches(t, s), Signed(s)', Attends(s)
    PROVE  Attended'
<1>1. ASSUME NEW x \in Sockets, x # s
      PROVE  /\ socketUserMap'[x] = socketUserMap[x]
             /\ socketUrlMap'[x] = socketUrlMap[x]
             /\ x \in connected' <=> x \in connected
             /\ \A y \in Tasks : /\ tasks'[y].sock = x <=> tasks[y].sock = x
                                 /\ tasks[y].sock = x => tasks'[y] = tasks[y]
  BY <1>1, OthersUntouched DEF Orderly
<1>2. ASSUME NEW x \in Sockets PROVE Signed(x)'
  <2>1. CASE x # s
    <3>1. Signed(x)
      BY DEF Orderly
    <3> QED
      BY <1>1, <2>1, <3>1 DEF Signed
  <2> QED
    BY <2>1
<1>3. Attendance'
  <2> SUFFICES ASSUME NEW url \in Urls, urlSessions'[url] # None,
                      NEW u \in session'[urlSessions'[url]].users
               PROVE  \E x \in Sockets : Owner[x] = u /\ Present(x, url)'
    BY DEF Attendance
  <2>1. CASE Owner[s] = u /\ Present(s, url)'
    BY <2>1
  <2>2. CASE ~(Owner[s] = u /\ Present(s, url)')
    <3>1. /\ urlSessions[url] # None
          /\ u \in session[urlSessions[url]].users
          /\ Owner[s] = u /\ Present(s, url) => Present(s, url)'
      BY <2>2 DEF Attends
    <3>2. PICK x \in Sockets : Owner[x] = u /\ Present(x, url)
      BY <3>1 DEF Orderly, Attendance
    <3>3. x # s
      BY <2>2, <3>1, <3>2
    <3>4. Present(x, url)'
      BY <1>1, <3>2, <3>3 DEF Present
    <3> QED
      BY <3>2, <3>4
  <2> QED
    BY <2>1, <2>2
<1> QED
  BY <1>2, <1>3 DEF Attended

\* The sessions lose users or pages, and s is settled nowhere, or stays.
LEMMA FewerAttended ==
    ASSUME Orderly, NEW t \in Tasks, NEW s \in Sockets, Touches(t, s), Signed(s)',
           \A url \in Urls : urlSessions'[url] # None =>
             /\ urlSessions'[url] = urlSessions[url]
             /\ session'[urlSessions[url]].users \subseteq session[urlSessions[url]].users,
           \A url \in Urls : Present(s, url) => Present(s, url)'
    PROVE  Attended'
<1>1. Attends(s)
  BY DEF Attends
<1> QED
  BY <1>1, StepAttended

LEMMA WorkingSigned ==
    ASSUME Orderly, NEW t \in Tasks, UNCHANGED liberties, Works(t),
           NEW s \in Sockets, s = tasks[t].sock
    PROVE  /\ Signed(s)'
           /\ socketUserMap[s] = Owner[s] /\ s \in connected
           /\ \A y \in Tasks \ {t} : tasks[y].sock # s /\ tasks'[y] = tasks[y]
<1> DEFINE k == tasks[t]
<1>1. /\ k.pc \notin {"idle", "connecting", "dropping"}
      /\ UNCHANGED <<socketUserMap, userSocketMap, connected>>
      /\ Touches(t, s)
  BY WorkingTouches DEF Orderly
<1>2. socketUserMap[s] = Owner[s] /\ s \in connected
  BY <1>1, OrderlyIsTidy, WorkingOpen DEF Orderly, Signed
<1>3. \A y \in Tasks \ {t} : tasks[y].sock # s /\ tasks'[y] = tasks[y]
  <2>1. ASSUME NEW y \in Tasks \ {t}, tasks[y].sock = s PROVE FALSE
    <3>1. tasks[y].pc = "dropping"
      BY <1>1, <2>1, NoneDistinct, OrderlyIsTidy DEF OneMessage, Paired, Alone
    <3>2. s \notin connected
      BY <2>1, <3>1, OrderlyIsTidy DEF OneMessage, Paired, Joins, JoinsOnly
    <3> QED
      BY <1>2, <3>2
  <2>2. \A y \in Tasks \ {t} : tasks'[y] = tasks[y]
    BY <1>1 DEF Touches, Orderly, Typed, TypeOK
  <2> QED
    BY <2>1, <2>2
<1>4. tasks'[t].pc \in {"entering", "joining"} =>
        socketUrlMap'[s] \in {None, tasks'[t].url}
  <2>0. tasks \in [Tasks -> TaskRecord]
    BY DEF Orderly, Typed, TypeOK
  <2>1. CASE LeaveTail(t)
    BY <2>1 DEF LeaveTail, forgetPage, Orderly, Typed, TypeOK
  <2>2. CASE EnterSession(t)
    <3>1. tasks'[t].url = k.url /\ UNCHANGED socketUrlMap /\ k.pc = "entering"
      BY <2>0, <2>2 DEF EnterSession, At, Task, socketVars
    <3> QED
      BY <3>1 DEF Orderly, Signed
  <2>3. CASE DbCallFails(t) \/ EnterUnparsable(t) \/ JoinAnnounce(t)
    BY <2>0, <2>3 DEF DbCallFails, EnterUnparsable, JoinAnnounce, Idle
  <2>4. CASE LeaveAnnounce(t) /\ k.pid # None
    BY <2>0, <2>4 DEF LeaveAnnounce, TaskRecord
  <2>5. CASE JoinRegister(t) \/ JoinProject(t)
    BY <2>0, <2>5 DEF JoinRegister, JoinProject, TaskRecord
  <2> QED
    BY <2>1, <2>2, <2>3, <2>4, <2>5 DEF Works, LeaveAnnounce, LeaveProjectDone
<1>5. tasks'[t].pc \notin {"connecting", "dropping"} => socketUserMap'[s] = Owner[s]
  BY <1>1, <1>2
<1>6. Signed(s)'
  BY <1>1, <1>2, <1>3, <1>4, <1>5 DEF Signed
<1> QED
  BY <1>2, <1>3, <1>6

LEMMA WorkingAttended ==
    ASSUME Orderly, NEW t \in Tasks, UNCHANGED liberties, Works(t)
    PROVE  Attended'
<1> DEFINE k == tasks[t]
<1>1. PICK s \in Sockets : s = k.sock /\ Touches(t, s)
  BY WorkingTouches DEF Orderly
<1>2. /\ Signed(s)' /\ socketUserMap[s] = Owner[s] /\ s \in connected
      /\ \A y \in Tasks \ {t} : tasks[y].sock # s /\ tasks'[y] = tasks[y]
      /\ UNCHANGED connected
  BY <1>1, WorkingSigned, WorkingTouches DEF Orderly
<1>3. CASE DbCallFails(t) \/ EnterUnparsable(t) \/ JoinAnnounce(t)
  <2>1. /\ UNCHANGED <<urlSessions, session, socketUrlMap>>
        /\ tasks' = [tasks EXCEPT ![t] = Idle]
    BY <1>3 DEF DbCallFails, EnterUnparsable, JoinAnnounce, sessionVars, socketVars
  <2>2. tasks'[t].sock = None
    BY <2>1 DEF Idle, Orderly, Typed, TypeOK
  <2>3. \A url \in Urls : Present(s, url) => Present(s, url)'
    BY <1>2, <2>1, <2>2, NoneDistinct DEF Present
  <2> QED
    BY <1>1, <1>2, <2>1, <2>3, FewerAttended
<1>4. CASE LeaveAnnounce(t) \/ LeaveProjectDone(t)
  <2>1. k.pc \in {"roomLeft", "leaving"}
    BY <1>4 DEF LeaveAnnounce, LeaveProjectDone, At
  <2>2. \A url \in Urls : ~Present(s, url)
    BY <1>1, <2>1 DEF Present, JoinWaits
  <2>3. /\ UNCHANGED session
        /\ \A url \in Urls : urlSessions'[url] \in {urlSessions[url], None}
    BY <1>4 DEF LeaveAnnounce, LeaveProjectDone, LeaveTail, cleanupEmptySession, sessionVars,
                Orderly, Typed, TypeOK
  <2> QED
    BY <1>1, <1>2, <2>2, <2>3, FewerAttended
<1>5. CASE EnterSession(t)
  <2>0. k.url \in Urls /\ k.pc = "entering" /\ UNCHANGED socketUrlMap
    BY <1>5 DEF EnterSession, At, socketVars, Orderly, Typed, TaskShapes, Shaped
  <2>1. PICK i \in SessionIds :
          /\ IF urlSessions[k.url] = None
             THEN /\ i \notin Held
                  /\ urlSessions' = [urlSessions EXCEPT ![k.url] = i]
                  /\ session' = [session EXCEPT ![i] = NewSession(k.url, urlProjectMap[k.url])]
             ELSE UNCHANGED <<urlSessions, session>>
          /\ tasks' = [tasks EXCEPT ![t] = Task("joining", k.sock, k.url, i, None, None)]
    BY <1>5 DEF EnterSession
  <2>2. tasks'[t].pc = "joining"
    BY <2>1 DEF Task, Orderly, Typed, TypeOK
  <2>3. \A url \in Urls : Present(s, url) => Present(s, url)'
    BY <1>2, <2>0, <2>2 DEF Present, JoinWaits
  <2>4. CASE urlSessions[k.url] = None
    <3>1. urlSessions'[k.url] = i /\ session'[i].users = {}
      BY <2>0, <2>1, <2>4 DEF NewSession, Orderly, Typed, TypeOK
    <3>2. ASSUME NEW url \in Urls \ {k.url}, urlSessions'[url] # None
          PROVE  /\ urlSessions'[url] = urlSessions[url]
                 /\ session'[urlSessions[url]] = session[urlSessions[url]]
      <4>1. urlSessions'[url] = urlSessions[url] /\ urlSessions[url] \in SessionIds
        BY <2>1, <2>4, <3>2 DEF Orderly, Typed, TypeOK
      <4>2. urlSessions[url] # i
        BY <2>1, <2>4 DEF Held
      <4> QED
        BY <2>1, <2>4, <4>1, <4>2 DEF Orderly, Typed, TypeOK
    <3>3. Attends(s)
      BY <2>3, <3>1, <3>2 DEF Attends
    <3> QED
      BY <1>1, <1>2, <3>3, StepAttended
  <2>5. CASE urlSessions[k.url] # None
    <3>1. UNCHANGED <<urlSessions, session>>
      BY <2>1, <2>5
    <3> QED
      BY <1>1, <1>2, <2>3, <3>1, FewerAttended
  <2> QED
    BY <2>4, <2>5
<1>6. CASE JoinRegister(t)
  <2>0. PICK page \in Urls :
        /\ page = k.url
        /\ k.sess \in SessionIds /\ k.pc = "joining"
        /\ session[k.sess].url = page
    BY <1>6, NoneDistinct DEF JoinRegister, At, Orderly, Typed, TaskShapes, Shaped, Isolated,
                TasksKeepTheirPage
  <2>1. /\ UNCHANGED urlSessions
        /\ session' = [session EXCEPT ![k.sess].users = @ \cup {Owner[s]}]
        /\ socketUrlMap' = [socketUrlMap EXCEPT ![s] = page]
        /\ tasks' = [tasks EXCEPT ![t].pc = "projecting"]
    BY <1>1, <1>6, <2>0 DEF JoinRegister
  <2>2. tasks'[t].pc = "projecting" /\ socketUrlMap'[s] = page
    BY <2>1 DEF Orderly, Typed, TypeOK, TaskRecord
  <2>3. Present(s, page)'
    BY <1>2, <2>2 DEF Present, JoinWaits
  <2>4. \A url \in Urls : Present(s, url) => url = page
    BY <1>1, <2>0, NoneDistinct DEF Present, Orderly, Signed
  <2>5. ASSUME NEW url \in Urls, urlSessions'[url] # None,
               NEW u \in session'[urlSessions'[url]].users
        PROVE  \/ /\ urlSessions[url] # None
                  /\ u \in session[urlSessions[url]].users
               \/ Owner[s] = u /\ url = page
    <3>1. urlSessions[url] \in SessionIds /\ urlSessions'[url] = urlSessions[url]
      BY <2>1, <2>5 DEF Orderly, Typed, TypeOK
    <3>2. CASE urlSessions[url] # k.sess
      BY <2>1, <2>5, <3>1, <3>2 DEF Orderly, Typed, TypeOK
    <3>3. CASE urlSessions[url] = k.sess
      <4>1. url = page
        BY <2>0, <3>1, <3>3, NoneDistinct DEF Orderly, Isolated, ProjectIsolation
      <4>2. session'[k.sess].users = session[k.sess].users \cup {Owner[s]}
        BY <2>0, <2>1 DEF Orderly, Typed, TypeOK, SessionObject
      <4> QED
        BY <2>5, <3>1, <3>3, <4>1, <4>2, NoneDistinct
    <3> QED
      BY <3>2, <3>3
  <2>6. Attends(s)
    BY <2>3, <2>4, <2>5 DEF Attends
  <2> QED
    BY <1>1, <1>2, <2>6, StepAttended
<1>7. CASE JoinProject(t)
  <2>1. /\ UNCHANGED <<urlSessions, socketUrlMap>>
        /\ \A i \in SessionIds : session'[i].users = session[i].users
        /\ tasks'[t].pc = "loading"
    BY <1>7 DEF JoinProject, Orderly, Typed, TypeOK, SessionObject, TaskRecord
  <2>2. \A url \in Urls : Present(s, url) => Present(s, url)'
    BY <1>2, <2>1 DEF Present, JoinWaits
  <2>3. \A url \in Urls : urlSessions'[url] # None =>
          /\ urlSessions'[url] = urlSessions[url]
          /\ session'[urlSessions[url]].users \subseteq session[urlSessions[url]].users
    BY <2>1 DEF Orderly, Typed, TypeOK
  <2> QED
    BY <1>1, <1>2, <2>2, <2>3, FewerAttended
<1> QED
  BY <1>3, <1>4, <1>5, <1>6, <1>7 DEF Works

LEMMA PageMessageAttended ==
    ASSUME Orderly, UNCHANGED liberties, NEW t \in Tasks, NEW s \in Sockets,
           NEW link \in Links, PageJoin(t, s, link) \/ PageLeave(t, s, link)
    PROVE  Attended'
<1>1. /\ Receives(s) /\ tasks[t] = Idle /\ tasks'[t].sock = s
      /\ UNCHANGED <<socketUserMap, connected, socketUrlMap>>
      /\ Touches(t, s)
  BY PageMessageTouches DEF Orderly
<1>2. \A y \in Tasks : tasks[y].sock # s
  BY DEF PageJoin, PageLeave, Begins, Busy, Orderly
<1>3. \A y \in Tasks \ {t} : tasks'[y] = tasks[y]
  BY <1>1 DEF Touches, Orderly, Typed, TypeOK
<1>4. socketUserMap[s] = Owner[s]
  BY <1>1 DEF Receives, Orderly, Signed
<1>5. ASSUME NEW url \in Urls, NEW goal, url = socketUrlMap[s], BeginLeave(t, s, url, goal)
      PROVE  Attended'
  <2>1. /\ UNCHANGED urlSessions
        /\ session' = IF urlSessions[url] = None THEN session
                      ELSE WithoutUser(urlSessions[url], Owner[s])
    BY <1>4, <1>5 DEF BeginLeave
  <2>2. tasks'[t].pc = "roomLeft"
    BY <1>5 DEF BeginLeave, Task, Orderly, Typed, TypeOK
  <2>3. Signed(s)'
    BY <1>1, <1>2, <1>3, <1>4, <2>2 DEF Signed
  <2>4. ASSUME NEW v \in Urls, urlSessions'[v] # None
        PROVE  /\ urlSessions'[v] = urlSessions[v]
               /\ session'[urlSessions[v]].users \subseteq session[urlSessions[v]].users
               /\ v = url => Owner[s] \notin session'[urlSessions[v]].users
    <3>1. urlSessions[v] \in SessionIds /\ urlSessions'[v] = urlSessions[v]
      BY <2>1, <2>4 DEF Orderly, Typed, TypeOK
    <3>2. session \in [SessionIds -> SessionObject]
      BY DEF Orderly, Typed, TypeOK
    <3> QED
      BY <2>1, <3>1, <3>2, NoneDistinct DEF WithoutUser, SessionObject
  <2>5. \A v \in Urls : Present(s, v) => v = url
    BY <1>5 DEF Present
  <2>6. Attends(s)
    BY <2>4, <2>5 DEF Attends
  <2> QED
    BY <1>1, <2>3, <2>6, StepAttended
<1>6. CASE /\ UNCHANGED <<urlSessions, session>>
           /\ tasks'[t].pc = "entering"
           /\ socketUrlMap[s] \in {None, tasks'[t].url}
  <2>1. Signed(s)'
    BY <1>1, <1>2, <1>3, <1>4, <1>6 DEF Signed
  <2>2. \A url \in Urls : Present(s, url) => Present(s, url)'
    BY <1>1, <1>2, <1>3, <1>6 DEF Present, JoinWaits
  <2> QED
    BY <1>1, <1>6, <2>1, <2>2, FewerAttended
<1>7. CASE PageLeave(t, s, link)
  <2>1. normalizeUrl[link] = socketUrlMap[s] /\ normalizeUrl[link] \in Urls
    BY <1>7, LinkTyped, OrderlyIsTidy DEF PageLeave
  <2> QED
    BY <1>5, <1>7, <2>1 DEF PageLeave
<1>8. CASE PageJoin(t, s, link) /\ socketUrlMap[s] # None /\ socketUrlMap[s] # normalizeUrl[link]
  <2>1. socketUrlMap[s] \in Urls
    BY <1>8 DEF Orderly, Typed, TypeOK
  <2>2. normalizeUrl[socketUrlMap[s]] = socketUrlMap[s]
    BY <2>1, NormalizeIdempotent
  <2>3. BeginLeave(t, s, socketUrlMap[s], normalizeUrl[link])
    BY <1>8, <2>2 DEF PageJoin
  <2> QED
    BY <1>5, <2>1, <2>3
<1>9. CASE PageJoin(t, s, link) /\ socketUrlMap[s] \in {None, normalizeUrl[link]}
  <2>1. /\ UNCHANGED <<urlSessions, session>>
        /\ tasks' = [tasks EXCEPT ![t] =
                       Task("entering", s, normalizeUrl[link], None, None, None)]
    BY <1>9 DEF PageJoin, sessionVars
  <2>2. tasks'[t].pc = "entering" /\ tasks'[t].url = normalizeUrl[link]
    BY <2>1 DEF Task, Orderly, Typed, TypeOK
  <2> QED
    BY <1>6, <1>9, <2>1, <2>2
<1> QED
  BY <1>7, <1>8, <1>9

LEMMA ConnectAttended ==
    ASSUME Orderly, UNCHANGED liberties, NEW t \in Tasks, NEW s \in Sockets, Connect(t, s)
    PROVE  Attended'
<1>1. tasks'[t].sock = s /\ tasks'[t].pc = "connecting" /\ Touches(t, s)
  BY ConnectTouches DEF Orderly
<1>2. /\ UNCHANGED <<urlSessions, session, socketUserMap, socketUrlMap>>
      /\ socketUserMap[s] = None /\ socketUrlMap[s] = None
      /\ \A y \in Tasks : tasks[y].sock # s
  BY DEF Connect, Fresh, Busy, sessionVars, userVars, socketVars
<1>3. \A y \in Tasks \ {t} : tasks'[y] = tasks[y]
  BY <1>1 DEF Touches, Orderly, Typed, TypeOK
<1>4. Signed(s)'
  BY <1>1, <1>2, <1>3 DEF Signed
<1>5. \A url \in Urls : ~Present(s, url)
  BY <1>2, NoneDistinct DEF Present
<1> QED
  BY <1>1, <1>2, <1>4, <1>5, FewerAttended

LEMMA EndAttended ==
    ASSUME Orderly, UNCHANGED liberties, NEW t \in Tasks,
           Authenticated(t) \/ Rejected(t) \/ DropDone(t)
    PROVE  Attended'
<1>1. PICK s \in Sockets :
        /\ s = tasks[t].sock /\ Touches(t, s)
        /\ tasks[t].pc \in {"connecting", "dropping"}
        /\ tasks' = [tasks EXCEPT ![t] = Idle]
  BY EndTouches DEF Orderly
<1>2. tasks'[t].sock = None /\ \A y \in Tasks \ {t} : tasks'[y] = tasks[y]
  BY <1>1 DEF Idle, Orderly, Typed, TypeOK
<1>3. \A url \in Urls : ~Present(s, url)
  BY <1>1 DEF Present, JoinWaits
<1>4. UNCHANGED <<urlSessions, session>>
  BY DEF Authenticated, Rejected, DropDone, sessionVars
<1>5. Signed(s) /\ Known(s)
  BY DEF Orderly, Forgotten
<1>6. socketUrlMap'[s] = None /\ socketUserMap'[s] \in {socketUserMap[s], Owner[s]}
  <2>1. CASE Authenticated(t)
    <3>1. tasks[t].pc = "connecting" /\ UNCHANGED socketUrlMap
      BY <2>1 DEF Authenticated, At, socketVars
    <3>2. socketUrlMap[s] = None
      BY <1>1, <1>5, <3>1 DEF Known, NoPage
    <3> QED
      BY <1>1, <2>1, <3>1, <3>2 DEF Authenticated, Orderly, Typed, TypeOK
  <2>2. CASE Rejected(t) \/ DropDone(t)
    BY <1>1, <2>2 DEF Rejected, DropDone, forgetPage, userVars, Orderly, Typed, TypeOK
  <2> QED
    BY <2>1, <2>2
<1>7. Signed(s)'
  BY <1>2, <1>5, <1>6, NoneDistinct DEF Signed
<1> QED
  BY <1>1, <1>3, <1>4, <1>7, FewerAttended

LEMMA DisconnectAttended ==
    ASSUME Orderly, UNCHANGED liberties, NEW t \in Tasks, NEW s \in Sockets,
           Disconnect(t, s)
    PROVE  Attended'
<1> DEFINE u    == socketUserMap[s]
           url  == socketUrlMap[s]
           sess == IF url = None THEN None ELSE urlSessions[url]
<1>1. /\ \/ tasks'[t].sock = s /\ tasks'[t].pc = "dropping"
         \/ tasks'[t] = Idle
      /\ Touches(t, s)
  BY DisconnectTouches DEF Orderly
<1>2. /\ s \in connected /\ connected' = connected \ {s}
      /\ socketUserMap' = [socketUserMap EXCEPT ![s] = None]
      /\ \A y \in Tasks : tasks[y].sock # s
  BY DEF Disconnect, Busy, Orderly
<1>3. \A y \in Tasks \ {t} : tasks'[y] = tasks[y]
  BY <1>1 DEF Touches, Orderly, Typed, TypeOK
<1>4. Signed(s)'
  <2>1. socketUserMap'[s] = None /\ s \notin connected'
    BY <1>2 DEF Orderly, Typed, TypeOK
  <2>2. \A y \in Tasks : tasks'[y].sock = s => tasks'[y].pc = "dropping"
    BY <1>1, <1>2, <1>3, NoneDistinct DEF Idle
  <2> QED
    BY <2>1, <2>2 DEF Signed
<1>5. \A v \in Urls : Present(s, v) => v = url /\ u = Owner[s]
  BY NoneDistinct DEF Present, Orderly, Signed
<1>6. CASE u = None \/ sess = None
  <2>1. UNCHANGED <<urlSessions, session>>
    BY <1>6 DEF Disconnect, sessionVars
  <2>2. \A v \in Urls : urlSessions[v] # None => ~Present(s, v)
    BY <1>5, <1>6, OwnerTyped, NoneDistinct
  <2>3. Attends(s)
    BY <2>1, <2>2 DEF Attends
  <2> QED
    BY <1>1, <1>4, <2>3, StepAttended
<1>7. CASE ~(u = None \/ sess = None)
  <2>1. /\ session' = WithoutUser(sess, u)
        /\ urlSessions' = urlSessions \/ urlSessions' = [urlSessions EXCEPT ![url] = None]
    BY <1>7 DEF Disconnect, cleanupEmptySession
  <2>2. url \in Urls /\ sess = urlSessions[url]
    BY <1>7 DEF Orderly, Typed, TypeOK
  <2> HIDE DEF u, url, sess
  <2>3. ASSUME NEW v \in Urls, urlSessions'[v] # None
        PROVE  /\ urlSessions'[v] = urlSessions[v]
               /\ session'[urlSessions[v]].users \subseteq session[urlSessions[v]].users
               /\ v = url => u \notin session'[urlSessions[v]].users
    <3>1. urlSessions[v] \in SessionIds /\ urlSessions'[v] = urlSessions[v]
      BY <2>1, <2>2, <2>3 DEF Orderly, Typed, TypeOK
    <3>2. session \in [SessionIds -> SessionObject]
      BY DEF Orderly, Typed, TypeOK
    <3> QED
      BY <2>1, <2>2, <3>1, <3>2 DEF WithoutUser, SessionObject
  <2>4. Attends(s)
    BY <1>5, <2>3 DEF Attends
  <2> QED
    BY <1>1, <1>4, <2>4, StepAttended
<1> QED
  BY <1>6, <1>7

LEMMA NewProcessAttended == NewProcess => Attended
BY NoneDistinct DEF NewProcess, Attended, Attendance, Signed, Idle

LEMMA RestartAttended == NewProcess' => Attended'
BY NewProcessAttended, PTL

LEMMA UnchangedAttended ==
    ASSUME Attended,
           UNCHANGED <<tasks, urlSessions, connected, socketVars, userVars, liberties>>,
           \A url \in Urls : urlSessions[url] # None =>
             session'[urlSessions[url]].users = session[urlSessions[url]].users
    PROVE  Attended'
BY DEF Attended, Attendance, Present, Signed, socketVars, userVars

Settling == Typed /\ Isolated /\ Paired /\ Forgotten /\ Attended

LEMMA NextAttended == Settling /\ [Next]_vars => Attended'
<1> SUFFICES ASSUME Settling, [Next]_vars
             PROVE  Attended'
  OBVIOUS
<1>1. CASE UNCHANGED vars
  BY <1>1, UnchangedAttended DEF vars, sessionVars, wireVars, Settling
<1>2. CASE Next /\ ~(liberties \subseteq {"dbError"})
  BY <1>2 DEF Next, Attended
<1>3. CASE Next /\ liberties \subseteq {"dbError"}
  <2>1. Orderly /\ UNCHANGED liberties
    BY <1>3 DEF Orderly, Next, Settling, Attended
  <2>2. ASSUME NEW t \in Tasks, Resume(t)
        PROVE  Attended'
    BY <2>1, <2>2, DropFailsRestarts, RestartAttended, WorkingAttended, EndAttended
       DEF Resume, Works
  <2>3. ASSUME NEW s \in Sockets, NEW link \in Links, handleCursorMove(s, link)
        PROVE  Attended'
    <3>1. /\ UNCHANGED <<tasks, urlSessions, connected, socketVars, userVars>>
          /\ \A i \in SessionIds : session'[i].users = session[i].users
      BY <2>1, <2>3 DEF handleCursorMove, wireVars, Orderly, Typed, TypeOK, SessionObject
    <3>2. \A url \in Urls : urlSessions[url] # None =>
            session'[urlSessions[url]].users = session[urlSessions[url]].users
      BY <2>1, <3>1 DEF Orderly, Typed, TypeOK
    <3> QED
      BY <2>1, <3>1, <3>2, UnchangedAttended DEF Settling
  <2> QED
    BY <1>3, <2>1, <2>2, <2>3, ConnectAttended, DisconnectAttended, PageMessageAttended
       DEF Next
<1> QED
  BY <1>1, <1>2, <1>3

\* NoGhost: if clients are orderly, a user in a live session has a connection on
\* that page or a handler still at work, for any number of users, connections and
\* handlers, whichever calls the database rejects, and across a restart.
THEOREM GatewayNoGhost == Spec => []NoGhost
<1>1. Init => Settling
  BY NewProcessTyped, NewProcessIsolated, NewProcessPaired, NewProcessForgotten,
     NewProcessAttended DEF Init, Settling
<1>2. Settling /\ [Next]_vars => Settling'
  BY NextTyped, NextIsolated, NextPaired, NextForgotten, NextAttended DEF Settling
<1>3. Settling => NoGhost
  BY DEF Settling, Attended, Attendance, Present, NoGhost, CleanedUp
<1> QED
  BY <1>1, <1>2, <1>3, PTL DEF Spec
=============================================================================

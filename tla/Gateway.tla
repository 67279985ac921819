------------------------------- MODULE Gateway -------------------------------
(***************************************************************************)
(* The page sessions of CollaborationGateway (socket.io, one Node process).*)
(*                                                                         *)
(* A session is an object: a handler that has looked one up keeps it over  *)
(* its awaits, also when urlSessions no longer leads to it.  A handler in  *)
(* flight is therefore a task with a program counter and the variables it  *)
(* captured, and every stretch of code between two awaits is one action.   *)
(*                                                                         *)
(* Node runs to completion and drains the microtasks before the next       *)
(* event.  The awaits of client.join, client.leave (in-memory adapter) and *)
(* of the gateway's own async helpers cost a microtask only: a task at one *)
(* of those (MicroWaits) yields to other tasks in that state and to further*)
(* packets of its own socket, which arrive in the same batch, and to       *)
(* nothing else.  The awaits that reach the database yield to everything.  *)
(***************************************************************************)
EXTENDS FiniteSets

CONSTANTS
    Users,
    Sockets,        \* connections; a socket.io id
    Urls,           \* normalised URLs, the keys of urlSessions
    Links,          \* URLs as clients send them
    Unparsable,     \* the Urls that `new URL` rejects
    Projects,
    SessionIds,     \* identities of session objects
    Tasks,          \* bound: handlers in flight at the same time
    Owner,          \* the user whose token a socket presents
    normalizeUrl,   \* [Links -> Urls]
    urlToProjectId, \* [Urls -> Projects], the hash of CollaborationService
    LibertySets,    \* what clients, network and database may do, see below
    None

(***************************************************************************)
(* "overlap":    a client sends a message while another of its messages is *)
(*               still being handled                                       *)
(* "dropBusy":   a connection closes while a message of it is being handled*)
(* "strayLeave": page:leave names a page other than the one last joined    *)
(* "dbError":    a database call of the handler rejects                    *)
(***************************************************************************)
AllLiberties == {"overlap", "dropBusy", "strayLeave", "dbError"}

ASSUME GatewayConstants ==
    /\ Owner \in [Sockets -> Users]
    /\ Urls \subseteq Links
    /\ Unparsable \subseteq Urls
    /\ normalizeUrl \in [Links -> Urls]
    /\ urlToProjectId \in [Urls -> Projects]
    /\ LibertySets \subseteq SUBSET AllLiberties
    /\ None \notin Users \cup Sockets \cup Urls \cup Projects \cup SessionIds

\* Normalising a normalised page URL returns it (scheme, host and path stay).
ASSUME NormalizeIdempotent == \A url \in Urls : normalizeUrl[url] = url

\* A truncated SHA-256: no two pages share a project.
ASSUME ProjectHashInjective ==
    \A u1, u2 \in Urls : urlToProjectId[u1] = urlToProjectId[u2] => u1 = u2

VARIABLES
    connected,        \* sockets whose transport is open
    rooms,            \* socket.io rooms: [Urls -> SUBSET Sockets]
    socketUserMap,
    userSocketMap,
    socketUrlMap,
    socketProjectMap,
    urlSessions,      \* the live session object of a URL
    urlProjectMap,
    projectIdUrlMap,
    session,          \* the session objects, live or only held by a task
    heard,            \* the users announced to a socket as present
    tasks,
    liberties         \* chosen at the start

sessionVars == <<urlSessions, urlProjectMap, projectIdUrlMap, session>>
socketVars  == <<socketUrlMap, socketProjectMap>>
userVars    == <<socketUserMap, userSocketMap>>
wireVars    == <<connected, rooms, heard>>
vars        == <<sessionVars, socketVars, userVars, wireVars, tasks, liberties>>

-----------------------------------------------------------------------------
(* Session objects and tasks *)

NewSession(url, pid) ==
    [url |-> url, projectId |-> pid, users |-> {}, cursors |-> {}]

Idle == [pc |-> "idle", sock |-> None, url |-> None, sess |-> None,
         pid |-> None, goal |-> None]

\* A task record from the fields that matter at its program counter.
Task(pc, s, url, sess, pid, goal) ==
    [pc |-> pc, sock |-> s, url |-> url, sess |-> sess, pid |-> pid, goal |-> goal]

MicroWaits == {"roomLeft", "entering", "joining"}
MacroWaits == {"connecting", "leaving", "projecting", "loading", "dropping"}

Busy(s) == \E t \in Tasks : tasks[t].sock = s

\* No microtask is pending: the next event may be taken.
Drained == \A t \in Tasks : tasks[t].pc \notin MicroWaits

\* Only microtasks of s are pending: packets of the same batch may follow.
OwnTurn(s) == \A t \in Tasks : tasks[t].pc \in MicroWaits => tasks[t].sock = s

\* The gateway dispatches a message of s to a handler.
Receives(s) ==
    /\ s \in connected
    /\ socketUserMap[s] # None
    /\ OwnTurn(s)

Begins(t, s) ==
    /\ Receives(s)
    /\ tasks[t] = Idle
    /\ Busy(s) => "overlap" \in liberties

At(t, pc) ==
    /\ tasks[t].pc = pc
    /\ pc \in MacroWaits => Drained

Held == {tasks[t].sess : t \in Tasks} \cup {urlSessions[url] : url \in Urls}

\* Mutant: the cursor of a departing user is forgotten.
WithoutUser_KeepsCursor(i, u) ==
    [session EXCEPT ![i].users = @ \ {u}]

WithoutUser(i, u) ==
    [session EXCEPT ![i].users = @ \ {u}, ![i].cursors = @ \ {u}]

\* What the sockets of a room (all but s) hear of one more or one fewer user.
HearJoined(s, url, u) ==
    [x \in Sockets |-> IF x \in (rooms[url] \cap connected) \ {s}
                       THEN heard[x] \cup {u} ELSE heard[x]]
HearLeft(s, url, u) ==
    [x \in Sockets |-> IF x \in (rooms[url] \cap connected) \ {s}
                       THEN heard[x] \ {u} ELSE heard[x]]

\* cleanupEmptySession(session, url): by URL, whatever object is live there.
cleanupEmptySession(i, url) ==
    /\ urlSessions' = [urlSessions EXCEPT ![url] = None]
    /\ urlProjectMap' = [urlProjectMap EXCEPT ![url] = None]
    /\ projectIdUrlMap' =
         IF session[i].projectId = None THEN projectIdUrlMap
         ELSE [projectIdUrlMap EXCEPT ![session[i].projectId] = None]

\* Mutant: the project of the page left is kept.
forgetPage_KeepsProject(s) ==
    /\ socketUrlMap' = [socketUrlMap EXCEPT ![s] = None]
    /\ UNCHANGED socketProjectMap

forgetPage(s) ==
    /\ socketUrlMap' = [socketUrlMap EXCEPT ![s] = None]
    /\ socketProjectMap' = [socketProjectMap EXCEPT ![s] = None]

-----------------------------------------------------------------------------
(* Connecting and disconnecting *)

\* A socket id that no map, room or handler remembers.
Fresh(s) ==
    /\ ~Busy(s)
    /\ \A url \in Urls : s \notin rooms[url]
    /\ socketUserMap[s] = None /\ socketUrlMap[s] = None /\ socketProjectMap[s] = None
    /\ \A u \in Users : userSocketMap[u] # s

\* handleConnection up to the await of the token and of the user.
Connect(t, s) ==
    /\ Drained
    /\ s \notin connected /\ Fresh(s)
    /\ tasks[t] = Idle
    /\ connected' = connected \cup {s}
    /\ tasks' = [tasks EXCEPT ![t] = Task("connecting", s, None, None, None, None)]
    /\ UNCHANGED <<rooms, heard, userVars, socketVars, sessionVars>>

\* The user was found: registered, even if the socket has closed meanwhile.
Authenticated(t) ==
    LET s == tasks[t].sock IN
    /\ At(t, "connecting")
    /\ socketUserMap' = [socketUserMap EXCEPT ![s] = Owner[s]]
    /\ userSocketMap' = [userSocketMap EXCEPT ![Owner[s]] = s]
    /\ tasks' = [tasks EXCEPT ![t] = Idle]
    /\ UNCHANGED <<wireVars, socketVars, sessionVars>>

\* No user: client.disconnect(), whose handleDisconnect finds no user either.
Rejected(t) ==
    LET s == tasks[t].sock IN
    /\ At(t, "connecting")
    /\ connected' = connected \ {s}
    /\ forgetPage(s)
    /\ tasks' = [tasks EXCEPT ![t] = Idle]
    /\ UNCHANGED <<rooms, heard, userVars, sessionVars>>

\* Mutant: handleDisconnect leaves the sweeping of the session to page:leave.
Disconnect_NoSweep(t, s) ==
    LET u    == socketUserMap[s]
        url  == socketUrlMap[s]
        sess == IF url = None THEN None ELSE urlSessions[url]
    IN
    /\ Drained
    /\ s \in connected
    /\ tasks[t] = Idle
    /\ Busy(s) => "dropBusy" \in liberties
    /\ connected' = connected \ {s}
    /\ rooms' = [r \in Urls |-> rooms[r] \ {s}]
    /\ socketUserMap' = [socketUserMap EXCEPT ![s] = None]
    /\ userSocketMap' = IF u = None THEN userSocketMap
                        ELSE [userSocketMap EXCEPT ![u] = None]
    /\ heard' = [(IF u = None \/ sess = None THEN heard ELSE HearLeft(s, url, u))
                   EXCEPT ![s] = {}]
    /\ session' = IF u = None \/ sess = None THEN session ELSE WithoutUser(sess, u)
    /\ forgetPage(s)
    /\ UNCHANGED <<tasks, urlSessions, urlProjectMap, projectIdUrlMap>>

\* handleDisconnect: socket.io has already taken the socket out of its rooms.
Disconnect(t, s) ==
    LET u    == socketUserMap[s]
        url  == socketUrlMap[s]
        pid  == socketProjectMap[s]
        sess == IF url = None THEN None ELSE urlSessions[url]
    IN
    /\ Drained
    /\ s \in connected
    /\ tasks[t] = Idle
    /\ Busy(s) => "dropBusy" \in liberties
    /\ connected' = connected \ {s}
    /\ rooms' = [r \in Urls |-> rooms[r] \ {s}]
    /\ socketUserMap' = [socketUserMap EXCEPT ![s] = None]
    /\ userSocketMap' = IF u = None THEN userSocketMap
                        ELSE [userSocketMap EXCEPT ![u] = None]
    /\ heard' = [(IF u = None \/ sess = None THEN heard ELSE HearLeft(s, url, u))
                   EXCEPT ![s] = {}]
    /\ IF u = None \/ sess = None THEN UNCHANGED sessionVars
       ELSE /\ session' = WithoutUser(sess, u)
            /\ IF session'[sess].users = {} THEN cleanupEmptySession(sess, url)
               ELSE UNCHANGED <<urlSessions, urlProjectMap, projectIdUrlMap>>
    /\ IF u # None /\ pid # None
       THEN /\ tasks' = [tasks EXCEPT ![t] = Task("dropping", s, None, None, pid, None)]
            /\ UNCHANGED socketVars
       ELSE /\ forgetPage(s)
            /\ UNCHANGED tasks

\* Mutant: the page of the socket is forgotten only when there was no project.
DropDone_KeepsPage(t) ==
    /\ At(t, "dropping")
    /\ tasks' = [tasks EXCEPT ![t] = Idle]
    /\ UNCHANGED <<wireVars, userVars, socketVars, sessionVars>>

\* leaveProject has answered.
DropDone(t) ==
    /\ At(t, "dropping")
    /\ forgetPage(tasks[t].sock)
    /\ tasks' = [tasks EXCEPT ![t] = Idle]
    /\ UNCHANGED <<wireVars, userVars, sessionVars>>

\* leaveProject rejects.  Nobody awaits handleDisconnect: the rejection is
\* unhandled, Node ends the process, and the next one starts with empty maps.
DropFails(t) ==
    /\ "dbError" \in liberties
    /\ At(t, "dropping")
    /\ connected' = {}
    /\ rooms' = [url \in Urls |-> {}]
    /\ socketUserMap' = [s \in Sockets |-> None]
    /\ userSocketMap' = [u \in Users |-> None]
    /\ socketUrlMap' = [s \in Sockets |-> None]
    /\ socketProjectMap' = [s \in Sockets |-> None]
    /\ urlSessions' = [url \in Urls |-> None]
    /\ urlProjectMap' = [url \in Urls |-> None]
    /\ projectIdUrlMap' = [p \in Projects |-> None]
    /\ session' = [i \in SessionIds |-> NewSession(None, None)]
    /\ heard' = [s \in Sockets |-> {}]
    /\ tasks' = [x \in Tasks |-> Idle]

-----------------------------------------------------------------------------
(* page:leave, also run by page:join for the page joined before *)

\* handlePageLeave up to the await of client.leave.
BeginLeave(t, s, url, goal) ==
    LET sess == urlSessions[url]
        pid  == IF sess # None /\ session[sess].projectId # None
                THEN session[sess].projectId ELSE socketProjectMap[s]
    IN
    /\ session' = IF sess = None THEN session ELSE WithoutUser(sess, socketUserMap[s])
    /\ rooms' = [rooms EXCEPT ![url] = @ \ {s}]
    /\ tasks' = [tasks EXCEPT ![t] = Task("roomLeft", s, url, sess, pid, goal)]
    /\ UNCHANGED <<connected, heard, userVars, socketVars,
                   urlSessions, urlProjectMap, projectIdUrlMap>>

PageLeave(t, s, link) ==
    /\ Begins(t, s)
    /\ normalizeUrl[link] # socketUrlMap[s] => "strayLeave" \in liberties
    /\ BeginLeave(t, s, normalizeUrl[link], None)

\* Mutant: only a session that never got a project is swept.
LeaveTail_KeepsProjectSession(t) ==
    LET k == tasks[t] IN
    /\ IF k.pid = None /\ k.sess # None /\ session[k.sess].users = {}
       THEN cleanupEmptySession(k.sess, k.url)
       ELSE UNCHANGED <<urlSessions, urlProjectMap, projectIdUrlMap>>
    /\ forgetPage(k.sock)
    /\ tasks' = [tasks EXCEPT ![t] =
                   IF k.goal = None THEN Idle
                   ELSE Task("entering", k.sock, k.goal, None, None, None)]
    /\ UNCHANGED <<session, connected, rooms, userVars>>

\* The end of handlePageLeave: sweep the held session, forget the socket's page.
LeaveTail(t) ==
    LET k == tasks[t] IN
    /\ IF k.sess # None /\ session[k.sess].users = {}
       THEN cleanupEmptySession(k.sess, k.url)
       ELSE UNCHANGED <<urlSessions, urlProjectMap, projectIdUrlMap>>
    /\ forgetPage(k.sock)
    /\ tasks' = [tasks EXCEPT ![t] =
                   IF k.goal = None THEN Idle
                   ELSE Task("entering", k.sock, k.goal, None, None, None)]
    /\ UNCHANGED <<session, connected, rooms, userVars>>

\* Mutant: leaving a page is announced only when no project is open for it.
LeaveAnnounce_Silent(t) ==
    LET k == tasks[t] IN
    /\ At(t, "roomLeft")
    /\ UNCHANGED heard
    /\ IF k.pid = None THEN LeaveTail(t)
       ELSE /\ tasks' = [tasks EXCEPT ![t].pc = "leaving"]
            /\ UNCHANGED <<connected, rooms, userVars, socketVars, sessionVars>>

\* After client.leave: 'user-left' to the room, then leaveProject if there is one.
LeaveAnnounce(t) ==
    LET k == tasks[t] IN
    /\ At(t, "roomLeft")
    /\ heard' = IF k.sess = None THEN heard ELSE HearLeft(k.sock, k.url, Owner[k.sock])
    /\ IF k.pid = None THEN LeaveTail(t)
       ELSE /\ tasks' = [tasks EXCEPT ![t].pc = "leaving"]
            /\ UNCHANGED <<connected, rooms, userVars, socketVars, sessionVars>>

LeaveProjectDone(t) ==
    /\ At(t, "leaving")
    /\ LeaveTail(t)
    /\ UNCHANGED heard

\* A database call rejects and the handler ends where it stands.
DbCallFails(t) ==
    /\ "dbError" \in liberties
    /\ At(t, "leaving") \/ At(t, "projecting")
    /\ tasks' = [tasks EXCEPT ![t] = Idle]
    /\ UNCHANGED <<wireVars, userVars, socketVars, sessionVars>>

-----------------------------------------------------------------------------
(* page:join *)

\* Mutant: joining a page does not leave the previous one.
PageJoin_KeepsPreviousPage(t, s, link) ==
    /\ Begins(t, s)
    /\ tasks' = [tasks EXCEPT ![t] =
                   Task("entering", s, normalizeUrl[link], None, None, None)]
    /\ UNCHANGED <<wireVars, userVars, socketVars, sessionVars>>

\* handlePageJoin: leaves the previous page first when it is another one.
PageJoin(t, s, link) ==
    LET url == normalizeUrl[link]
        previousUrl == socketUrlMap[s]
    IN
    /\ Begins(t, s)
    /\ IF previousUrl # None /\ previousUrl # url
       THEN BeginLeave(t, s, normalizeUrl[previousUrl], url)
       ELSE /\ tasks' = [tasks EXCEPT ![t] = Task("entering", s, url, None, None, None)]
            /\ UNCHANGED <<wireVars, userVars, socketVars, sessionVars>>

\* getOrCreateUrlSession throws for a URL that does not parse.
EnterUnparsable(t) ==
    /\ At(t, "entering")
    /\ tasks[t].url \in Unparsable
    /\ tasks' = [tasks EXCEPT ![t] = Idle]
    /\ UNCHANGED <<wireVars, userVars, socketVars, sessionVars>>

\* getOrCreateUrlSession and the call of client.join.
EnterSession(t) ==
    LET k == tasks[t] IN
    /\ At(t, "entering")
    /\ k.url \notin Unparsable
    /\ \E i \in SessionIds :
         /\ IF urlSessions[k.url] = None
            THEN /\ i \notin Held
                 /\ urlSessions' = [urlSessions EXCEPT ![k.url] = i]
                 /\ session' = [session EXCEPT ![i] = NewSession(k.url, urlProjectMap[k.url])]
            ELSE /\ i = urlSessions[k.url]
                 /\ UNCHANGED <<urlSessions, session>>
         /\ tasks' = [tasks EXCEPT ![t] = Task("joining", k.sock, k.url, i, None, None)]
    /\ rooms' = [rooms EXCEPT ![k.url] = @ \cup {k.sock}]
    /\ UNCHANGED <<connected, heard, userVars, socketVars, urlProjectMap, projectIdUrlMap>>

\* After client.join: the socket and the user are entered, joinUrlProject is called.
JoinRegister(t) ==
    LET k == tasks[t] IN
    /\ At(t, "joining")
    /\ socketUrlMap' = [socketUrlMap EXCEPT ![k.sock] = k.url]
    /\ session' = [session EXCEPT ![k.sess].users = @ \cup {Owner[k.sock]}]
    /\ tasks' = [tasks EXCEPT ![t].pc = "projecting"]
    /\ UNCHANGED <<wireVars, userVars, socketProjectMap,
                   urlSessions, urlProjectMap, projectIdUrlMap>>

\* Mutant: the page is read from socketUrlMap after the await.
JoinProject_RereadsPage(t) ==
    LET k   == tasks[t]
        url == IF socketUrlMap[k.sock] = None THEN k.url ELSE socketUrlMap[k.sock]
        pid == urlToProjectId[url]
    IN
    /\ At(t, "projecting")
    /\ session' = [session EXCEPT ![k.sess].projectId = pid]
    /\ socketProjectMap' = [socketProjectMap EXCEPT ![k.sock] = pid]
    /\ urlProjectMap' = [urlProjectMap EXCEPT ![k.url] = pid]
    /\ projectIdUrlMap' = [projectIdUrlMap EXCEPT ![pid] = k.url]
    /\ tasks' = [tasks EXCEPT ![t].pc = "loading"]
    /\ UNCHANGED <<wireVars, userVars, socketUrlMap, urlSessions>>

\* Mutant: key and value of projectIdUrlMap are swapped.
JoinProject_Swapped(t) ==
    LET k   == tasks[t]
        pid == urlToProjectId[k.url]
    IN
    /\ At(t, "projecting")
    /\ session' = [session EXCEPT ![k.sess].projectId = pid]
    /\ socketProjectMap' = [socketProjectMap EXCEPT ![k.sock] = pid]
    /\ urlProjectMap' = [urlProjectMap EXCEPT ![k.url] = pid]
    /\ projectIdUrlMap' = [projectIdUrlMap EXCEPT ![pid] = pid]
    /\ tasks' = [tasks EXCEPT ![t].pc = "loading"]
    /\ UNCHANGED <<wireVars, userVars, socketUrlMap, urlSessions>>

\* joinUrlProject has answered with the project of the URL.
JoinProject(t) ==
    LET k   == tasks[t]
        pid == urlToProjectId[k.url]
    IN
    /\ At(t, "projecting")
    /\ session' = [session EXCEPT ![k.sess].projectId = pid]
    /\ socketProjectMap' = [socketProjectMap EXCEPT ![k.sock] = pid]
    /\ urlProjectMap' = [urlProjectMap EXCEPT ![k.url] = pid]
    /\ projectIdUrlMap' = [projectIdUrlMap EXCEPT ![pid] = k.url]
    /\ tasks' = [tasks EXCEPT ![t].pc = "loading"]
    /\ UNCHANGED <<wireVars, userVars, socketUrlMap, urlSessions>>

\* loadSessionComments is done (its errors are swallowed): 'page:joined' to the
\* socket, 'user-joined' to the room.
JoinAnnounce(t) ==
    LET k == tasks[t] IN
    /\ At(t, "loading")
    /\ heard' = [HearJoined(k.sock, k.url, Owner[k.sock]) EXCEPT ![k.sock] =
                   IF k.sock \in connected THEN session[k.sess].users ELSE @]
    /\ tasks' = [tasks EXCEPT ![t] = Idle]
    /\ UNCHANGED <<connected, rooms, userVars, socketVars, sessionVars>>

-----------------------------------------------------------------------------
(* cursor:move, synchronous *)

handleCursorMove(s, link) ==
    LET sess == urlSessions[normalizeUrl[link]] IN
    /\ Receives(s)
    /\ sess # None
    /\ socketUserMap[s] \in session[sess].users
    /\ session' = [session EXCEPT ![sess].cursors = @ \cup {socketUserMap[s]}]
    /\ UNCHANGED <<wireVars, userVars, socketVars, tasks,
                   urlSessions, urlProjectMap, projectIdUrlMap>>

-----------------------------------------------------------------------------

\* The maps of a new process.
NewProcess ==
    /\ connected = {}
    /\ rooms = [url \in Urls |-> {}]
    /\ socketUserMap = [s \in Sockets |-> None]
    /\ userSocketMap = [u \in Users |-> None]
    /\ socketUrlMap = [s \in Sockets |-> None]
    /\ socketProjectMap = [s \in Sockets |-> None]
    /\ urlSessions = [url \in Urls |-> None]
    /\ urlProjectMap = [url \in Urls |-> None]
    /\ projectIdUrlMap = [p \in Projects |-> None]
    /\ session = [i \in SessionIds |-> NewSession(None, None)]
    /\ heard = [s \in Sockets |-> {}]
    /\ tasks = [t \in Tasks |-> Idle]

Init == NewProcess /\ liberties \in LibertySets

\* The code of a handler that has begun.
Resume(t) ==
    \/ Authenticated(t) \/ Rejected(t) \/ DropDone(t) \/ DropFails(t)
    \/ LeaveAnnounce(t) \/ LeaveProjectDone(t) \/ DbCallFails(t)
    \/ EnterUnparsable(t) \/ EnterSession(t)
    \/ JoinRegister(t) \/ JoinProject(t) \/ JoinAnnounce(t)

Next ==
    /\ \/ \E t \in Tasks : Resume(t)
       \/ \E t \in Tasks, s \in Sockets :
            \/ Connect(t, s)
            \/ Disconnect(t, s)
            \/ \E link \in Links : PageJoin(t, s, link) \/ PageLeave(t, s, link)
       \/ \E s \in Sockets, link \in Links : handleCursorMove(s, link)
    /\ UNCHANGED liberties

Spec == Init /\ [][Next]_vars

\* A promise that a handler awaits settles, and the event loop, which serves
\* ready events in turn, comes to its continuation whatever clients send (a
\* continuation is not enabled all the time: Drained).
FairSpec == Spec /\ \A t \in Tasks : SF_vars(Resume(t) /\ UNCHANGED liberties)
-----------------------------------------------------------------------------
(* Properties *)

TaskRecord ==
    [pc : {"idle"} \cup MicroWaits \cup MacroWaits,
     sock : Sockets \cup {None}, url : Urls \cup {None},
     sess : SessionIds \cup {None}, pid : Projects \cup {None},
     goal : Urls \cup {None}]

SessionObject ==
    [url : Urls \cup {None}, projectId : Projects \cup {None},
     users : SUBSET Users, cursors : SUBSET Users]

\* Every map of the gateway holds what its declaration says.
TypeOK ==
    /\ connected \in SUBSET Sockets
    /\ rooms \in [Urls -> SUBSET Sockets]
    /\ socketUserMap \in [Sockets -> Users \cup {None}]
    /\ userSocketMap \in [Users -> Sockets \cup {None}]
    /\ socketUrlMap \in [Sockets -> Urls \cup {None}]
    /\ socketProjectMap \in [Sockets -> Projects \cup {None}]
    /\ urlSessions \in [Urls -> SessionIds \cup {None}]
    /\ urlProjectMap \in [Urls -> Projects \cup {None}]
    /\ projectIdUrlMap \in [Projects -> Urls \cup {None}]
    /\ session \in [SessionIds -> SessionObject]
    /\ heard \in [Sockets -> SUBSET Users]
    /\ tasks \in [Tasks -> TaskRecord]

\* No page ever gets another page's project, in whatever order sessions are
\* dropped, recreated and written to by handlers that hold an old object: the
\* "ProjectId mismatch" branch of joinSessionAndSetProject is never taken, and
\* an event of a project goes to the room of its own page (emitToProjectRooms).
ProjectIsolation ==
    /\ \A url \in Urls :
         /\ urlProjectMap[url] \in {None, urlToProjectId[url]}
         /\ urlSessions[url] # None => session[urlSessions[url]].url = url
    /\ \A p \in Projects :
         projectIdUrlMap[p] # None => urlToProjectId[projectIdUrlMap[p]] = p
    /\ \A i \in SessionIds :
         session[i].projectId # None =>
           /\ session[i].url # None
           /\ session[i].projectId = urlToProjectId[session[i].url]

\* A cursor shown for a page belongs to a user present on it, also in an
\* object that a late handler still writes to after it was dropped.
CursorsOfMembers ==
    \A i \in SessionIds : session[i].cursors \subseteq session[i].users

\* An empty session is live only while a handler that will fill it or sweep it
\* is on its way; without that no leave or disconnect would free its entries.
\* (leaveProject may reject before the sweep.)
EmptySessionIsHeld ==
    "dbError" \notin liberties =>
      \A url \in Urls :
        urlSessions[url] # None /\ session[urlSessions[url]].users = {} =>
          \E t \in Tasks : /\ tasks[t].sess = urlSessions[url]
                           /\ tasks[t].pc \in {"joining", "roomLeft", "leaving"}

\* ... and it does not stay empty for ever.
EmptySessionEnds ==
    \A url \in Urls :
      (urlSessions[url] # None /\ session[urlSessions[url]].users = {})
        ~> (urlSessions[url] = None \/ session[urlSessions[url]].users # {})

\* The project that handleDisconnect closes for a socket is the one of the page
\* it removes the user from, although the two maps are written at two awaits:
\* unless two messages of the socket are handled at once.
ClosesOwnProject ==
    "overlap" \notin liberties =>
      \A s \in Sockets :
        socketUrlMap[s] # None /\ socketProjectMap[s] # None =>
          socketProjectMap[s] = urlToProjectId[socketUrlMap[s]]

\* A user in a live session has a connection on that page, or a handler of one
\* of the user's connections is still at work: what handleDisconnect is for.
CleanedUp ==
    \A url \in Urls : urlSessions[url] # None =>
      \A u \in session[urlSessions[url]].users : \E s \in Sockets :
        /\ Owner[s] = u
        /\ Busy(s) \/ (s \in connected /\ socketUrlMap[s] = url)

\* If clients are orderly handleDisconnect and the departures leave no ghost,
\* whichever calls the database rejects, also across a restart.
NoGhost == liberties \subseteq {"dbError"} => CleanedUp

\* A closed connection is forgotten: unless it closed while a message of it was
\* being handled, no map and no room keeps its id once its handlers have ended,
\* whatever messages overlapped and whatever the database rejected before.
NothingLeftOver ==
    "dropBusy" \notin liberties =>
      \A s \in Sockets \ connected : ~Busy(s) => Fresh(s)

\* Connections settled on one URL have their users in one session.
SameUrlSameSession ==
    \A s \in connected :
      ~Busy(s) /\ socketUrlMap[s] # None =>
        /\ urlSessions[socketUrlMap[s]] # None
        /\ socketUserMap[s] \in session[urlSessions[socketUrlMap[s]]].users

Settled == \A t \in Tasks : tasks[t] = Idle

OneConnectionEach == \A r, s \in Sockets : Owner[r] = Owner[s] => r = s

\* When no handler is in flight and the sessions have not split, a connection
\* on a page has been told exactly the users of the page's session: page:joined
\* is sent at the end of the join and user-joined, user-left overtake each
\* other around it, so a user could be missed or kept.  Said of orderly clients
\* with one connection to a user (rosters name users, not connections).
RosterAgrees ==
    liberties = {} /\ OneConnectionEach /\ Settled /\ SameUrlSameSession =>
      \A s \in connected : socketUrlMap[s] # None =>
        heard[s] = session[urlSessions[socketUrlMap[s]]].users
=============================================================================

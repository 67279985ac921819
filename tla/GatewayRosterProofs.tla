------------------------ MODULE GatewayRosterProofs ------------------------
(***************************************************************************)
(* What a connection has been told of who is on its page (RosterAgrees),   *)
(* for any number of users with one connection each, pages, session        *)
(* objects and handlers in flight, if clients are orderly and no database  *)
(* call rejects.                                                           *)
(***************************************************************************)
EXTENDS GatewaySocketsProofs

-----------------------------------------------------------------------------
(* The inductive invariant *)

\* A microtask is pending for one handler at most; until it has run, no other
\* step changes what the URL it holds leads to.
MicroAlone ==
    \A t \in Tasks :
      /\ tasks[t].pc \in MicroWaits =>
           \A y \in Tasks \ {t} : tasks[y].pc \notin MicroWaits
      /\ tasks[t].pc \in {"roomLeft", "joining"} =>
           tasks[t].sess = urlSessions[tasks[t].url]

\* A socket is in the room of the page it has joined or is joining, and in no
\* other.
Located(s) ==
    /\ \A url \in Urls : s \in rooms[url] =>
         \/ socketUrlMap[s] = url
         \/ \E t \in Tasks : tasks[t].sock = s /\ tasks[t].pc = "joining" /\ tasks[t].url = url
    /\ s \in connected /\ socketUrlMap[s] # None =>
         \/ s \in rooms[socketUrlMap[s]]
         \/ \E t \in Tasks : tasks[t].sock = s /\ tasks[t].pc \in {"roomLeft", "leaving"}
    /\ \A t \in Tasks : tasks[t].sock = s =>
         /\ tasks[t].pc \in {"joining", "projecting", "loading"} => s \in rooms[tasks[t].url]
         /\ tasks[t].pc \in {"projecting", "loading", "roomLeft", "leaving"} =>
              socketUrlMap[s] = tasks[t].url
         /\ tasks[t].pc \in {"roomLeft", "leaving"} => \A url \in Urls : s \notin rooms[url]

\* The users of the session a URL leads to.
Members(url) == IF urlSessions[url] = None THEN {} ELSE session[urlSessions[url]].users

\* A handler that joins a page whose session has its user holds that session.
HoldsLive(t) ==
    \A url \in Urls :
      /\ tasks[t].pc \in {"projecting", "loading"} /\ tasks[t].url = url
      /\ Owner[tasks[t].sock] \in Members(url)
      => tasks[t].sess = urlSessions[url]

\* x is on the page, its user in the session, and has been sent the roster.
OnRoster(x, url) ==
    /\ x \in connected /\ socketUrlMap[x] = url
    /\ Owner[x] \in Members(url)
    /\ \A t \in Tasks : tasks[t].sock = x => tasks[t].pc \in {"entering", "joining"}

\* s is about to tell the room that its user has come.
WillAnnounce(s, url) ==
    \E t \in Tasks :
      tasks[t].sock = s /\ tasks[t].url = url /\ tasks[t].pc \in {"projecting", "loading"}

\* s is on the page without its user in the session, or is about to tell the room
\* that its user has gone.
Lingers(s, url) ==
    /\ s \in connected /\ socketUrlMap[s] = url
    /\ \A t \in Tasks : tasks[t].sock = s => tasks[t].pc \in JoinWaits \cup {"roomLeft"}

\* Whoever x has not heard of will be announced, whoever it should no longer show
\* is still there to be taken back.
Told(x, url) ==
    /\ \A v \in Members(url) \ heard[x] :
         \E s \in Sockets : Owner[s] = v /\ WillAnnounce(s, url)
    /\ \A v \in heard[x] \ Members(url) :
         \E s \in Sockets : Owner[s] = v /\ Lingers(s, url)

ToldAll == \A x \in Sockets, url \in Urls : OnRoster(x, url) => Told(x, url)

Rostered ==
    liberties = {} /\ OneConnectionEach =>
      /\ MicroAlone
      /\ \A s \in Sockets : Located(s)
      /\ \A t \in Tasks : HoldsLive(t)
      /\ ToldAll

\* Rostered, where it says something.
Exact ==
    /\ Settling /\ liberties = {} /\ OneConnectionEach
    /\ MicroAlone
    /\ \A s \in Sockets : Located(s)
    /\ \A t \in Tasks : HoldsLive(t)
    /\ ToldAll

LEMMA ExactIsOrderly == Exact => Orderly /\ OneMessage /\ DropsIdle /\ Typed
<1>1. Exact => Orderly
  BY DEF Exact, Settling, Orderly, Attended
<1> QED
  BY <1>1, OrderlyIsTidy DEF Exact, Settling

-----------------------------------------------------------------------------
(* A step of one handler *)

\* It is the only handler of its socket, no microtask of another is pending, and
\* it lets the sessions lead to others or leaves the other users in them.
Moves(t, s) ==
    /\ Touches(t, s)
    /\ \A y \in Tasks \ {t} : tasks[y].sock # s /\ tasks[y].pc \notin MicroWaits
    /\ \A x \in Sockets \ {s}, url \in Urls : x \in rooms[url] => x \in rooms'[url]
    /\ \A url \in Urls : Members(url)' # {} =>
         /\ urlSessions'[url] = urlSessions[url]
         /\ Members(url)' \ {Owner[s]} = Members(url) \ {Owner[s]}

\* What it owes the others on a page: that its user has come or gone.
TellsOthers(s) ==
    \A x \in Sockets \ {s}, url \in Urls : OnRoster(x, url) /\ OnRoster(x, url)' =>
      /\ heard'[x] \ {Owner[s]} = heard[x] \ {Owner[s]}
      /\ Owner[s] \in Members(url)' \ heard'[x] => WillAnnounce(s, url)'
      /\ Owner[s] \in heard'[x] \ Members(url)' => Lingers(s, url)'

\* What it owes its own socket.
TellsOwn(s) ==
    \A url \in Urls : OnRoster(s, url)' =>
      \/ heard'[s] = Members(url)'
      \/ OnRoster(s, url) /\ heard'[s] = heard[s] /\ Members(url)' = Members(url)

\* The steps of others, seen from a socket that is not s.
LEMMA OthersStay ==
    ASSUME Exact, NEW t \in Tasks, NEW s \in Sockets, Moves(t, s), NEW x \in Sockets, x # s
    PROVE  /\ \A url \in Urls : x \in rooms'[url] <=> x \in rooms[url]
           /\ socketUrlMap'[x] = socketUrlMap[x]
           /\ x \in connected' <=> x \in connected
           /\ \A y \in Tasks : /\ tasks'[y].sock = x <=> tasks[y].sock = x
                               /\ tasks[y].sock = x => tasks'[y] = tasks[y]
           /\ Owner[x] # Owner[s]
<1>1. Touches(t, s) /\ Typed
  BY DEF Moves, Exact, Settling
<1>2. /\ \A url \in Urls : x \in rooms'[url] => x \in rooms[url]
      /\ socketUrlMap'[x] = socketUrlMap[x]
      /\ x \in connected' <=> x \in connected
      /\ \A y \in Tasks : /\ tasks'[y].sock = x <=> tasks[y].sock = x
                          /\ tasks[y].sock = x => tasks'[y] = tasks[y]
  BY <1>1, OthersUntouched
<1> QED
  BY <1>2 DEF Moves, Exact, OneConnectionEach

LEMMA StepMicro ==
    ASSUME Exact, NEW t \in Tasks, NEW s \in Sockets, Moves(t, s),
           tasks'[t].pc \in {"roomLeft", "joining"} =>
             tasks'[t].sess = urlSessions'[tasks'[t].url]
    PROVE  MicroAlone'
<1>1. \A y \in Tasks \ {t} : tasks'[y] = tasks[y] /\ tasks[y].pc \notin MicroWaits
  BY DEF Moves, Touches, Exact, Settling, Typed, TypeOK
<1> QED
  BY <1>1 DEF MicroAlone, MicroWaits

LEMMA StepLocated ==
    ASSUME Exact, NEW t \in Tasks, NEW s \in Sockets, Moves(t, s), Located(s)'
    PROVE  \A x \in Sockets : Located(x)'
<1> SUFFICES ASSUME NEW x \in Sockets, x # s PROVE Located(x)'
  OBVIOUS
<1>1. /\ \A url \in Urls : x \in rooms'[url] <=> x \in rooms[url]
      /\ socketUrlMap'[x] = socketUrlMap[x]
      /\ x \in connected' <=> x \in connected
      /\ \A y \in Tasks : /\ tasks'[y].sock = x <=> tasks[y].sock = x
                          /\ tasks[y].sock = x => tasks'[y] = tasks[y]
  BY OthersStay
<1>2. Located(x) /\ Typed
  BY DEF Exact, Settling
<1>3. ASSUME NEW url \in Urls, x \in rooms'[url]
      PROVE  \/ socketUrlMap'[x] = url
             \/ \E y \in Tasks : tasks'[y].sock = x /\ tasks'[y].pc = "joining" /\ tasks'[y].url = url
  BY <1>1, <1>2, <1>3 DEF Located
<1>4. ASSUME x \in connected', socketUrlMap'[x] # None
      PROVE  \/ x \in rooms'[socketUrlMap'[x]]
             \/ \E y \in Tasks : tasks'[y].sock = x /\ tasks'[y].pc \in {"roomLeft", "leaving"}
  <2>1. socketUrlMap[x] \in Urls
    BY <1>1, <1>2, <1>4 DEF Typed, TypeOK
  <2> QED
    BY <1>1, <1>2, <1>4, <2>1 DEF Located
<1>5. ASSUME NEW y \in Tasks, tasks'[y].sock = x
      PROVE  /\ tasks'[y].pc \in {"joining", "projecting", "loading"} => x \in rooms'[tasks'[y].url]
             /\ tasks'[y].pc \in {"projecting", "loading", "roomLeft", "leaving"} =>
                  socketUrlMap'[x] = tasks'[y].url
             /\ tasks'[y].pc \in {"roomLeft", "leaving"} => \A url \in Urls : x \notin rooms'[url]
  <2>1. tasks'[y] = tasks[y] /\ tasks[y].sock = x
    BY <1>1, <1>5
  <2>2. tasks[y].pc \in {"joining", "projecting", "loading"} => tasks[y].url \in Urls
    BY <1>2 DEF Typed, TaskShapes, Shaped
  <2> QED
    BY <1>1, <1>2, <2>1, <2>2 DEF Located
<1> QED
  BY <1>3, <1>4, <1>5 DEF Located

LEMMA StepHolds ==
    ASSUME Exact, NEW t \in Tasks, NEW s \in Sockets, Moves(t, s), HoldsLive(t)'
    PROVE  \A y \in Tasks : HoldsLive(y)'
<1> SUFFICES ASSUME NEW y \in Tasks, y # t, NEW url \in Urls,
                    tasks'[y].pc \in {"projecting", "loading"}, tasks'[y].url = url,
                    Owner[tasks'[y].sock] \in Members(url)'
             PROVE  tasks'[y].sess = urlSessions'[url]
  BY DEF HoldsLive
<1>1. tasks'[y] = tasks[y] /\ tasks[y].sock # s
  BY DEF Moves, Touches, Exact, Settling, Typed, TypeOK
<1>2. tasks[y].sock \in Sockets
  BY <1>1 DEF Exact, Settling, Typed, TaskShapes, Shaped
<1>4. Owner[tasks[y].sock] # Owner[s]
  BY <1>1, <1>2 DEF Exact, OneConnectionEach
<1>5. Owner[tasks[y].sock] \in Members(url)'
  BY <1>1
<1>6. urlSessions'[url] = urlSessions[url] /\ Owner[tasks[y].sock] \in Members(url)
  BY <1>4, <1>5 DEF Moves
<1>7. HoldsLive(y)
  BY DEF Exact
<1> QED
  BY <1>1, <1>6, <1>7 DEF HoldsLive

LEMMA StepTold ==
    ASSUME Exact, NEW t \in Tasks, NEW s \in Sockets, Moves(t, s), TellsOthers(s), TellsOwn(s)
    PROVE  ToldAll'
<1> SUFFICES ASSUME NEW x \in Sockets, NEW url \in Urls, OnRoster(x, url)'
             PROVE  Told(x, url)'
  BY DEF ToldAll
<1>1. ASSUME NEW r \in Sockets, r # s
      PROVE  /\ WillAnnounce(r, url) => WillAnnounce(r, url)'
             /\ Lingers(r, url) => Lingers(r, url)'
  <2>1. /\ socketUrlMap'[r] = socketUrlMap[r]
        /\ r \in connected' <=> r \in connected
        /\ \A y \in Tasks : /\ tasks'[y].sock = r <=> tasks[y].sock = r
                            /\ tasks[y].sock = r => tasks'[y] = tasks[y]
    BY <1>1, OthersStay
  <2> QED
    BY <2>1 DEF WillAnnounce, Lingers
<1>2. /\ Members(url)' # {} /\ urlSessions'[url] = urlSessions[url]
      /\ Members(url)' \ {Owner[s]} = Members(url) \ {Owner[s]}
  BY DEF Moves, OnRoster
<1>3. OnRoster(x, url) => Told(x, url)
  BY DEF Exact, ToldAll
<1>4. CASE x # s
  <2>1. OnRoster(x, url)
    <3>1. /\ socketUrlMap'[x] = socketUrlMap[x]
          /\ x \in connected' <=> x \in connected
          /\ \A y \in Tasks : /\ tasks'[y].sock = x <=> tasks[y].sock = x
                              /\ tasks[y].sock = x => tasks'[y] = tasks[y]
          /\ Owner[x] # Owner[s]
      BY <1>4, OthersStay
    <3>2. Owner[x] \in Members(url)
      BY <1>2, <3>1 DEF OnRoster
    <3> QED
      BY <3>1, <3>2 DEF OnRoster
  <2>2. /\ heard'[x] \ {Owner[s]} = heard[x] \ {Owner[s]}
        /\ Owner[s] \in Members(url)' \ heard'[x] => WillAnnounce(s, url)'
        /\ Owner[s] \in heard'[x] \ Members(url)' => Lingers(s, url)'
    BY <1>4, <2>1 DEF TellsOthers
  <2>3. ASSUME NEW v \in Members(url)' \ heard'[x]
        PROVE  \E r \in Sockets : Owner[r] = v /\ WillAnnounce(r, url)'
    <3>1. CASE v = Owner[s]
      BY <2>2, <3>1
    <3>2. CASE v # Owner[s]
      <4>1. v \in Members(url) \ heard[x]
        BY <1>2, <2>2, <2>3, <3>2
      <4>2. PICK r \in Sockets : Owner[r] = v /\ WillAnnounce(r, url)
        BY <1>3, <2>1, <4>1 DEF Told
      <4> QED
        BY <1>1, <3>2, <4>2
    <3> QED
      BY <3>1, <3>2
  <2>4. ASSUME NEW v \in heard'[x] \ Members(url)'
        PROVE  \E r \in Sockets : Owner[r] = v /\ Lingers(r, url)'
    <3>1. CASE v = Owner[s]
      BY <2>2, <2>4, <3>1
    <3>2. CASE v # Owner[s]
      <4>1. v \in heard[x] \ Members(url)
        BY <1>2, <2>2, <2>4, <3>2
      <4>2. PICK r \in Sockets : Owner[r] = v /\ Lingers(r, url)
        BY <1>3, <2>1, <4>1 DEF Told
      <4> QED
        BY <1>1, <3>2, <4>2
    <3> QED
      BY <3>1, <3>2
  <2> QED
    BY <2>3, <2>4 DEF Told
<1>5. CASE x = s /\ heard'[s] = Members(url)'
  BY <1>5 DEF Told
<1>6. CASE x = s /\ OnRoster(s, url) /\ heard'[s] = heard[s] /\ Members(url)' = Members(url)
  <2>1. Told(s, url)
    BY <1>3, <1>6
  <2>2. ~WillAnnounce(s, url) /\ Owner[s] \in Members(url)
    BY <1>6 DEF WillAnnounce, OnRoster
  <2>3. ASSUME NEW v \in Members(url) \ heard[s]
        PROVE  \E r \in Sockets : Owner[r] = v /\ WillAnnounce(r, url)'
    <3>1. PICK r \in Sockets : Owner[r] = v /\ WillAnnounce(r, url)
      BY <2>1 DEF Told
    <3> QED
      BY <1>1, <2>2, <3>1
  <2>4. ASSUME NEW v \in heard[s] \ Members(url)
        PROVE  \E r \in Sockets : Owner[r] = v /\ Lingers(r, url)'
    <3>1. PICK r \in Sockets : Owner[r] = v /\ Lingers(r, url)
      BY <2>1 DEF Told
    <3> QED
      BY <1>1, <2>2, <2>4, <3>1
  <2> QED
    BY <1>6, <2>3, <2>4 DEF Told
<1> QED
  BY <1>4, <1>5, <1>6 DEF TellsOwn

LEMMA StepRostered ==
    ASSUME Exact, NEW t \in Tasks, NEW s \in Sockets, Moves(t, s), TellsOthers(s), TellsOwn(s),
           Located(s)', HoldsLive(t)',
           tasks'[t].pc \in {"roomLeft", "joining"} =>
             tasks'[t].sess = urlSessions'[tasks'[t].url]
    PROVE  Rostered'
BY StepMicro, StepLocated, StepHolds, StepTold DEF Rostered

-----------------------------------------------------------------------------
(* What the steps have in common *)

\* With orderly clients a socket has one handler.
LEMMA OnlyHandler ==
    ASSUME Exact, NEW t \in Tasks, NEW y \in Tasks, y # t, tasks[t].sock \in Sockets
    PROVE  tasks[y].sock # tasks[t].sock
<1> SUFFICES ASSUME tasks[y].sock = tasks[t].sock PROVE FALSE
  OBVIOUS
<1>1. PICK s \in Sockets : s = tasks[t].sock
  OBVIOUS
<1>2. /\ ~(tasks[t].pc = "dropping" <=> tasks[y].pc = "dropping")
      /\ Joins(tasks[t]) /\ Joins(tasks[y])
  BY <1>1, NoneDistinct, ExactIsOrderly DEF OneMessage, Paired, Alone
<1>3. s \notin connected
  BY <1>1, <1>2 DEF Joins, JoinsOnly
<1>4. Known(s)
  BY ExactIsOrderly DEF DropsIdle, Forgotten
<1> QED
  BY <1>1, <1>2, <1>3, <1>4 DEF Known

\* A user in the session of a page is there by the user's connection.
LEMMA MemberIsPresent ==
    ASSUME Exact, NEW s \in Sockets, NEW url \in Urls, Owner[s] \in Members(url)
    PROVE  Present(s, url)
<1>1. PICK r \in Sockets : Owner[r] = Owner[s] /\ Present(r, url)
  BY ExactIsOrderly DEF Orderly, Attendance, Members
<1> QED
  BY <1>1 DEF Exact, OneConnectionEach

\* Those on a page were told of s, or will be, or it is there to be taken back.
LEMMA ToldOf ==
    ASSUME Exact, NEW x \in Sockets, NEW url \in Urls, NEW s \in Sockets, OnRoster(x, url)
    PROVE  /\ Owner[s] \in Members(url) \ heard[x] => WillAnnounce(s, url)
           /\ Owner[s] \in heard[x] \ Members(url) => Lingers(s, url)
<1>1. Told(x, url)
  BY DEF Exact, ToldAll
<1> QED
  BY <1>1 DEF Told, Exact, OneConnectionEach

\* A handler that goes on moves, if it lets the sessions be but for its user.
LEMMA HandlerMoves ==
    ASSUME Exact, NEW t \in Tasks, NEW s \in Sockets, tasks[t].sock = s,
           NEW pc \in MicroWaits \cup MacroWaits, At(t, pc), Touches(t, s),
           \A x \in Sockets \ {s}, url \in Urls : x \in rooms[url] => x \in rooms'[url],
           \A url \in Urls : Members(url)' # {} =>
             /\ urlSessions'[url] = urlSessions[url]
             /\ Members(url)' \ {Owner[s]} = Members(url) \ {Owner[s]}
    PROVE  Moves(t, s)
<1>1. \A y \in Tasks \ {t} : tasks[y].sock # s
  BY OnlyHandler
<1>2. \A y \in Tasks \ {t} : tasks[y].pc \notin MicroWaits
  BY DEF At, Drained, Exact, MicroAlone
<1> QED
  BY <1>1, <1>2 DEF Moves

\* A message of an idle socket, a new connection, a disconnection.
LEMMA EventMoves ==
    ASSUME Exact, NEW t \in Tasks, NEW s \in Sockets, ~Busy(s), Drained \/ OwnTurn(s),
           Touches(t, s),
           \A x \in Sockets \ {s}, url \in Urls : x \in rooms[url] => x \in rooms'[url],
           \A url \in Urls : Members(url)' # {} =>
             /\ urlSessions'[url] = urlSessions[url]
             /\ Members(url)' \ {Owner[s]} = Members(url) \ {Owner[s]}
    PROVE  Moves(t, s)
<1>1. \A y \in Tasks \ {t} : tasks[y].sock # s /\ tasks[y].pc \notin MicroWaits
  BY DEF Busy, Drained, OwnTurn
<1> QED
  BY <1>1 DEF Moves

\* A step that tells nobody anything has nothing to tell.
LEMMA NothingToTell ==
    ASSUME Exact, NEW t \in Tasks, NEW s \in Sockets, UNCHANGED heard,
           \A url \in Urls : Members(url)' # {} => Members(url)' = Members(url),
           \A url \in Urls : /\ WillAnnounce(s, url) => WillAnnounce(s, url)'
                             /\ Lingers(s, url) => Lingers(s, url)'
                             /\ OnRoster(s, url)' => OnRoster(s, url)
    PROVE  TellsOthers(s) /\ TellsOwn(s)
<1>1. ASSUME NEW x \in Sockets \ {s}, NEW url \in Urls, OnRoster(x, url), OnRoster(x, url)'
      PROVE  /\ Owner[s] \in Members(url)' \ heard'[x] => WillAnnounce(s, url)'
             /\ Owner[s] \in heard'[x] \ Members(url)' => Lingers(s, url)'
  <2>1. Members(url)' = Members(url)
    BY <1>1 DEF OnRoster
  <2>2. /\ Owner[s] \in Members(url) \ heard[x] => WillAnnounce(s, url)
        /\ Owner[s] \in heard[x] \ Members(url) => Lingers(s, url)
    BY <1>1, ToldOf
  <2> QED
    BY <2>1, <2>2
<1>2. TellsOthers(s)
  BY <1>1 DEF TellsOthers
<1>3. TellsOwn(s)
  <2> SUFFICES ASSUME NEW url \in Urls, OnRoster(s, url)'
               PROVE  OnRoster(s, url) /\ Members(url)' = Members(url)
    BY DEF TellsOwn
  <2> QED
    BY DEF OnRoster
<1> QED
  BY <1>2, <1>3

-----------------------------------------------------------------------------
(* Connecting and disconnecting *)

LEMMA ConnectRostered ==
    ASSUME Exact, UNCHANGED liberties, NEW t \in Tasks, NEW s \in Sockets, Connect(t, s)
    PROVE  Rostered'
<1>1. tasks'[t].sock = s /\ tasks'[t].pc = "connecting" /\ Touches(t, s)
  BY ConnectTouches, ExactIsOrderly
<1>2. /\ UNCHANGED <<rooms, heard, urlSessions, session, socketUrlMap>>
      /\ ~Busy(s) /\ Drained /\ s \notin connected
      /\ socketUrlMap[s] = None /\ \A url \in Urls : s \notin rooms[url]
  BY DEF Connect, Fresh, sessionVars, socketVars
<1>3. \A url \in Urls : Members(url)' = Members(url)
  BY <1>2 DEF Members
<1>4. Moves(t, s)
  BY <1>1, <1>2, <1>3, EventMoves
<1>5. \A y \in Tasks : tasks'[y].sock = s => y = t
  BY <1>1, <1>4 DEF Moves, Touches, Exact, Settling, Typed, TypeOK
<1>6. \A url \in Urls : ~WillAnnounce(s, url) /\ ~Lingers(s, url) /\ ~OnRoster(s, url)'
  BY <1>1, <1>2, NoneDistinct DEF WillAnnounce, Busy, Lingers, OnRoster
<1>7. TellsOthers(s) /\ TellsOwn(s)
  BY <1>2, <1>3, <1>6, NothingToTell
<1>8. Located(s)'
  BY <1>1, <1>2, <1>5 DEF Located
<1>9. HoldsLive(t)'
  BY <1>1 DEF HoldsLive
<1> QED
  BY <1>1, <1>4, <1>7, <1>8, <1>9, StepRostered

LEMMA EndRostered ==
    ASSUME Exact, UNCHANGED liberties, NEW t \in Tasks,
           Authenticated(t) \/ Rejected(t) \/ DropDone(t)
    PROVE  Rostered'
<1>1. PICK s \in Sockets :
        /\ s = tasks[t].sock /\ Touches(t, s) /\ tasks'[t] = Idle
        /\ tasks[t].pc = IF DropDone(t) THEN "dropping" ELSE "connecting"
  BY EndTouches, ExactIsOrderly
<1>2. /\ At(t, tasks[t].pc) /\ tasks[t].pc \in {"connecting", "dropping"}
      /\ UNCHANGED <<rooms, heard, urlSessions, session>>
  BY <1>1 DEF Authenticated, Rejected, DropDone, At, sessionVars, wireVars
<1>3. \A url \in Urls : Members(url)' = Members(url)
  BY <1>2 DEF Members
<1>4. Moves(t, s)
  BY <1>1, <1>2, <1>3, HandlerMoves DEF MacroWaits
<1>5. Idle.sock = None /\ Idle.pc = "idle"
  BY DEF Idle
<1>6. \A y \in Tasks : tasks'[y].sock # s
  BY <1>1, <1>4, <1>5, NoneDistinct DEF Moves, Touches, Exact, Settling, Typed, TypeOK
<1>7. Known(s)
  BY ExactIsOrderly DEF DropsIdle, Forgotten
<1>8. socketUrlMap'[s] = None /\ \A url \in Urls : s \notin rooms'[url]
  <2>1. CASE Authenticated(t)
    <3>1. socketUrlMap[s] = None /\ \A url \in Urls : s \notin rooms[url]
      BY <1>1, <1>7, <2>1 DEF Known, NoPage, NoTrace, Authenticated, At
    <3> QED
      BY <1>2, <2>1, <3>1 DEF Authenticated, socketVars
  <2>2. CASE Rejected(t)
    <3>1. \A url \in Urls : s \notin rooms[url]
      BY <1>1, <1>7, <2>2 DEF Known, NoTrace, Rejected, At
    <3> QED
      BY <1>1, <1>2, <2>2, <3>1 DEF Rejected, forgetPage, Exact, Settling, Typed, TypeOK
  <2>3. CASE DropDone(t)
    <3>1. s \notin connected
      BY <1>1, <2>3, ExactIsOrderly DEF OneMessage, Paired, Joins, JoinsOnly
    <3>2. \A url \in Urls : s \notin rooms[url]
      BY <1>7, <3>1 DEF Known, NoTrace
    <3> QED
      BY <1>1, <1>2, <2>3, <3>2 DEF DropDone, forgetPage, Exact, Settling, Typed, TypeOK
  <2> QED
    BY <2>1, <2>2, <2>3
<1>9. \A url \in Urls : ~WillAnnounce(s, url) /\ ~Lingers(s, url) /\ ~OnRoster(s, url)'
  <2>1. ASSUME NEW url \in Urls PROVE ~WillAnnounce(s, url)
    BY <1>1, <1>2, <1>4 DEF WillAnnounce, Moves
  <2>2. ASSUME NEW url \in Urls PROVE ~Lingers(s, url)
    BY <1>1, <1>2 DEF Lingers, JoinWaits
  <2>3. ASSUME NEW url \in Urls PROVE ~OnRoster(s, url)'
    BY <1>8, NoneDistinct DEF OnRoster
  <2> QED
    BY <2>1, <2>2, <2>3
<1>10. TellsOthers(s) /\ TellsOwn(s)
  BY <1>2, <1>3, <1>9, NothingToTell
<1>11. Located(s)' /\ HoldsLive(t)'
  BY <1>1, <1>5, <1>6, <1>8 DEF Located, HoldsLive
<1> QED
  BY <1>1, <1>4, <1>5, <1>10, <1>11, StepRostered

\* Who is on a page hears what is sent to its room.
LEMMA InTheRoom ==
    ASSUME Exact, NEW x \in Sockets, NEW url \in Urls, OnRoster(x, url)
    PROVE  x \in rooms[url] /\ x \in connected
BY NoneDistinct DEF Exact, Located, OnRoster

\* A user taken out of a session is missed in no other.
LEMMA WithoutMembers ==
    ASSUME Exact, NEW url \in Urls, NEW u, NEW i, urlSessions[url] # None,
           session' = WithoutUser(i, u)
    PROVE  session'[urlSessions[url]].users =
             IF urlSessions[url] = i THEN Members(url) \ {u} ELSE Members(url)
<1>1. urlSessions[url] \in SessionIds /\ session \in [SessionIds -> SessionObject]
  BY DEF Exact, Settling, Typed, TypeOK
<1> QED
  BY <1>1 DEF WithoutUser, Members, SessionObject

LEMMA DisconnectRostered ==
    ASSUME Exact, UNCHANGED liberties, NEW t \in Tasks, NEW s \in Sockets, Disconnect(t, s)
    PROVE  Rostered'
<1> DEFINE u    == socketUserMap[s]
           page == socketUrlMap[s]
           sess == IF page = None THEN None ELSE urlSessions[page]
<1>1. /\ \/ tasks'[t].sock = s /\ tasks'[t].pc = "dropping"
         \/ tasks'[t] = Idle
      /\ Touches(t, s)
  BY DisconnectTouches, ExactIsOrderly
<1>2. /\ Drained /\ ~Busy(s) /\ s \in connected /\ connected' = connected \ {s}
      /\ rooms' = [r \in Urls |-> rooms[r] \ {s}]
  BY DEF Disconnect, Exact
<1>3. /\ u \in {None, Owner[s]} /\ (page # None => u = Owner[s])
      /\ page # None => page \in Urls
      /\ heard \in [Sockets -> SUBSET Users]
  BY <1>2 DEF Exact, Settling, Typed, TypeOK, Attended, Signed
<1>4. /\ heard' = [(IF u = None \/ sess = None THEN heard ELSE HearLeft(s, page, u))
                     EXCEPT ![s] = {}]
      /\ IF u = None \/ sess = None THEN UNCHANGED <<urlSessions, session>>
         ELSE /\ session' = WithoutUser(sess, u)
              /\ IF session'[sess].users = {} THEN urlSessions' = [urlSessions EXCEPT ![page] = None]
                 ELSE UNCHANGED urlSessions
  BY DEF Disconnect, sessionVars, cleanupEmptySession
<1>5. ASSUME NEW x \in Sockets \ {s}
      PROVE  /\ heard'[x] \ {Owner[s]} = heard[x] \ {Owner[s]}
             /\ heard'[x] \subseteq heard[x]
             /\ u # None /\ sess # None /\ x \in rooms[page] /\ x \in connected
                  => Owner[s] \notin heard'[x]
  BY <1>3, <1>4 DEF HearLeft
<1> HIDE DEF u, sess
<1>6. ASSUME NEW url \in Urls, Members(url)' # {}
      PROVE  /\ urlSessions'[url] = urlSessions[url]
             /\ Members(url)' \ {Owner[s]} = Members(url) \ {Owner[s]}
             /\ Members(url)' \subseteq Members(url)
             /\ u # None /\ sess # None /\ url = page => Owner[s] \notin Members(url)'
  <2>1. CASE u = None \/ sess = None
    BY <1>4, <2>1 DEF Members
  <2>2. CASE u # None /\ sess # None
    <3>1. urlSessions'[url] = urlSessions[url] /\ urlSessions[url] # None
      BY <1>3, <1>4, <1>6, <2>2 DEF Members, sess, Exact, Settling, Typed, TypeOK
    <3>2. Members(url)' = IF urlSessions[url] = sess THEN Members(url) \ {u} ELSE Members(url)
      BY <1>4, <2>2, <3>1, WithoutMembers DEF Members
    <3>3. url = page => urlSessions[url] = sess
      BY <1>3, NoneDistinct DEF sess
    <3> QED
      BY <1>3, <2>2, <3>1, <3>2, <3>3
  <2> QED
    BY <2>1, <2>2
<1>7. Moves(t, s)
  BY <1>1, <1>2, <1>6, EventMoves
<1>8. \A url \in Urls : Owner[s] \in Members(url) => url = page /\ u # None /\ sess # None
  <2> SUFFICES ASSUME NEW url \in Urls, Owner[s] \in Members(url)
               PROVE  url = page /\ u # None /\ sess # None
    OBVIOUS
  <2>1. Present(s, url)
    BY MemberIsPresent
  <2> QED
    BY <1>3, <2>1, OwnerTyped, NoneDistinct DEF Present, Members, sess
<1>9. TellsOthers(s)
  <2> SUFFICES ASSUME NEW x \in Sockets \ {s}, NEW url \in Urls,
                      OnRoster(x, url), OnRoster(x, url)'
               PROVE  /\ heard'[x] \ {Owner[s]} = heard[x] \ {Owner[s]}
                      /\ Owner[s] \notin Members(url)' /\ Owner[s] \notin heard'[x]
    BY DEF TellsOthers
  <2>1. Members(url)' # {} /\ Members(url) # {} /\ x \in rooms[url] /\ x \in connected
    BY InTheRoom DEF OnRoster
  <2>2. Owner[s] \notin Members(url)'
    BY <1>6, <1>8, <2>1
  <2>3. Owner[s] \notin heard'[x]
    <3>1. CASE Owner[s] \in Members(url)
      BY <1>5, <1>8, <2>1, <3>1
    <3>2. CASE Owner[s] \notin heard[x]
      BY <1>5, <3>2
    <3>3. CASE Owner[s] \in heard[x] \ Members(url)
      <4>1. page = url
        BY <3>3, ToldOf DEF Lingers
      <4>2. u # None /\ sess # None
        BY <1>3, <2>1, <4>1, OwnerTyped, NoneDistinct DEF Members, sess
      <4> QED
        BY <1>5, <2>1, <4>1, <4>2
    <3> QED
      BY <3>1, <3>2, <3>3
  <2> QED
    BY <1>5, <2>2, <2>3
<1>10. TellsOwn(s)
  BY <1>2 DEF TellsOwn, OnRoster
<1>11. tasks'[t].pc \in {"dropping", "idle"}
  BY <1>1 DEF Idle
<1>12. Located(s)'
  <2>1. \A y \in Tasks : tasks'[y].sock = s => tasks'[y].pc = "dropping"
    BY <1>1, <1>7, NoneDistinct DEF Moves, Touches, Idle, Exact, Settling, Typed, TypeOK
  <2>2. s \notin connected' /\ \A url \in Urls : s \notin rooms'[url]
    BY <1>2
  <2> QED
    BY <2>1, <2>2 DEF Located
<1>13. HoldsLive(t)'
  BY <1>11 DEF HoldsLive
<1> QED
  BY <1>7, <1>9, <1>10, <1>11, <1>12, <1>13, StepRostered

-----------------------------------------------------------------------------
(* The messages page:join and page:leave *)

LEMMA BeginLeaveRostered ==
    ASSUME Exact, UNCHANGED liberties, NEW t \in Tasks, NEW s \in Sockets, Touches(t, s),
           s \in connected, ~Busy(s), OwnTurn(s),
           NEW page \in Urls, page = socketUrlMap[s], NEW goal, BeginLeave(t, s, page, goal)
    PROVE  Rostered'
<1> DEFINE sess == urlSessions[page]
<1>1. /\ session' = IF sess = None THEN session ELSE WithoutUser(sess, socketUserMap[s])
      /\ rooms' = [rooms EXCEPT ![page] = @ \ {s}]
      /\ UNCHANGED <<connected, heard, socketUrlMap, urlSessions>>
  BY DEF BeginLeave, socketVars
<1>2. PICK pid : tasks' = [tasks EXCEPT ![t] = Task("roomLeft", s, page, sess, pid, goal)]
  BY DEF BeginLeave
<1>3. /\ tasks'[t].pc = "roomLeft" /\ tasks'[t].sock = s /\ tasks'[t].url = page
      /\ tasks'[t].sess = sess
  BY <1>2 DEF Task, Exact, Settling, Typed, TypeOK
<1>4. socketUserMap[s] = Owner[s]
  BY NoneDistinct DEF Exact, Settling, Attended, Signed
<1>5. ASSUME NEW url \in Urls
      PROVE  /\ Members(url)' \ {Owner[s]} = Members(url) \ {Owner[s]}
             /\ Members(url)' \subseteq Members(url)
             /\ Owner[s] \notin Members(url)'
  <2>1. CASE urlSessions[url] = None
    BY <1>1, <2>1 DEF Members
  <2>2. CASE urlSessions[url] # None
    <3>1. Members(url)' = session'[urlSessions[url]].users
      BY <1>1, <2>2 DEF Members
    <3>2. CASE sess = None
      <4>1. Members(url)' = Members(url)
        BY <1>1, <2>2, <3>2 DEF Members
      <4>2. Owner[s] \notin Members(url)
        BY <2>2, <3>2, MemberIsPresent DEF Present
      <4> QED
        BY <4>1, <4>2
    <3>3. CASE sess # None
      <4>1. Members(url)' = IF urlSessions[url] = sess THEN Members(url) \ {Owner[s]}
                            ELSE Members(url)
        BY <1>1, <1>4, <2>2, <3>1, <3>3, WithoutMembers
      <4>2. Owner[s] \in Members(url) => url = page
        BY MemberIsPresent DEF Present
      <4> QED
        BY <4>1, <4>2
    <3> QED
      BY <3>2, <3>3
  <2> QED
    BY <2>1, <2>2
<1>6. Moves(t, s)
  BY <1>1, <1>5, EventMoves DEF Exact, Settling, Typed, TypeOK
<1>7. \A y \in Tasks : tasks'[y].sock = s => y = t
  BY <1>6 DEF Moves, Touches, Exact, Settling, Typed, TypeOK
<1>8. Lingers(s, page)'
  BY <1>1, <1>3, <1>7 DEF Lingers
<1>9. TellsOthers(s)
  <2> SUFFICES ASSUME NEW x \in Sockets \ {s}, NEW url \in Urls,
                      OnRoster(x, url), Owner[s] \in heard[x]
               PROVE  Lingers(s, url)'
    BY <1>1, <1>5 DEF TellsOthers
  <2>1. CASE Owner[s] \in Members(url)
    BY <1>8, <2>1, MemberIsPresent DEF Present
  <2>2. CASE Owner[s] \notin Members(url)
    <3>1. socketUrlMap[s] = url
      BY <2>2, ToldOf DEF Lingers
    <3> QED
      BY <1>8, <3>1
  <2> QED
    BY <2>1, <2>2
<1>10. TellsOwn(s)
  BY <1>3 DEF TellsOwn, OnRoster
<1>11. Located(s)'
  <2>1. \A url \in Urls : s \notin rooms'[url]
    <3> SUFFICES ASSUME NEW url \in Urls, s \in rooms'[url] PROVE FALSE
      OBVIOUS
    <3>1. s \in rooms[url] /\ url # page
      BY <1>1 DEF Exact, Settling, Typed, TypeOK
    <3>2. \A y \in Tasks : tasks[y].sock # s
      BY DEF Busy
    <3> QED
      BY <3>1, <3>2 DEF Exact, Located
  <2> QED
    BY <1>1, <1>3, <1>7, <2>1 DEF Located
<1>12. HoldsLive(t)'
  BY <1>3 DEF HoldsLive
<1> HIDE DEF sess
<1>13. tasks'[t].sess = urlSessions'[tasks'[t].url]
  BY <1>1, <1>3 DEF sess
<1> QED
  BY <1>6, <1>9, <1>10, <1>11, <1>12, <1>13, StepRostered

LEMMA PageMessageRostered ==
    ASSUME Exact, UNCHANGED liberties, NEW t \in Tasks, NEW s \in Sockets,
           NEW link \in Links, PageJoin(t, s, link) \/ PageLeave(t, s, link)
    PROVE  Rostered'
<1>1. /\ Touches(t, s) /\ tasks'[t].sock = s /\ s \in connected /\ OwnTurn(s)
  BY PageMessageTouches, ExactIsOrderly DEF Receives
<1>2. ~Busy(s)
  BY DEF PageJoin, PageLeave, Begins, Exact
<1>3. ASSUME NEW url \in Urls, NEW goal, url = socketUrlMap[s], BeginLeave(t, s, url, goal)
      PROVE  Rostered'
  BY <1>1, <1>2, <1>3, BeginLeaveRostered
<1>4. CASE PageLeave(t, s, link)
  <2>1. normalizeUrl[link] = socketUrlMap[s] /\ normalizeUrl[link] \in Urls
    BY <1>4, LinkTyped DEF PageLeave, Exact
  <2> QED
    BY <1>3, <1>4, <2>1 DEF PageLeave
<1>5. CASE PageJoin(t, s, link) /\ socketUrlMap[s] # None /\ socketUrlMap[s] # normalizeUrl[link]
  <2>1. socketUrlMap[s] \in Urls
    BY <1>5 DEF Exact, Settling, Typed, TypeOK
  <2>2. normalizeUrl[socketUrlMap[s]] = socketUrlMap[s]
    BY <2>1, NormalizeIdempotent
  <2>3. BeginLeave(t, s, socketUrlMap[s], normalizeUrl[link])
    BY <1>5, <2>2 DEF PageJoin
  <2> QED
    BY <1>3, <2>1, <2>3
<1>6. CASE PageJoin(t, s, link) /\ socketUrlMap[s] \in {None, normalizeUrl[link]}
  <2>1. /\ UNCHANGED <<urlSessions, session, rooms, connected, heard, socketUrlMap>>
        /\ tasks' = [tasks EXCEPT ![t] =
                       Task("entering", s, normalizeUrl[link], None, None, None)]
    BY <1>6 DEF PageJoin, sessionVars, wireVars, socketVars
  <2>2. tasks'[t].pc = "entering"
    BY <2>1 DEF Task, Exact, Settling, Typed, TypeOK
  <2>3. \A url \in Urls : Members(url)' = Members(url)
    BY <2>1 DEF Members
  <2>4. Moves(t, s)
    BY <1>1, <1>2, <2>1, <2>3, EventMoves
  <2>5. /\ \A y \in Tasks : tasks[y].sock # s
        /\ \A y \in Tasks : tasks'[y].sock = s => y = t
    BY <1>2, <2>4 DEF Busy, Moves, Touches, Exact, Settling, Typed, TypeOK
  <2>6. \A url \in Urls : /\ WillAnnounce(s, url) => WillAnnounce(s, url)'
                          /\ Lingers(s, url) => Lingers(s, url)'
                          /\ OnRoster(s, url)' => OnRoster(s, url)
    BY <2>1, <2>2, <2>3, <2>5 DEF WillAnnounce, Lingers, OnRoster, JoinWaits
  <2>7. TellsOthers(s) /\ TellsOwn(s)
    BY <2>1, <2>3, <2>6, NothingToTell
  <2>8. Located(s)' /\ HoldsLive(t)'
    <3>1. Located(s)
      BY DEF Exact
    <3> QED
      BY <2>1, <2>2, <2>5, <3>1 DEF Located, HoldsLive
  <2> QED
    BY <2>2, <2>4, <2>7, <2>8, StepRostered
<1> QED
  BY <1>4, <1>5, <1>6

-----------------------------------------------------------------------------
(* The handlers after their first await *)

LEMMA WorkerOf ==
    ASSUME Exact, UNCHANGED liberties, NEW t \in Tasks, Works(t)
    PROVE  /\ tasks[t].sock \in Sockets /\ tasks[t].sock \in connected
           /\ UNCHANGED connected
           /\ socketUserMap[tasks[t].sock] = Owner[tasks[t].sock]
           /\ Touches(t, tasks[t].sock)
           /\ \A y \in Tasks \ {t} : tasks[y].sock # tasks[t].sock /\ tasks'[y] = tasks[y]
           /\ tasks[t] \in TaskRecord /\ Shaped(tasks[t])
<1>1. Orderly /\ Typed
  BY ExactIsOrderly
<1>2. PICK s \in Sockets : s = tasks[t].sock
  BY <1>1, WorkingTouches
<1>3. /\ socketUserMap[s] = Owner[s] /\ s \in connected
      /\ \A y \in Tasks \ {t} : tasks[y].sock # s /\ tasks'[y] = tasks[y]
  BY <1>1, <1>2, WorkingSigned
<1> QED
  BY <1>1, <1>2, <1>3, WorkingTouches DEF Typed, TypeOK, TaskShapes

\* While its user is being taken off the page, s is in no session.
LEMMA LeaverIsAbsent ==
    ASSUME Exact, NEW t \in Tasks, tasks[t].sock \in Sockets,
           tasks[t].pc \in {"roomLeft", "leaving"}
    PROVE  \A url \in Urls : Owner[tasks[t].sock] \notin Members(url)
<1> SUFFICES ASSUME NEW url \in Urls, Owner[tasks[t].sock] \in Members(url) PROVE FALSE
  OBVIOUS
<1>1. PICK s \in Sockets : s = tasks[t].sock
  OBVIOUS
<1>2. Present(s, url)
  BY <1>1, MemberIsPresent
<1> QED
  BY <1>1, <1>2 DEF Present, JoinWaits

\* What the tail of a departure leaves.
LEMMA LeaveTailLeaves ==
    ASSUME Exact, UNCHANGED liberties, NEW t \in Tasks, NEW s \in Sockets, s = tasks[t].sock,
           Works(t), tasks[t].pc \in {"roomLeft", "leaving"}, LeaveTail(t)
    PROVE  /\ \A url \in Urls : Members(url)' # {} =>
                Members(url)' = Members(url) /\ urlSessions'[url] = urlSessions[url]
           /\ \A url \in Urls : ~OnRoster(s, url)'
           /\ Located(s)' /\ HoldsLive(t)'
           /\ tasks'[t].pc \notin {"roomLeft", "joining"}
<1>1. /\ UNCHANGED <<session, connected, rooms>>
      /\ \A url \in Urls : urlSessions'[url] \in {urlSessions[url], None}
  BY DEF LeaveTail, cleanupEmptySession, Exact, Settling, Typed, TypeOK
<1>2. socketUrlMap'[s] = None
  BY DEF LeaveTail, forgetPage, Exact, Settling, Typed, TypeOK
<1>3. tasks'[t].pc \in {"idle", "entering"}
  BY DEF LeaveTail, Idle, Task, Exact, Settling, Typed, TypeOK
<1>4. \A url \in Urls : Members(url)' # {} =>
        Members(url)' = Members(url) /\ urlSessions'[url] = urlSessions[url]
  BY <1>1 DEF Members
<1>5. \A url \in Urls : ~OnRoster(s, url)'
  BY <1>2, NoneDistinct DEF OnRoster
<1>6. \A y \in Tasks : tasks'[y].sock = s => y = t
  BY WorkerOf
<1>7. \A url \in Urls : s \notin rooms'[url]
  BY <1>1 DEF Exact, Located
<1>8. Located(s)'
  BY <1>2, <1>3, <1>6, <1>7 DEF Located
<1> QED
  BY <1>3, <1>4, <1>5, <1>8 DEF HoldsLive

LEMMA LeaveProjectDoneRostered ==
    ASSUME Exact, UNCHANGED liberties, NEW t \in Tasks, LeaveProjectDone(t)
    PROVE  Rostered'
<1>1. PICK s \in Sockets : s = tasks[t].sock /\ Touches(t, s) /\ Works(t)
  BY WorkerOf DEF Works
<1>2. tasks[t].pc = "leaving" /\ At(t, "leaving") /\ UNCHANGED <<heard, rooms>>
  BY DEF LeaveProjectDone, LeaveTail, At
<1>3. /\ \A url \in Urls : Members(url)' # {} =>
           Members(url)' = Members(url) /\ urlSessions'[url] = urlSessions[url]
      /\ \A url \in Urls : ~OnRoster(s, url)'
      /\ Located(s)' /\ HoldsLive(t)'
      /\ tasks'[t].pc \notin {"roomLeft", "joining"}
  BY <1>1, <1>2, LeaveTailLeaves DEF LeaveProjectDone
<1>4. Moves(t, s)
  BY <1>1, <1>2, <1>3, HandlerMoves DEF MacroWaits
<1>5. \A url \in Urls : ~WillAnnounce(s, url) /\ ~Lingers(s, url)
  BY <1>1, <1>2, WorkerOf DEF WillAnnounce, Lingers, JoinWaits
<1>6. TellsOthers(s) /\ TellsOwn(s)
  BY <1>2, <1>3, <1>5, NothingToTell
<1> QED
  BY <1>3, <1>4, <1>6, StepRostered

LEMMA LeaveAnnounceRostered ==
    ASSUME Exact, UNCHANGED liberties, NEW t \in Tasks, LeaveAnnounce(t)
    PROVE  Rostered'
<1> DEFINE k == tasks[t]
<1>1. PICK s \in Sockets : s = k.sock /\ Touches(t, s) /\ Works(t)
  BY WorkerOf DEF Works
<1>2. /\ k.pc = "roomLeft" /\ At(t, "roomLeft") /\ UNCHANGED <<rooms, connected>>
      /\ heard' = IF k.sess = None THEN heard ELSE HearLeft(s, k.url, Owner[s])
  BY <1>1 DEF LeaveAnnounce, LeaveTail, At
<1>3. /\ k.sess = urlSessions[k.url] /\ k.url \in Urls /\ socketUrlMap[s] = k.url
      /\ \A url \in Urls : s \notin rooms[url]
      /\ \A y \in Tasks \ {t} : tasks[y].sock # s /\ tasks'[y] = tasks[y]
  BY <1>1, <1>2, WorkerOf DEF Exact, MicroAlone, Located, Shaped
<1>4. /\ \A url \in Urls : Members(url)' # {} =>
           Members(url)' = Members(url) /\ urlSessions'[url] = urlSessions[url]
      /\ \A url \in Urls : ~OnRoster(s, url)'
      /\ Located(s)' /\ HoldsLive(t)'
      /\ tasks'[t].pc \notin {"roomLeft", "joining"}
  <2>1. CASE k.pid = None
    BY <1>1, <1>2, <2>1, LeaveTailLeaves DEF LeaveAnnounce
  <2>2. CASE k.pid # None
    <3>1. /\ tasks' = [tasks EXCEPT ![t].pc = "leaving"]
          /\ UNCHANGED <<urlSessions, session, socketUrlMap>>
      BY <2>2 DEF LeaveAnnounce, sessionVars, socketVars
    <3>2. tasks'[t].pc = "leaving" /\ tasks'[t].sock = s /\ tasks'[t].url = k.url
      BY <1>1, <3>1, WorkerOf DEF TaskRecord, Exact, Settling, Typed, TypeOK
    <3>3. \A url \in Urls : Members(url)' = Members(url)
      BY <3>1 DEF Members
    <3>4. \A y \in Tasks : tasks'[y].sock = s => y = t
      BY <1>3
    <3>5. Located(s)'
      BY <1>2, <1>3, <3>1, <3>2, <3>4 DEF Located
    <3> QED
      BY <3>1, <3>2, <3>3, <3>5 DEF OnRoster, HoldsLive
  <2> QED
    BY <2>1, <2>2
<1>5. Moves(t, s)
  BY <1>1, <1>2, <1>4, HandlerMoves DEF MicroWaits
<1>6. \A url \in Urls : Owner[s] \notin Members(url)
  BY <1>1, <1>2, LeaverIsAbsent
<1>7. TellsOthers(s)
  <2> SUFFICES ASSUME NEW x \in Sockets \ {s}, NEW url \in Urls,
                      OnRoster(x, url), OnRoster(x, url)'
               PROVE  /\ heard'[x] \ {Owner[s]} = heard[x] \ {Owner[s]}
                      /\ Owner[s] \notin Members(url)' /\ Owner[s] \notin heard'[x]
    BY DEF TellsOthers
  <2>1. Members(url)' = Members(url) /\ Members(url) # {} /\ x \in rooms[url] /\ x \in connected
    BY <1>4, InTheRoom DEF OnRoster
  <2>2. heard'[x] \ {Owner[s]} = heard[x] \ {Owner[s]} /\ heard'[x] \subseteq heard[x]
    BY <1>2 DEF HearLeft, Exact, Settling, Typed, TypeOK
  <2>3. Owner[s] \notin heard'[x]
    <3>1. CASE Owner[s] \notin heard[x]
      BY <2>2, <3>1
    <3>2. CASE Owner[s] \in heard[x]
      <4>1. socketUrlMap[s] = url
        BY <1>6, <3>2, ToldOf DEF Lingers
      <4>2. k.url = url /\ k.sess # None
        BY <1>3, <2>1, <4>1 DEF Members
      <4> QED
        BY <1>2, <2>1, <4>2 DEF HearLeft
    <3> QED
      BY <3>1, <3>2
  <2> QED
    BY <1>6, <2>1, <2>2, <2>3
<1>8. TellsOwn(s)
  BY <1>4 DEF TellsOwn
<1> QED
  BY <1>4, <1>5, <1>7, <1>8, StepRostered

LEMMA EnterUnparsableRostered ==
    ASSUME Exact, UNCHANGED liberties, NEW t \in Tasks, EnterUnparsable(t)
    PROVE  Rostered'
<1>1. PICK s \in Sockets : s = tasks[t].sock /\ Touches(t, s) /\ s \in connected
  BY WorkerOf DEF Works
<1>2. /\ tasks[t].pc = "entering" /\ At(t, "entering")
      /\ UNCHANGED <<rooms, connected, heard, urlSessions, session, socketUrlMap>>
      /\ tasks'[t] = Idle
  BY DEF EnterUnparsable, At, wireVars, socketVars, sessionVars, Exact, Settling, Typed, TypeOK
<1>3. \A url \in Urls : Members(url)' = Members(url)
  BY <1>2 DEF Members
<1>4. Idle.sock = None /\ Idle.pc = "idle"
  BY DEF Idle
<1>5. Moves(t, s)
  BY <1>1, <1>2, <1>3, HandlerMoves DEF MicroWaits
<1>6. /\ \A y \in Tasks : tasks[y].sock = s => y = t
      /\ \A y \in Tasks : tasks'[y].sock # s
  BY <1>1, <1>2, <1>4, WorkerOf, NoneDistinct DEF Works
<1>7. \A url \in Urls : /\ ~WillAnnounce(s, url)
                        /\ Lingers(s, url) => Lingers(s, url)'
                        /\ OnRoster(s, url)' => OnRoster(s, url)
  BY <1>1, <1>2, <1>3, <1>6 DEF WillAnnounce, Lingers, OnRoster
<1>8. TellsOthers(s) /\ TellsOwn(s)
  BY <1>2, <1>3, <1>7, NothingToTell
<1>9. Located(s)' /\ HoldsLive(t)'
  <2>1. Located(s)
    BY DEF Exact
  <2> QED
    BY <1>1, <1>2, <1>4, <1>6, <2>1 DEF Located, HoldsLive
<1> QED
  BY <1>2, <1>4, <1>5, <1>8, <1>9, StepRostered

LEMMA EnterSessionRostered ==
    ASSUME Exact, UNCHANGED liberties, NEW t \in Tasks, EnterSession(t)
    PROVE  Rostered'
<1> DEFINE k == tasks[t]
<1>1. PICK s \in Sockets : s = k.sock /\ Touches(t, s) /\ s \in connected
  BY WorkerOf DEF Works
<1>2. /\ k.pc = "entering" /\ At(t, "entering") /\ k.url \in Urls
      /\ UNCHANGED <<connected, heard, socketUrlMap>>
      /\ rooms' = [rooms EXCEPT ![k.url] = @ \cup {s}]
  BY <1>1, WorkerOf DEF Works, EnterSession, At, socketVars, Shaped
<1>3. PICK i \in SessionIds :
        /\ IF urlSessions[k.url] = None
           THEN /\ i \notin Held
                /\ urlSessions' = [urlSessions EXCEPT ![k.url] = i]
                /\ session' = [session EXCEPT ![i] = NewSession(k.url, urlProjectMap[k.url])]
           ELSE i = urlSessions[k.url] /\ UNCHANGED <<urlSessions, session>>
        /\ tasks' = [tasks EXCEPT ![t] = Task("joining", s, k.url, i, None, None)]
  BY <1>1 DEF EnterSession
<1>4. /\ tasks'[t].pc = "joining" /\ tasks'[t].sock = s /\ tasks'[t].url = k.url
      /\ tasks'[t].sess = i
  BY <1>3 DEF Task, Exact, Settling, Typed, TypeOK
<1>5. urlSessions'[k.url] = i
  BY <1>2, <1>3 DEF Exact, Settling, Typed, TypeOK
<1>6. \A url \in Urls : Members(url)' # {} =>
        urlSessions'[url] = urlSessions[url] /\ Members(url)' = Members(url)
  <2>1. CASE urlSessions[k.url] # None
    BY <1>3, <2>1 DEF Members
  <2>2. CASE urlSessions[k.url] = None
    <3>1. ASSUME NEW url \in Urls, url = k.url PROVE Members(url)' = {}
      <4>1. session'[i].users = {}
        BY <1>3, <2>2 DEF NewSession, Exact, Settling, Typed, TypeOK
      <4> QED
        BY <1>5, <3>1, <4>1 DEF Members
    <3>2. ASSUME NEW url \in Urls \ {k.url}
          PROVE  urlSessions'[url] = urlSessions[url] /\ Members(url)' = Members(url)
      <4>1. urlSessions'[url] = urlSessions[url] /\ urlSessions[url] # i
        BY <1>3, <2>2 DEF Held, Exact, Settling, Typed, TypeOK
      <4>2. CASE urlSessions[url] = None
        BY <4>1, <4>2 DEF Members
      <4>3. CASE urlSessions[url] # None
        <5>1. urlSessions[url] \in SessionIds
          BY <4>3 DEF Exact, Settling, Typed, TypeOK
        <5>2. session'[urlSessions[url]] = session[urlSessions[url]]
          BY <1>3, <2>2, <4>1, <5>1 DEF Exact, Settling, Typed, TypeOK
        <5> QED
          BY <4>1, <5>2 DEF Members
      <4> QED
        BY <4>2, <4>3, <4>1
    <3> QED
      BY <3>1, <3>2
  <2> QED
    BY <2>1, <2>2
<1>7. \A url \in Urls : rooms[url] \subseteq rooms'[url]
  BY <1>2 DEF Exact, Settling, Typed, TypeOK
<1>8. Moves(t, s)
  BY <1>1, <1>2, <1>6, <1>7, HandlerMoves DEF MicroWaits
<1>9. /\ \A y \in Tasks : tasks[y].sock = s => y = t
      /\ \A y \in Tasks : tasks'[y].sock = s => y = t
  BY <1>1, WorkerOf DEF Works
<1>10. ASSUME NEW url \in Urls
       PROVE  /\ ~WillAnnounce(s, url)
              /\ Lingers(s, url) => Lingers(s, url)'
              /\ OnRoster(s, url)' => OnRoster(s, url)
  <2>1. ~WillAnnounce(s, url)
    BY <1>2, <1>9 DEF WillAnnounce
  <2>2. Lingers(s, url) => Lingers(s, url)'
    BY <1>2, <1>4, <1>9 DEF Lingers, JoinWaits
  <2>3. OnRoster(s, url)' => OnRoster(s, url)
    BY <1>2, <1>6, <1>9 DEF OnRoster
  <2> QED
    BY <2>1, <2>2, <2>3
<1>11. TellsOthers(s) /\ TellsOwn(s)
  BY <1>2, <1>6, <1>10, NothingToTell
<1>12. Located(s)'
  <2>1. Located(s)
    BY DEF Exact
  <2>2. ASSUME NEW url \in Urls, s \in rooms'[url]
        PROVE  socketUrlMap'[s] = url \/ url = k.url
    BY <1>1, <1>2, <1>9, <2>1, <2>2 DEF Located, Exact, Settling, Typed, TypeOK
  <2>3. s \in rooms'[k.url]
    BY <1>2 DEF Exact, Settling, Typed, TypeOK
  <2>4. socketUrlMap'[s] # None => s \in rooms'[socketUrlMap'[s]]
    <3>1. socketUrlMap[s] # None => socketUrlMap[s] \in Urls /\ s \in rooms[socketUrlMap[s]]
      BY <1>1, <1>2, <1>9, <2>1 DEF Located, Exact, Settling, Typed, TypeOK
    <3> QED
      BY <1>2, <1>7, <3>1
  <2> QED
    BY <1>4, <1>9, <2>2, <2>3, <2>4 DEF Located
<1>13. HoldsLive(t)'
  BY <1>4 DEF HoldsLive
<1> QED
  BY <1>4, <1>5, <1>8, <1>11, <1>12, <1>13, StepRostered

LEMMA JoinProjectRostered ==
    ASSUME Exact, UNCHANGED liberties, NEW t \in Tasks, JoinProject(t)
    PROVE  Rostered'
<1> DEFINE k == tasks[t]
<1>1. PICK s \in Sockets : s = k.sock /\ Touches(t, s) /\ s \in connected
  BY WorkerOf DEF Works
<1>2. /\ k.pc = "projecting" /\ At(t, "projecting")
      /\ UNCHANGED <<rooms, connected, heard, urlSessions, socketUrlMap>>
      /\ tasks' = [tasks EXCEPT ![t].pc = "loading"]
      /\ session' = [session EXCEPT ![k.sess].projectId = urlToProjectId[k.url]]
  BY DEF JoinProject, At, wireVars
<1>3. /\ tasks'[t].pc = "loading" /\ tasks'[t].sock = s /\ tasks'[t].url = k.url
      /\ tasks'[t].sess = k.sess
  BY <1>1, <1>2, WorkerOf DEF TaskRecord, Exact, Settling, Typed, TypeOK
<1>4. \A i \in SessionIds : session'[i].users = session[i].users
  BY <1>2 DEF Exact, Settling, Typed, TypeOK, SessionObject
<1>5. \A url \in Urls : Members(url)' = Members(url)
  BY <1>2, <1>4 DEF Members, Exact, Settling, Typed, TypeOK
<1>6. Moves(t, s)
  BY <1>1, <1>2, <1>5, HandlerMoves DEF MacroWaits
<1>7. /\ \A y \in Tasks : tasks[y].sock = s => y = t
      /\ \A y \in Tasks : tasks'[y].sock = s => y = t
  BY <1>1, WorkerOf DEF Works
<1>8. ASSUME NEW url \in Urls
      PROVE  /\ WillAnnounce(s, url) => WillAnnounce(s, url)'
             /\ Lingers(s, url) => Lingers(s, url)'
             /\ ~OnRoster(s, url)'
  BY <1>2, <1>3, <1>7 DEF WillAnnounce, Lingers, OnRoster, JoinWaits
<1>9. TellsOthers(s) /\ TellsOwn(s)
  BY <1>2, <1>5, <1>8, NothingToTell
<1>10. Located(s)'
  <2>1. Located(s)
    BY DEF Exact
  <2> QED
    BY <1>1, <1>2, <1>3, <1>7, <2>1 DEF Located
<1>11. HoldsLive(t)'
  <2>1. HoldsLive(t)
    BY DEF Exact
  <2> QED
    BY <1>1, <1>2, <1>3, <1>5, <2>1 DEF HoldsLive
<1> QED
  BY <1>3, <1>6, <1>9, <1>10, <1>11, StepRostered

\* The user enters the session the URL leads to, and nobody else's.
LEMMA RegisteredMembers ==
    ASSUME Exact, NEW page \in Urls, NEW u, urlSessions[page] # None, UNCHANGED urlSessions,
           session' = [session EXCEPT ![urlSessions[page]].users = @ \cup {u}],
           NEW url \in Urls
    PROVE  Members(url)' = IF url = page THEN Members(url) \cup {u} ELSE Members(url)
<1>1. /\ urlSessions[page] \in SessionIds
      /\ session \in [SessionIds -> SessionObject]
      /\ session[urlSessions[page]].url = page
      /\ urlSessions[url] # None => urlSessions[url] \in SessionIds
                                 /\ session[urlSessions[url]].url = url
  BY DEF Exact, Settling, Typed, TypeOK, Isolated, ProjectIsolation
<1>2. CASE url = page
  BY <1>1, <1>2 DEF Members, SessionObject
<1>3. CASE url # page
  BY <1>1, <1>3 DEF Members
<1> QED
  BY <1>2, <1>3

LEMMA JoinRegisterRostered ==
    ASSUME Exact, UNCHANGED liberties, NEW t \in Tasks, JoinRegister(t)
    PROVE  Rostered'
<1> DEFINE k == tasks[t]
<1>1. PICK s \in Sockets : s = k.sock /\ Touches(t, s) /\ s \in connected
  BY WorkerOf DEF Works
<1>2. /\ k.pc = "joining" /\ At(t, "joining") /\ k.sess \in SessionIds
      /\ k.sess = urlSessions[k.url]
  BY WorkerOf DEF Works, JoinRegister, At, Shaped, Exact, MicroAlone
<1>3. PICK page \in Urls : page = k.url
  BY <1>2, WorkerOf DEF Works, Shaped
<1>4. /\ UNCHANGED <<rooms, connected, heard, urlSessions>>
      /\ tasks' = [tasks EXCEPT ![t].pc = "projecting"]
      /\ socketUrlMap' = [socketUrlMap EXCEPT ![s] = page]
      /\ session' = [session EXCEPT ![urlSessions[page]].users = @ \cup {Owner[s]}]
  BY <1>1, <1>2, <1>3 DEF JoinRegister, wireVars
<1>5. /\ tasks'[t].pc = "projecting" /\ tasks'[t].sock = s /\ tasks'[t].url = page
      /\ tasks'[t].sess = urlSessions'[page] /\ socketUrlMap'[s] = page
  BY <1>1, <1>2, <1>3, <1>4, WorkerOf DEF TaskRecord, Exact, Settling, Typed, TypeOK
<1>6. ASSUME NEW url \in Urls
      PROVE  Members(url)' = IF url = page THEN Members(url) \cup {Owner[s]} ELSE Members(url)
  BY <1>2, <1>3, <1>4, RegisteredMembers, NoneDistinct
<1>7. socketUrlMap[s] \in {None, page} /\ s \in rooms[page]
  BY <1>1, <1>2, <1>3 DEF Exact, Settling, Attended, Signed, Located
<1>8. Moves(t, s)
  BY <1>1, <1>2, <1>4, <1>6, HandlerMoves DEF MicroWaits
<1>9. /\ \A y \in Tasks : tasks[y].sock = s => y = t
      /\ \A y \in Tasks : tasks'[y].sock = s => y = t
  BY <1>1, WorkerOf DEF Works
<1>10. TellsOthers(s)
  <2> SUFFICES ASSUME NEW x \in Sockets \ {s}, NEW url \in Urls, OnRoster(x, url)
               PROVE  /\ Owner[s] \in Members(url)' \ heard[x] => WillAnnounce(s, url)'
                      /\ Owner[s] \in heard[x] \ Members(url)' => Lingers(s, url)'
    BY <1>4 DEF TellsOthers
  <2>1. CASE url = page
    BY <1>5, <1>6, <2>1 DEF WillAnnounce
  <2>2. CASE url # page
    <3>1. socketUrlMap[s] # url
      BY <1>7, <2>2, NoneDistinct
    <3>2. Owner[s] \notin Members(url) /\ Owner[s] \notin heard[x]
      BY <3>1, MemberIsPresent, ToldOf DEF Present, Lingers
    <3> QED
      BY <1>6, <2>2, <3>2
  <2> QED
    BY <2>1, <2>2
<1>11. TellsOwn(s)
  BY <1>5 DEF TellsOwn, OnRoster
<1>12. Located(s)'
  <2>1. ASSUME NEW url \in Urls, s \in rooms'[url] PROVE url = page
    <3>1. socketUrlMap[s] = url \/ url = page
      BY <1>3, <1>4, <1>9, <2>1 DEF Exact, Located
    <3> QED
      BY <1>7, <3>1, NoneDistinct
  <2> QED
    BY <1>4, <1>5, <1>7, <1>9, <2>1 DEF Located
<1>13. HoldsLive(t)'
  BY <1>5 DEF HoldsLive
<1> QED
  BY <1>5, <1>8, <1>10, <1>11, <1>12, <1>13, StepRostered

LEMMA JoinAnnounceRostered ==
    ASSUME Exact, UNCHANGED liberties, NEW t \in Tasks, JoinAnnounce(t)
    PROVE  Rostered'
<1> DEFINE k == tasks[t]
<1>1. PICK s \in Sockets : s = k.sock /\ Touches(t, s) /\ s \in connected
  BY WorkerOf DEF Works
<1>2. k.pc = "loading" /\ At(t, "loading")
  BY DEF JoinAnnounce, At
<1>3. PICK page \in Urls : page = k.url
  BY <1>2, WorkerOf DEF Works, JoinAnnounce, Shaped
<1>4. /\ UNCHANGED <<rooms, connected, urlSessions, session, socketUrlMap>>
      /\ tasks'[t] = Idle
      /\ heard' = [HearJoined(s, page, Owner[s]) EXCEPT ![s] = session[k.sess].users]
  BY <1>1, <1>3 DEF JoinAnnounce, socketVars, sessionVars, Exact, Settling, Typed, TypeOK
<1>5. /\ heard'[s] = session[k.sess].users
      /\ \A x \in Sockets \ {s} :
           heard'[x] = IF x \in rooms[page] \cap connected THEN heard[x] \cup {Owner[s]}
                       ELSE heard[x]
  BY <1>4 DEF HearJoined
<1>6. \A url \in Urls : Members(url)' = Members(url)
  BY <1>4 DEF Members
<1>7. Idle.sock = None /\ Idle.pc = "idle"
  BY DEF Idle
<1>8. Moves(t, s)
  BY <1>1, <1>2, <1>4, <1>6, HandlerMoves DEF MacroWaits
<1>9. /\ \A y \in Tasks : tasks[y].sock = s => y = t
      /\ \A y \in Tasks : tasks'[y].sock # s
  BY <1>1, <1>4, <1>7, WorkerOf, NoneDistinct DEF Works
<1>10. socketUrlMap[s] = page
  BY <1>1, <1>2, <1>3 DEF Exact, Located
<1>11. Lingers(s, page)'
  BY <1>1, <1>4, <1>9, <1>10 DEF Lingers
<1>12. TellsOthers(s)
  <2> SUFFICES ASSUME NEW x \in Sockets \ {s}, NEW url \in Urls, OnRoster(x, url)
               PROVE  /\ heard'[x] \ {Owner[s]} = heard[x] \ {Owner[s]}
                      /\ ~(Owner[s] \in Members(url) \ heard'[x])
                      /\ Owner[s] \in heard'[x] \ Members(url) => Lingers(s, url)'
    BY <1>6 DEF TellsOthers
  <2>1. x \in rooms[url] /\ x \in connected
    BY InTheRoom
  <2>2. ASSUME Owner[s] \in Members(url) PROVE Owner[s] \in heard'[x]
    <3>1. url = page
      BY <1>10, <2>2, MemberIsPresent DEF Present
    <3> QED
      BY <1>5, <2>1, <3>1
  <2>3. ASSUME Owner[s] \in heard'[x] \ Members(url) PROVE url = page
    <3>1. CASE Owner[s] \in heard[x]
      BY <1>10, <2>3, <3>1, ToldOf DEF Lingers
    <3>2. CASE x \in rooms[page]
      <4>1. \/ socketUrlMap[x] = page
            \/ \E y \in Tasks : tasks[y].sock = x /\ tasks[y].pc = "joining" /\ tasks[y].url = page
        BY <3>2 DEF Exact, Located
      <4>2. socketUrlMap[x] \in {None, page}
        BY <4>1 DEF Exact, Settling, Attended, Signed
      <4> QED
        BY <4>2, NoneDistinct DEF OnRoster
    <3> QED
      BY <1>5, <2>3, <3>1, <3>2
  <2> QED
    BY <1>5, <1>11, <2>2, <2>3
<1>13. TellsOwn(s)
  <2> SUFFICES ASSUME NEW url \in Urls, OnRoster(s, url)'
               PROVE  heard'[s] = Members(url)'
    BY DEF TellsOwn
  <2>1. url = page /\ Owner[s] \in Members(page)
    BY <1>4, <1>6, <1>10 DEF OnRoster
  <2>2. k.sess = urlSessions[page]
    <3>1. HoldsLive(t)
      BY DEF Exact
    <3> QED
      BY <1>1, <1>2, <1>3, <2>1, <3>1 DEF HoldsLive
  <2> QED
    BY <1>5, <1>6, <2>1, <2>2 DEF Members
<1>14. Located(s)' /\ HoldsLive(t)'
  <2>1. Located(s)
    BY DEF Exact
  <2> QED
    BY <1>1, <1>2, <1>4, <1>7, <1>9, <2>1 DEF Located, HoldsLive
<1> QED
  BY <1>4, <1>7, <1>8, <1>12, <1>13, <1>14, StepRostered

-----------------------------------------------------------------------------
(* The theorem *)

LEMMA NewProcessRostered == NewProcess => Rostered
<1> SUFFICES ASSUME NewProcess PROVE Rostered
  OBVIOUS
<1>1. \A t \in Tasks : tasks[t].pc = "idle" /\ tasks[t].sock = None
  BY DEF NewProcess, Idle
<1>2. MicroAlone
  BY <1>1 DEF MicroAlone, MicroWaits
<1>3. \A s \in Sockets : Located(s)
  BY <1>1, NoneDistinct DEF NewProcess, Located
<1>4. \A t \in Tasks : HoldsLive(t)
  BY <1>1 DEF HoldsLive
<1>5. ToldAll
  BY DEF NewProcess, ToldAll, OnRoster
<1> QED
  BY <1>2, <1>3, <1>4, <1>5 DEF Rostered

LEMMA UnchangedRostered ==
    ASSUME Rostered, UNCHANGED <<tasks, connected, rooms, heard, socketUrlMap, urlSessions,
                                 liberties>>,
           \A url \in Urls : Members(url)' = Members(url)
    PROVE  Rostered'
<1> SUFFICES ASSUME liberties = {}, OneConnectionEach
             PROVE  Rostered'
  BY DEF Rostered
<1>1. MicroAlone'
  BY DEF Rostered, MicroAlone
<1>2. \A s \in Sockets : Located(s)'
  BY DEF Rostered, Located
<1>3. \A t \in Tasks : HoldsLive(t)'
  BY DEF Rostered, HoldsLive
<1>4. ToldAll'
  <2> SUFFICES ASSUME NEW x \in Sockets, NEW url \in Urls, OnRoster(x, url)'
               PROVE  Told(x, url)'
    BY DEF ToldAll
  <2>1. OnRoster(x, url)
    BY DEF OnRoster
  <2>2. Told(x, url)
    BY <2>1 DEF Rostered, ToldAll
  <2>3. \A s \in Sockets : /\ WillAnnounce(s, url)' <=> WillAnnounce(s, url)
                           /\ Lingers(s, url)' <=> Lingers(s, url)
    BY DEF WillAnnounce, Lingers
  <2> QED
    BY <2>2, <2>3 DEF Told
<1> QED
  BY <1>1, <1>2, <1>3, <1>4 DEF Rostered

LEMMA NextRostered == Settling /\ Rostered /\ [Next]_vars => Rostered'
<1> SUFFICES ASSUME Settling, Rostered, [Next]_vars
             PROVE  Rostered'
  OBVIOUS
<1>1. CASE UNCHANGED vars
  <2>1. UNCHANGED <<tasks, connected, rooms, heard, socketUrlMap, urlSessions, liberties, session>>
    BY <1>1 DEF vars, sessionVars, wireVars, socketVars
  <2>2. \A url \in Urls : Members(url)' = Members(url)
    BY <2>1 DEF Members
  <2> QED
    BY <2>1, <2>2, UnchangedRostered
<1>2. CASE Next /\ ~(liberties = {} /\ OneConnectionEach)
  <2>1. UNCHANGED liberties
    BY <1>2 DEF Next
  <2> QED
    BY <1>2, <2>1 DEF Rostered, OneConnectionEach
<1>3. CASE Next /\ liberties = {} /\ OneConnectionEach
  <2>1. Exact /\ UNCHANGED liberties
    BY <1>3 DEF Exact, Rostered, Next
  <2>2. ASSUME NEW t \in Tasks, Resume(t)
        PROVE  Rostered'
    <3>1. ~DropFails(t) /\ ~DbCallFails(t)
      BY <1>3 DEF DropFails, DbCallFails
    <3> QED
      BY <2>1, <2>2, <3>1, EndRostered, LeaveAnnounceRostered, LeaveProjectDoneRostered,
         EnterUnparsableRostered, EnterSessionRostered, JoinRegisterRostered,
         JoinProjectRostered, JoinAnnounceRostered
      DEF Resume
  <2>3. ASSUME NEW s \in Sockets, NEW link \in Links, handleCursorMove(s, link)
        PROVE  Rostered'
    <3>1. /\ UNCHANGED <<tasks, connected, rooms, heard, socketUrlMap, urlSessions>>
          /\ \A i \in SessionIds : session'[i].users = session[i].users
      BY <2>1, <2>3 DEF handleCursorMove, wireVars, socketVars, Exact, Settling, Typed, TypeOK,
                        SessionObject
    <3>2. \A url \in Urls : Members(url)' = Members(url)
      BY <2>1, <3>1 DEF Members, Exact, Settling, Typed, TypeOK
    <3> QED
      BY <2>1, <3>1, <3>2, UnchangedRostered
  <2> QED
    BY <1>3, <2>1, <2>2, <2>3, ConnectRostered, DisconnectRostered, PageMessageRostered
       DEF Next
<1> QED
  BY <1>1, <1>2, <1>3

\* When no handler is in flight nobody is yet to be told anything.
LEMMA SettledRoster == Settling /\ Rostered => RosterAgrees
<1> SUFFICES ASSUME Settling, Rostered, liberties = {}, OneConnectionEach, Settled,
                    SameUrlSameSession,
                    NEW s \in Sockets, s \in connected, socketUrlMap[s] # None
             PROVE  heard[s] = session[urlSessions[socketUrlMap[s]]].users
  BY DEF RosterAgrees, Settling, Typed, TypeOK
<1>1. Exact
  BY DEF Exact, Rostered
<1>2. \A t \in Tasks : tasks[t].sock = None /\ tasks[t].pc = "idle"
  BY DEF Settled, Idle
<1>3. ASSUME NEW r \in Sockets, NEW url \in Urls, r \in connected, socketUrlMap[r] = url
      PROVE  urlSessions[url] # None /\ Owner[r] \in Members(url)
  <2>1. ~Busy(r) /\ socketUrlMap[r] # None
    BY <1>2, <1>3, NoneDistinct DEF Busy
  <2>2. socketUserMap[r] = Owner[r]
    BY <1>1, <1>3, <2>1 DEF Exact, Settling, Attended, Signed
  <2> QED
    BY <1>3, <2>1, <2>2 DEF SameUrlSameSession, Members
<1>4. PICK url \in Urls : url = socketUrlMap[s]
  BY DEF Settling, Typed, TypeOK
<1>5. OnRoster(s, url)
  BY <1>2, <1>3, <1>4, NoneDistinct DEF OnRoster
<1>6. \A r \in Sockets : ~WillAnnounce(r, url)
  BY <1>2 DEF WillAnnounce
<1>7. heard[s] \subseteq Members(url)
  <2> SUFFICES ASSUME NEW v \in heard[s] \ Members(url) PROVE FALSE
    OBVIOUS
  <2>1. PICK r \in Sockets : Owner[r] = v /\ Lingers(r, url)
    BY <1>1, <1>5 DEF Exact, ToldAll, Told
  <2> QED
    BY <1>3, <2>1 DEF Lingers
<1>8. Members(url) \subseteq heard[s]
  BY <1>1, <1>5, <1>6 DEF Exact, ToldAll, Told
<1> QED
  BY <1>3, <1>4, <1>7, <1>8 DEF Members

\* RosterAgrees: when the handlers have ended, every connection on a page has been
\* told exactly the users of the page's session, in whatever order joins and
\* departures overtook each other, for any number of users, pages and handlers.
THEOREM GatewayRosterAgrees == Spec => []RosterAgrees
<1>1. Init => Settling /\ Rostered
  BY NewProcessTyped, NewProcessIsolated, NewProcessPaired, NewProcessForgotten,
     NewProcessAttended, NewProcessRostered DEF Init, Settling
<1>2. Settling /\ Rostered /\ [Next]_vars => Settling' /\ Rostered'
  BY NextTyped, NextIsolated, NextPaired, NextForgotten, NextAttended, NextRostered DEF Settling
<1>3. Settling /\ Rostered => RosterAgrees
  BY SettledRoster
<1> QED
  BY <1>1, <1>2, <1>3, PTL DEF Spec
=============================================================================

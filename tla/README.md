# A verification project for the triad backend

The repository is the NestJS backend of a tool in which several people look at the same web page and see each
other's cursors and comments. This directory holds TLA+ models of its core, the TLC configurations that check
them on small instances, and TLAPS proofs of what holds for every instance.

    tlc -workers 2 -config gw_any.cfg MCGateway     # one run
    tlapm GatewayProofs.tla                         # one proof module

All paths below are relative to `src/src/` unless they name a document of the repository.

## 1. The system

One Node process, one MySQL database reached through TypeORM (a pool of connections), socket.io for the browser
plug-in, REST for everything else. Node runs one piece of JavaScript at a time, so the units of interleaving are
the stretches of code between two `await`s. State lives in two places: in `Map`s of the process, lost on restart,
and in rows.

| Component | State | Operations | Talks to |
|---|---|---|---|
| **CollaborationGateway** `collaboration/collaboration.gateway.ts` | `socketUserMap`, `userSocketMap`, `socketUrlMap`, `socketProjectMap`, `urlSessions` (a session object per page: users, cursors, comments), `urlProjectMap`, `projectIdUrlMap`, socket.io rooms | handleConnection, handleDisconnect, page:join, page:leave, cursor:move, comment:create, comment:delete, relays (click, selection, scroll), listeners of EventEmitter events | CollaborationService (awaited calls), EventEmitter (synchronous callbacks) |
| **CommentService** `collaboration/services/comment.service.ts` | rows of `comments` | createComment, deleteComment, toggleCommentResolved, updateComment, getters | TypeORM; emits comment.created, comment.deleted, ... which the gateway hears |
| **MouseTrackingService** `collaboration/services/mouse-tracking.service.ts` | `userStates`, `mousePaths` | updateMousePosition, updateMouseBatch, handleMouseClick, setUserIdle/Active, cleanupUser | emits cursor.move, cursor.trail, cursor.batch, ... |
| **CollaborationService** `collaboration/collaboration.service.ts` | rows of `projects`, `project_sessions`, `comment_threads`, `mutations` | joinProject, joinUrlProject, leaveProject, updateCursorPosition, processMutations, updateUserActivity | the two services above, TypeORM |
| **AuthService, UsersService** `auth/`, `users/` | rows of `users`, among them the refresh token | register, login, refresh, logout, OAuth login and linking, update, remove | TypeORM, JwtService |
| **ProjectsService** `projects/projects.service.ts` | rows of `projects` | create, update, remove, findOrCreateByUrl | TypeORM |
| REST controllers | none | hand their arguments to a service | |
| ValidationPipe, DTOs, entities, TransformUtil | none | what of a request is accepted, what a column takes, what is answered | class-validator, TypeORM |
| `*.handler.ts` (URL, session, mutation, user, project, auth) | none | rules about URLs, sessions, tokens, batches, names, access | provided and called by no Nest module |
| Guards, strategies | none | checks of one request | passport |
| `policy/` | none | entities of plans, subscriptions and usage that policy/README.md calls optional | imported by nothing |

*What REST reaches.* `CollaborationController` has its guard commented out (`collaboration.controller.ts:52`), so no
request has a `req.user`, and the endpoints that read `req.user.id` (join, leave, cursor, clicks, activity, comments)
fail before they call a service. Its other endpoints work: mutations, comment threads, comments and active sessions
of a project. `ProjectsController` is guarded and works, `UsersController` works without a guard.

### What is hard, and what makes each component correct

*Gateway.* A session object is looked up before an await and written to after it; in between it may have been
dropped from `urlSessions` and replaced. A socket has two entries (`socketUrlMap`, `socketProjectMap`) written on
two sides of an await. Messages of one socket may overlap, a socket may close in the middle of its own join, and
database calls fail. Correct means: users on a page are in one session (`SameUrlSameSession`), nobody stays in a
session after leaving (`NoGhost`), everybody has been told who is there (`RosterAgrees`), no page gets the project
of another (`ProjectIsolation`), what a disconnect closes is the project of the page the user is removed from
(`ClosesOwnProject`), cursors go with their users (`CursorsOfMembers`), a closed connection leaves nothing behind
(`NothingLeftOver`), and an emptied session is freed (`EmptySessionIsHeld`, `EmptySessionEnds`).

*Comments.* One comment reaches the copy of a session along three ways: the listener of the event, the handler that
created it, and the load by a later join. Deleting uses an index found before an await. Correct means that the copy
misses no comment (`CopyComplete`; `DeletionsKeepCopies` where comments are deleted) and does not pile up doubles
(`CopiedTwice`).

*Mouse tracking.* Synchronous, so no interleaving inside an operation; the state is shared in an unobvious way (per
user in all projects; per user and project) and has two limits that are enforced by a shift and by a cut in the
middle of a batch. Correct means bounded memory, recent positions never lost, and throttled events.

*CollaborationService and projects.* Look-then-insert without a unique index (`project_sessions`) or with one (the
project's key), saves of entities read earlier, statements nobody awaits. Correct means that a user has one session
row per project (`SingleRow`) and that it says what the user last asked for (`AnsweredIsSaved`); and that what one
request stores is whole (`ThreadHasComment`, which the code breaks).

*Accounts.* Look-then-insert of names and e-mails, a refresh token where the last writer wins, clearing by writing
`undefined`, soft-deleted rows that look-ups skip and unique indices count. Correct means that an OAuth identity
leads to one account (`OneAccountPerIdentity`), that what the last answers said still holds although answers come some
time after their statements (`AnswerHolds`), and that a logout removes the token (`LogoutRemovesToken`, which it does not).

*Requests.* The pipe's limits, the columns' limits and the handlers' limits are declared in three places. Correct
means that what one accepts the next can take (`AcceptedFits`, `ClassThenHandler`, `TokenStored`), that an update
stores what was sent and answers with nothing it did not store (`UpdateAnswered`) and with all its schema requires
(`AnswerComplete`, which the code breaks), and that a list read page by page lacks nothing (`PagesComplete`).

*Handlers.* Pure functions that partly repeat code which runs (URL to project, expiry, default settings). Correct means
that they agree with themselves, with each other and with that code: a URL normalised twice changes
no more, two kinds excepted (`NormalizedAgain`), accepted input stays acceptable (`AcceptedStaysAccepted`, `PreparedStaysValid`,
`GeneratedNameLegal`), pages and projects correspond (`PageDecidesProject`), times are judged consistently
(`SessionJudged`, `TokenLife`, `ReplacedWasWarned`), counts add up (`StatsBounded`, `SummaryOfBatch`), and opening a
project shuts nobody out (`OpeningKeepsAccess`).

The full list of hazards, each at its line, is in `PROJECT.json`.

## 2. Modules

| Module | What it is |
|---|---|
| `Gateway` | connections, sessions, rooms and maps of the gateway, each await a point of interleaving |
| `GatewayProofs` | type correctness, `ProjectIsolation`, `CursorsOfMembers` for every instance |
| `GatewaySocketsProofs` | `ClosesOwnProject`, `NothingLeftOver`, `EmptySessionIsHeld`, `NoGhost`; extends `GatewayProofs` |
| `GatewayRosterProofs` | `RosterAgrees`; extends `GatewaySocketsProofs` |
| `Comments` | rows of one project and the copies its page's sessions keep |
| `CommentsProofs` | its types, `CopiedTwice` and `CopyComplete` for every instance |
| `ProjectSessions` | rows of `projects` and `project_sessions` behind joinProject, leaveProject, updateCursorPosition and ProjectsService's update and remove, each statement a step |
| `ProjectSessionsProofs` | its types, `SingleRow` and `AnsweredIsSaved` for every instance |
| `Accounts` | rows of `users` behind AuthService and UsersService, each statement a step |
| `AccountsProofs` | its types, `OneAccountPerIdentity` and `AnswerHolds` for every instance |
| `Mutations` | processMutations, each insert a step that may be refused |
| `Trails` | closed forms of the two bounded lists of MouseTrackingService |
| `TrailLoops` | the loops as the code runs them |
| `RateLimiter` | the abstract specification of throttling |
| `MouseTracking` | MouseTrackingService, with `RateLimiter` instantiated by a refinement mapping |
| `MouseTrackingProofs` | lemmas about `Trails`, that `TrailLoops` computes these closed forms; types, bounds, recency, and that MouseTracking implements RateLimiter |
| `UrlHandler`, `SessionHandler`, `MutationHandler`, `UserHandler`, `ProjectHandler`, `AuthHandler` | the rules of the six handlers, as operators |
| `Handlers` | calls of these rules, with a clock and what callers keep of the answers |
| `Dtos`, `Tables` | what the ValidationPipe accepts; what the columns take and what is answered |
| `Requests` | `Handlers`, and bodies on their way through pipe and tables, token lengths, paging |
| `RequestsProofs` | the types of the two, and all sixteen rules, for every input |
| `MC*` | values of constants, symmetry sets and views for TLC |

### Gateway and the code

State: the variables have the names of the `Map`s. `session` holds the session objects by identity, because a
handler keeps the object it found when `urlSessions` no longer leads to it. `rooms` and `connected` are
socket.io's. `heard` is what a client knows of who is present: 'page:joined' sets it, 'user-joined' and
'user-left' change it for the sockets in the room at that moment.

A handler in flight is a record in `tasks`: the await at which it waits (`pc`) and the local variables it has
captured. The actions are the stretches of code between awaits:

| Code | Actions (in order) |
|---|---|
| handleConnection | `Connect`, then `Authenticated` or `Rejected` |
| handleDisconnect | `Disconnect`, then `DropDone` (leaveProject has answered) or `DropFails` (it has rejected) |
| handlePageLeave | `PageLeave`, `LeaveAnnounce` (after client.leave), `LeaveProjectDone` or `DbCallFails` |
| handlePageJoin | `PageJoin` (which runs the steps of handlePageLeave for the page joined before), `EnterSession` or `EnterUnparsable`, `JoinRegister` (after client.join), `JoinProject` or `DbCallFails`, `JoinAnnounce` |
| handleCursorMove | `handleCursorMove`, one step |

*The event loop.* Awaits of `client.join`, `client.leave` and of the gateway's own helpers resolve in microtasks:
nothing but other pending microtasks, and packets of the same socket that came in the same transport frame, can run
before the handler goes on. Awaits that reach the database let everything in. `MicroWaits`, `MacroWaits`,
`Drained` and `OwnTurn` say that: without them TLC finds interleavings that Node cannot produce.

*Liberties.* What clients, the network and the database may do is chosen in the initial state, so that a run covers
several kinds of disorder and each property says which it survives: `overlap` (a message while another of the socket
is handled), `dropBusy` (a connection closes while a message of it is handled), `strayLeave` (page:leave of a page
other than the one joined), `dbError` (an awaited call rejects).

*Restart.* Nest passes the promise of a message handler on and answers a rejection with an error, but it does not
await handleDisconnect, and nothing in the repository listens for unhandled rejections. If leaveProject rejects
there, Node ends the process and pm2 (`ecosystem.config.js`) starts another: `DropFails` takes every Map and every
connection back to `NewProcess`. The properties of `gw_any` hold across it.

*Abstracted.* URLs are model values; `normalizeUrl` is any idempotent map onto them and `urlToProjectId` (a
truncated SHA-256) any injection. A cursor is its user: positions decide nothing. Colours, names and the payload of
messages are left out. The comments of a session are in `Comments`. leaveProject and joinUrlProject are calls that
answer or fail; their rows are in `ProjectSessions`.

### Comments and the code

One page, its project's rows (`rows`, newest first, as getProjectComments orders them), the array `comments` of each
session object, the object that is `live`. A database call is two steps, the statement (`SaveComment`,
`getProjectComments`, `SoftDelete`, ...) and the code that goes on with the answer (`CommentCreated`,
`LoadSessionComments`, `CommentDeleted`, ...); `slowAnswer` lets others run between them. Events of the service are
synchronous: `OnCreated` and `OnDeleted` are what the listeners do inside the emitting step, followed in the same
step by what the handler of the socket does with the object it captured. `mapped` stands for projectIdUrlMap,
urlProjectMap and session.projectId, which agree on the live object since here a connection does not leave during
its own join (Gateway has those interleavings). `shown` is what a client displays. Not here:
toggleCommentResolved, whose only caller is an endpoint that fails before the call; updateComment, getCommentById and
cleanupProject, which nothing calls. The
liberties (`delete`, `slowAnswer`, `dbError`) are chosen in the initial state, so that one run covers behaviours
with and without them and each property says which it can stand.

### ProjectSessions and the code

`owner` is the table of projects (the owner is the only column anything depends on), `rows` that of sessions: a
generated id, project, user, `isActive`, no unique index. A call in flight is a record in `tasks`, at the statement
it runs next, with what it has found. `repository.save` of an entity with an id is two statements, a look-up and
the write of the columns that differ from what the look-up found, or an insert if it found nothing: hence
`LoadProject` and `InsertProject`/`TakeProject`, `LoadSession` and `SaveSession`/`InsertSession`.

| Code | Actions (in order) |
|---|---|
| joinProject | `JoinProject`, `FindProject`, (`LoadProject`, `InsertProject` or `TakeProject`), `FindSession`, then `LoadSession`, `SaveSession` or `InsertSession` |
| leaveProject | `LeaveProject`, `FindSession`, `LoadSession`, `SaveSession` or `InsertSession` |
| updateCursorPosition | `UpdateCursorPosition` answers at once, `UpdateSession` is the statement nobody awaits |
| ProjectsService.update | `UpdateProject`, `FindToUpdate`, `LoadOwned`, `SaveOwned` or `InsertOwned` |
| ProjectsService.remove | `RemoveProject`, `FindToRemove`, `DeleteProject` (sessions go with it, ON DELETE CASCADE) |
| any rejection | `DbCallFails`; if nobody handles it (a cursor update, or leaveProject of handleDisconnect), `ProcessEnds` |

An update that finds its project gone inserts it again: a removed project can come back, without its sessions. The
models let that happen; no document says it must not.

`asked` is history: what the last answered call of a user asked for, or that nobody knows because it failed.
Liberties: `overlap` (a user joins or leaves a project while another such call of the user is handled: two tabs),
`manage` (owners update and remove projects, at any time), `dbError`; chosen in the initial state.

### Accounts and the code

`users` is the table, soft-deleted rows included; a call in flight is a record in `tasks` at the statement it runs
next, with the entity it has read. `Merge` is what `repository.save` writes: the columns in which the entity differs
from the row that save itself looks up, so that an entity read before another call's write can bring an older value
back. `emailOf` is the e-mail of an OAuth identity as its provider says now: the strategies pass on what they get at
each login (`google.strategy.ts:35`, `github.strategy.ts:35`), and with the liberty `newEmail` it may change between
any two logins.

An answer is a step of its own, after the statement it waits for (`auth.service.ts:120-122`), so that answers of
overlapping calls come in any order. `answered` is history: what the callers have been told last of a user's session, a
set, since of calls that overlap none is the last. `Settle` empties it when a statement about the user is done and no
answer is on its way, but for a removal, which nothing takes back; `Answer` adds what is told, and a call that rejects
with its statement done adds `None` (nobody knows).

| Code | Actions (in order) |
|---|---|
| AuthService.register; POST users | `Create`, `FindTaken`, `Insert`, and `StoreToken`, `Answer` for register |
| POST login: validateUser, generateTokens | `Login`, `ValidateUser`, `StoreToken`, `Answer` |
| OAuth callback: createOAuthUser, generateTokens | `OAuth`, `FindByProviderAndId`, (`FindByEmail`, (`FindByUsername` ..., `Insert`)), `LoadUser`, `SaveUser`, `StoreToken`, `Answer` |
| UsersService.update | `Update`, `FindToUpdate`, (`CheckUsername`), `LoadUser`, `SaveUser` |
| UsersService.remove | `Remove`, `FindToRemove`, `SoftRemove`, `Answer` |
| logout | `Logout`, `ValidateJwt`, `ClearToken`, `Answer` |
| any rejection | `DbCallFails` |
| the provider of an identity | `NewEmail` |

A refresh token is a value nobody has used. (Two tokens signed for a user within one second are in fact equal, since
a JWT's times are in seconds; nothing in the properties tells an equal token from a stored one.) The loop of
generateUniqueUsername is one action per turn. Liberties: `staleSave` (a call that may save an entity read earlier
overlaps another about the same person: its e-mail, its identity, or a row these lead to, see `Concerns`), `newEmail`,
`rename`, `dbError`.

`OneAccountPerIdentity` makes two promises. While the e-mails of identities stay, no two rows have one identity, removed
rows included, whatever overlaps: the unique e-mail sees to it. When they change that is not so: an account that was
removed keeps its identity, and a login under the new e-mail inserts a second row. What is left then is that no two
*live* accounts have one identity, and that only where no late save interferes: two logins of an identity that overlap
under two e-mails find nobody and insert or link two accounts.

Known behaviour that no document speaks of, and that the model therefore just has: a removed user keeps e-mail and
username in the unique indices while all look-ups skip the row, so that signing up or logging in by OAuth again fails
for ever with a 500; of two sign-ups at once the second gets a 500 instead of the 409 of the documentation. Of two
logins at once both are told a token and only the one whose UPDATE came last is stored, whichever answer comes last: the
client that was answered last may hold a refresh token that is not in the row. `AnswerHolds` asks that the stored token be
one of those that were told.

### Mutations and the code

A request is a record in `tasks` with the rest of its batch. `CreateCommentThread`, `CreateFirstComment` and
`SaveMutation` are the three inserts, each refused when a row it refers to is missing; what was stored before stays,
and the request may come again. `InsertProject` and `DeleteProject` are what joins and owners do meanwhile.

### MouseTracking and the code

`userStates` and `mousePaths` are the two Maps. updateMousePosition is two actions by its early return
(`ThrottledMove`, `BroadcastMove`); updateMouseBatch, handleMouseClick, setUserIdle/setUserActive (through
updateUserActivity) and cleanupUser (through leaveProject) are one each. The loop of a batch is one step, whose
lists are the closed forms of `Trails`; `TrailLoops` runs the same loop one position at a time, and
`MouseTrackingProofs` proves the two equal. `recent` and the field `sent` are history, read by no action. Velocity and colour decide nothing
and are left out. The clock starts late enough that `lastUpdate: 0` means "never".

### Handlers, requests and the code

The six handler modules are operators named like the methods; what a method logs or words is left out, a list of
messages is the set of what it complains about. Texts are as abstract as each rule allows: a URL is a record of its
parts (and `new URL` is `Parsed`, which drops the protocol's own port), a name is a sequence of the kinds of characters
a pattern tells apart, other texts are their length. `HashOf` is the truncated SHA-256, taken to be injective. Two pieces
of code that run are beside them for comparison: the gateway's normalizeUrl (`gatewayNormalizeUrl`) and
CollaborationService's urlToProjectId (`pageToProjectId`), of which `PageDecidesProject` says how they relate to the
handler's: every page has one project, and where the handler joins what the gateway keeps apart (protocol, a trailing
slash, a port of the new protocol).

`Handlers` calls the rules. No code of the repository does, so the callers are external; sessions, a token and a
mutation are what a caller would keep of the answers while time goes on, and EndSession is what leaveProject does to a
session. The clock may be set back, and `setBack` remembers it. The other rules are questions answered at once
(`asked`). A behaviour is about one `subject`, since the subjects share no state.

`Requests` adds what runs. A body is a function on the fields that were sent; a value is a type, a size and the pattern it
matches. `Accepts` is the ValidationPipe of `main.ts` (whitelist, forbidNonWhitelisted, and @IsOptional passing over
null), `InstanceOf` its transformation into a class whose declared fields all exist (`target` is ES2022), `Refusing`
MySQL in strict mode. Of the two lists that are paged, users are ordered by createdAt only; projects are read with a join,
for which TypeORM orders by id as well. The nested settings of a project are a value of type object. The limit of a page has
a minimum and no maximum, although the Swagger text says 100.

*Comment threads* come in the args of a mutation, of which the pipe asks only that they are an object (`@IsObject` at
create-mutation.dto.ts:23-24, without `@ValidateNested`): CreateCommentThreadDto and FirstCommentDto, which are
written for them, are never consulted. So `Unchecked` bodies pass with any field left out, null, or of any size;
`AcceptedFits` says which of them the tables refuse. Values of another *type* than the field's are not sent there, since what
the driver makes of an object in a varchar column is not known from the repository. `ClassThenHandler` compares the
classes themselves with the handlers, so for threads and comments it speaks of clients that keep to the class, which
nothing else enforces.

*Columns.* `KeyLength` is the length of the columns that hold ids of other tables (`user_id`, `deployment_id`): their
entities declare `uuid`, which TypeORM makes 36 or 255 characters long on MySQL. The properties hold for every
length. What their foreign keys refuse is in `Mutations` (`userId: 'system'`).

*Forms.* For `ClassThenHandler` a form is turned into the characters the handlers tell apart: a quoted e-mail, which
@IsEmail takes, has a space in its quotes; a username of the form `hyphen` is one create-user.dto.ts:70 takes and
UserHandler refuses; a `bareUrl`, without protocol, is one @IsUrl takes and `new URL` does not. Texts other than blank
ones have no spaces around them. The handlers' maximum of a username, 20, is the constant `MaxUsername` here, 4 in the run.

## 3. Runs

| Run | Checks | Bounds |
|---|---|---|
| `gw_any` | `TypeOK`, `CursorsOfMembers`, `ProjectIsolation`, `NoGhost`, `ClosesOwnProject`, `NothingLeftOver`, `RosterAgrees`, and no deadlock; orderly clients, or overlapping messages, or rejected database calls | 2 users with a connection each, 2 pages and a URL that does not parse, a query-string spelling, 2 handlers, 3 objects |
| `gw_sweep` | `EmptySessionIsHeld`, and `EmptySessionEnds` under fairness; every liberty but `dbError` | 2 users, 1 page in two spellings |
| `gw_split` | violates `SameUrlSameSession` | 2 users, 1 page in two spellings |
| `comments` | `TypeOK`, `CopiedTwice`, and `CopyComplete` where neither deletions, slow answers nor errors interfere | 2 users, a comment of each, 2 handlers, 3 objects; no liberty, or all of them (which includes behaviours that take only some) |
| `comments_delete` | violates `DeletionsKeepCopies` (the copy is complete, deletions or not) | the same, 3 comments |
| `sessions` | `TypeOK`, `SingleRow`, `AnsweredIsSaved`; every liberty but `overlap` | 2 users, 1 project, 3 row ids, 3 calls |
| `mouse` | `TypeOK`, `BoundedMemory`, `PathKeepsRecent`, `Throttled` (refinement) | 1 user, 2 projects, limits 3, 4, 2, batches up to the length of a path |
| `accounts` | `TypeOK`, `OneAccountPerIdentity`, `AnswerHolds`; `rename`, `dbError`, `newEmail` or `staleSave` | 2 row ids, 2 e-mails, 2 identities with any e-mail, 2 tokens, 2 calls |
| `accounts_logout` | violates `LogoutRemovesToken` | the same, no liberty |
| `mutations` | violates `ThreadHasComment` | 2 requests, 2 threads, 3 rows of mutations |
| `requests` | `TypeOK` and the sixteen properties of `Handlers` and `Requests` named in section 1 | every kind of URL, text, number and time that the code tells apart, with values on both sides of each limit; 2 sessions, 7 instants, batches of 5, 4 rows in a list |
| `requests_answer` | violates `AnswerComplete` | the same |

*Why these bounds.* Two handlers in flight suffice for every race described above: each is between one handler at an
await and one other event, and a third handler begins as soon as one ends. A connection can come back, so two
connections also stand for longer sequences of clients. Three session objects are one more than two handlers can
hold while a third is live. `gw_any` takes `overlap` and `dbError` apart: together they only add states, the handlers
the first multiplies are those the second cuts short, and what holds under both at once is proved (section 4).
`strayLeave` and `dropBusy` are in `gw_sweep`. `RosterAgrees` is checked with two users, of whom each hears of the other's
joins and departures behind, between and before its own; that it holds for three and more is proved
(`GatewayRosterAgrees`). A call on `project_sessions` meets others only in the rows of its own project, and those of other
users only when the project is removed: one project, two users and three calls have every pair of calls with a cursor
update among them, and three ids leave one free for a second row of a user, so that `SingleRow` could fail; both
conditional properties do fail (TLC) as soon as `overlap` is let in. In `accounts` two ids are what two accounts of
one identity need, two identities with one e-mail make linking over another identity possible, a second e-mail is what an
identity can change to, and two tokens are those of two overlapping logins, in either order of their statements and
answers. A third login behind them, and two liberties at once, are left to the proof: the state space is in the
millions with one. In `requests` the inputs are what the rules distinguish: the instants
and sizes are each limit and its neighbours, a name of five characters passes a maximum scaled down to four, a batch of
five has errors beyond the two listed, and pages of one and two rows cut a list of four at every place. A body carries one
field of interest, the others are the least that is accepted: no rule relates two fields except deploymentUrl and page,
which are both varied. The limits of `mouse` are scaled down with their order kept; `LoopsAreClosedForms` is
proved for all limits.

*Views and symmetry.* Handlers and object identities are interchangeable (`Symmetry`; not in `gw_sweep`, which
checks liveness); in `gw_any` so are users together with their sockets. The views drop what no action reads (`heard`, `shown`, events) and the contents of session
objects nobody refers to, which are reset before they are used again. A run whose property reads one of these keeps
it in its view: `gw_any` keeps `heard` for orderly clients, of whom alone `RosterAgrees` speaks.

*Deadlock* is checked in `gw_any` and `requests`. The other runs say `CHECK_DEADLOCK FALSE` since their finite supplies run out
while the program goes on: ids of comments, rows, threads and tokens are finite, time is capped by `MaxTime`, usernames
by `MaxCounter`, and with connections that close while a message is handled (`dropBusy`, in `gw_sweep`) entries of the maps
stay behind for a socket id that is never used again.

*Fairness.* `FairSpec` of Gateway is strong fairness of `Resume(t)` for each handler in flight: the promises it awaits
settle, and the event loop serves ready events in turn, so that their continuations are reached. A query either
answers or rejects. Weak fairness would not say it: a continuation behind a database call is disabled whenever
microtasks of others are pending (`Drained`), again and again if clients keep sending. Nothing is assumed of clients:
none has to join, leave or close.

### What the runs show

The five violations are disagreements between a document and the code; `PROJECT.json` quotes both sides.

* `gw_split`: two users leave a page; the first answer of leaveProject deletes the session (`cleanupEmptySession`
  goes by URL), a user joins and gets a new object, the second answer deletes that one. The next user gets a third,
  and two users of one URL are in different sessions.
* `comments_delete`: handleCommentDelete finds an index, awaits deleteComment, whose event has the listener remove
  the comment, and splices once more at the index: the next comment goes.
* `accounts_logout`: updateRefreshToken writes `refreshToken || undefined`; TypeORM leaves a column whose value is
  undefined as it is, so the token is still in the row after a logout.
* `mutations`: createFirstComment writes `userId: 'system'`, which no row of users has; the thread stored just before
  stays without a comment.
* `requests_answer`: Object.assign copies a DTO whose fields exist, undefined, where the client sent none; save skips
  them, but the object that is answered has lost them: a PATCH of a user's name is answered without username, role and
  status, which UserResponseDto requires, one of a project's description without name and isPublic.

While the modules were written TLC also showed, for weaker assumptions than the passing runs make, that what
`NoGhost` promises fails with `dropBusy`: a connection closes while page:join waits for the departure from the page before, handleDisconnect
cleans up that page, then the join goes on and enters the user, for good, in the session of the new one
(`collaboration.gateway.ts:155` and 513; sequence.md:189 says that a disconnect clears all sessions); that
`CopyComplete` fails with slow answers (a load overwrites a comment pushed meanwhile) and with database errors (the
row is stored, the read behind it fails, nobody is told); that a second user who joins while the first still
loads is sent an incomplete list; that `AnswerHolds` fails with `staleSave` (a profile saved late brings back an
older token, or un-deletes a removed user); that `SingleRow` fails with `overlap` (two tabs join at once); and that leaving one project forgets the throttle of a user who is active in
another, which is why `Throttled` speaks of tracked users only. These are in the list of hazards.

`requests` names, in the statements of its properties, what the code does at its boundaries. Of what is reached: with more
than 209 characters of e-mail and username the refresh token exceeds its column, so the user is stored and can never log
in (`TokenStored`); an e-mail of 256 to 319 characters, null for a required column, a profileID longer than its column, a
mutation time outside 1970 to 2038, and of comment threads long texts, long deployment ids and a comment text that is null
or missing pass the pipe and are refused by the table (`AcceptedFits`); a client that pages through the users may miss
one when users leave the list or two were created in one instant (`PagesComplete`). Of the handlers: the rate of 19999
successes out of 20000 rounds to 100 % (`SummaryOfBatch`), and compared with the classes they refuse usernames with a hyphen,
quoted e-mails, URLs without protocol, and project names and descriptions that the DTO takes (`ClassThenHandler`). An
e-mail that is no text at all makes the transformation throw, and the client gets a 500: bodies of this kind are not in
the model.

Sessions are keyed
by user, so closing one of two tabs removes the user from the page; the runs give each user one connection.

## 4. Proofs

Proved by TLAPS, for every value of the constants that satisfies the assumptions below:

| Theorem | Statement |
|---|---|
| `GatewayTypeCorrect` | `Spec => []TypeOK` |
| `GatewayProjectIsolation` | `Spec => []ProjectIsolation` |
| `GatewayCursorsOfMembers` | `Spec => []CursorsOfMembers` |
| `GatewayClosesOwnProject`, `GatewayNothingLeftOver` | `Spec => []ClosesOwnProject`, `Spec => []NothingLeftOver` |
| `GatewayEmptySessionIsHeld`, `GatewayNoGhost` | `Spec => []EmptySessionIsHeld`, `Spec => []NoGhost` |
| `GatewayRosterAgrees` | `Spec => []RosterAgrees` |
| `CommentsTypeCorrect`, `CommentsCopiedTwice`, `CommentsCopyComplete` | `TypeOK`, `CopiedTwice` and `CopyComplete` of Comments |
| `SessionsTypeCorrect`, `SessionsSingleRow`, `SessionsAnswered` | `TypeOK`, `SingleRow` and `AnsweredIsSaved` of ProjectSessions |
| `AccountsTypeCorrect`, `AccountsOneAccount`, `AccountsAnswerHolds` | `TypeOK`, `OneAccountPerIdentity` and `AnswerHolds` of Accounts |
| `RequestsTypeOK`, `RequestsSessionJudged`, `RequestsTokenLife`, `RequestsReplacedWasWarned` | types, and the three rules about time, for every clock |
| `RequestsPagesComplete` | `RequestsSpec => []PagesComplete`, for lists and limits of any size |
| `RequestsTokenStored`, `RequestsUpdateAnswered`, `RequestsNormalizedAgain` | these rules for every e-mail and username, every body, every URL |
| `RequestsAcceptedFits`, `RequestsClassThenHandler` | what pipe and columns, and what classes and handlers disagree on, whatever value a field has |
| `RequestsAcceptedStaysAccepted`, `RequestsPageDecidesProject` | for every URL, for every two URLs |
| `RequestsGeneratedNameLegal`, `RequestsPreparedStaysValid` | for every name and every e-mail, as sequences of characters of any length |
| `RequestsOpeningKeepsAccess` | for every two settings |
| `RequestsStatsBounded`, `RequestsSummaryOfBatch` | for every finite set of sessions, every batch and every number of listed errors |
| `LoopsAreClosedForms` | `Loops!Spec => []Loops!LoopIsClosedForm`, Loops being TrailLoops with the constants of MouseTracking |
| `TrackingTypeCorrect`, `TrackingBounded`, `TrackingKeepsRecent` | the three invariants of MouseTracking |
| `TrackingThrottled` | `Spec => Throttled`: MouseTracking implements RateLimiter |

*Gateway, types.* `TypeOK` is not inductive: that an action writes a page or a session object to a map depends on
what the task holds at its program counter. `Typed` adds `TaskShapes` (a task that is past the lookup holds an
object, one that works on a page holds its URL). One lemma per action.

*Gateway, isolation.* `ProjectIsolation` speaks of the objects and maps, but a handler writes a project to the
object it captured, which `urlSessions` may not lead to any more. `Isolated` adds `TasksKeepTheirPage`: the object a
task holds was made for the page it works on. The step that could break it is `EnterSession`, which makes an object
anew for a page: it takes an identity that no task holds. That the URL is a key of the object and never read again
after an await is what the mutant `JoinProject_RereadsPage` gets wrong.

*Gateway, cursors.* Inductive by itself given `Typed`: users only shrink in `WithoutUser`, which takes the cursor too.

*Gateway, a socket's page and project.* The two entries agree only because nobody else writes them between the two
awaits. `Paired` says so: without overlapping messages two handlers of one socket are two only if one of them is
handleDisconnect (`Alone`), while a handler joins a page no other project and, later, no other page is entered for its
socket (`Joins`), and a project is not entered without its page (`Fits`). Every step writes the entries of one socket
(`WritesOne`), so one frame lemma serves all of them.

*Gateway, nothing left over.* `Forgotten`: what the maps and rooms know of a socket, they know because it is connected
or because a handler at work will delete it (`Known`). It holds with overlapping messages too, since entries are made
only for a connected socket or by a handler that `dropBusy` would be needed to overtake.

*Gateway, empty sessions.* `EmptySessionIsHeld` is inductive given `Isolated`, which says that no two pages lead to one
object. One lemma per action shows that a live session which is empty after the step is held by the handler that made
it, or was empty before and is held by another (`StaysHeld`).

*Gateway, no ghosts.* `Settling` is the conjunction of `Typed`, `Isolated`, `Paired`, `Forgotten` and `Attended`: a
user in a live session has a connection settled on the page or joining it again (`Attendance`, which is more than
`NoGhost` asks for), and a socket carries the user of its token (`Signed`). Leaving a page removes the user of that page only because the URL stored at the join
is normalised and normalising it again returns it (`NormalizeIdempotent`).

*Gateway, rosters.* What a client shows is right only when nothing is in flight; `ToldAll` says what is true meanwhile.
Of a connection that has been sent the roster (`OnRoster`): whoever it has not heard of has a handler that will announce
them to the room (`WillAnnounce`), and whoever it should no longer show is still there to be taken back (`Lingers`), by a
'user-left' to come or by joining again. To keep that through a step one must know that the room the message goes to is
the page's (`Located`: a socket is in the room of its page and in no other, but between client.leave and the announcement),
that the handler announces into the session that is live (`HoldsLive`, from which the session could have been dropped
during the await of joinUrlProject), and that between two microtasks of one handler nobody else's run (`MicroAlone`, the
event loop). One lemma per action, all of them through `StepRostered`, which says once what a step that moves one
handler may do to the sessions, the rooms and what others have heard. The hypothesis `OneConnectionEach` in
`RosterAgrees` is what the proof showed to be needed: a second connection of a user would go on showing the page when the
first leaves it and takes the user out of the session (see the hazards).

*Comments.* `RowsOnce`: a row is inserted by the one handler that creates it, and nothing is copied or read before that.
`CopiedTwice` then needs `Counted`: before its creator pushes it, a comment is in a copy once at most, put there by a load
(the listener and the handler push within one step, or the listener alone). For `CopyComplete`, `Covered` says in which
of three ways a live copy stands to the rows: still empty with a handler that will load it, being loaded, or complete but for
comments whose creation is about to be announced. Without slow answers the rows a load has read are the rows there are
(`Prompt`), and who joins works on the live object (`Attached`). That `findIndex` is a least index is proved from the
well-foundedness of the natural numbers (`MinIsSmallest`).

*ProjectSessions.* `Typed` adds to the types that a call in flight has a project and a user, and one past
`FindSession` a row id. `SingleRow` is not inductive: the insert of a second row is decided two statements earlier.
`Sequential` adds that awaited calls of a user for a project are not two (`OneByOne`) and that what a call has
learnt of the rows stays true until it writes (`StillTrue`: it holds the only row of its user, or there is none).
All steps but three give no row to anybody and take one call further or end it (`FrameSequential`); the others are
the beginning of a call, `InsertSession` and `ProcessEnds`. For `AnsweredIsSaved` one needs besides that no other
awaited call holds the row a call has found (`Apart`), and that the row, unless it is gone, is as save found it when
save writes (`Knows`): so writing the columns that differ leaves what was asked for.

*Accounts.* No index keeps an identity unique; `SoundTable` says why it is all the same. While e-mails stay at the
providers, an account linked to an identity has the e-mail the provider says (`Agrees`), and no two rows, removed ones
included, have one e-mail; both must hold of what the calls in flight carry (`Sound`, `AgreesAll`): an entity is about the
row it was read from, whose e-mail never changes. `TakenKeys_LiveOnly`, which forgets that removed rows count, is the
mutant that breaks it. When e-mails change, what a login has looked for must still be missing when it inserts or links:
`Sole`, nobody but the user it saves has its identity, which holds since no other call about the identity, its e-mail or
the rows these lead to overlaps with one that saves (`SaveAlone`). This half is claimed only without `staleSave`, the
liberty that lifts `SaveAlone`.

*Accounts, answers.* `AnswerHolds` speaks of users whose answers are all given; `Current` is what holds meanwhile. What was
told and what is about to be told (`Tells`) is one set that an answer does not change, so only the statements matter
(`Told`): a new token is in the row and among what will be told, and other tokens count no more unless their answers are
still to come; a removed user stays removed, because what a call has read of its row still holds when it writes
(`UpToDate`), again by `SaveAlone`.

*Requests, pages.* A client has read a number of places, not a set of rows, and the rows move while it reads. `Reading`
relates the two: a row it has not seen has at least as many rows in front of it as it has read places. Insertions only add
rows in front; a page shows the places next in turn, and in a strict order the place of a row is the number of rows in front
of it (`PlaceInOrder`, a bijection). With removals, or rows of one instant, the number may fall, and the property
excludes both.

*Requests, time.* What was answered earlier is judged now, so each invariant says how it came about: a token response was
made of one user at `issuedAt` (`Issued`); the last activity of a session is when it was last prepared or updated, and
lies between its beginning and now until the clock is set back (`SessionsInv`); a mutation was validated, then
transformed, at the times that are kept (`EntityInv`, `OneMutation`).

*Requests, the rest.* The length of a token is linear in that of e-mail and username up to rounding (`LengthFits`); an
update requires no field and has a column for each (`UpdateFields`); a normal URL loses a slash or a port
only if it had two, or a port of its new protocol (`SlashesLeft`, `NormalAgain`).

*Requests, bodies.* `RuleKinds` and `ClassesAreRules` say that every field of every DTO has a rule of one shape, and
`AcceptedBody` what follows for a value that the pipe accepts: the other fields hold the least a class asks for
(`Minimal`). Of a body that is not checked only `Loose` is known, types and no more. Then one lemma per table or handler
(`UserColumns`, `ThreadFits`, `CommentFits`, `ClassThenProject`, ...) compares the two limits, column by column. E-mails
and usernames are compared as the texts they spell (`SpeltEmail`, `SpeltUsername`).

*Requests, access.* The settings of the three handlers differ in more than access depends on; `MergedSettings` says
what of them a merge leaves, and `AccessByOpenness` that nothing else decides.

*Requests, lists of the handlers.* filter() and sort() are modelled by where elements end up: at the n-th place is the
element that n - 1 of those kept come before. That there is exactly one is `Ranking`: in a strict order of a finite
set ranks grow, so they are different numbers below the size, so all are taken (`RankTaken`). It serves the segments of a
path (`SegmentsKept`), the projects of a list of URLs (`TwoOfThree`), the spaces of an e-mail (`FilteredStretch`) and
the errors of a batch (`MostCommonListed`).

*Requests, names and e-mails.* A generated name is cut, and its trailing underscores go: what is left has a last
character that is none, or is empty (`TailGone`, `BaseOfName`), so that neither happens again. An e-mail
in lower case has the format it had (`FormatOfLower`), trimming takes what is a space, and an e-mail with a valid format has
no spaces within (`UnspacedTrimmed`): two spellings of one e-mail differ in nothing after that (`OneEmail`).

*Requests, averages and rates.* A sum over a set is a function defined on all subsets by itself; that there is one is
shown for subsets up to each size (`SumExists`, by `AllNumbers`), and then that it lies between size times
the least and size times the greatest summand (`SumBounds`). Division and Math.round keep the order (`Quotient`,
`RoundedBetween`). `RateOfFew` places the rounded rate between its neighbours: it is 10000 for all only, as long as half a
hundredth of a per cent is less than one of them, which 19999 mutations are the last to satisfy.

*Loops.* `LoopInv` is the closed form with the types of the lists. The steps are `TrailPush` and `PathPush`, which
rest on lemmas about the last n elements of a sequence and on one step of a remainder (`ModStep`, `PathLengthStep`).
The proof is about the loop as a behaviour, so no induction over data is needed.

*MouseTracking.* `Inv` bounds the lists and the times and says that `recent` is the end of the path. For the
refinement `sent` of the limiter is the field `sent` of a tracked user: `BroadcastMove` maps to `Send`, since the
guard compares `lastUpdate`, which is never earlier than `sent`; `cleanupUser` maps to `Forget`, `Tick` to
`Advance`, everything else to a stutter.

*Assumptions.* `GatewayConstants`, `NormalizeIdempotent`, `ProjectHashInjective` (Gateway); `SessionConstants`;
`AccountConstants`; `TrailConstants`, `TrackingConstants` (mouse tracking); `HandlerConstants`, `NoneIsNone`,
`SettingsGiven`, `Batches`, `Texts`, `RequestConstants`; `CommentConstants`. Those of the handlers say what kind of value
an input is (a batch is a sequence of successes and failures, a name a sequence of characters), that sessions are
finitely many and that a provider's name leaves room in a username. TLC evaluates them in the runs. `OneConnectionEach` is no assumption but a
hypothesis of `RosterAgrees`; the run's sockets satisfy it.

*Only model-checked:* the liveness property `EmptySessionEnds`, and the properties that the code violates, which TLC
refutes. Every invariant of a passing run is proved, and so is the refinement. Liveness under fairness and `ENABLED` are
beyond the installed provers. So are `RECURSIVE` operators, which no module declares, and the library's theorems of
induction, which take an operator as a parameter; where a proof needs induction it goes by a set and its least
member (`AllNumbers`, `Extremes`, `MinIsSmallest`), or by counting (`RankTaken`).

*What the proofs changed in the models.* The provers cannot expand `SelectSeq` and the folds on sequences, so filter,
sort and counts are defined by places and cardinalities, which TLC evaluates as well. Two statements were made exact:
`StatsBounded` counts sessions, where two sessions alike in all but their id had been one element of a set; and
`SummaryOfBatch` says of which batches it speaks, since beyond 19999 one failure is rounded away.

## 5. What could come next

1. Several connections of one user in Gateway, for which `RosterAgrees` and `NoGhost` would have to be said anew: the
   session is keyed by user, and closing one of two tabs takes the user from the page.
2. The hazards of `PROJECT.json` without a property: each has a note that says what stands in the way, mostly that no
   document says what should happen.
3. No abstract specification of who is on a page: the code implements none, since `gw_split` shows that a page's users
   can end up in two session objects even with orderly clients.

## 6. Not modelled, and why

The models cover the code that keeps state or decides what happens to it. Most of the repository's lines do neither, or
are not reached:

* of the `*.handler.ts` classes, the identifiers and names they make up (generateSessionId, generateProjectName,
  generateUsernameVariant, generateChannelName), calculateMutationPriority, which nothing reads, and what their catch
  blocks return for exceptions that no input of the declared type causes;
* response classes and their swagger decorators, request DTOs that no route uses, type declarations. The keys, unique
  indices and cascades that entities declare are in the modules of the services that meet them; texts are compared as
  keys the way the database does (the default collation ignores case);
* controllers: they hand arguments to a service and convert its answer; what of them is reached is said in section 1;
* methods nobody calls or nobody can reach: cleanupAllSessions, AuthService.login, updateComment, getCommentById,
  cleanupProject, toggleCommentResolved, and the service methods behind the endpoints that fail;
* queries that only read, but for the paging of two lists: statistics, threads, sessions, getMousePath, getActiveUsers;
* create and findOrCreateByUrl of ProjectsService: their projects have generated ids, which no page leads to, so that
  their rows meet none of the modelled state;
* guards and strategies (stateless checks of one request), start-up and configuration;
* the entities and documents of `policy/`: designs of plans and subscriptions, outside what tsconfig.json includes, which
  nothing imports and whose methods read fields the classes do not declare;
* the relays of click, selection and scroll, which change no state; the positions of cursors, colours, names.

Session rows that stay active after a restart: `ProjectSessions` has the histories, but cleanupAllSessions, which
would deactivate them, has no caller, so there is nothing to check. The restart by a cursor update that nobody awaits
and that rejects is in `ProjectSessions` (`ProcessEnds`); Gateway has the one by handleDisconnect (`DropFails`), which
leads to the same new process.

------------------------------ MODULE Comments ------------------------------
(***************************************************************************)
(* The comments of one page: the rows of its project (CommentService) and  *)
(* the copy that the page's session keeps for those who join later         *)
(* (CollaborationGateway).  Comments come by socket: the REST endpoints of *)
(* comments fail before they call the service, as no guard sets req.user.  *)
(* The service tells the gateway with events, the handler's own included.  *)
(*                                                                         *)
(* A database call is two steps: the statement runs, and later the handler *)
(* goes on with the answer.  Joining and leaving are Gateway's subject and *)
(* have no more steps here than the comments can tell apart: a connection  *)
(* does not leave while its join is being handled.                         *)
(***************************************************************************)
EXTENDS SequencesExt

CONSTANTS
    Users,          \* each with one connection
    Comments,       \* comment ids, unique
    Author,         \* [Comments -> Users]
    Admins,         \* the users with role ADMIN
    SessionIds,     \* identities of session objects
    Tasks,          \* bound: handlers in flight at the same time
    LibertySets,    \* what may happen in a behaviour, see below
    None

(***************************************************************************)
(* "delete":     comments are deleted                                      *)
(* "slowAnswer": other handlers go on between a statement and the handling *)
(*               of its answer                                             *)
(* "dbError":    a database call rejects                                   *)
(***************************************************************************)
AllLiberties == {"delete", "slowAnswer", "dbError"}

ASSUME CommentConstants ==
    /\ Author \in [Comments -> Users]
    /\ Admins \subseteq Users
    /\ LibertySets \subseteq SUBSET AllLiberties
    /\ None \notin Users \cup Comments \cup SessionIds

VARIABLES
    rows,       \* the project's rows that are not deleted, newest first
    gone,       \* the comments deleted
    live,       \* the session object of the page
    comments,   \* session.comments of each object
    mapped,     \* projectIdUrlMap leads from the project to the page
    present,    \* the users in the live session, their sockets in the room
    shown,      \* what a client on the page shows, from the events sent to it
    tasks,
    liberties   \* chosen at the start

dbVars   == <<rows, gone>>
pageVars == <<live, comments, mapped, present, shown>>
vars     == <<dbVars, pageVars, tasks, liberties>>

-----------------------------------------------------------------------------
(* Handlers in flight *)

Idle == [pc |-> "idle", user |-> None, comment |-> None, sess |-> None,
         index |-> 0, answer |-> <<>>]

Task(pc, u, c, sess) == [Idle EXCEPT !.pc = pc, !.user = u, !.comment = c, !.sess = sess]

\* Statements that have run, their answer not yet handled.
Answered == {"loaded", "readBack", "deleted"}

\* Nobody else is owed an answer, or answers may be slow.
Turn(t) ==
    \/ "slowAnswer" \in liberties
    \/ \A x \in Tasks \ {t} : tasks[x].pc \notin Answered

At(t, pc) == tasks[t].pc = pc /\ Turn(t)

Begin(t, task) ==
    /\ At(t, "idle")
    /\ tasks' = [tasks EXCEPT ![t] = task]

End(t) == tasks' = [tasks EXCEPT ![t] = Idle]

Joining(u) ==
    \E t \in Tasks : tasks[t].user = u /\ tasks[t].pc \in {"projecting", "loading", "loaded"}

\* An id no row has had and no handler is about to use.
Unused(c) ==
    /\ c \notin ToSet(rows) \cup gone
    /\ \A t \in Tasks : tasks[t].comment # c

\* Mutant: indices counted from 0, the test for "none" left as it was.
findIndex_FromZero(list, c) == SelectInSeq(list, LAMBDA x : x = c) - 1

\* Array.findIndex, counted from 1; 0 when there is none.
findIndex(list, c) == SelectInSeq(list, LAMBDA x : x = c)

\* Array.splice(index, 1), which ignores an index past the end.
splice(list, index) == IF index \in 1..Len(list) THEN RemoveAt(list, index) ELSE list

\* What the clients in the room show after 'comment:created', 'comment:deleted'.
ShowCreated(c) == [u \in Users |-> IF u \in present THEN shown[u] \cup {c} ELSE shown[u]]
ShowDeleted(c) == [u \in Users |-> IF u \in present THEN shown[u] \ {c} ELSE shown[u]]

-----------------------------------------------------------------------------
(* Joining and leaving the page *)

\* page:join: the session is found or created, the user entered.
PageJoin(t, u) ==
    /\ u \notin present
    /\ \E i \in SessionIds :
         /\ IF live = None
            THEN /\ \A x \in Tasks : tasks[x].sess # i
                 /\ comments' = [comments EXCEPT ![i] = <<>>]
            ELSE i = live /\ UNCHANGED comments
         /\ live' = i
         /\ Begin(t, Task("projecting", u, None, i))
    /\ present' = present \cup {u}
    /\ UNCHANGED <<dbVars, mapped, shown>>

\* 'page:joined' with the comments of the session.
SendSessionState(t) ==
    /\ shown' = [shown EXCEPT ![tasks[t].user] = ToSet(comments'[tasks[t].sess])]
    /\ End(t)

\* joinUrlProject has answered; loadSessionComments returns if there are comments.
JoinProject(t) ==
    /\ At(t, "projecting")
    /\ mapped' = TRUE
    /\ UNCHANGED comments
    /\ IF comments[tasks[t].sess] # <<>> THEN SendSessionState(t)
       ELSE /\ tasks' = [tasks EXCEPT ![t].pc = "loading"]
            /\ UNCHANGED shown
    /\ UNCHANGED <<dbVars, live, present>>

\* getProjectComments runs.
getProjectComments(t) ==
    /\ At(t, "loading")
    /\ tasks' = [tasks EXCEPT ![t].pc = "loaded", ![t].answer = rows]
    /\ UNCHANGED <<dbVars, pageVars>>

\* The answer replaces session.comments, whatever was put there meanwhile.
LoadSessionComments(t) ==
    /\ At(t, "loaded")
    /\ comments' = [comments EXCEPT ![tasks[t].sess] = tasks[t].answer]
    /\ SendSessionState(t)
    /\ UNCHANGED <<dbVars, live, mapped, present>>

\* page:leave or a disconnection; the last to leave drops the session.
PageLeave(u) ==
    /\ u \in present /\ ~Joining(u) /\ Turn(None)
    /\ present' = present \ {u}
    /\ shown' = [shown EXCEPT ![u] = {}]
    /\ IF present' = {} THEN live' = None /\ mapped' = FALSE
       ELSE UNCHANGED <<live, mapped>>
    /\ UNCHANGED <<dbVars, comments, tasks>>

-----------------------------------------------------------------------------
(* Creating *)

\* comment:create, with the session it found.
CommentCreate(t, u, c) ==
    /\ u \in present /\ mapped
    /\ Author[c] = u /\ Unused(c)
    /\ Begin(t, Task("saving", u, c, live))
    /\ UNCHANGED <<dbVars, pageVars>>

\* The row is inserted.
SaveComment(t) ==
    /\ At(t, "saving")
    /\ rows' = <<tasks[t].comment>> \o rows
    /\ tasks' = [tasks EXCEPT ![t].pc = "finding"]
    /\ UNCHANGED <<gone, pageVars>>

\* The row is read again with its user; createComment throws if it is gone.
FindCreated(t) ==
    /\ At(t, "finding")
    /\ IF tasks[t].comment \in ToSet(rows)
       THEN tasks' = [tasks EXCEPT ![t].pc = "readBack"]
       ELSE End(t)
    /\ UNCHANGED <<dbVars, pageVars>>

\* Mutant: the listener of the event does not look for the comment first.
OnCreated_Doubles(c) ==
    IF mapped /\ live # None
    THEN [comments EXCEPT ![live] = Append(@, c)] ELSE comments

\* handleCommentCreatedEvent: the copy of the session live now, without doubles.
OnCreated(c) ==
    IF mapped /\ live # None /\ c \notin ToSet(comments[live])
    THEN [comments EXCEPT ![live] = Append(@, c)] ELSE comments

\* Mutant: the event only announces, as the handler pushes the comment itself.
CommentCreated_NoListener(t) ==
    LET k == tasks[t] IN
    /\ At(t, "readBack")
    /\ comments' = [comments EXCEPT ![k.sess] = Append(@, k.comment)]
    /\ shown' = ShowCreated(k.comment)
    /\ End(t)
    /\ UNCHANGED <<dbVars, live, mapped, present>>

\* The event is emitted and handled, the handler of comment:create pushes to the
\* session it found and announces once more.
CommentCreated(t) ==
    LET k == tasks[t] IN
    /\ At(t, "readBack")
    /\ comments' = [OnCreated(k.comment) EXCEPT ![k.sess] = Append(@, k.comment)]
    /\ shown' = ShowCreated(k.comment)
    /\ End(t)
    /\ UNCHANGED <<dbVars, live, mapped, present>>

-----------------------------------------------------------------------------
(* Deleting *)

\* comment:delete: the author or an admin, and the index at which it stands.
CommentDelete(t, u, c) ==
    /\ "delete" \in liberties
    /\ live # None /\ mapped
    /\ findIndex(comments[live], c) # 0
    /\ Author[c] = u \/ u \in Admins
    /\ Begin(t, [Task("owning", u, c, live) EXCEPT !.index = findIndex(comments[live], c)])
    /\ UNCHANGED <<dbVars, pageVars>>

\* The row is looked up by its author; deleteComment throws if there is none.
FindOwn(t) ==
    LET k == tasks[t] IN
    /\ At(t, "owning")
    /\ IF k.comment \in ToSet(rows) /\ Author[k.comment] = k.user
       THEN tasks' = [tasks EXCEPT ![t].pc = "deleting"]
       ELSE End(t)
    /\ UNCHANGED <<dbVars, pageVars>>

SoftDelete(t) ==
    /\ At(t, "deleting")
    /\ rows' = RemoveFirst(rows, tasks[t].comment)
    /\ gone' = gone \cup {tasks[t].comment}
    /\ tasks' = [tasks EXCEPT ![t].pc = "deleted"]
    /\ UNCHANGED pageVars

\* handleCommentDeletedEvent: the first copy in the session live now.
OnDeleted(c) ==
    IF mapped /\ live # None
    THEN [comments EXCEPT ![live] = splice(@, findIndex(@, c))] ELSE comments

\* The event is emitted and handled, then the handler of comment:delete removes
\* what stands at the index it found before the awaits.
CommentDeleted(t) ==
    LET k == tasks[t] IN
    /\ At(t, "deleted")
    /\ comments' = [OnDeleted(k.comment) EXCEPT ![k.sess] = splice(@, k.index)]
    /\ shown' = ShowDeleted(k.comment)
    /\ End(t)
    /\ UNCHANGED <<dbVars, live, mapped, present>>

-----------------------------------------------------------------------------

\* A database call rejects: the handler ends, but an error of getProjectComments
\* is swallowed and the page joined with the comments at hand.
DbCallFails(t) ==
    /\ "dbError" \in liberties /\ Turn(t)
    /\ \/ /\ tasks[t].pc \in {"projecting", "saving", "finding", "owning", "deleting"}
          /\ End(t)
          /\ UNCHANGED <<comments, shown>>
       \/ /\ tasks[t].pc = "loading"
          /\ UNCHANGED comments
          /\ SendSessionState(t)
    /\ UNCHANGED <<dbVars, live, mapped, present>>

Init ==
    /\ rows = <<>> /\ gone = {}
    /\ live = None /\ mapped = FALSE /\ present = {}
    /\ comments = [i \in SessionIds |-> <<>>]
    /\ shown = [u \in Users |-> {}]
    /\ tasks = [t \in Tasks |-> Idle]
    /\ liberties \in LibertySets

Resume(t) ==
    \/ JoinProject(t) \/ getProjectComments(t) \/ LoadSessionComments(t)
    \/ SaveComment(t) \/ FindCreated(t) \/ CommentCreated(t)
    \/ FindOwn(t) \/ SoftDelete(t) \/ CommentDeleted(t)
    \/ DbCallFails(t)

Next ==
    /\ \/ \E t \in Tasks : Resume(t)
       \/ \E u \in Users : PageLeave(u)
       \/ \E t \in Tasks, u \in Users :
            \/ PageJoin(t, u)
            \/ \E c \in Comments :
                 \/ CommentCreate(t, u, c)
                 \/ CommentDelete(t, u, c)
    /\ UNCHANGED liberties

Spec == Init /\ [][Next]_vars

-----------------------------------------------------------------------------
(* Properties *)

TaskRecord ==
    [pc : {"idle", "projecting", "loading", "saving", "finding", "owning", "deleting"}
            \cup Answered,
     user : Users \cup {None}, comment : Comments \cup {None},
     sess : SessionIds \cup {None}, index : Nat, answer : Seq(Comments)]

\* Rows, copies and tasks hold comments; an index found is never negative.
TypeOK ==
    /\ rows \in Seq(Comments) /\ gone \in SUBSET Comments
    /\ live \in SessionIds \cup {None}
    /\ comments \in [SessionIds -> Seq(Comments)]
    /\ mapped \in BOOLEAN /\ present \in SUBSET Users
    /\ shown \in [Users -> SUBSET Comments]
    /\ tasks \in [Tasks -> TaskRecord]

Settled == \A t \in Tasks : tasks[t] = Idle

\* When no handler is in flight, the session has a copy of every row, so that
\* 'page:joined' hands the next to join all comments of the page.
RowsCopied == Settled /\ live # None /\ mapped => ToSet(rows) \subseteq ToSet(comments[live])

\* Said of prompt answers and no errors (a slow load overwrites what came
\* meanwhile), whoever joins, leaves and creates while others are being served.
CopyComplete == liberties = {} => RowsCopied

\* Deletions take away no copy but that of the comment deleted.
DeletionsKeepCopies == liberties \subseteq {"delete"} => RowsCopied

\* A comment stands at most twice in a session: pushed by the listener of the
\* event and by the handler, it is never copied again by a load or a rejoin.
CopiedTwice ==
    \A i \in SessionIds, c \in Comments :
      Cardinality({n \in 1..Len(comments[i]) : comments[i][n] = c}) <= 2
=============================================================================

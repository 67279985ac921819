------------------------------ MODULE Accounts ------------------------------
(***************************************************************************)
(* The rows of users behind UsersService and AuthService: sign-up, login,  *)
(* OAuth login, change, removal and logout, statement by statement.        *)
(*                                                                         *)
(* repository.save of an entity read earlier is two statements: it looks   *)
(* the row up, soft-deleted or not, and writes the columns that differ from*)
(* what it found.  find and findOne see no soft-deleted rows, update by id *)
(* does; the unique indices of email and username count them.              *)
(*                                                                         *)
(* A username is a text and a number, <<base, 0>> being base itself and    *)
(* <<base, n>> what generateUniqueUsername makes of it.  Passwords, names, *)
(* roles and avatars decide nothing here.  refreshTokens, validate of the  *)
(* strategies and the searches only read.                                  *)
(***************************************************************************)
EXTENDS Integers, FiniteSets

CONSTANTS
    Ids,            \* ids of users
    Emails,
    Bases,          \* texts usernames are made of
    MaxCounter,     \* bound: the numbers in usernames
    Identities,     \* an account at an OAuth provider: provider and providerId
    Tokens,         \* refresh tokens
    Tasks,          \* bound: calls in flight at the same time
    LibertySets,    \* what may happen in a behaviour, see below
    None, Removed, LoggedOut

(***************************************************************************)
(* "staleSave": a call that may save a user from an entity read earlier    *)
(*              overlaps another call about the same person                *)
(* "newEmail":  the e-mail of an account changes at its provider           *)
(* "rename":    usernames are changed                                      *)
(* "dbError":   a database call rejects                                    *)
(***************************************************************************)
AllLiberties == {"staleSave", "newEmail", "rename", "dbError"}

ASSUME AccountConstants ==
    /\ MaxCounter \in Nat
    /\ LibertySets \subseteq SUBSET AllLiberties
    /\ None \notin Ids \cup Emails \cup Identities \cup Tokens \cup {Removed, LoggedOut}
    /\ {Removed, LoggedOut} \cap Tokens = {} /\ Removed # LoggedOut

VARIABLES
    users,      \* the table, soft-deleted rows included
    emailOf,    \* the e-mail of an identity, as its provider says now
    answered,   \* what callers were told last of a user's session, see Settle
    tasks,
    liberties   \* chosen at the start

vars == <<users, emailOf, answered, tasks, liberties>>

Usernames == Bases \X (0..MaxCounter)

-----------------------------------------------------------------------------
(* The table *)

NoUser == [email |-> None, username |-> None, identity |-> None,
           refreshToken |-> None, local |-> FALSE, deleted |-> FALSE]

Rows == {id \in Ids : users[id] # NoUser}

\* What find and findOne can see.
Live == {id \in Rows : ~users[id].deleted}

Unused == Ids \ Rows

\* Mutant: a soft-deleted user no longer counts.
TakenKeys_LiveOnly(email, username) ==
    \E id \in Live : users[id].email = email \/ users[id].username = username

\* The unique indices refuse the row.
TakenKeys(email, username) ==
    \E id \in Rows : users[id].email = email \/ users[id].username = username

\* The columns of `entity` that differ from `found` are written over `row`.
Merge(row, found, entity) ==
    [column \in DOMAIN NoUser |->
       IF entity[column] # found[column] THEN entity[column] ELSE row[column]]

\* Tokens somebody has.
UsedTokens ==
    {users[id].refreshToken : id \in Ids} \cup UNION {answered[id] : id \in Ids}
      \cup UNION {{tasks[t].says, tasks[t].entity.refreshToken, tasks[t].found.refreshToken} :
                  t \in Tasks}

-----------------------------------------------------------------------------
(* Calls in flight *)

Idle == [pc |-> "idle", signsIn |-> FALSE, saves |-> FALSE, email |-> None, id |-> None,
         username |-> None, identity |-> None, entity |-> NoUser, found |-> NoUser,
         says |-> None]

At(t, pc) == tasks[t].pc = pc

\* What a call with statements to come is about: its e-mail and its identity,
\* and the e-mails of the rows they or its id lead to.
Concerns(k) ==
    IF k.pc = "answering" THEN {}
    ELSE ({k.email, k.identity} \ {None})
           \cup {users[id].email : id \in
                  {r \in Rows : \/ r = k.id
                               \/ (k.identity # None /\ users[r].identity = k.identity)}}

\* A call is taken up.
Begins(t, task) ==
    /\ tasks[t] = Idle
    /\ \/ "staleSave" \in liberties
       \/ \A x \in Tasks : task.saves \/ tasks[x].saves =>
                           Concerns(task) \cap Concerns(tasks[x]) = {}
    /\ tasks' = [tasks EXCEPT ![t] = task]
    /\ UNCHANGED <<users, answered>>

GoOn(t, pc) ==
    /\ tasks' = [tasks EXCEPT ![t].pc = pc]
    /\ UNCHANGED answered

\* Tokens are to be made for the user found or inserted.
SignIn(t, id) ==
    /\ tasks' = [tasks EXCEPT ![t] = [Idle EXCEPT !.pc = "storing", !.id = id]]
    /\ UNCHANGED answered

\* The call ends and says nothing new about the session.
End(t) ==
    /\ tasks' = [tasks EXCEPT ![t] = Idle]
    /\ UNCHANGED answered

\* Answers about a user's session are on their way.
Answering(id) == \E t \in Tasks : At(t, "answering") /\ tasks[t].id = id

\* An UPDATE about a user's session is done, and the call has only its answer
\* to give.  What answers said before does not count any more, except those of
\* calls that overlap with others that have not answered yet.
Settle(t, what) ==
    LET id == tasks[t].id IN
    /\ tasks' = [tasks EXCEPT ![t] =
         [Idle EXCEPT !.pc = "answering", !.id = id, !.says = what]]
    /\ answered' = IF Answering(id) THEN answered
                   ELSE [answered EXCEPT ![id] = @ \cap {Removed}]

\* The caller is told.
Answer(t) ==
    /\ At(t, "answering")
    /\ tasks' = [tasks EXCEPT ![t] = Idle]
    /\ answered' = [answered EXCEPT ![tasks[t].id] = @ \cup {tasks[t].says}]
    /\ UNCHANGED users

-----------------------------------------------------------------------------
(* Sign-up: register, and POST users, which gives no tokens *)

Create(t, signsIn, e, username) ==
    Begins(t, [Idle EXCEPT !.pc = "checking", !.signsIn = signsIn, !.email = e,
                           !.username = username])

\* A conflict is answered if a user is found.
FindTaken(t) ==
    /\ At(t, "checking")
    /\ IF \E id \in Live : \/ users[id].email = tasks[t].email
                           \/ users[id].username = tasks[t].username
       THEN End(t)
       ELSE GoOn(t, "inserting")
    /\ UNCHANGED users

\* Refused if somebody, even a removed user, has the e-mail or the username.
Insert(t) ==
    LET k == tasks[t] IN
    /\ At(t, "inserting")
    /\ \/ /\ TakenKeys(k.email, k.username)
          /\ End(t)
          /\ UNCHANGED users
       \/ /\ ~TakenKeys(k.email, k.username)
          /\ \E id \in Unused :
               /\ users' = [users EXCEPT ![id] =
                    [NoUser EXCEPT !.email = k.email, !.username = k.username,
                                   !.identity = k.identity, !.local = k.identity = None]]
               /\ IF k.signsIn THEN SignIn(t, id) ELSE End(t)

-----------------------------------------------------------------------------
(* Logins *)

\* POST login: the user of the e-mail, whose password may be right or wrong.
Login(t, e) ==
    Begins(t, [Idle EXCEPT !.pc = "authenticating", !.email = e])

ValidateUser(t) ==
    /\ At(t, "authenticating")
    /\ \/ /\ \E id \in Live :
               /\ users[id].email = tasks[t].email /\ users[id].local
               /\ SignIn(t, id)
       \/ End(t)
    /\ UNCHANGED users

\* Mutant: a token that is there is kept, as refreshTokens keeps it.
StoreToken_KeepsOld(t) ==
    /\ At(t, "storing")
    /\ \E token \in Tokens \ UsedTokens :
         /\ users' = [users EXCEPT ![tasks[t].id].refreshToken = IF @ = None THEN token ELSE @]
         /\ Settle(t, token)

\* generateTokens signs a new token and updates the row by its id.
StoreToken(t) ==
    /\ At(t, "storing")
    /\ \E token \in Tokens \ UsedTokens :
         /\ users' = [users EXCEPT ![tasks[t].id].refreshToken = token]
         /\ Settle(t, token)

\* Mutant: no name is made up for a profile without one.
OAuth_Nameless(t, i, base) ==
    Begins(t, [Idle EXCEPT !.pc = "byIdentity", !.signsIn = TRUE, !.email = emailOf[i],
                           !.identity = i, !.saves = TRUE])

\* createOAuthUser, called by the strategy of the provider with the profile it
\* has got: identity, e-mail and a username, any of them.
OAuth(t, i, base) ==
    Begins(t, [Idle EXCEPT !.pc = "byIdentity", !.signsIn = TRUE, !.email = emailOf[i],
                           !.identity = i, !.username = <<base, 0>>, !.saves = TRUE])

\* The entity found, as changed, is to be saved.
Change(t, id, entity) ==
    /\ tasks' = [tasks EXCEPT ![t].pc = "loading", ![t].id = id, ![t].entity = entity]
    /\ UNCHANGED answered

\* updateOAuthUserProfile always has provider data to save.
FindByProviderAndId(t) ==
    LET found == {id \in Live : users[id].identity = tasks[t].identity} IN
    /\ At(t, "byIdentity")
    /\ \/ \E id \in found : Change(t, id, users[id])
       \/ found = {} /\ GoOn(t, "byEmail")
    /\ UNCHANGED users

\* linkOAuthProviderToExistingUser, which saves nothing if another login has
\* linked the identity since.
FindByEmail(t) ==
    LET i == tasks[t].identity
        found == {id \in Live : users[id].email = tasks[t].email}
    IN
    /\ At(t, "byEmail")
    /\ \/ \E id \in found :
            IF users[id].identity # i
            THEN Change(t, id, [users[id] EXCEPT !.identity = i])
            ELSE SignIn(t, id)
       \/ found = {} /\ GoOn(t, "naming")
    /\ UNCHANGED users

\* One turn of the loop of generateUniqueUsername.
FindByUsername(t) ==
    LET username == tasks[t].username IN
    /\ At(t, "naming")
    /\ IF \E id \in Live : users[id].username = username
       THEN /\ username[2] < MaxCounter
            /\ tasks' = [tasks EXCEPT ![t].username = <<username[1], username[2] + 1>>]
       ELSE GoOn(t, "inserting")
    /\ UNCHANGED <<users, answered>>

-----------------------------------------------------------------------------
(* repository.save *)

LoadUser(t) ==
    /\ At(t, "loading")
    /\ tasks' = [tasks EXCEPT ![t].pc = "saving", ![t].found = users[tasks[t].id]]
    /\ UNCHANGED <<users, answered>>

\* Refused if another user has the username by now.
SaveUser(t) ==
    LET k == tasks[t]
        row == Merge(users[k.id], k.found, k.entity)
    IN
    /\ At(t, "saving")
    /\ \/ /\ \E id \in Rows \ {k.id} : users[id].username = row.username
          /\ End(t)
          /\ UNCHANGED users
       \/ /\ \A id \in Rows \ {k.id} : users[id].username # row.username
          /\ users' = [users EXCEPT ![k.id] = row]
          /\ IF k.signsIn THEN SignIn(t, k.id) ELSE End(t)

-----------------------------------------------------------------------------
(* PATCH and DELETE users/:id, and logout *)

\* Of an id a client can know; only a username among the data matters here.
Update(t, id, username) ==
    /\ id \in Rows
    /\ username = users[id].username \/ "rename" \in liberties
    /\ Begins(t, [Idle EXCEPT !.pc = "findingOne", !.id = id, !.saves = TRUE,
                              !.username = username])

FindToUpdate(t) ==
    LET k == tasks[t] IN
    /\ At(t, "findingOne")
    /\ IF k.id \notin Live THEN End(t)
       ELSE /\ tasks' = [tasks EXCEPT
                 ![t].pc = IF k.username = users[k.id].username THEN "loading" ELSE "checkingName",
                 ![t].entity = [users[k.id] EXCEPT !.username = k.username]]
            /\ UNCHANGED answered
    /\ UNCHANGED users

CheckUsername(t) ==
    /\ At(t, "checkingName")
    /\ IF \E id \in Live : users[id].username = tasks[t].username
       THEN End(t)
       ELSE GoOn(t, "loading")
    /\ UNCHANGED users

Remove(t, id) ==
    /\ id \in Rows
    /\ Begins(t, [Idle EXCEPT !.pc = "findingToRemove", !.id = id])

FindToRemove(t) ==
    /\ At(t, "findingToRemove")
    /\ IF tasks[t].id \in Live THEN GoOn(t, "removing")
       ELSE End(t)
    /\ UNCHANGED users

SoftRemove(t) ==
    /\ At(t, "removing")
    /\ users' = [users EXCEPT ![tasks[t].id].deleted = TRUE]
    /\ Settle(t, Removed)

\* With an access token of the user.
Logout(t, id) ==
    /\ id \in Rows
    /\ Begins(t, [Idle EXCEPT !.pc = "validating", !.id = id])

ValidateJwt(t) ==
    /\ At(t, "validating")
    /\ IF tasks[t].id \in Live THEN GoOn(t, "clearing")
       ELSE End(t)
    /\ UNCHANGED users

\* update skips columns whose value is undefined, and `null || undefined` is.
ClearToken(t) ==
    /\ At(t, "clearing")
    /\ Settle(t, LoggedOut)
    /\ UNCHANGED users

-----------------------------------------------------------------------------

\* A database call rejects and the call ends.  If its last UPDATE was done
\* nevertheless, nobody knows what it did.
DbCallFails(t) ==
    /\ "dbError" \in liberties
    /\ ~At(t, "idle")
    /\ tasks' = [tasks EXCEPT ![t] = Idle]
    /\ answered' = IF At(t, "answering")
                   THEN [answered EXCEPT ![tasks[t].id] = @ \cup {None}]
                   ELSE answered
    /\ UNCHANGED users

\* At the provider, somebody changes the e-mail of an account.
NewEmail(i) ==
    /\ "newEmail" \in liberties
    /\ \E e \in Emails : emailOf' = [emailOf EXCEPT ![i] = e]
    /\ UNCHANGED <<users, answered, tasks>>

Init ==
    /\ users = [id \in Ids |-> NoUser]
    /\ emailOf \in [Identities -> Emails]
    /\ answered = [id \in Ids |-> {}]
    /\ tasks = [t \in Tasks |-> Idle]
    /\ liberties \in LibertySets

Step(t) ==
    \/ FindTaken(t) \/ Insert(t) \/ ValidateUser(t) \/ StoreToken(t)
    \/ FindByProviderAndId(t) \/ FindByEmail(t) \/ FindByUsername(t)
    \/ LoadUser(t) \/ SaveUser(t) \/ FindToUpdate(t) \/ CheckUsername(t)
    \/ FindToRemove(t) \/ SoftRemove(t) \/ ValidateJwt(t) \/ ClearToken(t)
    \/ Answer(t) \/ DbCallFails(t)

Call(t) ==
    \/ \E e \in Emails :
         \/ Login(t, e)
         \/ \E signsIn \in BOOLEAN, base \in Bases : Create(t, signsIn, e, <<base, 0>>)
    \/ \E i \in Identities, base \in Bases : OAuth(t, i, base)
    \/ \E id \in Ids :
         \/ \E username \in Usernames : Update(t, id, username)
         \/ Remove(t, id) \/ Logout(t, id)

Next ==
    /\ \/ (\E t \in Tasks : Step(t) \/ Call(t)) /\ UNCHANGED emailOf
       \/ \E i \in Identities : NewEmail(i)
    /\ UNCHANGED liberties

Spec == Init /\ [][Next]_vars

-----------------------------------------------------------------------------
(* Properties *)

User ==
    [email : Emails, username : Usernames, identity : Identities \cup {None},
     refreshToken : Tokens \cup {None}, local : BOOLEAN, deleted : BOOLEAN]

\* What a caller may know of a session; None is a call that never answered.
Said == Tokens \cup {None, Removed, LoggedOut}

TaskRecord ==
    [pc : {"idle", "checking", "inserting", "authenticating", "storing", "byIdentity",
           "byEmail", "naming", "loading", "saving", "findingOne", "checkingName",
           "findingToRemove", "removing", "validating", "clearing", "answering"},
     signsIn : BOOLEAN, saves : BOOLEAN, email : Emails \cup {None},
     id : Ids \cup {None}, username : Usernames \cup {None},
     identity : Identities \cup {None},
     entity : User \cup {NoUser}, found : User \cup {NoUser}, says : Said]

\* Rows are whole or not there.
TypeOK ==
    /\ users \in [Ids -> User \cup {NoUser}]
    /\ emailOf \in [Identities -> Emails]
    /\ answered \in [Ids -> SUBSET Said]
    /\ tasks \in [Tasks -> TaskRecord]
    /\ liberties \in SUBSET AllLiberties

OneAmong(ids) ==
    \A id1, id2 \in ids :
      users[id1].identity # None /\ users[id1].identity = users[id2].identity => id1 = id2

\* An OAuth identity leads to one account, although no index says so: created,
\* linked to an existing user, linked over another identity, saved from a stale
\* entity.  As long as providers keep their e-mails removed accounts count, which
\* a late save can bring back: the unique e-mail sees to it.  When e-mails change
\* a login after a removal makes another row, and two accounts can be live only if
\* logins of the identity, or a login and a change, overlap.
OneAccountPerIdentity ==
    /\ "newEmail" \notin liberties => OneAmong(Rows)
    /\ "staleSave" \notin liberties => OneAmong(Live)

\* What the last answers said of a user's session holds once they are all
\* given: the token stored is one of those they gave, and a removed user is gone;
\* although logins, sign-ups, logouts and removals of the user overlap in any
\* order, and answers overtake each other.  Logins that overlap are told more
\* than one token, and only one of them is stored.  An entity saved late can bring
\* an older token or a removed user back.
AnswerHolds ==
    "staleSave" \notin liberties =>
      \A id \in Ids :
        ~Answering(id) =>
          /\ answered[id] \cap Tokens # {} /\ {None, LoggedOut} \cap answered[id] = {} =>
               users[id].refreshToken \in answered[id]
          /\ Removed \in answered[id] => id \notin Live

\* updateRefreshToken with null "removes" the token: after a logout, the last
\* call about the user's session, no refresh token is left.
LogoutRemovesToken ==
    "staleSave" \notin liberties =>
      \A id \in Ids :
        ~Answering(id) /\ answered[id] = {LoggedOut} => users[id].refreshToken = None
=============================================================================

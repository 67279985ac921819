--------------------------- MODULE AccountsProofs ---------------------------
(***************************************************************************)
(* Type correctness, OneAccountPerIdentity and AnswerHolds of Accounts, for*)
(* any number of users, e-mails, identities and calls, and every liberty.  *)
(***************************************************************************)
EXTENDS Accounts, TLAPS

LEMMA NoUserIsNone == NoUser \notin User /\ NoUser.email = None
BY AccountConstants DEF NoUser, User

\* Where the columns of a merged row come from.
LEMMA MergeIsUser ==
    ASSUME NEW row \in User, NEW found \in User, NEW entity \in User
    PROVE  LET m == Merge(row, found, entity) IN
           /\ m \in User
           /\ entity.email = found.email => m.email = row.email
           /\ m.identity \in {entity.identity, row.identity}
           /\ found = row => /\ m.refreshToken = entity.refreshToken
                             /\ m.deleted = entity.deleted
                             /\ m.identity = entity.identity
<1> DEFINE m == Merge(row, found, entity)
           pick(c) == IF entity[c] # found[c] THEN entity[c] ELSE row[c]
<1>1. DOMAIN NoUser = {"email", "username", "identity", "refreshToken", "local", "deleted"}
  BY DEF NoUser
<1>2. m = [c \in {"email", "username", "identity", "refreshToken", "local", "deleted"} |->
             pick(c)]
  BY <1>1 DEF Merge
<1>3. m = [email |-> pick("email"), username |-> pick("username"),
           identity |-> pick("identity"), refreshToken |-> pick("refreshToken"),
           local |-> pick("local"), deleted |-> pick("deleted")]
  BY <1>2
<1> QED
  BY <1>3 DEF User

-----------------------------------------------------------------------------
(* The invariant *)

RowsIn(table) == {id \in Ids : table[id] # NoUser}
LiveIn(table) == {id \in RowsIn(table) : ~table[id].deleted}

\* Places of a call where it has an e-mail, a username, a row, an entity or an
\* identity.
WithEmail == {"checking", "inserting", "authenticating", "byIdentity", "byEmail", "naming"}
WithName == {"checking", "inserting", "byIdentity", "byEmail", "naming",
             "findingOne", "checkingName"}
WithRow == {"storing", "loading", "saving", "findingOne", "checkingName",
            "findingToRemove", "removing", "validating", "clearing", "answering"}
WithEntity == {"checkingName", "loading", "saving"}
WithIdentity == {"byIdentity", "byEmail", "naming", "inserting", "loading", "saving"}

\* What a call in flight holds is whole: an entity is about the row it was read
\* from, and so is what save found.
Sound(k, table) ==
    /\ k.pc \in WithEmail => k.email \in Emails
    /\ k.pc \in WithName => k.username \in Usernames
    /\ k.pc \in {"byIdentity", "byEmail"} => k.identity \in Identities
    /\ k.pc \notin WithIdentity => k.identity = None
    /\ k.pc \in WithRow => k.id \in RowsIn(table)
    /\ k.pc \notin WithRow => k.id = None
    /\ k.pc \in WithEntity => k.entity \in User /\ k.entity.email = table[k.id].email
    /\ k.pc = "saving" => k.found \in User /\ k.found.email = table[k.id].email

\* An account linked to an identity has the e-mail the provider says.
Agrees(identity, email) == identity \in Identities => email = emailOf[identity]

AgreesAll(k) ==
    /\ Agrees(k.identity, k.email)
    /\ k.pc \in WithEntity => Agrees(k.entity.identity, k.entity.email)

\* A call that may save says so, and what it has read of its row still holds.
UpToDate(k, table) ==
    /\ k.pc \in {"findingOne"} \cup WithEntity => k.saves
    /\ k.identity # None => k.saves
    /\ k.pc \in WithEntity =>
         /\ k.entity.refreshToken = table[k.id].refreshToken
         /\ k.entity.deleted = table[k.id].deleted
         /\ \/ k.entity.identity = table[k.id].identity
            \/ k.identity # None /\ k.entity.identity = k.identity
    /\ k.pc = "saving" => k.found = table[k.id]

\* Nobody but the user it saves has the identity a login comes with.
Sole(k, table) ==
    k.identity # None /\ k.pc # "byIdentity" =>
      \A id \in LiveIn(table) :
        table[id].identity = k.identity => k.pc \in {"loading", "saving"} /\ id = k.id

\* What holds of a call and the rows, under whatever may happen.
Good(k, table) ==
    /\ Sound(k, table)
    /\ "newEmail" \notin liberties => AgreesAll(k)
    /\ "staleSave" \notin liberties => UpToDate(k, table) /\ Sole(k, table)

SoundTable ==
    /\ \A id1, id2 \in Rows : users[id1].email = users[id2].email => id1 = id2
    /\ "newEmail" \notin liberties =>
         \A id \in Rows : Agrees(users[id].identity, users[id].email)
    /\ "staleSave" \notin liberties => OneAmong(Live)

\* Nothing was answered about a user who is not there.
SoundAnswers == \A id \in Ids \ Rows : answered[id] = {}

\* While an entity is read and saved, no other call is about what it is about.
SaveAlone ==
    \A x, y \in Tasks :
      x # y /\ tasks[x].saves => Concerns(tasks[x]) \cap Concerns(tasks[y]) = {}

IInv ==
    /\ TypeOK /\ SoundTable /\ SoundAnswers
    /\ \A t \in Tasks : Good(tasks[t], users)
    /\ "staleSave" \notin liberties => SaveAlone

\* What callers have been told of a user's session or are about to be.
Tells(id) ==
    answered[id] \cup {tasks[t].says : t \in {x \in Tasks : At(x, "answering")
                                                             /\ tasks[x].id = id}}

\* More than AnswerHolds: answers on their way do not matter.
Told(id) ==
    /\ Tells(id) \cap Tokens # {} /\ {None, LoggedOut} \cap Tells(id) = {} =>
         users[id].refreshToken \in Tells(id)
    /\ Removed \in Tells(id) => id \notin Live

Current == "staleSave" \notin liberties => \A id \in Ids : Told(id)

-----------------------------------------------------------------------------
(* What a step does to the calls and to the rows *)

\* Rows stay, and keep their e-mails.
RowsStay == \A id \in Rows : id \in Rows' /\ users'[id].email = users[id].email

\* A step of t writes no row but those it is about, gives no row an identity but
\* its own, and brings no removed user back.
OwnRows(t) ==
    /\ \A id \in Rows : users'[id] = users[id] \/ users[id].email \in Concerns(tasks[t])
    /\ \A id \in Rows' :
         \/ id \in Rows /\ users'[id].identity = users[id].identity
         \/ users'[id].identity \in {None, tasks[t].identity}
    /\ \A id \in Rows : id \in Live' => id \in Live

\* The call goes on about nothing else, ...
Follows(t, k) ==
    /\ k.saves => tasks[t].saves
    /\ Concerns(k)' \subseteq Concerns(tasks[t])

\* ... or is taken up, apart from the others if one of them saves.
Apart(t, k) ==
    /\ UNCHANGED users
    /\ \A x \in Tasks \ {t} :
         k.saves \/ tasks[x].saves => Concerns(k) \cap Concerns(tasks[x]) = {}

LEMMA RowsAre ==
    /\ Rows = RowsIn(users) /\ Rows' = RowsIn(users')
    /\ Live = LiveIn(users) /\ Live' = LiveIn(users')
    /\ Live \subseteq Rows /\ Rows \subseteq Ids /\ Rows' \subseteq Ids /\ None \notin Ids
BY AccountConstants DEF Rows, Live, RowsIn, LiveIn

LEMMA IdleGood ==
    /\ Idle \in TaskRecord /\ \A table : Good(Idle, table)
    /\ ~Idle.saves /\ Idle.pc = "idle"
    /\ Concerns(Idle) = {} /\ Concerns(Idle)' = {}
<1>1. /\ Idle.pc = "idle" /\ Idle.identity = None /\ Idle.id = None /\ Idle.email = None
      /\ ~Idle.saves
  BY DEF Idle
<1>2. Idle \in TaskRecord
  BY DEF Idle, TaskRecord, Said
<1>3. None \notin Identities /\ None \notin Ids
  BY AccountConstants
<1>4. \A table : Good(Idle, table)
  BY <1>1, <1>3 DEF Good, Sound, AgreesAll, Agrees, UpToDate, Sole,
                    WithEmail, WithName, WithRow, WithEntity, WithIdentity
<1>5. Concerns(Idle) = {} /\ Concerns(Idle)' = {}
  <2>1. {r \in Rows : r = Idle.id \/ (Idle.identity # None
                                       /\ users[r].identity = Idle.identity)} = {}
    BY <1>1, RowsAre
  <2>2. {r \in Rows' : r = Idle.id \/ (Idle.identity # None
                                        /\ users'[r].identity = Idle.identity)} = {}
    BY <1>1, RowsAre
  <2> QED
    BY <1>1, <2>1, <2>2 DEF Concerns
<1> QED
  BY <1>1, <1>2, <1>4, <1>5

\* What a call is about becomes less by what another one does.
LEMMA OthersNarrow ==
    ASSUME IInv, "staleSave" \notin liberties, NEW t \in Tasks, NEW x \in Tasks, x # t,
           tasks'[x] = tasks[x], RowsStay, OwnRows(t)
    PROVE  /\ Concerns(tasks[x])' \subseteq Concerns(tasks[x])
           /\ tasks[x].identity # None => tasks[x].identity # tasks[t].identity
<1>1. Good(tasks[x], users) /\ Good(tasks[t], users) /\ SaveAlone
  BY DEF IInv
<1>2. tasks[x].identity # None => tasks[x].identity # tasks[t].identity
  <2> SUFFICES ASSUME tasks[x].identity # None, tasks[x].identity = tasks[t].identity
               PROVE  FALSE
    OBVIOUS
  <2>1. /\ tasks[x].identity \in Concerns(tasks[x]) /\ tasks[x].identity \in Concerns(tasks[t])
        /\ tasks[x].saves
    BY <1>1 DEF Good, Sound, UpToDate, Concerns, WithIdentity
  <2> QED
    BY <1>1, <2>1 DEF SaveAlone
<1>3. ASSUME NEW e \in Concerns(tasks[x])'
      PROVE  e \in Concerns(tasks[x])
  <2>1. tasks[x].pc # "answering"
    BY DEF Concerns
  <2>2. CASE e \in {tasks[x].email, tasks[x].identity} \ {None}
    BY <2>1, <2>2 DEF Concerns
  <2>3. ASSUME NEW id \in Rows', e = users'[id].email,
               \/ id = tasks[x].id
               \/ tasks[x].identity # None /\ users'[id].identity = tasks[x].identity
        PROVE  e \in Concerns(tasks[x])
    <3>1. CASE id = tasks[x].id
      <4>1. id \in Rows
        BY <1>1, <3>1, RowsAre DEF Good, Sound
      <4> QED
        BY <2>1, <2>3, <3>1, <4>1 DEF Concerns, RowsStay
    <3>2. CASE tasks[x].identity # None /\ users'[id].identity = tasks[x].identity
      <4>1. id \in Rows /\ users[id].identity = tasks[x].identity
        BY <1>2, <3>2 DEF OwnRows
      <4> QED
        BY <2>1, <2>3, <3>2, <4>1 DEF Concerns, RowsStay
    <3> QED
      BY <2>3, <3>1, <3>2
  <2> QED
    BY <2>1, <2>2, <2>3 DEF Concerns
<1> QED
  BY <1>2, <1>3

\* What another call has read still holds.
LEMMA OthersGood ==
    ASSUME IInv, UNCHANGED <<emailOf, liberties>>, NEW t \in Tasks, NEW x \in Tasks, x # t,
           tasks'[x] = tasks[x], RowsStay, "staleSave" \notin liberties => OwnRows(t)
    PROVE  Good(tasks[x], users)'
<1> DEFINE k == tasks[x]
<1>1. Good(k, users)
  BY DEF IInv
<1>2. Sound(k, users')
  <2>1. k.pc \in WithRow => k.id \in Rows
    BY <1>1, RowsAre DEF Good, Sound
  <2> QED
    BY <1>1, <2>1, RowsAre DEF Good, Sound, RowsStay, WithRow, WithEntity
<1>3. ASSUME "staleSave" \notin liberties
      PROVE  UpToDate(k, users') /\ Sole(k, users')
  <2>1. OwnRows(t) /\ UpToDate(k, users) /\ Sole(k, users) /\ Sound(k, users) /\ SaveAlone
    BY <1>1, <1>3 DEF Good, IInv
  <2>2. k.identity # None => k.identity # tasks[t].identity
    BY <1>3, <2>1, OthersNarrow
  <2>3. k.pc \in WithEntity => users'[k.id] = users[k.id]
    <3> SUFFICES ASSUME k.pc \in WithEntity PROVE users'[k.id] = users[k.id]
      OBVIOUS
    <3>1. k.id \in Rows /\ k.saves /\ k.pc # "answering"
      BY <2>1, RowsAre DEF Sound, UpToDate, WithEntity, WithRow
    <3>2. users[k.id].email \in Concerns(k)
      BY <3>1 DEF Concerns
    <3>3. users[k.id].email \notin Concerns(tasks[t])
      BY <2>1, <3>1, <3>2 DEF SaveAlone
    <3> QED
      BY <2>1, <3>1, <3>3 DEF OwnRows
  <2>4. UpToDate(k, users')
    BY <2>1, <2>3 DEF UpToDate, WithEntity
  <2>5. Sole(k, users')
    <3> SUFFICES ASSUME k.identity # None, k.pc # "byIdentity", NEW id \in Live',
                        users'[id].identity = k.identity
                 PROVE  k.pc \in {"loading", "saving"} /\ id = k.id
      BY RowsAre DEF Sole
    <3>1. id \in Rows'
      BY DEF Live
    <3>2. id \in Rows /\ users[id].identity = k.identity
      BY <2>1, <2>2, <3>1 DEF OwnRows
    <3>3. id \in Live
      BY <2>1, <3>2 DEF OwnRows
    <3> QED
      BY <2>1, <3>2, <3>3, RowsAre DEF Sole
  <2> QED
    BY <2>4, <2>5
<1> QED
  BY <1>1, <1>2, <1>3 DEF Good, AgreesAll, Agrees

\* A step of one call, which leaves itself, the table and the answers sound.
LEMMA StepFrame ==
    ASSUME IInv, UNCHANGED <<emailOf, liberties>>, NEW t \in Tasks, NEW k \in TaskRecord,
           tasks' = [tasks EXCEPT ![t] = k],
           Good(k, users'), users' \in [Ids -> User \cup {NoUser}], RowsStay, SoundTable',
           answered' \in [Ids -> SUBSET Said], SoundAnswers',
           "staleSave" \notin liberties => OwnRows(t) /\ (Follows(t, k) \/ Apart(t, k))
    PROVE  IInv'
<1>1. /\ tasks' \in [Tasks -> TaskRecord] /\ tasks'[t] = k
      /\ \A x \in Tasks \ {t} : tasks'[x] = tasks[x]
  BY DEF IInv, TypeOK
<1>2. ASSUME NEW x \in Tasks PROVE Good(tasks[x], users)'
  <2>1. CASE x = t
    BY <1>1, <2>1 DEF Good, AgreesAll, Agrees
  <2>2. CASE x # t
    BY <1>1, <2>2, OthersGood
  <2> QED
    BY <2>1, <2>2
<1>3. ASSUME "staleSave" \notin liberties PROVE SaveAlone'
  <2>1. SaveAlone /\ OwnRows(t)
    BY <1>3 DEF IInv
  <2>2. \A x \in Tasks \ {t} : Concerns(tasks[x])' \subseteq Concerns(tasks[x])
    BY <1>1, <1>3, <2>1, OthersNarrow
  <2>3. Concerns(tasks[t])' = Concerns(k)'
    BY <1>1 DEF Concerns
  <2>4. ASSUME NEW x \in Tasks, x # t, k.saves \/ tasks[x].saves
        PROVE  Concerns(k)' \cap Concerns(tasks[x])' = {}
    <3>1. CASE Follows(t, k)
      <4>1. Concerns(tasks[t]) \cap Concerns(tasks[x]) = {}
        BY <2>1, <2>4, <3>1 DEF SaveAlone, Follows
      <4> QED
        BY <2>2, <2>4, <3>1, <4>1 DEF Follows
    <3>2. CASE Apart(t, k)
      <4>1. Concerns(k)' = Concerns(k)
        BY <3>2 DEF Apart, Concerns, Rows
      <4> QED
        BY <2>2, <2>4, <3>2, <4>1 DEF Apart
    <3> QED
      BY <1>3, <3>1, <3>2
  <2>5. ASSUME NEW x \in Tasks, NEW y \in Tasks, x # y, tasks'[x].saves
        PROVE  Concerns(tasks[x])' \cap Concerns(tasks[y])' = {}
    <3>1. CASE x = t
      BY <1>1, <2>3, <2>4, <2>5, <3>1
    <3>2. CASE y = t
      BY <1>1, <2>3, <2>4, <2>5, <3>2
    <3>3. CASE x # t /\ y # t
      <4>1. Concerns(tasks[x]) \cap Concerns(tasks[y]) = {}
        BY <1>1, <2>1, <2>5, <3>3 DEF SaveAlone
      <4> QED
        BY <2>2, <3>3, <4>1
    <3> QED
      BY <3>1, <3>2, <3>3
  <2> QED
    BY <2>5 DEF SaveAlone
<1>4. TypeOK'
  BY <1>1 DEF IInv, TypeOK
<1> QED
  BY <1>2, <1>3, <1>4 DEF IInv

\* ... which leaves the table alone.
LEMMA QuietFrame ==
    ASSUME IInv, UNCHANGED <<users, emailOf, liberties>>, NEW t \in Tasks,
           NEW k \in TaskRecord, tasks' = [tasks EXCEPT ![t] = k], Good(k, users),
           answered' \in [Ids -> SUBSET Said], SoundAnswers',
           "staleSave" \notin liberties => Follows(t, k) \/ Apart(t, k)
    PROVE  IInv'
<1>1. Rows' = Rows /\ Live' = Live /\ RowsStay
  BY DEF Rows, Live, RowsStay
<1>2. SoundTable'
  BY <1>1 DEF IInv, SoundTable, OneAmong, Agrees
<1>3. OwnRows(t)
  BY <1>1 DEF OwnRows
<1> QED
  BY <1>1, <1>2, <1>3, StepFrame DEF IInv, TypeOK

\* Going on about a row it leads to is going on about nothing else.
LEMMA QuietFollows ==
    ASSUME IInv, UNCHANGED users, NEW t \in Tasks, tasks[t].pc # "answering", NEW k,
           k.saves => tasks[t].saves,
           k.email \in {None, tasks[t].email}, k.identity \in {None, tasks[t].identity},
           \/ k.id \in {None, tasks[t].id}
           \/ k.id \in Rows /\ users[k.id].email \in Concerns(tasks[t])
    PROVE  Follows(t, k)
<1>1. Rows' = Rows
  BY DEF Rows
<1>2. ASSUME NEW e \in Concerns(k)' PROVE e \in Concerns(tasks[t])
  <2>1. CASE e \in {k.email, k.identity} \ {None}
    BY <2>1 DEF Concerns
  <2>2. ASSUME NEW id \in Rows, e = users[id].email,
               id = k.id \/ (k.identity # None /\ users[id].identity = k.identity)
        PROVE  e \in Concerns(tasks[t])
    BY <2>2, RowsAre DEF Concerns
  <2> QED
    BY <1>1, <1>2, <2>1, <2>2 DEF Concerns
<1> QED
  BY <1>2 DEF Follows

\* ... which says nothing of the session.
LEMMA SilentFrame ==
    ASSUME IInv, UNCHANGED <<users, answered, emailOf, liberties>>, NEW t \in Tasks,
           NEW k \in TaskRecord, tasks' = [tasks EXCEPT ![t] = k], Good(k, users),
           "staleSave" \notin liberties => Follows(t, k) \/ Apart(t, k)
    PROVE  IInv'
<1>1. SoundAnswers'
  BY DEF IInv, SoundAnswers, Rows
<1> QED
  BY <1>1, QuietFrame DEF IInv, TypeOK

\* What is known of a call in flight.
LEMMA CallKnown ==
    ASSUME IInv, NEW t \in Tasks
    PROVE  /\ tasks[t] \in TaskRecord /\ Good(tasks[t], users)
           /\ tasks[t].pc \in WithRow =>
                /\ tasks[t].id \in Rows /\ tasks[t].id \in Ids
                /\ users[tasks[t].id] \in User
                /\ tasks[t].pc # "answering" =>
                     users[tasks[t].id].email \in Concerns(tasks[t])
<1>1. tasks[t] \in TaskRecord /\ Good(tasks[t], users)
  BY DEF IInv, TypeOK
<1>2. tasks[t].pc \in WithRow => tasks[t].id \in Rows /\ tasks[t].id \in Ids
  BY <1>1, RowsAre DEF Good, Sound
<1> QED
  BY <1>1, <1>2 DEF IInv, TypeOK, Concerns, Rows

\* Ends of a call.
LEMMA EndFrame ==
    ASSUME IInv, UNCHANGED <<users, emailOf, liberties>>, NEW t \in Tasks, End(t)
    PROVE  IInv'
BY IdleGood, SilentFrame DEF End, Follows

\* All but where it is.
SameBut(k, j) ==
    /\ k.email = j.email /\ k.id = j.id /\ k.username = j.username
    /\ k.identity = j.identity /\ k.saves = j.saves
    /\ k.entity = j.entity /\ k.found = j.found

LEMMA GoOnCall ==
    ASSUME IInv, NEW t \in Tasks,
           NEW pc \in {"inserting", "byEmail", "naming", "loading", "removing", "clearing"},
           GoOn(t, pc)
    PROVE  \E k \in TaskRecord : /\ tasks' = [tasks EXCEPT ![t] = k]
                                 /\ k.pc = pc /\ SameBut(k, tasks[t])
<1> DEFINE k == [tasks[t] EXCEPT !.pc = pc]
<1>1. tasks[t] \in TaskRecord
  BY CallKnown
<1>2. k \in TaskRecord /\ tasks' = [tasks EXCEPT ![t] = k]
  BY <1>1 DEF TaskRecord, GoOn
<1>3. k.pc = pc /\ SameBut(k, tasks[t])
  BY <1>1 DEF TaskRecord, SameBut
<1> QED
  BY <1>2, <1>3

\* Going on, with nothing learnt but that nobody has the identity.
LEMMA GoOnFrame ==
    ASSUME IInv, UNCHANGED <<users, emailOf, liberties>>, NEW t \in Tasks,
           NEW pc \in {"inserting", "byEmail", "naming", "loading", "removing", "clearing"},
           pc = "inserting" => tasks[t].pc \in {"checking", "naming"},
           pc = "byEmail" => /\ tasks[t].pc = "byIdentity"
                             /\ \A id \in Live : users[id].identity # tasks[t].identity,
           pc = "naming" => tasks[t].pc = "byEmail",
           pc = "loading" => tasks[t].pc = "checkingName",
           pc = "removing" => tasks[t].pc = "findingToRemove",
           pc = "clearing" => tasks[t].pc = "validating",
           GoOn(t, pc)
    PROVE  IInv'
<1>1. PICK k \in TaskRecord : /\ tasks' = [tasks EXCEPT ![t] = k]
                              /\ k.pc = pc /\ SameBut(k, tasks[t])
  BY GoOnCall
<1> DEFINE j == tasks[t]
<1>2. Good(j, users)
  BY CallKnown
<1>3. Sound(k, users)
  BY <1>1, <1>2 DEF Good, Sound, SameBut,
                    WithEmail, WithName, WithRow, WithEntity, WithIdentity
<1>4. AgreesAll(j) => AgreesAll(k)
  BY <1>1 DEF AgreesAll, SameBut, WithEntity
<1>5. UpToDate(j, users) => UpToDate(k, users)
  BY <1>1 DEF UpToDate, SameBut, WithEntity
<1>6. Sole(j, users) => Sole(k, users)
  BY <1>1, <1>2, RowsAre DEF Good, Sound, Sole, SameBut, WithIdentity
<1>7. Good(k, users)
  BY <1>2, <1>3, <1>4, <1>5, <1>6 DEF Good
<1>8. Follows(t, k)
  BY <1>1, QuietFollows DEF SameBut
<1> QED
  BY <1>1, <1>7, <1>8, SilentFrame DEF GoOn

\* The call that SignIn goes on with is about the row.
LEMMA SignInCall ==
    ASSUME NEW t \in Tasks, NEW id \in Ids, SignIn(t, id)
    PROVE  \E k \in TaskRecord :
             /\ tasks' = [tasks EXCEPT ![t] = k] /\ UNCHANGED answered
             /\ k.pc = "storing" /\ k.id = id /\ ~k.saves
             /\ k.email = None /\ k.identity = None
             /\ \A table : id \in RowsIn(table) => Good(k, table)
<1> DEFINE k == [Idle EXCEPT !.pc = "storing", !.id = id]
<1>1. /\ k.pc = "storing" /\ k.id = id /\ ~k.saves /\ k.email = None /\ k.identity = None
      /\ k \in TaskRecord
  BY DEF Idle, TaskRecord, Said
<1>2. tasks' = [tasks EXCEPT ![t] = k] /\ UNCHANGED answered
  BY DEF SignIn
<1> HIDE DEF k
<1>3. \A table : id \in RowsIn(table) => Good(k, table)
  BY <1>1, AccountConstants
  DEF Good, Sound, AgreesAll, Agrees, UpToDate, Sole,
      WithEmail, WithName, WithRow, WithEntity, WithIdentity
<1> QED
  BY <1>1, <1>2, <1>3

LEMMA SignInFrame ==
    ASSUME IInv, UNCHANGED <<users, emailOf, liberties>>, NEW t \in Tasks,
           tasks[t].pc # "answering", NEW id \in Rows,
           users[id].email \in Concerns(tasks[t]), SignIn(t, id)
    PROVE  IInv'
<1>1. PICK k \in TaskRecord :
             /\ tasks' = [tasks EXCEPT ![t] = k] /\ UNCHANGED answered
             /\ k.pc = "storing" /\ k.id = id /\ ~k.saves
             /\ k.email = None /\ k.identity = None
             /\ \A table : id \in RowsIn(table) => Good(k, table)
  BY SignInCall, RowsAre
<1>2. Follows(t, k)
  BY <1>1, QuietFollows
<1> QED
  BY <1>1, <1>2, RowsAre, SilentFrame

-----------------------------------------------------------------------------
(* Calls that begin *)

LEMMA BeginsFrame ==
    ASSUME IInv, UNCHANGED <<emailOf, liberties>>, NEW t \in Tasks, NEW task \in TaskRecord,
           Good(task, users), Begins(t, task)
    PROVE  IInv'
<1>1. "staleSave" \notin liberties => Apart(t, task)
  BY DEF Begins, Apart
<1> QED
  BY <1>1, SilentFrame DEF Begins

LEMMA CallInv ==
    ASSUME IInv, UNCHANGED <<emailOf, liberties>>, NEW t \in Tasks, Call(t)
    PROVE  IInv'
<1>1. ASSUME NEW e \in Emails, Login(t, e) PROVE IInv'
  <2> DEFINE k == [Idle EXCEPT !.pc = "authenticating", !.email = e]
  <2>1. k \in TaskRecord
    BY DEF Idle, TaskRecord, Said
  <2>2. Good(k, users)
    BY AccountConstants
    DEF Idle, Good, Sound, AgreesAll, Agrees, UpToDate, Sole,
        WithEmail, WithName, WithRow, WithEntity, WithIdentity
  <2> QED
    BY <1>1, <2>1, <2>2, BeginsFrame DEF Login
<1>2. ASSUME NEW signsIn \in BOOLEAN, NEW e \in Emails, NEW base \in Bases,
             Create(t, signsIn, e, <<base, 0>>)
      PROVE  IInv'
  <2> DEFINE k == [Idle EXCEPT !.pc = "checking", !.signsIn = signsIn, !.email = e,
                               !.username = <<base, 0>>]
  <2>1. <<base, 0>> \in Usernames
    BY AccountConstants DEF Usernames
  <2>2. k \in TaskRecord
    BY <2>1 DEF Idle, TaskRecord, Said
  <2>3. Good(k, users)
    BY <2>1, AccountConstants
    DEF Idle, Good, Sound, AgreesAll, Agrees, UpToDate, Sole,
        WithEmail, WithName, WithRow, WithEntity, WithIdentity
  <2> QED
    BY <1>2, <2>2, <2>3, BeginsFrame DEF Create
<1>3. ASSUME NEW i \in Identities, NEW base \in Bases, OAuth(t, i, base) PROVE IInv'
  <2> DEFINE k == [Idle EXCEPT !.pc = "byIdentity", !.signsIn = TRUE, !.email = emailOf[i],
                               !.identity = i, !.username = <<base, 0>>, !.saves = TRUE]
  <2>1. <<base, 0>> \in Usernames /\ emailOf[i] \in Emails
    BY AccountConstants DEF Usernames, IInv, TypeOK
  <2>2. k \in TaskRecord
    BY <2>1 DEF Idle, TaskRecord, Said
  <2>3. Good(k, users)
    BY <2>1
    DEF Idle, Good, Sound, AgreesAll, Agrees, UpToDate, Sole,
        WithEmail, WithName, WithRow, WithEntity, WithIdentity
  <2> QED
    BY <1>3, <2>2, <2>3, BeginsFrame DEF OAuth
<1>4. ASSUME NEW id \in Ids, NEW username \in Usernames, Update(t, id, username)
      PROVE  IInv'
  <2> DEFINE k == [Idle EXCEPT !.pc = "findingOne", !.id = id, !.saves = TRUE,
                               !.username = username]
  <2>1. id \in RowsIn(users)
    BY <1>4, RowsAre DEF Update
  <2>2. k \in TaskRecord
    BY DEF Idle, TaskRecord, Said
  <2>3. Good(k, users)
    BY <2>1, AccountConstants
    DEF Idle, Good, Sound, AgreesAll, Agrees, UpToDate, Sole,
        WithEmail, WithName, WithRow, WithEntity, WithIdentity
  <2> QED
    BY <1>4, <2>2, <2>3, BeginsFrame DEF Update
<1>5. ASSUME NEW id \in Ids, id \in Rows, NEW pc \in {"findingToRemove", "validating"},
             Begins(t, [Idle EXCEPT !.pc = pc, !.id = id])
      PROVE  IInv'
  <2> DEFINE k == [Idle EXCEPT !.pc = pc, !.id = id]
  <2>1. id \in RowsIn(users)
    BY <1>5, RowsAre
  <2>2. k \in TaskRecord
    BY DEF Idle, TaskRecord, Said
  <2>3. Good(k, users)
    BY <2>1, AccountConstants
    DEF Idle, Good, Sound, AgreesAll, Agrees, UpToDate, Sole,
        WithEmail, WithName, WithRow, WithEntity, WithIdentity
  <2> QED
    BY <1>5, <2>2, <2>3, BeginsFrame
<1>6. ASSUME NEW id \in Ids, Remove(t, id) \/ Logout(t, id) PROVE IInv'
  BY <1>5, <1>6 DEF Remove, Logout
<1> QED
  BY <1>1, <1>2, <1>3, <1>4, <1>6 DEF Call

-----------------------------------------------------------------------------
(* Steps that leave the table alone *)

LEMMA LookupInv ==
    ASSUME IInv, UNCHANGED <<emailOf, liberties>>, NEW t \in Tasks,
           \/ FindTaken(t) \/ ValidateUser(t) \/ CheckUsername(t)
           \/ FindToRemove(t) \/ ValidateJwt(t)
    PROVE  IInv'
<1>1. UNCHANGED users
  BY DEF FindTaken, ValidateUser, CheckUsername, FindToRemove, ValidateJwt
<1>2. CASE End(t)
  BY <1>1, <1>2, EndFrame
<1>3. CASE ~End(t) /\ FindTaken(t)
  BY <1>1, <1>3, GoOnFrame DEF FindTaken, At
<1>4. CASE ~End(t) /\ ValidateUser(t)
  <2>1. PICK id \in Live : users[id].email = tasks[t].email /\ SignIn(t, id)
    BY <1>4 DEF ValidateUser
  <2>2. tasks[t].pc = "authenticating" /\ tasks[t].email \in Emails
    BY <1>4, CallKnown DEF ValidateUser, At, Good, Sound, WithEmail
  <2>3. tasks[t].email \in Concerns(tasks[t])
    BY <2>2, AccountConstants DEF Concerns
  <2> QED
    BY <1>1, <2>1, <2>2, <2>3, RowsAre, SignInFrame
<1>5. CASE ~End(t) /\ CheckUsername(t)
  BY <1>1, <1>5, GoOnFrame DEF CheckUsername, At
<1>6. CASE ~End(t) /\ FindToRemove(t)
  BY <1>1, <1>6, GoOnFrame DEF FindToRemove, At
<1>7. CASE ~End(t) /\ ValidateJwt(t)
  BY <1>1, <1>7, GoOnFrame DEF ValidateJwt, At
<1> QED
  BY <1>2, <1>3, <1>4, <1>5, <1>6, <1>7

\* An entity that is to be saved over the row it was read from.
LEMMA ChangeFrame ==
    ASSUME IInv, UNCHANGED <<users, emailOf, liberties>>, NEW t \in Tasks,
           NEW i \in Identities, tasks[t].identity = i,
           tasks[t].pc \in {"byIdentity", "byEmail"},
           NEW id \in Live, users[id].email \in Concerns(tasks[t]),
           NEW entity \in User, entity.email = users[id].email, entity.identity = i,
           entity.refreshToken = users[id].refreshToken,
           entity.deleted = users[id].deleted,
           "newEmail" \notin liberties => entity.email = emailOf[i],
           "staleSave" \notin liberties =>
             \A x \in Live : users[x].identity = i => x = id,
           Change(t, id, entity)
    PROVE  IInv'
<1>1. tasks[t] \in TaskRecord /\ Good(tasks[t], users) /\ id \in Ids /\ id \in RowsIn(users)
  BY CallKnown, RowsAre
<1>2. PICK k \in TaskRecord :
        /\ tasks' = [tasks EXCEPT ![t] = k]
        /\ k.pc = "loading" /\ k.id = id /\ k.entity = entity /\ k.saves = tasks[t].saves
        /\ k.email = tasks[t].email /\ k.identity = i
  <2> DEFINE k == [tasks[t] EXCEPT !.pc = "loading", !.id = id, !.entity = entity]
  <2>1. k \in TaskRecord /\ tasks' = [tasks EXCEPT ![t] = k]
    BY <1>1 DEF TaskRecord, Change, IInv, TypeOK
  <2>2. /\ k.pc = "loading" /\ k.id = id /\ k.entity = entity /\ k.saves = tasks[t].saves
        /\ k.email = tasks[t].email /\ k.identity = i
    BY <1>1 DEF TaskRecord
  <2> QED
    BY <2>1, <2>2
<1>3. Sound(k, users)
  BY <1>1, <1>2 DEF Sound, WithEmail, WithName, WithRow, WithEntity, WithIdentity
<1>4. "newEmail" \notin liberties => AgreesAll(k)
  BY <1>1, <1>2 DEF Good, AgreesAll, Agrees
<1>5. "staleSave" \notin liberties => UpToDate(k, users)
  BY <1>1, <1>2, AccountConstants DEF Good, UpToDate, WithEntity
<1>6. "staleSave" \notin liberties => Sole(k, users)
  BY <1>2, RowsAre DEF Sole
<1>7. Follows(t, k)
  BY <1>2, RowsAre, QuietFollows
<1> QED
  BY <1>2, <1>3, <1>4, <1>5, <1>6, <1>7, SilentFrame DEF Good, Change

LEMMA OAuthInv ==
    ASSUME IInv, UNCHANGED <<emailOf, liberties>>, NEW t \in Tasks,
           FindByProviderAndId(t) \/ FindByEmail(t)
    PROVE  IInv'
<1> DEFINE i == tasks[t].identity
<1>1. /\ UNCHANGED users /\ tasks[t].pc \in {"byIdentity", "byEmail"}
      /\ i \in Identities /\ i # None /\ tasks[t].email \in Emails
      /\ Good(tasks[t], users)
  BY CallKnown, AccountConstants
  DEF FindByProviderAndId, FindByEmail, At, Good, Sound, WithEmail
<1>2. \A id \in Live : id \in Rows /\ id \in Ids /\ users[id] \in User
  BY DEF Live, Rows, IInv, TypeOK
<1>3. CASE FindByProviderAndId(t)
  <2>1. ASSUME NEW id \in Live, users[id].identity = i, Change(t, id, users[id])
        PROVE  IInv'
    <3> DEFINE entity == users[id]
    <3>1. entity.email \in Concerns(tasks[t])
      BY <1>1, <1>2, <2>1 DEF Concerns
    <3>2. "newEmail" \notin liberties => entity.email = emailOf[i]
      BY <1>1, <1>2, <2>1 DEF IInv, SoundTable, Agrees
    <3>3. "staleSave" \notin liberties =>
            \A x \in Live : users[x].identity = i => x = id
      BY <1>1, <2>1 DEF IInv, SoundTable, OneAmong
    <3>4. /\ entity \in User /\ entity.identity = i /\ Change(t, id, entity)
          /\ entity.email = users[id].email
          /\ entity.refreshToken = users[id].refreshToken
          /\ entity.deleted = users[id].deleted
      BY <1>2, <2>1
    <3> HIDE DEF entity
    <3> QED
      BY <1>1, <3>1, <3>2, <3>3, <3>4, ChangeFrame
  <2>2. CASE GoOn(t, "byEmail") /\ {id \in Live : users[id].identity = i} = {}
    BY <1>1, <1>3, <2>2, GoOnFrame DEF FindByProviderAndId, At
  <2> QED
    BY <1>3, <2>1, <2>2 DEF FindByProviderAndId
<1>4. CASE FindByEmail(t)
  <2>1. tasks[t].pc = "byEmail" /\ tasks[t].email \in Concerns(tasks[t])
    BY <1>1, <1>4, AccountConstants DEF FindByEmail, At, Concerns
  <2>2. ASSUME NEW id \in Live, users[id].email = tasks[t].email,
               Change(t, id, [users[id] EXCEPT !.identity = i])
        PROVE  IInv'
    <3> DEFINE entity == [users[id] EXCEPT !.identity = i]
    <3>1. /\ entity \in User /\ entity.identity = i
          /\ entity.email = users[id].email
          /\ entity.refreshToken = users[id].refreshToken
          /\ entity.deleted = users[id].deleted
      BY <1>1, <1>2 DEF User
    <3>2. Change(t, id, entity)
      BY <2>2
    <3> HIDE DEF entity
    <3>3. "newEmail" \notin liberties => entity.email = emailOf[i]
      BY <1>1, <2>2, <3>1 DEF Good, AgreesAll, Agrees
    <3>4. "staleSave" \notin liberties =>
            \A x \in Live : users[x].identity = i => x = id
      BY <1>1, <2>1, RowsAre DEF Good, Sole
    <3> QED
      BY <1>1, <2>1, <2>2, <3>1, <3>2, <3>3, <3>4, ChangeFrame
  <2>3. ASSUME NEW id \in Live, users[id].email = tasks[t].email, SignIn(t, id)
        PROVE  IInv'
    BY <1>1, <1>2, <2>1, <2>3, SignInFrame
  <2>4. CASE GoOn(t, "naming")
    BY <1>1, <2>1, <2>4, GoOnFrame
  <2> QED
    BY <1>4, <2>2, <2>3, <2>4 DEF FindByEmail
<1> QED
  BY <1>3, <1>4

\* A turn of the loop leaves a username.
LEMMA NamingInv ==
    ASSUME IInv, UNCHANGED <<emailOf, liberties>>, NEW t \in Tasks, FindByUsername(t)
    PROVE  IInv'
<1> DEFINE name == tasks[t].username
<1>1. /\ UNCHANGED <<users, answered>> /\ tasks[t].pc = "naming"
      /\ tasks[t] \in TaskRecord /\ Good(tasks[t], users) /\ name \in Usernames
  BY CallKnown DEF FindByUsername, At, Good, Sound, WithName
<1>2. CASE GoOn(t, "inserting")
  BY <1>1, <1>2, GoOnFrame
<1>3. ASSUME name[2] < MaxCounter,
             tasks' = [tasks EXCEPT ![t].username = <<name[1], name[2] + 1>>]
      PROVE  IInv'
  <2>1. <<name[1], name[2] + 1>> \in Usernames
    BY <1>1, <1>3, AccountConstants DEF Usernames
  <2>2. PICK k \in TaskRecord :
          /\ tasks' = [tasks EXCEPT ![t] = k]
          /\ k.pc = "naming" /\ k.email = tasks[t].email /\ k.identity = tasks[t].identity
          /\ k.saves = tasks[t].saves /\ k.id = tasks[t].id /\ k.username \in Usernames
    <3> DEFINE k == [tasks[t] EXCEPT !.username = <<name[1], name[2] + 1>>]
    <3>1. k \in TaskRecord /\ tasks' = [tasks EXCEPT ![t] = k]
      BY <1>1, <1>3, <2>1 DEF TaskRecord, IInv, TypeOK
    <3>2. /\ k.pc = "naming" /\ k.email = tasks[t].email /\ k.identity = tasks[t].identity
          /\ k.saves = tasks[t].saves /\ k.id = tasks[t].id /\ k.username \in Usernames
      BY <1>1, <2>1 DEF TaskRecord
    <3> QED
      BY <3>1, <3>2
  <2>3. Good(k, users)
    BY <1>1, <2>2
    DEF Good, Sound, AgreesAll, UpToDate, Sole,
        WithEmail, WithName, WithRow, WithEntity, WithIdentity
  <2>4. Follows(t, k)
    BY <1>1, <2>2, QuietFollows
  <2> QED
    BY <1>1, <2>2, <2>3, <2>4, SilentFrame
<1> QED
  BY <1>2, <1>3 DEF FindByUsername

LEMMA LoadInv ==
    ASSUME IInv, UNCHANGED <<emailOf, liberties>>, NEW t \in Tasks, LoadUser(t)
    PROVE  IInv'
<1>1. /\ UNCHANGED <<users, answered>> /\ tasks[t].pc = "loading"
      /\ tasks[t] \in TaskRecord /\ Good(tasks[t], users)
  BY CallKnown DEF LoadUser, At
<1>2. tasks[t].id \in Rows /\ users[tasks[t].id] \in User
  BY <1>1, CallKnown DEF WithRow
<1>3. PICK k \in TaskRecord :
        /\ tasks' = [tasks EXCEPT ![t] = k]
        /\ k.pc = "saving" /\ k.id = tasks[t].id /\ k.email = tasks[t].email
        /\ k.identity = tasks[t].identity /\ k.entity = tasks[t].entity
        /\ k.saves = tasks[t].saves /\ k.found = users[tasks[t].id]
  <2> DEFINE k == [tasks[t] EXCEPT !.pc = "saving", !.found = users[tasks[t].id]]
  <2>1. k \in TaskRecord /\ tasks' = [tasks EXCEPT ![t] = k]
    BY <1>1, <1>2 DEF TaskRecord, LoadUser, IInv, TypeOK
  <2>2. /\ k.pc = "saving" /\ k.id = tasks[t].id /\ k.email = tasks[t].email
        /\ k.identity = tasks[t].identity /\ k.entity = tasks[t].entity
        /\ k.saves = tasks[t].saves /\ k.found = users[tasks[t].id]
    BY <1>1 DEF TaskRecord
  <2> QED
    BY <2>1, <2>2
<1>4. Good(k, users)
  BY <1>1, <1>2, <1>3
  DEF Good, Sound, AgreesAll, UpToDate, Sole,
      WithEmail, WithName, WithRow, WithEntity, WithIdentity
<1>5. Follows(t, k)
  BY <1>1, <1>3, QuietFollows
<1> QED
  BY <1>1, <1>3, <1>4, <1>5, SilentFrame

LEMMA FindToUpdateInv ==
    ASSUME IInv, UNCHANGED <<emailOf, liberties>>, NEW t \in Tasks, FindToUpdate(t)
    PROVE  IInv'
<1> DEFINE id == tasks[t].id
           pc == IF tasks[t].username = users[id].username THEN "loading" ELSE "checkingName"
           entity == [users[id] EXCEPT !.username = tasks[t].username]
<1>1. /\ UNCHANGED users /\ tasks[t].pc = "findingOne"
      /\ tasks[t] \in TaskRecord /\ Good(tasks[t], users)
      /\ tasks[t].username \in Usernames /\ tasks[t].identity = None
      /\ id \in Rows /\ users[id] \in User
  BY CallKnown DEF FindToUpdate, At, Good, Sound, WithName, WithRow, WithIdentity
<1>2. CASE End(t)
  BY <1>1, <1>2, EndFrame
<1>3. CASE tasks' = [tasks EXCEPT ![t].pc = pc, ![t].entity = entity] /\ UNCHANGED answered
  <2>1. /\ entity \in User /\ entity.email = users[id].email
        /\ entity.identity = users[id].identity
        /\ entity.refreshToken = users[id].refreshToken
        /\ entity.deleted = users[id].deleted
    BY <1>1 DEF User
  <2>2. pc \in {"loading", "checkingName"}
    OBVIOUS
  <2> HIDE DEF pc, entity
  <2>3. PICK k \in TaskRecord :
          /\ tasks' = [tasks EXCEPT ![t] = k]
          /\ k.pc = pc /\ k.id = id /\ k.email = tasks[t].email /\ k.entity = entity
          /\ k.username = tasks[t].username /\ k.identity = tasks[t].identity
          /\ k.saves = tasks[t].saves
    <3> DEFINE k == [tasks[t] EXCEPT !.pc = pc, !.entity = entity]
    <3>1. k \in TaskRecord /\ tasks' = [tasks EXCEPT ![t] = k]
      BY <1>1, <1>3, <2>1, <2>2 DEF TaskRecord, IInv, TypeOK
    <3>2. /\ k.pc = pc /\ k.id = id /\ k.email = tasks[t].email /\ k.entity = entity
          /\ k.username = tasks[t].username /\ k.identity = tasks[t].identity
          /\ k.saves = tasks[t].saves
      BY <1>1 DEF TaskRecord
    <3> QED
      BY <3>1, <3>2
  <2>4. Sound(k, users)
    BY <1>1, <2>1, <2>2, <2>3, RowsAre
    DEF Good, Sound, WithEmail, WithName, WithRow, WithEntity, WithIdentity
  <2>5. "newEmail" \notin liberties => AgreesAll(k)
    BY <1>1, <2>1, <2>3, AccountConstants DEF IInv, SoundTable, AgreesAll, Agrees
  <2>6. "staleSave" \notin liberties => UpToDate(k, users) /\ Sole(k, users)
    BY <1>1, <2>1, <2>2, <2>3 DEF Good, UpToDate, Sole, WithEntity
  <2>7. Follows(t, k)
    BY <1>1, <2>3, QuietFollows
  <2> QED
    BY <1>1, <1>3, <2>3, <2>4, <2>5, <2>6, <2>7, SilentFrame DEF Good
<1> QED
  BY <1>2, <1>3 DEF FindToUpdate

-----------------------------------------------------------------------------
(* Steps that write a row *)

\* A row is added, with an e-mail nobody has and an identity nobody has.
LEMMA InsertFrame ==
    ASSUME IInv, UNCHANGED <<answered, emailOf, liberties>>, NEW t \in Tasks,
           tasks[t].pc = "inserting", NEW id \in Unused, NEW row \in User,
           row.email = tasks[t].email, row.identity = tasks[t].identity,
           \A x \in Rows : users[x].email # row.email,
           users' = [users EXCEPT ![id] = row],
           NEW k \in TaskRecord, tasks' = [tasks EXCEPT ![t] = k],
           ~k.saves, k.email = None, k.identity = None, k.id \in {None, id},
           Good(k, users')
    PROVE  IInv'
<1> DEFINE j == tasks[t]
<1>1. /\ j \in TaskRecord /\ j.email \in Emails /\ j.email # None
      /\ j.email \in Concerns(j) /\ Good(j, users)
  BY CallKnown, AccountConstants DEF Good, Sound, WithEmail, Concerns
<1>2. id \in Ids /\ id \notin Rows /\ row # NoUser
  BY NoUserIsNone DEF Unused
<1>3. /\ users' \in [Ids -> User \cup {NoUser}]
      /\ users'[id] = row /\ \A x \in Rows : x # id /\ users'[x] = users[x]
  BY <1>2, RowsAre DEF IInv, TypeOK
<1>4. Rows' = Rows \cup {id}
  BY <1>2 DEF Rows, IInv, TypeOK
<1>5. RowsStay
  BY <1>3, <1>4 DEF RowsStay
<1>6. \A x \in Live' : x = id \/ x \in Live
  BY <1>3, <1>4 DEF Live
<1>7. SoundTable'
  <2>1. \A id1, id2 \in Rows' : users'[id1].email = users'[id2].email => id1 = id2
    BY <1>3, <1>4 DEF IInv, SoundTable
  <2>2. ASSUME "newEmail" \notin liberties, NEW x \in Rows'
        PROVE  Agrees(users'[x].identity, users'[x].email)
    BY <1>1, <1>3, <1>4, <2>2 DEF IInv, SoundTable, Good, AgreesAll
  <2>3. "staleSave" \notin liberties => OneAmong(Live)'
    <3> SUFFICES ASSUME "staleSave" \notin liberties, NEW x \in Live', NEW y \in Live',
                        users'[x].identity # None, users'[x].identity = users'[y].identity
                 PROVE  x = y
      BY DEF OneAmong
    <3>1. OneAmong(Live)
      BY DEF IInv, SoundTable
    <3>2. j.identity # None => \A z \in Live : users[z].identity # j.identity
      BY <1>1, RowsAre DEF Good, Sole
    <3>3. \A z \in Live : users'[z] = users[z]
      BY <1>3, RowsAre
    <3> QED
      BY <1>3, <1>6, <3>1, <3>2, <3>3 DEF OneAmong
  <2> QED
    BY <2>1, <2>2, <2>3 DEF SoundTable, Agrees
<1>8. OwnRows(t)
  BY <1>3, <1>4 DEF OwnRows, Live
<1>9. Follows(t, k)
  <2>1. ASSUME NEW e \in Concerns(k)' PROVE e = j.email
    <3>1. PICK x \in Rows' : x = k.id /\ e = users'[x].email
      BY <2>1 DEF Concerns
    <3> QED
      BY <1>3, <3>1, RowsAre
  <2> QED
    BY <1>1, <2>1 DEF Follows
<1>10. SoundAnswers'
  BY <1>4 DEF IInv, SoundAnswers
<1> QED
  BY <1>3, <1>5, <1>7, <1>8, <1>9, <1>10, StepFrame DEF IInv, TypeOK

LEMMA InsertInv ==
    ASSUME IInv, UNCHANGED <<emailOf, liberties>>, NEW t \in Tasks, Insert(t)
    PROVE  IInv'
<1> DEFINE j == tasks[t]
<1>1. /\ j \in TaskRecord /\ j.pc = "inserting"
      /\ j.email \in Emails /\ j.username \in Usernames
  BY CallKnown DEF Insert, At, Good, Sound, WithName, WithEmail
<1>2. CASE End(t) /\ UNCHANGED users
  BY <1>2, EndFrame
<1>3. ASSUME NEW id \in Unused, ~TakenKeys(j.email, j.username),
             users' = [users EXCEPT ![id] =
               [NoUser EXCEPT !.email = j.email, !.username = j.username,
                              !.identity = j.identity, !.local = j.identity = None]],
             IF j.signsIn THEN SignIn(t, id) ELSE End(t)
      PROVE  IInv'
  <2> DEFINE row == [NoUser EXCEPT !.email = j.email, !.username = j.username,
                                   !.identity = j.identity, !.local = j.identity = None]
  <2>1. row \in User /\ row.email = j.email /\ row.identity = j.identity
    BY <1>1 DEF NoUser, User, TaskRecord
  <2>2. users' = [users EXCEPT ![id] = row]
    BY <1>3
  <2> HIDE DEF row
  <2>3. \A x \in Rows : users[x].email # row.email
    BY <1>3, <2>1 DEF TakenKeys
  <2>4. id \in Ids /\ id \in RowsIn(users')
    BY <2>1, <2>2, NoUserIsNone DEF Unused, RowsIn, IInv, TypeOK
  <2>5. CASE SignIn(t, id)
    <3>1. PICK k \in TaskRecord :
             /\ tasks' = [tasks EXCEPT ![t] = k] /\ UNCHANGED answered
             /\ k.pc = "storing" /\ k.id = id /\ ~k.saves
             /\ k.email = None /\ k.identity = None
             /\ \A table : id \in RowsIn(table) => Good(k, table)
      BY <2>4, <2>5, SignInCall
    <3> QED
      BY <1>1, <2>1, <2>2, <2>3, <2>4, <3>1, InsertFrame
  <2>6. CASE End(t)
    <3>1. Idle.email = None /\ Idle.identity = None /\ Idle.id = None
      BY DEF Idle
    <3> QED
      BY <1>1, <2>1, <2>2, <2>3, <2>6, <3>1, IdleGood, InsertFrame DEF End
  <2> QED
    BY <1>3, <2>5, <2>6
<1> QED
  BY <1>2, <1>3 DEF Insert

\* The row of a call is written: its e-mail stays, it gets no identity but that
\* of the call, which nobody else has, and a removed user stays removed.
LEMMA WriteFrame ==
    ASSUME IInv, UNCHANGED <<emailOf, liberties>>, NEW t \in Tasks,
           tasks[t].pc \in WithRow, tasks[t].pc # "answering",
           NEW id, id = tasks[t].id, NEW row \in User, users' = [users EXCEPT ![id] = row],
           row.email = users[id].email,
           "newEmail" \notin liberties => Agrees(row.identity, row.email),
           "staleSave" \notin liberties =>
             /\ \/ row.identity = users[id].identity
                \/ /\ row.identity = tasks[t].identity
                   /\ \A x \in Live : users[x].identity = row.identity => x = id
             /\ ~row.deleted => ~users[id].deleted,
           NEW k \in TaskRecord, tasks' = [tasks EXCEPT ![t] = k],
           ~k.saves, k.email = None, k.identity = None, k.id \in {None, id},
           \A table : id \in RowsIn(table) => Good(k, table),
           answered' \in [Ids -> SUBSET Said], \A x \in Ids \ {id} : answered'[x] = answered[x]
    PROVE  IInv'
<1>1. id \in Rows /\ id \in Ids /\ users[id] \in User /\ users[id].email \in Concerns(tasks[t])
  BY CallKnown
<1>2. row # NoUser
  BY NoUserIsNone
<1>3. /\ users' \in [Ids -> User \cup {NoUser}] /\ Rows' = Rows
      /\ users'[id] = row /\ \A x \in Rows : x # id => users'[x] = users[x]
  BY <1>1, <1>2 DEF IInv, TypeOK, Rows
<1>4. RowsStay
  BY <1>3 DEF RowsStay
<1>5. "staleSave" \notin liberties => \A x \in Live' : x \in Live
  BY <1>1, <1>3 DEF Live
<1>6. SoundTable'
  <2>1. \A id1, id2 \in Rows' : users'[id1].email = users'[id2].email => id1 = id2
    BY <1>3 DEF IInv, SoundTable
  <2>2. ASSUME "newEmail" \notin liberties, NEW x \in Rows'
        PROVE  Agrees(users'[x].identity, users'[x].email)
    BY <1>3, <2>2 DEF IInv, SoundTable
  <2>3. "staleSave" \notin liberties => OneAmong(Live)'
    <3> SUFFICES ASSUME "staleSave" \notin liberties, NEW x \in Live', NEW y \in Live',
                        users'[x].identity # None, users'[x].identity = users'[y].identity
                 PROVE  x = y
      BY DEF OneAmong
    <3>1. OneAmong(Live) /\ x \in Live /\ y \in Live
      BY <1>5 DEF IInv, SoundTable
    <3> QED
      BY <1>3, <3>1, RowsAre DEF OneAmong
  <2> QED
    BY <2>1, <2>2, <2>3 DEF SoundTable, Agrees
<1>7. "staleSave" \notin liberties => OwnRows(t)
  BY <1>1, <1>3, <1>5 DEF OwnRows
<1>8. Follows(t, k)
  <2>1. ASSUME NEW e \in Concerns(k)' PROVE e = users[id].email
    <3>1. PICK x \in Rows' : x = k.id /\ e = users'[x].email
      BY <2>1 DEF Concerns
    <3> QED
      BY <1>3, <3>1, RowsAre
  <2> QED
    BY <1>1, <2>1 DEF Follows
<1>9. SoundAnswers'
  BY <1>1, <1>3 DEF IInv, SoundAnswers
<1>10. Good(k, users')
  BY <1>1, <1>3, RowsAre
<1> QED
  BY <1>3, <1>4, <1>6, <1>7, <1>8, <1>9, <1>10, StepFrame

\* What a row becomes when it is saved.
LEMMA SavedRow ==
    ASSUME IInv, NEW t \in Tasks, tasks[t].pc = "saving"
    PROVE  LET k == tasks[t]
               row == Merge(users[k.id], k.found, k.entity)
           IN
           /\ row \in User /\ row.email = users[k.id].email
           /\ "newEmail" \notin liberties => Agrees(row.identity, row.email)
           /\ "staleSave" \notin liberties =>
                /\ \/ row.identity = users[k.id].identity
                   \/ /\ row.identity = k.identity
                      /\ \A x \in Live : users[x].identity = row.identity => x = k.id
                /\ row.deleted = users[k.id].deleted
                /\ row.refreshToken = users[k.id].refreshToken
<1> DEFINE k == tasks[t]
           row == Merge(users[k.id], k.found, k.entity)
<1>1. /\ Good(k, users) /\ k.id \in Rows /\ users[k.id] \in User
      /\ k.entity \in User /\ k.found \in User
      /\ k.entity.email = users[k.id].email /\ k.found.email = users[k.id].email
  BY CallKnown DEF Good, Sound, WithRow, WithEntity
<1>2. /\ row \in User
      /\ k.entity.email = k.found.email => row.email = users[k.id].email
      /\ row.identity \in {k.entity.identity, users[k.id].identity}
      /\ k.found = users[k.id] => /\ row.refreshToken = k.entity.refreshToken
                                  /\ row.deleted = k.entity.deleted
                                  /\ row.identity = k.entity.identity
  BY <1>1, MergeIsUser
<1> HIDE DEF row
<1>3. "newEmail" \notin liberties => Agrees(row.identity, row.email)
  BY <1>1, <1>2 DEF IInv, SoundTable, Good, AgreesAll, Agrees, WithEntity
<1>4. ASSUME "staleSave" \notin liberties
      PROVE  /\ \/ row.identity = users[k.id].identity
                \/ /\ row.identity = k.identity
                   /\ \A x \in Live : users[x].identity = row.identity => x = k.id
             /\ row.deleted = users[k.id].deleted
             /\ row.refreshToken = users[k.id].refreshToken
  <2>1. UpToDate(k, users) /\ Sole(k, users) /\ k.found = users[k.id]
    BY <1>1, <1>4 DEF Good, UpToDate
  <2>2. CASE k.identity # None
    BY <1>2, <2>1, <2>2, RowsAre DEF UpToDate, Sole, WithEntity
  <2>3. CASE k.identity = None
    BY <1>2, <2>1, <2>3 DEF UpToDate, WithEntity
  <2> QED
    BY <2>2, <2>3
<1> QED
  BY <1>1, <1>2, <1>3, <1>4 DEF row

LEMMA SaveInv ==
    ASSUME IInv, UNCHANGED <<emailOf, liberties>>, NEW t \in Tasks, SaveUser(t)
    PROVE  IInv'
<1> DEFINE j == tasks[t]
           row == Merge(users[j.id], j.found, j.entity)
<1>1. j.pc = "saving" /\ j.id \in Ids /\ "saving" \in WithRow
  BY CallKnown DEF SaveUser, At, WithRow
<1>2. /\ row \in User /\ row.email = users[j.id].email
      /\ "newEmail" \notin liberties => Agrees(row.identity, row.email)
      /\ "staleSave" \notin liberties =>
           /\ \/ row.identity = users[j.id].identity
              \/ /\ row.identity = j.identity
                 /\ \A x \in Live : users[x].identity = row.identity => x = j.id
           /\ row.deleted = users[j.id].deleted
  BY <1>1, SavedRow
<1>3. \/ End(t) /\ UNCHANGED users
      \/ users' = [users EXCEPT ![j.id] = row] /\ (SignIn(t, j.id) \/ End(t))
  BY DEF SaveUser
<1> HIDE DEF row
<1>4. CASE End(t) /\ UNCHANGED users
  BY <1>4, EndFrame
<1>5. CASE users' = [users EXCEPT ![j.id] = row] /\ End(t)
  <2>1. Idle.email = None /\ Idle.identity = None /\ Idle.id = None
    BY DEF Idle
  <2> QED
    BY <1>1, <1>2, <1>5, <2>1, IdleGood, WriteFrame DEF End, IInv, TypeOK
<1>6. CASE users' = [users EXCEPT ![j.id] = row] /\ SignIn(t, j.id)
  <2>1. PICK k \in TaskRecord :
             /\ tasks' = [tasks EXCEPT ![t] = k] /\ UNCHANGED answered
             /\ k.pc = "storing" /\ k.id = j.id /\ ~k.saves
             /\ k.email = None /\ k.identity = None
             /\ \A table : j.id \in RowsIn(table) => Good(k, table)
    BY <1>1, <1>6, SignInCall
  <2> QED
    BY <1>1, <1>2, <1>6, <2>1, WriteFrame DEF IInv, TypeOK
<1> QED
  BY <1>3, <1>4, <1>5, <1>6

\* The call that only has its answer to give.
LEMMA SettleCall ==
    ASSUME IInv, NEW t \in Tasks, tasks[t].pc \in WithRow,
           NEW what \in Tokens \cup {Removed, LoggedOut}, Settle(t, what)
    PROVE  /\ \E k \in TaskRecord :
                /\ tasks' = [tasks EXCEPT ![t] = k]
                /\ k.pc = "answering" /\ k.id = tasks[t].id /\ k.says = what /\ ~k.saves
                /\ k.email = None /\ k.identity = None
                /\ \A table : tasks[t].id \in RowsIn(table) => Good(k, table)
           /\ answered' \in [Ids -> SUBSET Said]
           /\ \A x \in Ids \ {tasks[t].id} : answered'[x] = answered[x]
<1> DEFINE id == tasks[t].id
           k == [Idle EXCEPT !.pc = "answering", !.id = id, !.says = what]
<1>1. id \in Ids
  BY CallKnown
<1>2. /\ k.pc = "answering" /\ k.id = id /\ k.says = what /\ ~k.saves
      /\ k.email = None /\ k.identity = None /\ k \in TaskRecord
  BY <1>1 DEF Idle, TaskRecord, Said
<1>3. tasks' = [tasks EXCEPT ![t] = k]
  BY DEF Settle
<1> HIDE DEF k
<1>4. \A table : id \in RowsIn(table) => Good(k, table)
  BY <1>2, AccountConstants
  DEF Good, Sound, AgreesAll, Agrees, UpToDate, Sole,
      WithEmail, WithName, WithRow, WithEntity, WithIdentity
<1>5. /\ answered' \in [Ids -> SUBSET Said]
      /\ \A x \in Ids \ {id} : answered'[x] = answered[x]
  <2>1. CASE answered' = answered
    BY <2>1 DEF IInv, TypeOK
  <2>2. CASE answered' = [answered EXCEPT ![id] = @ \cap {Removed}]
    BY <1>1, <2>2 DEF IInv, TypeOK
  <2> QED
    BY <2>1, <2>2 DEF Settle
<1> QED
  BY <1>2, <1>3, <1>4, <1>5

\* An UPDATE by the id, of token or deletion.
LEMMA SettleFrame ==
    ASSUME IInv, UNCHANGED <<emailOf, liberties>>, NEW t \in Tasks,
           tasks[t].pc \in WithRow, tasks[t].pc # "answering",
           NEW what \in Tokens \cup {Removed, LoggedOut}, Settle(t, what),
           NEW row \in User, users' = [users EXCEPT ![tasks[t].id] = row],
           row.email = users[tasks[t].id].email,
           row.identity = users[tasks[t].id].identity,
           ~row.deleted => ~users[tasks[t].id].deleted
    PROVE  IInv'
<1> DEFINE id == tasks[t].id
<1>1. /\ \E k \in TaskRecord :
           /\ tasks' = [tasks EXCEPT ![t] = k]
           /\ k.pc = "answering" /\ k.id = id /\ k.says = what /\ ~k.saves
           /\ k.email = None /\ k.identity = None
           /\ \A table : id \in RowsIn(table) => Good(k, table)
      /\ answered' \in [Ids -> SUBSET Said]
      /\ \A x \in Ids \ {id} : answered'[x] = answered[x]
  BY SettleCall
<1>2. PICK k \in TaskRecord :
        /\ tasks' = [tasks EXCEPT ![t] = k]
        /\ k.pc = "answering" /\ k.id = id /\ k.says = what /\ ~k.saves
        /\ k.email = None /\ k.identity = None
        /\ \A table : id \in RowsIn(table) => Good(k, table)
  BY <1>1
<1>3. "newEmail" \notin liberties => Agrees(row.identity, row.email)
  BY CallKnown DEF IInv, SoundTable
<1> QED
  BY <1>1, <1>2, <1>3, WriteFrame

LEMMA UpdatesInv ==
    ASSUME IInv, UNCHANGED <<emailOf, liberties>>, NEW t \in Tasks,
           StoreToken(t) \/ SoftRemove(t) \/ ClearToken(t)
    PROVE  IInv'
<1> DEFINE id == tasks[t].id
<1>1. /\ tasks[t].pc \in {"storing", "removing", "clearing"}
      /\ tasks[t].pc \in WithRow /\ tasks[t].pc # "answering"
  BY DEF StoreToken, SoftRemove, ClearToken, At, WithRow
<1>2. id \in Rows /\ id \in Ids /\ users[id] \in User /\ users \in [Ids -> User \cup {NoUser}]
  BY <1>1, CallKnown DEF IInv, TypeOK
<1>3. CASE StoreToken(t)
  <2>1. PICK token \in Tokens :
          users' = [users EXCEPT ![id].refreshToken = token] /\ Settle(t, token)
    BY <1>3 DEF StoreToken
  <2> DEFINE row == [users[id] EXCEPT !.refreshToken = token]
  <2>2. /\ row \in User /\ users' = [users EXCEPT ![id] = row]
        /\ row.email = users[id].email /\ row.identity = users[id].identity
        /\ row.deleted = users[id].deleted
    BY <1>2, <2>1 DEF User
  <2> HIDE DEF row
  <2> QED
    BY <1>1, <2>1, <2>2, SettleFrame
<1>4. CASE SoftRemove(t)
  <2> DEFINE row == [users[id] EXCEPT !.deleted = TRUE]
  <2>1. /\ row \in User /\ users' = [users EXCEPT ![id] = row]
        /\ row.email = users[id].email /\ row.identity = users[id].identity /\ row.deleted
    BY <1>2, <1>4 DEF User, SoftRemove
  <2> HIDE DEF row
  <2> QED
    BY <1>1, <1>4, <2>1, SettleFrame DEF SoftRemove
<1>5. CASE ClearToken(t)
  <2>1. users' = [users EXCEPT ![id] = users[id]]
    BY <1>2, <1>5 DEF ClearToken
  <2> QED
    BY <1>1, <1>2, <1>5, <2>1, SettleFrame DEF ClearToken
<1> QED
  BY <1>3, <1>4, <1>5

\* The last steps of a call, which leave the table alone.
LEMMA LastStepsInv ==
    ASSUME IInv, UNCHANGED <<emailOf, liberties>>, NEW t \in Tasks,
           Answer(t) \/ DbCallFails(t)
    PROVE  IInv'
<1> DEFINE id == tasks[t].id
<1>1. UNCHANGED users /\ tasks' = [tasks EXCEPT ![t] = Idle] /\ Rows' = Rows
  BY DEF Answer, DbCallFails, Rows
<1>2. \/ answered' = answered
      \/ /\ id \in Rows /\ id \in Ids
         /\ \E told \in Said : answered' = [answered EXCEPT ![id] = @ \cup {told}]
  <2>1. tasks[t].says \in Said /\ None \in Said
    BY CallKnown DEF TaskRecord, Said
  <2>2. At(t, "answering") => id \in Rows /\ id \in Ids
    BY CallKnown DEF At, WithRow
  <2> QED
    BY <2>1, <2>2 DEF Answer, DbCallFails
<1>3. answered' \in [Ids -> SUBSET Said] /\ SoundAnswers'
  BY <1>1, <1>2 DEF IInv, TypeOK, SoundAnswers
<1>4. Follows(t, Idle)
  BY IdleGood DEF Follows
<1> QED
  BY <1>1, <1>3, <1>4, IdleGood, QuietFrame

\* The provider's e-mails are nobody else's business.
LEMMA NewEmailInv ==
    ASSUME IInv, UNCHANGED liberties, NEW i \in Identities, NewEmail(i)
    PROVE  IInv'
<1>1. UNCHANGED <<users, answered, tasks>> /\ "newEmail" \in liberties
  BY DEF NewEmail
<1>2. emailOf' \in [Identities -> Emails]
  BY DEF NewEmail, IInv, TypeOK
<1>3. Rows' = Rows /\ Live' = Live
  BY <1>1 DEF Rows, Live
<1>4. SoundTable' /\ SoundAnswers'
  BY <1>1, <1>3 DEF IInv, SoundTable, SoundAnswers, OneAmong
<1>5. \A x \in Tasks : Good(tasks[x], users)'
  BY <1>1 DEF IInv, Good
<1>6. "staleSave" \notin liberties => SaveAlone'
  BY <1>1, <1>3 DEF IInv, SaveAlone, Concerns
<1> QED
  BY <1>1, <1>2, <1>4, <1>5, <1>6 DEF IInv, TypeOK

LEMMA NextInv == IInv /\ [Next]_vars => IInv'
<1> SUFFICES ASSUME IInv, [Next]_vars PROVE IInv'
  OBVIOUS
<1>1. CASE UNCHANGED vars
  <2>1. /\ UNCHANGED <<users, emailOf, answered, tasks, liberties>>
        /\ Rows' = Rows /\ Live' = Live
    BY <1>1 DEF vars, Rows, Live
  <2>2. SoundTable' /\ SoundAnswers' /\ TypeOK'
    BY <2>1 DEF IInv, SoundTable, SoundAnswers, OneAmong, Agrees, TypeOK
  <2>3. \A x \in Tasks : Good(tasks[x], users)'
    BY <2>1 DEF IInv, Good, AgreesAll, Agrees
  <2>4. "staleSave" \notin liberties => SaveAlone'
    BY <2>1 DEF IInv, SaveAlone, Concerns
  <2> QED
    BY <2>1, <2>2, <2>3, <2>4 DEF IInv
<1>2. ASSUME UNCHANGED <<emailOf, liberties>>, NEW t \in Tasks, Call(t) PROVE IInv'
  BY <1>2, CallInv
<1>3. ASSUME UNCHANGED <<emailOf, liberties>>, NEW t \in Tasks, Step(t) PROVE IInv'
  <2>1. CASE FindTaken(t) \/ ValidateUser(t) \/ CheckUsername(t)
             \/ FindToRemove(t) \/ ValidateJwt(t)
    BY <1>3, <2>1, LookupInv
  <2>2. CASE Insert(t)
    BY <1>3, <2>2, InsertInv
  <2>3. CASE FindByProviderAndId(t) \/ FindByEmail(t)
    BY <1>3, <2>3, OAuthInv
  <2>4. CASE FindByUsername(t)
    BY <1>3, <2>4, NamingInv
  <2>5. CASE LoadUser(t)
    BY <1>3, <2>5, LoadInv
  <2>6. CASE SaveUser(t)
    BY <1>3, <2>6, SaveInv
  <2>7. CASE FindToUpdate(t)
    BY <1>3, <2>7, FindToUpdateInv
  <2>8. CASE StoreToken(t) \/ SoftRemove(t) \/ ClearToken(t)
    BY <1>3, <2>8, UpdatesInv
  <2>9. CASE Answer(t) \/ DbCallFails(t)
    BY <1>3, <2>9, LastStepsInv
  <2> QED
    BY <1>3, <2>1, <2>2, <2>3, <2>4, <2>5, <2>6, <2>7, <2>8, <2>9 DEF Step
<1>4. ASSUME UNCHANGED liberties, NEW i \in Identities, NewEmail(i) PROVE IInv'
  BY <1>4, NewEmailInv
<1> QED
  BY <1>1, <1>2, <1>3, <1>4 DEF Next

LEMMA InitInv == Init => IInv
<1> SUFFICES ASSUME Init PROVE IInv
  OBVIOUS
<1>1. Rows = {} /\ Live = {}
  BY DEF Init, Rows, Live
<1>2. TypeOK /\ \A t \in Tasks : tasks[t] = Idle
  BY IdleGood, AccountConstants DEF Init, TypeOK
<1>3. \A t \in Tasks : Good(tasks[t], users)
  BY <1>2, IdleGood
<1>4. SoundTable /\ SoundAnswers
  BY <1>1 DEF Init, SoundTable, SoundAnswers, OneAmong
<1>5. SaveAlone
  BY <1>2, IdleGood DEF SaveAlone
<1> QED
  BY <1>2, <1>3, <1>4, <1>5 DEF IInv

\* Whatever overlaps and whatever the database answers, rows and calls are whole.
THEOREM AccountsTypeCorrect == Spec => []TypeOK
<1>1. IInv => TypeOK
  BY DEF IInv
<1> QED
  BY <1>1, InitInv, NextInv, PTL DEF Spec

\* No two accounts share an OAuth identity.  While providers keep the e-mails
\* they have, the rows would have the same one, and rows differ in their e-mails;
\* when e-mails change, no second live account comes from calls one after
\* another, or about different people.
THEOREM AccountsOneAccount == Spec => []OneAccountPerIdentity
<1>1. IInv => OneAccountPerIdentity
  <2> SUFFICES ASSUME IInv PROVE OneAccountPerIdentity
    OBVIOUS
  <2>1. ASSUME "newEmail" \notin liberties, NEW id1 \in Rows, NEW id2 \in Rows,
               users[id1].identity # None, users[id1].identity = users[id2].identity
        PROVE  id1 = id2
    <3>1. users[id1] \in User
      BY DEF Rows, IInv, TypeOK
    <3>2. users[id1].identity \in Identities
      BY <2>1, <3>1 DEF User
    <3>3. users[id1].email = users[id2].email
      BY <2>1, <3>2 DEF IInv, SoundTable, Agrees
    <3> QED
      BY <3>3 DEF IInv, SoundTable
  <2> QED
    BY <2>1 DEF OneAccountPerIdentity, OneAmong, IInv, SoundTable
<1> QED
  BY <1>1, InitInv, NextInv, PTL DEF Spec


-----------------------------------------------------------------------------
(* What callers are told *)

\* t neither gives an answer nor gets one to give.
Silent(t) ==
    /\ UNCHANGED answered
    /\ \A x \in Tasks \ {t} : tasks'[x] = tasks[x]
    /\ tasks[t].pc # "answering" /\ tasks'[t].pc # "answering"

\* The rows keep their tokens, and no removed user comes back.
Kept == \A id \in Rows : /\ id \in Rows'
                         /\ users'[id].refreshToken = users[id].refreshToken
                         /\ id \in Live' => id \in Live

LEMMA SilentTells ==
    ASSUME NEW t \in Tasks, Silent(t), NEW id PROVE Tells(id)' = Tells(id)
<1>1. \A x \in Tasks : /\ At(x, "answering")' <=> At(x, "answering")
                       /\ At(x, "answering") => tasks'[x] = tasks[x]
  BY DEF Silent, At
<1> QED
  BY <1>1 DEF Silent, Tells

\* Nobody is told anything of a user who is not there.
LEMMA NothingTold ==
    ASSUME IInv, NEW id \in Ids \ Rows PROVE Tells(id) = {}
<1>1. \A x \in Tasks : At(x, "answering") => tasks[x].id \in Rows
  BY CallKnown DEF At, WithRow
<1> QED
  BY <1>1 DEF IInv, SoundAnswers, Tells

\* What was told still holds if nothing new is told and the row keeps it.
LEMMA KeptTold ==
    ASSUME IInv, NEW id \in Ids, Told(id), Kept, Tells(id)' = Tells(id)
    PROVE  Told(id)'
<1>1. CASE id \in Rows
  BY <1>1 DEF Told, Kept
<1>2. CASE id \notin Rows
  BY <1>2, NothingTold DEF Told
<1> QED
  BY <1>1, <1>2

\* The statements before the last UPDATE, and the calls that are taken up.
LEMMA SilentStep ==
    ASSUME IInv, NEW t \in Tasks,
           \/ Call(t) \/ FindTaken(t) \/ Insert(t) \/ ValidateUser(t)
           \/ FindByProviderAndId(t) \/ FindByEmail(t) \/ FindByUsername(t)
           \/ LoadUser(t) \/ SaveUser(t) \/ FindToUpdate(t) \/ CheckUsername(t)
           \/ FindToRemove(t) \/ ValidateJwt(t)
           \/ (DbCallFails(t) /\ ~At(t, "answering"))
    PROVE  Silent(t)
<1>1. tasks[t] \in TaskRecord /\ tasks \in [Tasks -> TaskRecord]
  BY DEF IInv, TypeOK
<1>2. Idle.pc = "idle"
  BY DEF Idle
<1>3. ASSUME NEW pc, GoOn(t, pc), tasks[t].pc # "answering", pc # "answering"
      PROVE  Silent(t)
  BY <1>1, <1>3 DEF GoOn, Silent, TaskRecord
<1>4. ASSUME End(t), tasks[t].pc # "answering" PROVE Silent(t)
  BY <1>1, <1>2, <1>4 DEF End, Silent
<1>5. ASSUME NEW id, SignIn(t, id), tasks[t].pc # "answering" PROVE Silent(t)
  BY <1>1, <1>5 DEF SignIn, Silent, Idle
<1>6. ASSUME NEW id, NEW entity, Change(t, id, entity), tasks[t].pc # "answering"
      PROVE  Silent(t)
  BY <1>1, <1>6 DEF Change, Silent, TaskRecord
<1>7. ASSUME NEW task, Begins(t, task), task.pc # "answering" PROVE Silent(t)
  BY <1>1, <1>2, <1>7 DEF Begins, Silent
<1>8. CASE Call(t)
  <2>1. ASSUME NEW e, Login(t, e) PROVE Silent(t)
    BY <1>7, <2>1 DEF Login, Idle
  <2>2. ASSUME NEW signsIn, NEW e, NEW username, Create(t, signsIn, e, username)
        PROVE  Silent(t)
    BY <1>7, <2>2 DEF Create, Idle
  <2>3. ASSUME NEW i, NEW base, OAuth(t, i, base) PROVE Silent(t)
    BY <1>7, <2>3 DEF OAuth, Idle
  <2>4. ASSUME NEW id, NEW username, Update(t, id, username) PROVE Silent(t)
    BY <1>7, <2>4 DEF Update, Idle
  <2>5. ASSUME NEW id, Remove(t, id) \/ Logout(t, id) PROVE Silent(t)
    BY <1>7, <2>5 DEF Remove, Logout, Idle
  <2> QED
    BY <1>8, <2>1, <2>2, <2>3, <2>4, <2>5 DEF Call
<1>9. CASE FindTaken(t) \/ Insert(t) \/ ValidateUser(t)
  BY <1>3, <1>4, <1>5, <1>9 DEF FindTaken, Insert, ValidateUser, At
<1>10. CASE FindByProviderAndId(t) \/ FindByEmail(t)
  BY <1>3, <1>5, <1>6, <1>10 DEF FindByProviderAndId, FindByEmail, At
<1>11. CASE FindByUsername(t)
  <2>1. tasks[t].pc = "naming"
    BY <1>11 DEF FindByUsername, At
  <2>2. CASE GoOn(t, "inserting")
    BY <1>3, <2>1, <2>2
  <2>3. CASE /\ tasks' = [tasks EXCEPT ![t].username =
                            <<tasks[t].username[1], tasks[t].username[2] + 1>>]
             /\ UNCHANGED answered
    BY <1>1, <2>1, <2>3 DEF Silent, TaskRecord
  <2> QED
    BY <1>11, <2>2, <2>3 DEF FindByUsername
<1>12. CASE LoadUser(t)
  BY <1>1, <1>12 DEF LoadUser, At, Silent, TaskRecord
<1>13. CASE SaveUser(t)
  BY <1>4, <1>5, <1>13 DEF SaveUser, At
<1>14. CASE FindToUpdate(t)
  <2>1. tasks[t].pc = "findingOne"
    BY <1>14 DEF FindToUpdate, At
  <2>2. CASE End(t)
    BY <1>4, <2>1, <2>2
  <2>3. ASSUME NEW pc \in {"loading", "checkingName"}, NEW entity, UNCHANGED answered,
               tasks' = [tasks EXCEPT ![t].pc = pc, ![t].entity = entity]
        PROVE  Silent(t)
    BY <1>1, <2>1, <2>3 DEF Silent, TaskRecord
  <2> QED
    BY <1>14, <2>2, <2>3 DEF FindToUpdate
<1>15. CASE CheckUsername(t) \/ FindToRemove(t) \/ ValidateJwt(t)
  BY <1>3, <1>4, <1>15 DEF CheckUsername, FindToRemove, ValidateJwt, At
<1>16. CASE DbCallFails(t) /\ ~At(t, "answering")
  BY <1>1, <1>2, <1>16 DEF DbCallFails, At, Silent
<1> QED
  BY <1>8, <1>9, <1>10, <1>11, <1>12, <1>13, <1>14, <1>15, <1>16

LEMMA SameKept == ASSUME UNCHANGED users PROVE Kept
BY DEF Kept, Rows, Live

\* Of the statements before the last UPDATE only two write to the table, a new
\* row and a row saved as it was.
LEMMA SilentKept ==
    ASSUME IInv, "staleSave" \notin liberties, NEW t \in Tasks,
           \/ Call(t) \/ FindTaken(t) \/ Insert(t) \/ ValidateUser(t)
           \/ FindByProviderAndId(t) \/ FindByEmail(t) \/ FindByUsername(t)
           \/ LoadUser(t) \/ SaveUser(t) \/ FindToUpdate(t) \/ CheckUsername(t)
           \/ FindToRemove(t) \/ ValidateJwt(t) \/ DbCallFails(t) \/ Answer(t)
    PROVE  Kept
<1>1. CASE Insert(t)
  <2>1. CASE UNCHANGED users
    BY <2>1, SameKept
  <2>2. ASSUME NEW id \in Unused, NEW row, users' = [users EXCEPT ![id] = row]
        PROVE  Kept
    <3>1. \A x \in Rows : users'[x] = users[x]
      BY <2>2 DEF Unused, Rows, IInv, TypeOK
    <3> QED
      BY <3>1 DEF Kept, Rows, Live
  <2> QED
    BY <1>1, <2>1, <2>2 DEF Insert
<1>2. CASE SaveUser(t)
  <2> DEFINE j == tasks[t]
             row == Merge(users[j.id], j.found, j.entity)
  <2>1. j.pc = "saving" /\ j.id \in Rows /\ j.id \in Ids
    BY <1>2, CallKnown DEF SaveUser, At, WithRow
  <2>2. /\ row \in User /\ row.deleted = users[j.id].deleted
        /\ row.refreshToken = users[j.id].refreshToken
    BY <2>1, SavedRow
  <2>3. UNCHANGED users \/ users' = [users EXCEPT ![j.id] = row]
    BY <1>2 DEF SaveUser
  <2> HIDE DEF row
  <2>4. CASE users' = [users EXCEPT ![j.id] = row]
    <3>1. /\ \A x \in Rows \ {j.id} : users'[x] = users[x]
          /\ users'[j.id] = row /\ row # NoUser
      BY <2>1, <2>2, <2>4, NoUserIsNone DEF Rows, IInv, TypeOK
    <3> QED
      BY <2>1, <2>2, <3>1 DEF Kept, Rows, Live
  <2> QED
    BY <2>3, <2>4, SameKept
<1>3. CASE Call(t)
  BY <1>3, SameKept DEF Call, Login, Create, OAuth, Update, Remove, Logout, Begins
<1>4. CASE \/ FindTaken(t) \/ ValidateUser(t) \/ FindByProviderAndId(t) \/ FindByEmail(t)
           \/ FindByUsername(t) \/ LoadUser(t)
  BY <1>4, SameKept DEF FindTaken, ValidateUser, FindByProviderAndId, FindByEmail,
                        FindByUsername, LoadUser
<1>5. CASE \/ FindToUpdate(t) \/ CheckUsername(t) \/ FindToRemove(t) \/ ValidateJwt(t)
           \/ DbCallFails(t) \/ Answer(t)
  BY <1>5, SameKept DEF FindToUpdate, CheckUsername, FindToRemove, ValidateJwt,
                        DbCallFails, Answer
<1> QED
  BY <1>1, <1>2, <1>3, <1>4, <1>5

\* An UPDATE has something new to say of its user, and leaves the others.
LEMMA SettleTells ==
    ASSUME IInv, NEW t \in Tasks, tasks[t].pc \in WithRow, tasks[t].pc # "answering",
           NEW what \in Tokens \cup {Removed, LoggedOut}, Settle(t, what),
           NEW i, i = tasks[t].id
    PROVE  /\ \/ Tells(i)' = Tells(i) \cup {what}
              \/ Tells(i)' = (Tells(i) \cap {Removed}) \cup {what}
           /\ \A id \in Ids \ {i} : Tells(id)' = Tells(id)
<1> DEFINE Says(id) == {tasks[x].says : x \in {y \in Tasks : /\ At(y, "answering")
                                                             /\ tasks[y].id = id}}
<1>1. PICK k \in TaskRecord : /\ tasks' = [tasks EXCEPT ![t] = k]
                              /\ k.pc = "answering" /\ k.id = i /\ k.says = what
  BY SettleCall
<1>2. i \in Ids /\ answered \in [Ids -> SUBSET Said] /\ tasks \in [Tasks -> TaskRecord]
  BY CallKnown DEF IInv, TypeOK
<1>3. tasks'[t] = k /\ \A x \in Tasks \ {t} : tasks'[x] = tasks[x]
  BY <1>1, <1>2
<1>4. Says(i)' = Says(i) \cup {what}
  BY <1>1, <1>3 DEF At
<1>5. \A id \in Ids \ {i} : Says(id)' = Says(id)
  BY <1>1, <1>3 DEF At
<1>6. \A id \in Ids \ {i} : answered'[id] = answered[id]
  BY SettleCall
<1>7. \A id : Tells(id) = answered[id] \cup Says(id)
  BY DEF Tells
<1>8. \A id : Tells(id)' = answered'[id] \cup Says(id)'
  BY DEF Tells
<1> HIDE DEF Says
<1>9. CASE Answering(i)
  <2>1. answered' = answered
    BY <1>9 DEF Settle
  <2> QED
    BY <1>4, <1>5, <1>7, <1>8, <2>1
<1>10. CASE ~Answering(i)
  <2>1. Says(i) = {}
    BY <1>10 DEF Answering, Says
  <2>2. answered'[i] = answered[i] \cap {Removed}
    BY <1>2, <1>10 DEF Settle
  <2> QED
    BY <1>4, <1>5, <1>6, <1>7, <1>8, <2>1, <2>2
<1> QED
  BY <1>9, <1>10

LEMMA UpdatesCurrent ==
    ASSUME IInv, Current, "staleSave" \notin liberties, NEW t \in Tasks,
           StoreToken(t) \/ SoftRemove(t) \/ ClearToken(t), NEW id \in Ids
    PROVE  Told(id)'
<1> PICK i : i = tasks[t].id
  OBVIOUS
<1>1. tasks[t].pc \in WithRow /\ tasks[t].pc # "answering"
  BY DEF StoreToken, SoftRemove, ClearToken, At, WithRow
<1>2. /\ i \in Rows /\ i \in Ids /\ users[i] \in User
      /\ users \in [Ids -> User \cup {NoUser}]
  BY <1>1, CallKnown DEF IInv, TypeOK
<1>3. Told(id) /\ Told(i)
  BY <1>2 DEF Current
<1>4. \E what \in Tokens \cup {Removed, LoggedOut} :
        /\ Settle(t, what)
        /\ \/ what \in Tokens /\ users' = [users EXCEPT ![i].refreshToken = what]
           \/ what = Removed /\ users' = [users EXCEPT ![i].deleted = TRUE]
           \/ what = LoggedOut /\ UNCHANGED users
  BY DEF StoreToken, SoftRemove, ClearToken
<1>5. PICK what \in Tokens \cup {Removed, LoggedOut} :
        /\ Settle(t, what)
        /\ \/ what \in Tokens /\ users' = [users EXCEPT ![i].refreshToken = what]
           \/ what = Removed /\ users' = [users EXCEPT ![i].deleted = TRUE]
           \/ what = LoggedOut /\ UNCHANGED users
  BY <1>4
<1>6. /\ \/ Tells(i)' = Tells(i) \cup {what}
         \/ Tells(i)' = (Tells(i) \cap {Removed}) \cup {what}
      /\ \A x \in Ids \ {i} : Tells(x)' = Tells(x)
  BY <1>1, <1>5, SettleTells
<1>7. \A x \in Ids \ {i} : users'[x] = users[x]
  BY <1>2, <1>5
<1>8. CASE id # i
  <2>1. Tells(id)' = Tells(id) /\ users'[id] = users[id]
    BY <1>6, <1>7, <1>8
  <2>2. id \in Live' => id \in Live
    BY <2>1 DEF Live, Rows
  <2> QED
    BY <1>3, <2>1, <2>2 DEF Told
<1>9. CASE id = i
  <2>1. CASE what \in Tokens /\ users' = [users EXCEPT ![i].refreshToken = what]
    <3>1. users'[i].refreshToken = what /\ users'[i].deleted = users[i].deleted
      BY <1>2, <2>1 DEF User
    <3>2. what # Removed /\ what \in Tells(i)'
      BY <1>6, <2>1, AccountConstants
    <3>3. i \in Live' => i \in Live
      BY <1>2, <3>1 DEF Live, Rows
    <3>4. Removed \in Tells(i)' => Removed \in Tells(i)
      BY <1>6, <3>2
    <3> QED
      BY <1>3, <1>9, <3>1, <3>2, <3>3, <3>4 DEF Told
  <2>2. CASE what = Removed /\ users' = [users EXCEPT ![i].deleted = TRUE]
    <3>1. users'[i].refreshToken = users[i].refreshToken /\ users'[i].deleted
      BY <1>2, <2>2 DEF User
    <3>2. i \notin Live'
      BY <3>1 DEF Live
    <3>3. Removed \notin Tokens
      BY AccountConstants
    <3>4. Tells(i)' \cap Tokens # {} => Tells(i)' = Tells(i) \cup {Removed}
      BY <1>6, <2>2, <3>3
    <3>5. /\ Tells(i)' \cap Tokens # {} => Tells(i) \cap Tokens # {}
          /\ Tells(i)' \cap Tokens # {} /\ {None, LoggedOut} \cap Tells(i)' = {} =>
               {None, LoggedOut} \cap Tells(i) = {}
      BY <3>3, <3>4
    <3> QED
      BY <1>3, <1>9, <3>1, <3>2, <3>4, <3>5 DEF Told
  <2>3. CASE what = LoggedOut /\ UNCHANGED users
    <3>1. Live' = Live
      BY <2>3 DEF Live, Rows
    <3>2. LoggedOut \in Tells(i)' /\ LoggedOut # Removed
      BY <1>6, <2>3, AccountConstants
    <3>3. Removed \in Tells(i)' => Removed \in Tells(i)
      BY <1>6, <2>3, <3>2
    <3> QED
      BY <1>3, <1>9, <3>1, <3>2, <3>3 DEF Told
  <2> QED
    BY <1>5, <2>1, <2>2, <2>3
<1> QED
  BY <1>8, <1>9

\* An answer tells what was to be told; an answer that gets lost says nothing.
LEMMA AnswersCurrent ==
    ASSUME IInv, Current, "staleSave" \notin liberties, NEW t \in Tasks,
           Answer(t) \/ (DbCallFails(t) /\ At(t, "answering")), NEW id \in Ids
    PROVE  Told(id)'
<1> DEFINE i == tasks[t].id
           Says(x) == {tasks[z].says : z \in {y \in Tasks : /\ At(y, "answering")
                                                            /\ tasks[y].id = x}}
<1>1. At(t, "answering") /\ i \in Ids /\ tasks[t].says \in Says(i)
  BY CallKnown DEF Answer, At, WithRow
<1>2. /\ tasks'[t].pc = "idle" /\ \A x \in Tasks \ {t} : tasks'[x] = tasks[x]
      /\ UNCHANGED users
  BY IdleGood DEF Answer, DbCallFails, IInv, TypeOK
<1>3. PICK told \in {tasks[t].says, None} :
        /\ told = None \/ told = tasks[t].says
        /\ told = None \/ Answer(t)
        /\ answered' = [answered EXCEPT ![i] = @ \cup {told}]
  BY <1>1 DEF Answer, DbCallFails
<1>4. answered \in [Ids -> SUBSET Said]
  BY DEF IInv, TypeOK
<1>5. \A x \in Ids : /\ x # i => answered'[x] = answered[x]
                     /\ x = i => answered'[x] = answered[x] \cup {told}
  BY <1>1, <1>3, <1>4
<1>6. \A x \in Ids : Says(x)' \subseteq Says(x)
  BY <1>2 DEF At
<1>7. Says(id) \subseteq Says(id)' \cup (IF id = i THEN {tasks[t].says} ELSE {})
  BY <1>2 DEF At
<1>8. Tells(id) = answered[id] \cup Says(id)
  BY DEF Tells
<1>9. Tells(id)' = answered'[id] \cup Says(id)'
  BY DEF Tells
<1> HIDE DEF Says
<1>10. Told(id) /\ Kept
  BY <1>2, SameKept DEF Current
<1>11. CASE id # i \/ told = tasks[t].says
  <2>1. Tells(id)' = Tells(id)
    BY <1>1, <1>5, <1>6, <1>7, <1>8, <1>9, <1>11
  <2> QED
    BY <1>10, <2>1, KeptTold
<1>12. CASE id = i /\ told = None
  <2>1. None \in Tells(id)' /\ None # Removed
    BY <1>5, <1>9, <1>12, AccountConstants
  <2>2. Removed \in Tells(id)' => Removed \in Tells(id)
    BY <1>5, <1>6, <1>8, <1>9, <1>12, <2>1
  <2>3. Live' = Live
    BY <1>2 DEF Live, Rows
  <2> QED
    BY <1>10, <2>1, <2>2, <2>3 DEF Told
<1> QED
  BY <1>3, <1>11, <1>12

LEMMA NextCurrent == IInv /\ Current /\ [Next]_vars => Current'
<1> SUFFICES ASSUME IInv, Current, [Next]_vars, "staleSave" \notin liberties, NEW id \in Ids
             PROVE  Told(id)'
  BY DEF Current, Next, vars
<1>1. Told(id)
  BY DEF Current
<1>2. ASSUME UNCHANGED <<users, answered, tasks>> PROVE Told(id)'
  <2>1. Tells(id)' = Tells(id)
    BY <1>2 DEF Tells, At
  <2> QED
    BY <1>1, <1>2, <2>1, SameKept, KeptTold
<1>3. ASSUME NEW t \in Tasks, Silent(t), Kept PROVE Told(id)'
  BY <1>1, <1>3, SilentTells, KeptTold
<1>4. ASSUME NEW t \in Tasks, Step(t) \/ Call(t) PROVE Told(id)'
  <2>1. CASE StoreToken(t) \/ SoftRemove(t) \/ ClearToken(t)
    BY <2>1, UpdatesCurrent
  <2>2. CASE Answer(t) \/ (DbCallFails(t) /\ At(t, "answering"))
    BY <2>2, AnswersCurrent
  <2>3. CASE \/ Call(t) \/ FindTaken(t) \/ Insert(t) \/ ValidateUser(t)
             \/ FindByProviderAndId(t) \/ FindByEmail(t) \/ FindByUsername(t)
             \/ LoadUser(t) \/ SaveUser(t) \/ FindToUpdate(t) \/ CheckUsername(t)
             \/ FindToRemove(t) \/ ValidateJwt(t)
             \/ (DbCallFails(t) /\ ~At(t, "answering"))
    <3>1. Silent(t)
      BY <2>3, SilentStep
    <3>2. Kept
      BY <2>3, SilentKept
    <3> QED
      BY <1>3, <3>1, <3>2
  <2> QED
    BY <1>4, <2>1, <2>2, <2>3 DEF Step
<1> QED
  BY <1>2, <1>4 DEF Next, NewEmail, vars

\* While no entity is saved late, the answers given last are right about the
\* user: an answer on its way says what its UPDATE has done already, so nothing
\* that is still to come can make the ones before it wrong.
THEOREM AccountsAnswerHolds == Spec => []AnswerHolds
<1>1. IInv /\ Current => AnswerHolds
  <2> SUFFICES ASSUME IInv, Current, "staleSave" \notin liberties,
                      NEW id \in Ids, ~Answering(id)
               PROVE  /\ answered[id] \cap Tokens # {}
                           /\ {None, LoggedOut} \cap answered[id] = {} =>
                         users[id].refreshToken \in answered[id]
                      /\ Removed \in answered[id] => id \notin Live
    BY DEF AnswerHolds
  <2>1. Tells(id) = answered[id]
    BY DEF Tells, Answering
  <2> QED
    BY <2>1 DEF Current, Told
<1>2. Init => Current
  <2> SUFFICES ASSUME Init, NEW id \in Ids PROVE Told(id)
    BY DEF Current
  <2>1. Rows = {}
    BY DEF Init, Rows
  <2> QED
    BY <2>1, InitInv, NothingTold DEF Told
<1> QED
  BY <1>1, <1>2, InitInv, NextInv, NextCurrent, PTL DEF Spec
=============================================================================

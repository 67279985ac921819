------------------------------ MODULE Requests ------------------------------
(***************************************************************************)
(* REST requests beside the calls of the handlers: bodies on their way     *)
(* through the ValidationPipe into the tables and back into an answer, the *)
(* length of the tokens of an account, and a client that reads the list of *)
(* users, or of its projects, page by page while rows come and go.         *)
(***************************************************************************)
EXTENDS Handlers, SequencesExt

CONSTANTS
    Null,       \* JSON's null
    KeyLength,  \* of Tables
    Values,     \* what a client sends in a field
    Rows,       \* bound: ids of the rows a list gets to have, in the order they are inserted
    Limits      \* the limits clients ask for, None if they name none

Dto == INSTANCE Dtos
Table == INSTANCE Tables

\* What a field may hold, and a column.
Contents ==
    [type : {"string", "number", "boolean", "object", "array", "time"}, size : Int,
     form : Dto!Forms \cup {"moment"}]

\* What the handlers are told of a first comment.
Remarks == [body : Int, text : Int]

\* URLs of http or https whose host is a domain.
OfDomains ==
    {url \in Urls \ Unparsable : url.protocol \in {"http:", "https:"} /\ url.hostname \in Domains}

ASSUME RequestConstants ==
    /\ IsFiniteSet(Rows) /\ Rows = 1..Cardinality(Rows)
    /\ Limits \subseteq Nat \cup {None}
    /\ Values \subseteq Contents \cup {Null} /\ Null \notin Contents
    /\ None \notin Values \cup Remarks
    /\ KeyLength \in Nat
    /\ Unparsable # {} /\ OfDomains # {}

VARIABLE list       \* the rows, and what a client has seen of them

-----------------------------------------------------------------------------
(* Bodies *)

Routes ==
    {"register", "createUser", "updateUser", "createProject", "updateProject",
     "mutation", "commentThread", "firstComment"}

\* What a client is told to send.
Classes ==
    [register |-> Dto!CreateUserDto, createUser |-> Dto!CreateUserRequestDto,
     updateUser |-> Dto!UpdateUserRequestDto, createProject |-> Dto!CreateProjectRequestDto,
     updateProject |-> Dto!UpdateProjectRequestDto, mutation |-> Dto!CreateMutationDto,
     commentThread |-> Dto!CreateCommentThreadDto, firstComment |-> Dto!FirstCommentDto]

\* These come inside the args of a mutation, of which the pipe only asks that
\* they are an object: the decorators of their own classes are never consulted.
Unchecked == {"commentThread", "firstComment"}

PipeAccepts(route, body) == route \in Unchecked \/ Dto!Accepts(Classes[route], body)

\* A good value for a field.
Sample(rule) ==
    [type |-> rule.type, size |-> IF rule.min < 0 THEN 0 ELSE rule.min,
     form |-> CHOOSE form \in rule.forms : form # "quoted"]

\* What a route requires, with value sent in a field, or the field left out.
BodyWith(route, field, value) ==
    LET dto    == Classes[route]
        others == {f \in DOMAIN dto : ~dto[f].optional} \ {field}
    IN  [f \in others \cup IF value = None THEN {} ELSE {field} |->
           IF f = field THEN value ELSE Sample(dto[f])]

\* Where nothing is checked, a value still has the type of its field, or is null
\* or left out: what the driver makes of others is not modelled.
Sendable(route, field) ==
    {value \in Values \cup {None} :
       route \in Unchecked /\ value \notin {Null, None} => value.type = Classes[route][field].type}

AskBody ==
    /\ Open("bodies")
    /\ \E route \in Routes : \E field \in DOMAIN Classes[route] :
         \E value \in Sendable(route, field) :
           Ask([route |-> route, field |-> field, body |-> BodyWith(route, field, value)])

\* A column is given null for what was not sent.
Given(body, field) == IF field \in DOMAIN body THEN body[field] ELSE Null

\* hashPassword: what bcrypt makes of any password.
Hash == [type |-> "string", size |-> 60, form |-> "plain"]

UserRow(body) == IF "password" \in DOMAIN body THEN [body EXCEPT !.password = Hash] ELSE body

\* An object or a boolean of the code's own.
Made(type) == [type |-> type, size |-> 0, form |-> "plain"]

\* processSingleMutation: profileID is the user, timestamp becomes a Date, the
\* rest is metadata.
MutationRow(body) ==
    [userId |-> body.profileID, metadata |-> Made("object"),
     timestamp |-> [body.timestamp EXCEPT !.type = "time"]]

\* a || b
Or(a, b) == IF a = Null \/ a.size = 0 THEN b ELSE a

\* createCommentThread: deploymentUrl || page
ThreadRow(body) ==
    [url |-> Or(Given(body, "deploymentUrl"), Given(body, "page")),
     pageTitle |-> Given(body, "pageTitle")]

\* createFirstComment: leftOnLocalhost has a default; deployment?.id || undefined
CommentRow(body) ==
    [body |-> Given(body, "body"), content |-> Given(body, "text"),
     images |-> Given(body, "images"),
     commitSha |-> Given(body, "commitSha"), href |-> Given(body, "href"),
     leftOnLocalhost |-> IF "leftOnLocalhost" \in DOMAIN body THEN body.leftOnLocalhost
                         ELSE Made("boolean"),
     deploymentId |-> Or(Given(body, "deployment"), Null), position |-> Made("object")]

RefusedColumns(route, body) ==
    CASE route \in {"register", "createUser", "updateUser"} ->
           Table!Refusing(Table!User, UserRow(body))
      [] route \in {"createProject", "updateProject"} -> Table!Refusing(Table!Project, body)
      [] route = "mutation" -> Table!Refusing(Table!Mutation, MutationRow(body))
      [] route = "commentThread" -> Table!Refusing(Table!CommentThread, ThreadRow(body))
      [] route = "firstComment" -> Table!Refusing(Table!Comment, CommentRow(body))

\* Mutant: the row overwrites the request.
Assigned_Swapped(object, dto) ==
    [field \in DOMAIN object \cup DOMAIN dto |->
       IF field \in DOMAIN object THEN object[field] ELSE dto[field]]

\* Object.assign(object, dto)
Assigned(object, dto) ==
    [field \in DOMAIN object |-> IF field \in DOMAIN dto THEN dto[field] ELSE object[field]]

\* save writes no field that is undefined.
Saved(row, object) ==
    [field \in DOMAIN row |-> IF object[field] = None THEN row[field] ELSE object[field]]

Answer(route, object) ==
    LET fields == IF route = "updateUser" THEN Table!toUserResponseDto(object)
                  ELSE Table!toProjectResponseDto(object)
    IN  [field \in {f \in DOMAIN fields : fields[f] # None} |-> fields[field]]

-----------------------------------------------------------------------------
(* Accounts: the sizes of an e-mail and of a username *)

AskAccount ==
    /\ Open("accounts")
    /\ \E email \in {value.size : value \in Values \ {Null}}, username \in 3..20 :
         Ask([email |-> email, username |-> username])

\* base64url without padding
Base64(n) == (4 * n + 2) \div 3

\* The payload of generateTokens as JSON, with a uuid and two times of ten
\* digits; {"alg":"HS256","typ":"JWT"} before it, an HMAC of 32 bytes after it.
PayloadLength(email, username) ==
    8 + 36 + 11 + email + 14 + username + 8 + 10 + 7 + 10 + 1

TokenLength(email, username) ==
    Base64(27) + 1 + Base64(PayloadLength(email, username)) + 1 + Base64(32)

\* Mutant: a column like that of the password.
updateRefreshToken_Narrow(email, username) ==
    TokenLength(email, username) <= Table!User.password.length

\* The statement that stores the refresh token is not refused.
updateRefreshToken(email, username) ==
    TokenLength(email, username) <= Table!User.refreshToken.length

-----------------------------------------------------------------------------
(* Pages *)

EmptyList(of) ==
    [of |-> of, created |-> [row \in Rows |-> None], id |-> [row \in Rows |-> None], next |-> 1,
     page |-> None, limit |-> None, begun |-> {}, seen |-> {}, done |-> FALSE, removed |-> FALSE]

Present(l) == {row \in Rows : l.created[row] # None}

\* ORDER BY createdAt DESC, which leaves users of one instant in any order.
\* Projects are read with their owner: TypeORM then looks for their ids first,
\* and puts projects of one instant in the order of these.
Precedes(l, r, s) ==
    \/ l.created[r] > l.created[s]
    \/ l.created[r] = l.created[s] /\ (l.of = "users" \/ l.id[r] < l.id[s])

Orders(l) ==
    {order \in SetToSeqs(Present(l)) :
       \A i, j \in DOMAIN order : i < j => Precedes(l, order[i], order[j])}

\* Mutant: pages are counted from zero.
findAllWithSearch_FromZero(order, page, limit) ==
    LET take == IF limit = None THEN 20 ELSE limit
        skip == page * take
        last == skip + take
    IN  SubSeq(order, skip + 1, IF last < Len(order) THEN last ELSE Len(order))

\* Without a limit, 20.
findAllWithSearch(order, page, limit) ==
    LET take == IF limit = None THEN 20 ELSE limit
        skip == (page - 1) * take
        last == skip + take
    IN  SubSeq(order, skip + 1, IF last < Len(order) THEN last ELSE Len(order))

\* A row is younger than those before it, or of the same instant.  Ids are
\* random: that of a project may come before or after those there are.
InsertRow ==
    /\ subject = "pages" /\ list.next \in Rows
    /\ \E age \in {0, 1} :
         \E id \in {list.next} \cup IF list.of = "projects" THEN {-list.next} ELSE {} :
           list' = [list EXCEPT !.created[list.next] = list.next - age, !.id[list.next] = id,
                                !.next = @ + 1]
    /\ UNCHANGED vars

\* A removal, or a change that takes the row out of the search.
RemoveRow ==
    /\ subject = "pages" /\ list.page # None
    /\ \E row \in Present(list) :
         list' = [list EXCEPT !.created[row] = None, !.id[row] = None, !.removed = TRUE]
    /\ UNCHANGED vars

Searches == [users |-> Dto!UserSearchRequestDto, projects |-> Dto!ProjectSearchRequestDto]

BeginReading ==
    /\ subject = "pages" /\ (list.page = None \/ list.done)
    /\ \E limit \in Limits :
         /\ \/ limit = None
            \/ Dto!Fits(Searches[list.of].limit,
                        [type |-> "number", size |-> limit, form |-> "plain"])
         /\ list' = [list EXCEPT !.page = 1, !.limit = limit, !.begun = Present(list), !.seen = {},
                                    !.done = FALSE, !.removed = FALSE]
    /\ UNCHANGED vars

\* A client goes on until a page leaves nothing behind it.
ReadPage ==
    /\ subject = "pages" /\ list.page # None /\ ~list.done
    /\ \E order \in Orders(list) :
         LET shown == findAllWithSearch(order, list.page, list.limit)
             take  == IF list.limit = None THEN 20 ELSE list.limit
         IN  list' = [list EXCEPT !.page = @ + 1, !.seen = @ \cup ToSet(shown),
                                  !.done = list.page * take >= Len(order)]
    /\ UNCHANGED vars

-----------------------------------------------------------------------------

RequestsInit ==
    /\ Init
    /\ \E of \in {"users", "projects"} :
         list = EmptyList(of) /\ (subject # "pages" => of = "users")

RequestsNext ==
    \/ Next /\ UNCHANGED list
    \/ AskBody /\ UNCHANGED list
    \/ AskAccount /\ UNCHANGED list
    \/ InsertRow \/ RemoveRow \/ BeginReading \/ ReadPage

RequestsSpec == RequestsInit /\ [][RequestsNext]_<<vars, list>>

-----------------------------------------------------------------------------

Text(value) == value # Null /\ value.type = "string"

\* What the pipe accepts, the tables take, with these exceptions: an e-mail is
\* valid up to 319 characters; @IsOptional also lets null through where no null
\* may be stored; neither the profileID nor the time of a mutation has limits; and
\* of a thread and its first comment nothing is checked at all, so that their
\* texts are of any length, and what the comment must have may be null or missing.
\* The database then refuses the statement, and the client is told of a failure.
AcceptedFits ==
    subject = "bodies" /\ asked # None =>
      LET route == asked.route  field == asked.field  body == asked.body
          value == Given(body, field)
          Narrower ==     \* columns that are narrower than what the pipe lets through
            [register |-> [email |-> 255], createUser |-> [email |-> 255],
             updateUser |-> <<>>, createProject |-> <<>>, updateProject |-> <<>>,
             mutation |-> [profileID |-> KeyLength],
             commentThread |-> [page |-> 500, deploymentUrl |-> 500, pageTitle |-> 255],
             firstComment |-> [commitSha |-> 40, href |-> 500, text |-> 65535,
                               deployment |-> KeyLength]]
          TooLong  == /\ field \in DOMAIN Narrower[route] /\ Text(value)
                      /\ value.size > Narrower[route][field]
          NotNull  == [updateUser |-> {"username", "role", "status"},
                       updateProject |-> {"name", "isPublic"},
                       firstComment |-> {"text", "leftOnLocalhost"}]
          NoNull   == /\ route \in DOMAIN NotNull /\ field \in NotNull[route]
                      /\ field \in DOMAIN body /\ value = Null
          Missing  == route = "firstComment" /\ field = "text" /\ field \notin DOMAIN body
          OutOfRange == route = "mutation" /\ body.timestamp.form # "moment"
      IN  PipeAccepts(route, body) =>
            (RefusedColumns(route, body) # {} <=> TooLong \/ NoNull \/ Missing \/ OutOfRange)

Updates == {"updateUser", "updateProject"}

\* What a row held before.
Row(route) ==
    [column \in DOMAIN IF route = "updateUser" THEN Table!User ELSE Table!Project |->
       [type |-> "string", size |-> 4, form |-> "stored"]]

\* The object that is saved and answered.
Updated(route, body) == Assigned(Row(route), Dto!InstanceOf(Classes[route], body, None))

\* A change of one field is stored, leaves the others of the row as they were,
\* and is answered with nothing that was not stored.
UpdateAnswered ==
    subject = "bodies" /\ asked # None /\ asked.route \in Updates =>
      LET route  == asked.route  body == asked.body
          row    == Row(route)
          object == Updated(route, body)
          saved  == Saved(row, object)
          answer == Answer(route, object)
      IN  PipeAccepts(route, body) =>
            /\ \A column \in DOMAIN row :
                 saved[column] = IF column \in DOMAIN body THEN body[column] ELSE row[column]
            /\ \A column \in DOMAIN answer : answer[column] = saved[column]

\* The answer to a change has what the documented schema of a user, or of a
\* project, says every answer has.
AnswerComplete ==
    subject = "bodies" /\ asked # None /\ asked.route \in Updates =>
      LET route == asked.route  body == asked.body
          Required == [updateUser |-> {"email", "username", "role", "status"},
                       updateProject |-> {"name", "isPublic"}]
      IN  PipeAccepts(route, body) =>
            Required[route] \subseteq DOMAIN Answer(route, Updated(route, body))

\* A text of a form, in the characters UserHandler tells apart: a word is made
\* of letters, a quoted e-mail has a space in its quotes, any other text has a
\* character that no word has.
CharacterAt(form, i) ==
    CASE form \in Dto!Words -> "a"
      [] form = "blank" -> " "
      [] form = "email" -> IF i = 2 THEN "@" ELSE IF i = 4 THEN "." ELSE "a"
      [] form = "quoted" -> IF i \in {1, 3} THEN "-" ELSE IF i = 2 THEN " "
                            ELSE IF i = 4 THEN "@" ELSE IF i = 6 THEN "." ELSE "a"
      [] OTHER -> IF i = 1 THEN "-" ELSE "a"

Spelt(value) == [i \in 1..value.size |-> CharacterAt(value.form, i)]

\* Other names than blank ones have no spaces around them.
TrimmedSize(value) == IF value.form = "blank" THEN 0 ELSE value.size

\* A URL of a form; what is wrong with a bare one is that it does not parse, or
\* something that fares the same.
Typed(value) ==
    CASE value = Null -> None
      [] value # Null /\ value.form = "bareUrl" -> CHOOSE text \in Unparsable : TRUE
      [] OTHER -> CHOOSE url \in OfDomains : TRUE

\* Of the bodies that keep to their class, the handlers refuse these: users with
\* a quoted e-mail, with a hyphen or more in their name, or with a longer one than
\* MaxUsername; projects with a name of one letter, of more than 100 or of
\* spaces, a description of more than 500, or a bare URL; threads without page and
\* deploymentUrl; comments with more than 5000 parts or 1000 letters.
ClassThenHandler ==
    subject = "bodies" /\ asked # None /\ Dto!Accepts(Classes[asked.route], asked.body) =>
      LET route == asked.route  body == asked.body
          Size(field) == IF Given(body, field) = Null THEN None ELSE Given(body, field).size
          Within(field, n) == Size(field) = None \/ Size(field) <= n
      IN  CASE route \in {"register", "createUser"} ->
                 User!validateUserData(
                   [email |-> Spelt(body.email), username |-> Spelt(body.username),
                    password |-> Size("password")]).isValid
                   <=> /\ body.email.form # "quoted"
                       /\ body.username.form \in Dto!Words /\ body.username.size <= MaxUsername
            [] route = "createProject" ->
                 Project!validateProjectData(
                   [name |-> TrimmedSize(body.name), url |-> Typed(Given(body, "url")),
                    description |-> Size("description")]).isValid
                   <=> /\ TrimmedSize(body.name) \in 2..100 /\ Within("description", 500)
                       /\ Given(body, "url") = Null \/ body.url.form # "bareUrl"
            [] route = "commentThread" ->
                 Mutation!validateCommentThreadData(
                   [x |-> Size("x"), y |-> Size("y"), page |-> Size("page"),
                    deploymentUrl |-> Size("deploymentUrl"),
                    firstComment |-> [body |-> 1, text |-> 1]]).isValid
                   <=> Size("page") > 0 \/ Size("deploymentUrl") \notin {None, 0}
            [] route = "firstComment" ->
                 Mutation!validateFirstComment([body |-> Size("body"), text |-> Size("text")]) = {}
                   <=> Within("body", 5000) /\ Within("text", 1000)
            [] OTHER -> TRUE

\* A user who fits the table also gets a token, which holds e-mail and username
\* in base64, only if these have 209 characters at most; with more, the user is
\* stored, and no sign-up or login ever succeeds.
TokenStored ==
    subject = "accounts" /\ asked # None =>
      LET e == asked.email  u == asked.username
          fits == Dto!Fits(Dto!Email, [type |-> "string", size |-> e, form |-> "email"])
                  /\ e <= Table!User.email.length
      IN  fits => (updateRefreshToken(e, u) <=> e + u <= 209)

\* A client that read to the end has seen every row that was there when it
\* began, however many came meanwhile, unless some left the list or, in that of
\* users, two were created in one instant, which no second order tells apart.
PagesComplete ==
    /\ list.done /\ ~list.removed
    /\ \/ list.of = "projects"
       \/ \A r, s \in Present(list) : list.created[r] = list.created[s] => r = s
    => list.begun \subseteq list.seen
=============================================================================

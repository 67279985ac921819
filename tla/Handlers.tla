------------------------------ MODULE Handlers ------------------------------
(***************************************************************************)
(* Calls of the six handlers.  They keep no state of their own: what       *)
(* lasts is what a caller keeps of their answers (sessions, a token, an    *)
(* entity) while the clock, which may be set back, goes on.  The rest are  *)
(* questions, each answered at once; the properties compare answers.       *)
(*                                                                         *)
(* A behaviour is about one subject, so that the subjects do not multiply. *)
(***************************************************************************)
EXTENDS Integers, Sequences, FiniteSets

CONSTANTS
    \* of UrlHandler
    Unparsable, Loopback, DotLocal, Domains, Suspicious, DevNames, StagingNames, withoutWww,
    defaultName,    \* of SessionHandler
    MaxErrors,      \* of MutationHandler
    MaxUsername, providerText,      \* of UserHandler
    None,
    Urls, BatchResults, Providers, ProviderIds, Names, Emails, Settings, Users,
    SessionIds, userOf, Infos,
    Timestamps,     \* what clients send as timestamps
    Instants        \* bound: what the clock may show

UrlRecords ==
    [protocol : {"http:", "https:", "ftp:"}, hostname : DOMAIN withoutWww,
     port : Nat \cup {None}, path : Seq(STRING) \ {<<>>}, query : BOOLEAN, fragment : BOOLEAN]

\* What the handlers make of the inputs of Next, and the reasons they give.
Tokens ==
    [payload : [sub : Users, email : Users, username : Users, iat : Int],
     kind : {"access", "refresh"}, exp : Int]

Mutations == [id : {0}, name : {"updateCursor"}, args : {{}}, timestamp : Int]

Entities ==
    [projectId : {"project"}, userId : {"user"}, type : {"cursor_updated"}, mutationId : {0},
     status : {"pending"}, timestamp : Int]

Reasons == {"inactive", "expired", "invalid_join_time", "invalid_activity_time"}

\* The characters UserHandler tells apart, and those a name is made of.
Letters == {"a", "_"}
Characters == Letters \cup {"A", "@", ".", " ", "-"}

UserData ==
    [email : Seq(Characters), username : Seq(Characters), provider : {"local"},
     providerId : {None}, emailVerified : {FALSE}]

ASSUME HandlerConstants ==
    /\ Urls \subseteq UrlRecords \cup Unparsable
    /\ Unparsable \cap UrlRecords = {}
    /\ IsFiniteSet(SessionIds) /\ \A id \in SessionIds : defaultName[userOf[id]] # None
    /\ Instants \subseteq Int /\ 0 \in Instants
    /\ Timestamps \subseteq Int

\* None is nothing else.
ASSUME NoneIsNone ==
    None \notin Unparsable \cup UrlRecords \cup Int \cup Reasons \cup {"owner"} \cup Tokens
                  \cup Entities \cup Seq(Mutations) \cup Seq(Characters) \cup UserData

\* What a client gives as the number of collaborators may be no number.
ASSUME SettingsGiven ==
    \A s \in Settings : "maxCollaborators" \in DOMAIN s => s.maxCollaborators \in Int \cup {None}

\* Each mutation of a batch succeeded or failed.
ASSUME Batches ==
    /\ MaxErrors \in Nat
    /\ \A results \in BatchResults :
         /\ Len(results) \in Nat /\ DOMAIN results = 1..Len(results)
         /\ \A i \in DOMAIN results : results[i].status \in {"success", "failed"}

\* A provider calls its users by numbers, and a username has room for its name,
\* an underscore and a digit.
ASSUME Texts ==
    /\ MaxUsername \in Nat /\ Providers # {}
    /\ Names \subseteq Seq(Characters) \cup {None}
    /\ Emails \subseteq Seq(Characters)
    /\ ProviderIds \subseteq Seq(Letters)
    /\ \A p \in Providers : /\ providerText[p] \in Seq(Letters)
                            /\ Len(providerText[p]) \in 1..MaxUsername - 2

Url == INSTANCE UrlHandler
Session == INSTANCE SessionHandler
Mutation == INSTANCE MutationHandler
User == INSTANCE UserHandler
Project == INSTANCE ProjectHandler
Auth == INSTANCE AuthHandler

VARIABLES
    subject,
    now,
    setBack,    \* the clock has been set back
    sessions,   \* what prepareSessionData and prepareSessionUpdateData returned
    seen,       \* when they did
    token,      \* the last token response and when it was made
    entity,     \* a mutation, its validation and its entity, with their times
    asked       \* the question that is answered now

vars == <<subject, now, setBack, sessions, seen, token, entity, asked>>

\* The last three are for Requests.
Subjects ==
    {"urls", "sessions", "tokens", "timestamps", "batches", "names", "emails", "access",
     "bodies", "accounts", "pages"}

Tick ==
    /\ subject \in {"sessions", "tokens", "timestamps"}
    /\ \E t \in Instants \ {now} : now' = t /\ setBack' = (setBack \/ t < now)
    /\ UNCHANGED <<subject, sessions, seen, token, entity, asked>>

PrepareSession(id, info) ==
    /\ subject = "sessions" /\ sessions[id] = None
    /\ sessions' = [sessions EXCEPT ![id] = Session!prepareSessionData("project", userOf[id], info, now)]
    /\ seen' = [seen EXCEPT ![id] = now]
    /\ UNCHANGED <<subject, now, setBack, token, entity, asked>>

UpdateSession(id, info, cursor) ==
    /\ subject = "sessions" /\ sessions[id] # None
    /\ sessions' = [sessions EXCEPT ![id] =
                      Session!prepareSessionUpdateData(@, info, cursor, now)]
    /\ seen' = [seen EXCEPT ![id] = now]
    /\ UNCHANGED <<subject, now, setBack, token, entity, asked>>

\* CollaborationService.leaveProject, the only code that ends a session.
EndSession(id) ==
    /\ subject = "sessions" /\ sessions[id] # None
    /\ sessions' = [sessions EXCEPT ![id].isActive = FALSE]
    /\ UNCHANGED <<subject, now, setBack, seen, token, entity, asked>>

IssueToken(user) ==
    LET payload == Auth!generateTokenPayload(user, now)
    IN
    /\ subject = "tokens"
    /\ token' = [response |-> Auth!prepareTokenResponse(Auth!createAccessToken(payload),
                                                        Auth!createRefreshToken(payload), user),
                 issuedAt |-> now]
    /\ UNCHANGED <<subject, now, setBack, sessions, seen, entity, asked>>

MutationOf(timestamp) ==
    [id |-> 0, name |-> "updateCursor", args |-> {}, timestamp |-> timestamp]

ValidateMutation(timestamp) ==
    LET data == [profileID |-> "user", clientID |-> "client",
                 pushVersion |-> "number", schemaVersion |-> None,
                 mutations |-> <<MutationOf(timestamp)>>]
    IN
    /\ subject = "timestamps"
    /\ entity' = [data |-> data, answer |-> Mutation!validateMutationData(data, now),
                  validatedAt |-> now, stored |-> None, storedAt |-> None]
    /\ UNCHANGED <<subject, now, setBack, sessions, seen, token, asked>>

\* What is valid is prepared and transformed, now or later.
TransformMutation ==
    /\ subject = "timestamps" /\ entity # None
    /\ entity.stored = None /\ entity.answer.isValid
    /\ LET prepared == Mutation!prepareMutationData("project", entity.data,
                                                    entity.data.mutations[1])
       IN  entity' = [entity EXCEPT !.storedAt = now,
                        !.stored = Mutation!transformMutationToEntity(prepared, now)]
    /\ UNCHANGED <<subject, now, setBack, sessions, seen, token, asked>>

Open(about) == subject = about /\ asked = None

Ask(question) ==
    /\ asked' = question
    /\ UNCHANGED <<subject, now, setBack, sessions, seen, token, entity>>

Answered ==
    /\ asked # None
    /\ asked' = None
    /\ UNCHANGED <<subject, now, setBack, sessions, seen, token, entity>>

\* Two spellings that may lead to one page.
Alike(u, v) ==
    \/ u = v
    \/ {u, v} \cap Unparsable = {} /\ u = [v EXCEPT !.port = u.port, !.query = u.query]

AskUrls == Open("urls") /\ \E u \in Urls, v \in Urls : Alike(u, v) /\ Ask(<<u, v>>)

AskBatch == Open("batches") /\ \E results \in BatchResults : Ask(results)

AskName ==
    /\ Open("names")
    /\ \E provider \in Providers, id \in ProviderIds, name \in Names :
         Ask([provider |-> provider, providerId |-> id, username |-> name])

AskEmails == Open("emails") /\ \E e \in Emails, f \in Emails : Ask(<<e, f>>)

AskAccess ==
    /\ Open("access")
    /\ \E s \in Settings, t \in Settings, user \in Users \cup {None} :
         Ask([before |-> s, after |-> t, user |-> user])

Init ==
    /\ subject \in Subjects
    /\ now = 0 /\ setBack = FALSE
    /\ sessions = [id \in SessionIds |-> None] /\ seen = [id \in SessionIds |-> None]
    /\ token = None /\ entity = None /\ asked = None

Next ==
    \/ Tick
    \/ \E id \in SessionIds :
         \/ \E info \in Infos : PrepareSession(id, info)
         \/ \E info \in Infos, cursor \in {None, "cursor"} : UpdateSession(id, info, cursor)
         \/ EndSession(id)
    \/ \E user \in Users :
         IssueToken([id |-> user, email |-> user, username |-> user, password |-> "hash",
                     refreshToken |-> None])
    \/ \E timestamp \in Timestamps : ValidateMutation(timestamp)
    \/ TransformMutation
    \/ AskUrls \/ AskBatch \/ AskName \/ AskEmails \/ AskAccess \/ Answered

Spec == Init /\ [][Next]_vars

-----------------------------------------------------------------------------

\* The types of what lasts.  A session has times and a name from the start; a
\* mutation that was not transformed has no time of that.
TypeOK ==
    /\ subject \in Subjects /\ now \in Instants /\ setBack \in BOOLEAN
    /\ \A id \in SessionIds :
         sessions[id] # None =>
           /\ sessions[id].isActive \in BOOLEAN
           /\ {sessions[id].joinedAt, sessions[id].lastActivity, seen[id]} \subseteq Instants
           /\ sessions[id].username # None
    /\ entity # None => entity.stored = None <=> entity.storedAt = None

\* Whatever the gateway takes for one page, UrlHandler takes for one project,
\* although it treats protocol, port and slash in its own way.
PageDecidesProject ==
    subject = "urls" /\ asked # None =>
      LET u == asked[1]  v == asked[2]
      IN  Url!pageToProjectId(u) = Url!pageToProjectId(v)
            => /\ Url!urlToProjectId(u) = Url!urlToProjectId(v)
               /\ Url!convertUrlsToProjectIds(<<u, None, v>>).projectIds
                    = <<Url!urlToProjectId(u), Project!generateProjectIdFromUrl(v)>>

\* Normalising again changes nothing, but for a path that ends in two slashes
\* and a port that is the usual one of the protocol it was given.
NormalizedAgain ==
    subject = "urls" /\ asked # None =>
      LET u     == asked[1]
          once  == Url!normalizeUrl(u)
          TwoSlashes == Len(u.path) > 2 /\ SubSeq(u.path, Len(u.path) - 1, Len(u.path)) = <<"", "">>
          NewDefault == Url!Parsed(u).port = IF u.hostname \in Loopback THEN 80 ELSE 443
      IN  Url!normalizeUrl(once) # once
            <=> u \notin Unparsable /\ (TwoSlashes \/ NewDefault)

\* The normal form of a URL that is accepted is accepted, leads to the same
\* domain, name and type of project, and draws no more warnings.
AcceptedStaysAccepted ==
    subject = "urls" /\ asked # None /\ Url!validateUrl(asked[1]).isValid =>
      LET u == asked[1]
          n == Url!validateUrl(u).normalizedUrl
      IN  /\ Url!validateUrl(n).isValid
          /\ Url!extractDomainFromUrl(n) = Url!extractDomainFromUrl(u)
          /\ Url!generateProjectNameFromUrl(n) = Url!generateProjectNameFromUrl(u)
          /\ Url!analyzeUrlPattern(n).estimatedProjectType
               = Url!analyzeUrlPattern(u).estimatedProjectType
          /\ Url!analyzeUrlPattern(n).pathSegments = Url!analyzeUrlPattern(u).pathSegments
          /\ Url!validateUrlSecurity(n).warnings
               \subseteq Url!validateUrlSecurity(u).warnings \ {"protocol"}

\* A session is valid until the expiry counted from when it was last prepared or
\* updated, to the millisecond; only a clock set back makes it invalid earlier.
SessionJudged ==
    \A id \in SessionIds :
      sessions[id] # None =>
        LET judged == Session!validateSessionState(sessions[id], now)
            inTime == now <= Session!calculateSessionExpiry(seen[id], 24)
        IN  /\ judged.isValid => sessions[id].isActive /\ inTime
            /\ sessions[id].isActive /\ inTime /\ ~setBack => judged.isValid
            /\ judged.shouldCleanup <=> sessions[id].isActive /\ ~inTime

\* The average duration lies between that of the newest and of the oldest
\* active session, rounded alike; ended sessions count in the total only.
StatsBounded ==
    LET kept  == {Project!Spread([id |-> id], sessions[id]) :
                    id \in {x \in SessionIds : sessions[x] # None}}
        stats == Session!calculateSessionStats(kept, now)
        Minutes(joinedAt) == Session!Rounded(now - joinedAt, Session!Minute)
    IN  subject = "sessions" =>
          /\ stats.active + stats.inactive = stats.total
          /\ stats.active > 0 =>
               /\ Minutes(stats.newestActiveSession) <= stats.averageSessionDuration
               /\ stats.averageSessionDuration <= Minutes(stats.oldestActiveSession)
               /\ \A s \in kept : s.isActive => s.joinedAt \in
                    stats.oldestActiveSession..stats.newestActiveSession

\* The client is told 900 seconds: the access token is refused from then on, and
\* at most the rest of the second it was issued in earlier.  The refresh token
\* outlives it, and the answer gives neither secret of the user away.
TokenLife ==
    token # None =>
      LET response == token.response
          age      == now - token.issuedAt
          valid    == Auth!validateTokenExpiry(response.accessToken.exp, now)
      IN  /\ age >= response.expiresIn * 1000 => ~valid
          /\ age <= response.expiresIn * 1000 - 1000 => valid
          /\ valid => Auth!validateTokenExpiry(response.refreshToken.exp, now)
          /\ Auth!decodeTokenPayload(response.accessToken).sub = response.user.id
          /\ \A provided \in {response.accessToken, response.refreshToken} :
               Auth!validateRefreshTokenMatch(response.refreshToken, provided)
                 <=> provided.kind = "refresh"
          /\ DOMAIN response.user \cap {"password", "refreshToken"} = {}

\* The time of a mutation is replaced behind nobody's back: the validation has
\* warned of it, unless days passed between the two or the clock was set back.
ReplacedWasWarned ==
    /\ entity # None /\ entity.stored # None /\ ~setBack
    /\ entity.stored.timestamp # entity.data.mutations[1].timestamp
    =>
        \/ entity.answer.warnings # {}
        \/ entity.storedAt - entity.validatedAt > Mutation!Week - Mutation!HourOf

FewEnough == 1..19999

\* 100 % only if nothing failed, 0 % only if nothing succeeded.
RateTells(answer) ==
    /\ answer.successRate = 10000 <=> answer.success
    /\ answer.successRate = 0 <=> answer.processedMutations = 0

\* One failure among so many is not rounded away.
AllButOneTells ==
    \A total \in {1, 2, 3, 7, 9999, 10001, 19999} :
      Mutation!calculateSuccessRate(total - 1, total) < 10000

\* No error left out is more frequent than one that is listed.
ListsMostCommon(results, listed) ==
    LET Count(error) == Cardinality({i \in DOMAIN results : results[i].error = error})
        errors == {results[i].error : i \in DOMAIN results} \ {None}
    IN  /\ \A i \in DOMAIN listed, j \in DOMAIN listed :
             i < j => listed[i] # listed[j] /\ Count(listed[i]) >= Count(listed[j])
        /\ \A error \in errors :
             \/ \E i \in DOMAIN listed : listed[i] = error
             \/ /\ Len(listed) = MaxErrors
                /\ \A i \in DOMAIN listed : Count(listed[i]) >= Count(error)

\* The summary of a batch tells all, some and none apart, though the rate is
\* rounded, if there are not more than 19999: of 20000 with one failure it is
\* rounded up.  It lists the most common errors.
SummaryOfBatch ==
    subject = "batches" /\ asked # None =>
      LET answer == Mutation!createBatchProcessResult(asked)
      IN  /\ Len(asked) \in FewEnough => RateTells(answer)
          /\ ListsMostCommon(asked, answer.commonErrors)
          /\ AllButOneTells

\* A username made of an OAuth profile is one a user may have, unless it has
\* become too short, and is made of itself again.
GeneratedNameLegal ==
    subject = "names" /\ asked # None =>
      LET name  == User!generateOAuthUsername(asked.provider, asked.providerId, asked.username)
          again == User!generateOAuthUsername(asked.provider, asked.providerId, name)
      IN  /\ User!validateUsername(name) \subseteq {"short"}
          /\ name # <<>> => again = name

\* What was valid is valid once prepared, and a second sign-up with the same
\* e-mail, capitalised or spaced as it may be, is a conflict once prepared.
PreparedStaysValid ==
    subject = "emails" /\ asked # None =>
      LET DataOf(email) == [email |-> email, username |-> <<"a", "A", "_">>, password |-> 8,
                            provider |-> None, providerId |-> None, isEmailVerified |-> FALSE]
          Prepared(email) == User!prepareUserEntityData(DataOf(email))
          ByOAuth(email)  == User!prepareOAuthProfile(
                               [email |-> email, provider |-> CHOOSE p \in Providers : TRUE,
                                providerId |-> <<"a">>, username |-> None])
          Valid(data) == User!validateUserData([email |-> data.email, username |-> data.username,
                                                password |-> 8]).isValid
          e == asked[1]  f == asked[2]
          Unspaced(email) == Url!Filtered(email, {i \in DOMAIN email : email[i] # " "})
          Same(a, b) == /\ Len(a) = Len(b)
                        /\ \A i \in DOMAIN a : a[i] = b[i] \/ {a[i], b[i]} = {"a", "A"}
      IN  /\ Valid(DataOf(e)) => Valid(Prepared(e)) /\ Valid(ByOAuth(e))
          /\ User!checkEmailFormat(e) /\ Same(Unspaced(e), Unspaced(f))
               /\ User!checkEmailFormat(User!normalizeEmail(f))
               => /\ User!checkUserConflict(Prepared(e), Prepared(f).email, None) = "email"
                  /\ User!checkUserConflict(Prepared(e), ByOAuth(f).email, None) = "email"

\* To open a project to the public or to guests takes access from nobody, and
\* its owner always has it, whatever the settings merged into the defaults, and
\* into whichever of the three handlers' defaults.
OpeningKeepsAccess ==
    subject = "access" /\ asked # None =>
      LET Merged(s) == Project!mergeProjectSettings(Project!createProjectSettings(<<>>), s)
          before    == [ownerId |-> "owner", settings |-> Merged(asked.before)]
          after     == [ownerId |-> "owner", settings |-> Merged(asked.after)]
          Elsewhere == {Url!createDefaultSettings(TRUE), Session!createDefaultProjectSettings}
          Opens     == \A key \in {"isPublic", "allowGuests"} :
                         Project!IsSet(before.settings, key) => Project!IsSet(after.settings, key)
      IN  /\ Opens /\ Project!HasAccess(before, asked.user) => Project!HasAccess(after, asked.user)
          /\ Project!checkProjectAccess(after, "owner") = "owner"
          /\ \A defaults \in Elsewhere :
               Project!checkProjectAccess(
                 [after EXCEPT !.settings = Project!mergeProjectSettings(defaults, asked.after)],
                 asked.user) = Project!checkProjectAccess(after, asked.user)
          /\ after.settings.maxCollaborators \in 1..1000 \cup {None}
=============================================================================

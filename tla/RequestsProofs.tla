--------------------------- MODULE RequestsProofs ---------------------------
(***************************************************************************)
(* The types and the sixteen rules of Handlers and Requests, whatever is   *)
(* asked: all instants of the clock, all lists and limits, all bodies, all *)
(* URLs, texts, sets of sessions and batches.                              *)
(*                                                                         *)
(* Where a rule is about a choice of time or a list that changes, an       *)
(* invariant says how what is kept came about.  The others are lemmas on   *)
(* the operators, with an invariant that says what may be asked.  filter() *)
(* and sort() leave at each place the element with as many before it as    *)
(* there should be (Ranking).  A sum is one function on all subsets, which *)
(* is there for every size since no size can be the least without it       *)
(* (AllNumbers, SumExists).                                                *)
(***************************************************************************)
EXTENDS Requests, FiniteSetTheorems, SequenceTheorems, TLAPS

-----------------------------------------------------------------------------
(* What a step moves *)

UserOf(user) ==
    [id |-> user, email |-> user, username |-> user, password |-> "hash", refreshToken |-> None]

Asking ==
    AskUrls \/ AskBatch \/ AskName \/ AskEmails \/ AskAccess \/ AskBody \/ AskAccount

\* Every step keeps the subject, and whatever it changes, one action changes.
LEMMA Moves ==
  ASSUME [RequestsNext]_<<vars, list>>
  PROVE  /\ subject' = subject
         /\ UNCHANGED <<now, setBack>> \/ Tick
         /\ \/ UNCHANGED <<sessions, seen>>
            \/ \E id \in SessionIds :
                 \/ \E info \in Infos : PrepareSession(id, info)
                 \/ \E info \in Infos, cursor \in {None, "cursor"} : UpdateSession(id, info, cursor)
                 \/ EndSession(id)
         /\ token' = token \/ \E user \in Users : IssueToken(UserOf(user))
         /\ \/ entity' = entity
            \/ \E timestamp \in Timestamps : ValidateMutation(timestamp)
            \/ TransformMutation
         /\ asked' \in {asked, None} \/ Asking
         /\ list' = list \/ InsertRow \/ RemoveRow \/ BeginReading \/ ReadPage
<1>1. CASE Tick /\ UNCHANGED list
  BY <1>1 DEF Tick
<1>2. ASSUME NEW id \in SessionIds, UNCHANGED list,
             \/ \E info \in Infos : PrepareSession(id, info)
             \/ \E info \in Infos, cursor \in {None, "cursor"} : UpdateSession(id, info, cursor)
             \/ EndSession(id)
      PROVE  UNCHANGED <<subject, now, setBack, token, entity, asked>>
  BY <1>2 DEF PrepareSession, UpdateSession, EndSession
<1>3. ASSUME NEW user \in Users, IssueToken(UserOf(user)), UNCHANGED list
      PROVE  UNCHANGED <<subject, now, setBack, sessions, seen, entity, asked>>
  BY <1>3 DEF IssueToken
<1>4. ASSUME UNCHANGED list,
             (\E timestamp \in Timestamps : ValidateMutation(timestamp)) \/ TransformMutation
      PROVE  UNCHANGED <<subject, now, setBack, sessions, seen, token, asked>>
  BY <1>4 DEF ValidateMutation, TransformMutation
<1>5. ASSUME UNCHANGED list, Asking \/ Answered
      PROVE  /\ UNCHANGED <<subject, now, setBack, sessions, seen, token, entity>>
             /\ Asking \/ asked' = None
  BY <1>5 DEF Asking, AskUrls, AskBatch, AskName, AskEmails, AskAccess, AskBody, AskAccount, Ask,
             Answered
<1>6. CASE InsertRow \/ RemoveRow \/ BeginReading \/ ReadPage
  BY <1>6 DEF InsertRow, RemoveRow, BeginReading, ReadPage, vars
<1>7. CASE UNCHANGED <<vars, list>>
  BY <1>7 DEF vars
<1>8. \/ (Tick \/ Answered \/ Asking) /\ UNCHANGED list
      \/ /\ UNCHANGED list
         /\ \E id \in SessionIds :
              \/ \E info \in Infos : PrepareSession(id, info)
              \/ \E info \in Infos, cursor \in {None, "cursor"} : UpdateSession(id, info, cursor)
              \/ EndSession(id)
      \/ (\E user \in Users : IssueToken(UserOf(user))) /\ UNCHANGED list
      \/ /\ (\E timestamp \in Timestamps : ValidateMutation(timestamp)) \/ TransformMutation
         /\ UNCHANGED list
      \/ InsertRow \/ RemoveRow \/ BeginReading \/ ReadPage
      \/ UNCHANGED <<vars, list>>
  BY DEF RequestsNext, Next, Asking, UserOf
<1> QED
  BY <1>1, <1>2, <1>3, <1>4, <1>5, <1>6, <1>7, <1>8

-----------------------------------------------------------------------------
(* Tokens fit their column *)

AccountAsked == subject = "accounts" /\ asked # None => asked.username \in 3..20

LEMMA LengthFits ==
  ASSUME NEW e \in Nat, NEW u \in Nat
  PROVE  updateRefreshToken(e, u) <=> e + u <= 209
  BY DEF updateRefreshToken, TokenLength, PayloadLength, Base64, Table!User, Table!Nullable

\* For any e-mail and username that the pipe and the table accept, the refresh
\* token that updateRefreshToken stores fits its column exactly up to 209
\* characters of both.
THEOREM RequestsTokenStored == RequestsSpec => []TokenStored
<1>1. RequestsInit => AccountAsked
  BY DEF RequestsInit, Init, AccountAsked
<1>2. AccountAsked /\ [RequestsNext]_<<vars, list>> => AccountAsked'
  <2> SUFFICES ASSUME AccountAsked, [RequestsNext]_<<vars, list>>, subject' = "accounts",
                      asked' # None, asked' # asked
               PROVE  asked'.username \in 3..20
    BY Moves DEF AccountAsked
  <2>1. AskAccount
    BY Moves DEF AccountAsked, Asking, AskUrls, AskBatch, AskName, AskEmails, AskAccess, AskBody,
                 Open
  <2> QED
    BY <2>1 DEF AskAccount, Ask
<1>3. AccountAsked => TokenStored
  <2> SUFFICES ASSUME AccountAsked, subject = "accounts", asked # None,
                      Dto!Fits(Dto!Email, [type |-> "string", size |-> asked.email, form |-> "email"])
               PROVE  updateRefreshToken(asked.email, asked.username)
                        <=> asked.email + asked.username <= 209
    BY DEF TokenStored
  <2>1. asked.email \in Nat
    BY DEF Dto!Fits, Dto!Email, Dto!Text
  <2>2. asked.username \in Nat
    BY DEF AccountAsked
  <2> QED
    BY <2>1, <2>2, LengthFits
<1> QED
  BY <1>1, <1>2, <1>3, PTL DEF RequestsSpec

-----------------------------------------------------------------------------
(* Tokens die in time *)

\* The last answer was made of one user, at issuedAt.
Issued ==
    /\ now \in Int
    /\ token # None =>
         /\ token.issuedAt \in Int
         /\ \E user \in Users :
              LET payload == Auth!generateTokenPayload(UserOf(user), token.issuedAt)
              IN  token.response = Auth!prepareTokenResponse(
                    Auth!createAccessToken(payload), Auth!createRefreshToken(payload), UserOf(user))

LEMMA IssuedKept ==
  Issued /\ [RequestsNext]_<<vars, list>> => Issued'
<1> SUFFICES ASSUME Issued, [RequestsNext]_<<vars, list>>
             PROVE  Issued'
  OBVIOUS
<1>1. now' \in Int
  BY Moves, HandlerConstants DEF Issued, Tick
<1>2. CASE token' = token
  BY <1>1, <1>2 DEF Issued
<1>3. ASSUME NEW user \in Users, IssueToken(UserOf(user))
      PROVE  Issued'
  BY <1>1, <1>3 DEF Issued, IssueToken
<1> QED
  BY <1>2, <1>3, Moves

\* A client may trust the 900 seconds it is told, but for the rest of one
\* second, whatever the clock does, and is never told a secret.
THEOREM RequestsTokenLife == RequestsSpec => []TokenLife
<1>1. RequestsInit => Issued
  BY HandlerConstants DEF RequestsInit, Init, Issued
<1>2. Issued => TokenLife
  <2> SUFFICES ASSUME now \in Int, token # None, token.issuedAt \in Int, NEW user \in Users,
                      LET payload == Auth!generateTokenPayload(UserOf(user), token.issuedAt)
                      IN  token.response = Auth!prepareTokenResponse(
                            Auth!createAccessToken(payload), Auth!createRefreshToken(payload),
                            UserOf(user))
               PROVE  TokenLife
    BY DEF Issued, TokenLife
  <2> DEFINE payload  == Auth!generateTokenPayload(UserOf(user), token.issuedAt)
             response == token.response
             iat      == token.issuedAt \div 1000
  <2>1. /\ response.accessToken = [payload |-> payload, kind |-> "access", exp |-> iat + 900]
        /\ response.refreshToken = [payload |-> payload, kind |-> "refresh", exp |-> iat + 604800]
        /\ response.expiresIn = 900
        /\ response.user = Auth!transformUserToDto(UserOf(user))
        /\ payload.sub = user
    BY SMT DEF Auth!generateTokenPayload, Auth!createAccessToken, Auth!createRefreshToken,
           Auth!signAsync, Auth!prepareTokenResponse, Auth!Seconds, UserOf
  <2>2. /\ response.user.id = user
        /\ DOMAIN response.user \cap {"password", "refreshToken"} = {}
    BY <2>1 DEF Auth!transformUserToDto, UserOf
  <2>3. /\ iat \in Int /\ now \div 1000 \in Int
        /\ now - token.issuedAt >= 900000 => ~(iat + 900 > now \div 1000)
        /\ now - token.issuedAt <= 899000 => iat + 900 > now \div 1000
        /\ iat + 900 > now \div 1000 => iat + 604800 > now \div 1000
    BY SMT
  <2>4. {response.accessToken, response.refreshToken} \subseteq Tokens
    <3>1. payload \in [sub : Users, email : Users, username : Users, iat : Int]
      BY <2>3, SMT DEF Auth!generateTokenPayload, Auth!Seconds, UserOf
    <3> HIDE DEF payload, iat, response
    <3>2. [payload |-> payload, kind |-> "access", exp |-> iat + 900] \in Tokens
      BY <2>3, <3>1, SMT DEF Tokens
    <3>3. [payload |-> payload, kind |-> "refresh", exp |-> iat + 604800] \in Tokens
      BY <2>3, <3>1, SMT DEF Tokens
    <3> QED
      BY <2>1, <3>2, <3>3
  <2>5. response.accessToken # None /\ response.refreshToken # None
    BY <2>4, NoneIsNone, SMT
  <2> HIDE DEF iat, payload, response
  <2>6. /\ now - token.issuedAt >= response.expiresIn * 1000
             => ~Auth!validateTokenExpiry(response.accessToken.exp, now)
        /\ now - token.issuedAt <= response.expiresIn * 1000 - 1000
             => Auth!validateTokenExpiry(response.accessToken.exp, now)
        /\ Auth!validateTokenExpiry(response.accessToken.exp, now)
             => Auth!validateTokenExpiry(response.refreshToken.exp, now)
    BY <2>1, <2>3, SMT DEF Auth!validateTokenExpiry, Auth!Seconds
  <2>7. /\ Auth!decodeTokenPayload(response.accessToken).sub = response.user.id
        /\ \A provided \in {response.accessToken, response.refreshToken} :
             Auth!validateRefreshTokenMatch(response.refreshToken, provided)
               <=> provided.kind = "refresh"
    BY <2>1, <2>2, <2>5, SMT DEF Auth!decodeTokenPayload, Auth!validateRefreshTokenMatch
  <2> QED
    BY <2>2, <2>6, <2>7, SMT
    DEF TokenLife, response, Auth!validateTokenExpiry, Auth!Seconds, Auth!decodeTokenPayload,
        Auth!validateRefreshTokenMatch
<1> QED
  BY <1>1, <1>2, IssuedKept, PTL DEF RequestsSpec

-----------------------------------------------------------------------------
(* Pages leave nothing out *)

\* No two rows are at one place of the order.
Strict(l) ==
    \/ l.of = "projects"
    \/ \A r, s \in Present(l) : l.created[r] = l.created[s] => r = s

\* The rows in front of a row.
Before(l, r) == {s \in Present(l) : s # r /\ Precedes(l, s, r)}

Take(limit) == IF limit = None THEN 20 ELSE limit

Lists ==
    [of : {"users", "projects"},
     created : [Rows -> Int \cup {None}], id : [Rows -> Int \cup {None}], next : Nat \ {0},
     page : (Nat \ {0}) \cup {None}, limit : Limits \cup {None},
     begun : SUBSET Rows, seen : SUBSET Rows, done : BOOLEAN, removed : BOOLEAN]

ListTyped ==
    /\ list \in Lists
    /\ \A r \in Present(list) :
         /\ r < list.next
         /\ list.created[r] \in {r - 1, r}
         /\ list.id[r] \in {r, -r}

\* Until it is done, a client has missed no row but those with as many rows in
\* front of them as it has read places.
Reading ==
    list.page # None /\ ~list.removed /\ Strict(list) =>
      /\ list.begun \subseteq Present(list)
      /\ list.done => list.begun \subseteq list.seen
      /\ ~list.done =>
           \A r \in list.begun \ list.seen :
             Cardinality(Before(list, r)) >= (list.page - 1) * Take(list.limit)

PagesInv ==
    /\ ListTyped
    /\ list.page = None => ~list.done
    /\ Reading

LEMMA Numbers ==
  /\ None \notin Int
  /\ IsFiniteSet(Rows) /\ Rows \subseteq Nat \ {0}
  /\ \A limit \in Limits \cup {None} : Take(limit) \in Nat
<1>1. None \notin Int
  BY NoneIsNone
<1>2. IsFiniteSet(Rows) /\ Rows = 1..Cardinality(Rows)
  BY RequestConstants
<1>3. Cardinality(Rows) \in Nat
  BY <1>2, FS_CardinalityType
<1>4. \A limit \in Limits \cup {None} : Take(limit) \in Nat
  BY RequestConstants DEF Take
<1> QED
  BY <1>1, <1>2, <1>3, <1>4

\* In a strict order, the place of a row says how many rows are in front of it.
LEMMA PlaceInOrder ==
  ASSUME ListTyped, Strict(list), NEW order \in Orders(list), NEW r \in Present(list)
  PROVE  /\ order \in Seq(Present(list))
         /\ \E i \in 1..Len(order) : order[i] = r /\ Cardinality(Before(list, r)) = i - 1
<1> DEFINE P == Present(list)
          n == Cardinality(P)
<1>1. IsFiniteSet(P) /\ P \subseteq Rows /\ n \in Nat
  BY Numbers, FS_Subset, FS_CardinalityType DEF Present
<1>2. order \in [1..n -> P] /\ \A i, j \in 1..n : i # j => order[i] # order[j]
  BY DEF Orders, SetToSeqs
<1> HIDE DEF P, n
<1>3. order \in Seq(P) /\ Len(order) = n
  BY <1>1, <1>2, SeqDef
<1>4. order \in Surjection(1..n, P)
  <2>1. order \in Injection(1..n, P)
    BY <1>2 DEF Injection, IsInjective
  <2>2. IsFiniteSet(1..n) /\ Cardinality(1..n) = n
    BY <1>1, FS_Interval
  <2> QED
    BY <1>1, <2>1, <2>2, FS_Injection DEF n
<1>5. PICK i \in 1..n : order[i] = r
  BY <1>4 DEF Surjection, P
<1>6. \A j, k \in 1..n : j < k => Precedes(list, order[j], order[k])
  BY <1>2, <1>3 DEF Orders
<1>7. \A s, t \in P : s # t /\ Precedes(list, s, t) => ~Precedes(list, t, s)
  BY <1>1, Numbers DEF ListTyped, Lists, Strict, Precedes, P, Present
<1>8. Before(list, r) = {order[j] : j \in 1..(i - 1)}
  <2>1. \A j \in 1..(i - 1) : order[j] \in Before(list, r)
    BY <1>1, <1>2, <1>5, <1>6 DEF Before, P
  <2>2. ASSUME NEW s \in Before(list, r)
        PROVE  \E j \in 1..(i - 1) : order[j] = s
    <3>1. PICK j \in 1..n : order[j] = s
      BY <1>4 DEF Surjection, Before, P
    <3>2. ~(i < j)
      BY <1>5, <1>6, <1>7, <3>1 DEF Before, P
    <3>3. i # j
      BY <1>5, <3>1 DEF Before
    <3> QED
      BY <1>1, <3>1, <3>2, <3>3
  <2> QED
    BY <2>1, <2>2
<1>9. Cardinality(Before(list, r)) = i - 1
  <2> DEFINE f == [j \in 1..(i - 1) |-> order[j]]
  <2>1. f \in Bijection(1..(i - 1), Before(list, r))
    BY <1>1, <1>2, <1>8 DEF Bijection, Injection, IsInjective, Surjection
  <2>2. i - 1 \in Nat
    BY <1>1
  <2> QED
    BY <2>1, <2>2, FS_CountingElements DEF ExistsBijection
<1> QED
  BY <1>3, <1>5, <1>9 DEF P

\* A new row is put anywhere; none of those there were loses one in front of it.
LEMMA PagesInsert ==
  ASSUME PagesInv, InsertRow
  PROVE  PagesInv'
<1> DEFINE new == list.next
<1>1. PICK age \in {0, 1}, id \in {new, -new} :
        list' = [list EXCEPT !.created[new] = new - age, !.id[new] = id, !.next = @ + 1]
  BY DEF InsertRow
<1>2. new \in Rows /\ new \in Nat \ {0}
  BY Numbers DEF InsertRow
<1>3. /\ list'.of = list.of /\ list'.page = list.page /\ list'.limit = list.limit
      /\ list'.begun = list.begun /\ list'.seen = list.seen /\ list'.done = list.done
      /\ list'.removed = list.removed /\ list'.next = new + 1
      /\ list'.created = [list.created EXCEPT ![new] = new - age]
      /\ list'.id = [list.id EXCEPT ![new] = id]
  BY <1>1 DEF PagesInv, ListTyped, Lists
<1>4. /\ list.created \in [Rows -> Int \cup {None}] /\ list.id \in [Rows -> Int \cup {None}]
      /\ new \notin Present(list)
  BY <1>2 DEF PagesInv, ListTyped, Lists
<1>5. /\ Present(list)' = Present(list) \cup {new}
      /\ \A r \in Present(list) : list'.created[r] = list.created[r] /\ list'.id[r] = list.id[r]
      /\ list'.created[new] = new - age /\ list'.id[new] = id
  BY <1>2, <1>3, <1>4, Numbers DEF Present
<1>6. ListTyped'
  <2>1. list' \in Lists
    <3>1. /\ [list.created EXCEPT ![new] = new - age] \in [Rows -> Int \cup {None}]
          /\ [list.id EXCEPT ![new] = id] \in [Rows -> Int \cup {None}]
          /\ new + 1 \in Nat \ {0}
      BY <1>2, <1>4
    <3>2. list' = [list EXCEPT !.created = [list.created EXCEPT ![new] = new - age],
                               !.id = [list.id EXCEPT ![new] = id], !.next = new + 1]
      BY <1>1 DEF PagesInv, ListTyped, Lists
    <3> HIDE DEF new
    <3> QED
      BY <3>1, <3>2 DEF PagesInv, ListTyped, Lists
  <2>2. ASSUME NEW r \in Present(list)'
        PROVE  r < list'.next /\ list'.created[r] \in {r - 1, r} /\ list'.id[r] \in {r, -r}
    <3>1. CASE r = new
      BY <1>2, <1>3, <1>5, <3>1
    <3>2. CASE r \in Present(list)
      <4>1. r \in Nat
        BY <3>2, Numbers DEF Present
      <4> QED
        BY <1>2, <1>3, <1>5, <3>2, <4>1 DEF PagesInv, ListTyped, Lists
    <3> QED
      BY <1>5, <3>1, <3>2
  <2> QED
    BY <2>1, <2>2 DEF ListTyped
<1>7. Strict(list)' => Strict(list)
  BY <1>3, <1>5 DEF Strict
<1>8. ASSUME NEW r \in Present(list)
      PROVE  Cardinality(Before(list, r)) <= Cardinality(Before(list, r)')
             /\ Cardinality(Before(list, r)) \in Nat /\ Cardinality(Before(list, r)') \in Nat
  <2>1. Before(list, r) \subseteq Before(list', r)
    BY <1>3, <1>5 DEF Before, Precedes
  <2>2. IsFiniteSet(Before(list', r))
    <3>1. Before(list', r) \subseteq Rows
      BY DEF Before, Present
    <3> QED
      BY <3>1, Numbers, FS_Subset
  <2> QED
    BY <2>1, <2>2, FS_Subset, FS_CardinalityType
<1>9. Reading'
  <2> SUFFICES ASSUME list'.page # None, ~list'.removed, Strict(list)'
               PROVE  /\ list'.begun \subseteq Present(list)'
                      /\ list'.done => list'.begun \subseteq list'.seen
                      /\ ~list'.done =>
                           \A r \in list'.begun \ list'.seen :
                             Cardinality(Before(list, r)') >= (list'.page - 1) * Take(list'.limit)
    BY DEF Reading
  <2>1. /\ list.begun \subseteq Present(list)
        /\ list.done => list.begun \subseteq list.seen
        /\ ~list.done =>
             \A r \in list.begun \ list.seen :
               Cardinality(Before(list, r)) >= (list.page - 1) * Take(list.limit)
    BY <1>3, <1>7 DEF PagesInv, Reading
  <2>2. (list.page - 1) * Take(list.limit) \in Int
    <3>1. list.page - 1 \in Int
      BY <1>3 DEF PagesInv, ListTyped, Lists
    <3>2. Take(list.limit) \in Int
      BY Numbers DEF PagesInv, ListTyped, Lists
    <3> QED
      BY <3>1, <3>2
  <2>3. ASSUME ~list.done, NEW r \in list.begun \ list.seen
        PROVE  Cardinality(Before(list, r)') >= (list.page - 1) * Take(list.limit)
    BY <1>8, <2>1, <2>2, <2>3
  <2> QED
    BY <1>3, <1>5, <2>1, <2>3
<1> QED
  BY <1>3, <1>6, <1>9 DEF PagesInv

\* A removal ends what Reading promises.
LEMMA PagesRemove ==
  ASSUME PagesInv, RemoveRow
  PROVE  PagesInv'
<1>1. PICK gone \in Present(list) :
        list' = [list EXCEPT !.created[gone] = None, !.id[gone] = None, !.removed = TRUE]
  BY DEF RemoveRow
<1>2. /\ list'.removed /\ list'.page = list.page /\ list'.done = list.done
      /\ list'.next = list.next
      /\ list'.created = [list.created EXCEPT ![gone] = None]
      /\ list'.id = [list.id EXCEPT ![gone] = None]
  BY <1>1 DEF PagesInv, ListTyped, Lists
<1>3. /\ list.created \in [Rows -> Int \cup {None}] /\ list.id \in [Rows -> Int \cup {None}]
      /\ gone \in Rows
  BY DEF PagesInv, ListTyped, Lists, Present
<1>4. ASSUME NEW r \in Present(list)'
      PROVE  /\ r \in Present(list)
             /\ list'.created[r] = list.created[r] /\ list'.id[r] = list.id[r]
  BY <1>2, <1>3 DEF Present
<1>5. list' \in Lists
  <2>1. /\ [list.created EXCEPT ![gone] = None] \in [Rows -> Int \cup {None}]
        /\ [list.id EXCEPT ![gone] = None] \in [Rows -> Int \cup {None}]
    BY <1>3
  <2>2. list' = [list EXCEPT !.created = [list.created EXCEPT ![gone] = None],
                             !.id = [list.id EXCEPT ![gone] = None], !.removed = TRUE]
    BY <1>1 DEF PagesInv, ListTyped, Lists
  <2> QED
    BY <2>1, <2>2 DEF PagesInv, ListTyped, Lists
<1>6. ListTyped'
  BY <1>2, <1>4, <1>5 DEF PagesInv, ListTyped, Lists
<1> QED
  BY <1>2, <1>6 DEF PagesInv, Reading

LEMMA PagesBegin ==
  ASSUME PagesInv, BeginReading
  PROVE  PagesInv'
<1>1. PICK limit \in Limits :
        list' = [list EXCEPT !.page = 1, !.limit = limit, !.begun = Present(list), !.seen = {},
                             !.done = FALSE, !.removed = FALSE]
  BY DEF BeginReading
<1>2. /\ list'.page = 1 /\ list'.limit = limit /\ list'.begun = Present(list)
      /\ list'.done = FALSE /\ list'.created = list.created /\ list'.id = list.id
      /\ list'.next = list.next
  BY <1>1 DEF PagesInv, ListTyped, Lists
<1>3. Present(list)' = Present(list) /\ Present(list) \subseteq Rows
  BY <1>2 DEF Present
<1>4. ListTyped'
  <2>1. list' = [of |-> list.of, created |-> list.created, id |-> list.id, next |-> list.next,
                 page |-> 1, limit |-> limit, begun |-> Present(list), seen |-> {},
                 done |-> FALSE, removed |-> FALSE]
    BY <1>1 DEF PagesInv, ListTyped, Lists
  <2>2. list' \in Lists
    BY <1>3, <2>1 DEF PagesInv, ListTyped, Lists
  <2> QED
    BY <1>2, <1>3, <2>2 DEF PagesInv, ListTyped
<1>5. Take(limit) \in Nat
  BY Numbers
<1>6. \A r : Cardinality(Before(list, r)') \in Nat
  <2> TAKE r
  <2>1. Before(list', r) \subseteq Rows
    BY DEF Before, Present
  <2> QED
    BY <2>1, Numbers, FS_Subset, FS_CardinalityType
<1>7. (1 - 1) * Take(limit) = 0
  BY <1>5
<1>8. Reading'
  BY <1>2, <1>3, <1>6, <1>7 DEF Reading
<1> QED
  BY <1>2, <1>4, <1>8, Numbers DEF PagesInv

\* A page shows the rows of its places, so that those left have more in front of them.
LEMMA PagesRead ==
  ASSUME PagesInv, ReadPage
  PROVE  PagesInv'
<1> DEFINE take == Take(list.limit)
          last == (list.page - 1) * take + take
<1>1. PICK order \in Orders(list) :
        list' = [list EXCEPT !.page = @ + 1,
                             !.seen = @ \cup ToSet(findAllWithSearch(order, list.page, list.limit)),
                             !.done = list.page * take >= Len(order)]
  BY DEF ReadPage, Take
<1> DEFINE shown == findAllWithSearch(order, list.page, list.limit)
<1>2. list.page \in Nat \ {0} /\ ~list.done /\ take \in Nat
  BY Numbers DEF ReadPage, PagesInv, ListTyped, Lists
<1>3. /\ list'.created = list.created /\ list'.id = list.id /\ list'.of = list.of
      /\ list'.next = list.next /\ list'.begun = list.begun /\ list'.limit = list.limit
      /\ list'.removed = list.removed /\ list'.page = list.page + 1
      /\ list'.seen = list.seen \cup ToSet(shown)
      /\ list'.done <=> list.page * take >= Len(order)
  BY <1>1 DEF PagesInv, ListTyped, Lists
<1>4. /\ (list.page - 1) * take \in Nat /\ list.page * take = last
      /\ (list'.page - 1) * take = last /\ last \in Nat
  <2>1. \A p \in Nat \ {0}, t \in Nat :
          (p - 1) * t \in Nat /\ p * t = (p - 1) * t + t
    OBVIOUS
  <2> HIDE DEF take
  <2>2. (list.page - 1) * take \in Nat /\ list.page * take = (list.page - 1) * take + take
    BY <1>2, <2>1
  <2>3. list'.page - 1 = list.page
    BY <1>2, <1>3
  <2>4. last = list.page * take /\ last \in Nat
    BY <1>2, <2>2
  <2> QED
    BY <2>2, <2>3, <2>4
<1>5. Present(list)' = Present(list) /\ (Strict(list)' <=> Strict(list))
  BY <1>3 DEF Present, Strict
<1>6. \A r : Before(list, r)' = Before(list, r)
  BY <1>3, <1>5 DEF Before, Precedes
<1>7. order \in Seq(Present(list)) /\ Len(order) \in Nat
  <2>1. IsFiniteSet(Present(list))
    BY Numbers, FS_Subset DEF Present
  <2> QED
    BY <2>1, FS_CardinalityType, SeqDef DEF Orders, SetToSeqs
<1>8. /\ \A i \in 1..Len(order) :
           (list.page - 1) * take < i /\ i <= last => order[i] \in ToSet(shown)
      /\ ToSet(shown) \subseteq Rows
  <2> DEFINE skip == (list.page - 1) * take
             end  == IF last < Len(order) THEN last ELSE Len(order)
  <2>1. shown = SubSeq(order, skip + 1, end)
    BY DEF findAllWithSearch, Take
  <2> HIDE DEF shown
  <2>2. skip \in Nat /\ end \in Nat /\ end <= Len(order)
    BY <1>4, <1>7
  <2>3. end <= last /\ \A i \in 1..Len(order) : i <= last => i <= end
    BY <1>4, <1>7
  <2> HIDE DEF skip, end, last
  <2>4. \A i \in (skip + 1)..end : order[i] \in Present(list)
    BY <1>7, <2>2, ElementOfSeq
  <2>5. /\ shown \in Seq(Present(list))
        /\ Len(shown) = IF skip + 1 <= end THEN end - (skip + 1) + 1 ELSE 0
        /\ \A k \in 1..(end - (skip + 1) + 1) : shown[k] = order[skip + 1 + k - 1]
    BY <2>1, <2>2, <2>4, SubSeqProperties
  <2>6. ASSUME NEW i \in 1..Len(order), skip < i, i <= end
        PROVE  order[i] \in ToSet(shown)
    <3>1. i - skip \in 1..(end - (skip + 1) + 1)
      BY <1>7, <2>2, <2>6
    <3>2. shown[i - skip] = order[i]
      <4>1. skip + 1 + (i - skip) - 1 = i
        BY <2>2
      <4> QED
        BY <2>5, <3>1, <4>1
    <3>3. i - skip \in DOMAIN shown
      BY <2>2, <2>5, <3>1
    <3> QED
      BY <3>2, <3>3 DEF ToSet
  <2>7. ToSet(shown) \subseteq Present(list)
    BY <2>5 DEF ToSet
  <2> QED
    BY <2>3, <2>6, <2>7 DEF Present, skip
<1> HIDE DEF shown, take, last
<1>9. ListTyped'
  <2>1. list' = [of |-> list.of, created |-> list.created, id |-> list.id, next |-> list.next,
                 page |-> list.page + 1, limit |-> list.limit, begun |-> list.begun,
                 seen |-> list.seen \cup ToSet(shown), done |-> list.page * take >= Len(order),
                 removed |-> list.removed]
    BY <1>1 DEF PagesInv, ListTyped, Lists, shown
  <2>2. list.seen \cup ToSet(shown) \in SUBSET Rows /\ list.page + 1 \in Nat \ {0}
    BY <1>2, <1>8 DEF PagesInv, ListTyped, Lists
  <2>3. (list.page * take >= Len(order)) \in BOOLEAN
    OBVIOUS
  <2>4. list' \in Lists
    BY <2>1, <2>2, <2>3 DEF PagesInv, ListTyped, Lists
  <2> QED
    BY <1>3, <1>5, <2>4 DEF PagesInv, ListTyped
<1>10. Reading'
  <2> SUFFICES ASSUME ~list.removed, Strict(list)
               PROVE  /\ list.begun \subseteq Present(list)
                      /\ list'.done => list.begun \subseteq list'.seen
                      /\ ~list'.done =>
                           \A r \in list.begun \ list'.seen : Cardinality(Before(list, r)) >= last
    BY <1>3, <1>4, <1>5, <1>6 DEF Reading, take
  <2>1. /\ list.begun \subseteq Present(list)
        /\ \A r \in list.begun \ list.seen :
             Cardinality(Before(list, r)) >= (list.page - 1) * take
    BY <1>2 DEF PagesInv, Reading, ReadPage, take
  <2>2. ASSUME NEW r \in list.begun \ list'.seen
        PROVE  ~list'.done /\ Cardinality(Before(list, r)) >= last
    <3>1. PICK i \in 1..Len(order) : order[i] = r /\ Cardinality(Before(list, r)) = i - 1
      BY <2>1, <2>2, PlaceInOrder DEF PagesInv
    <3>2. r \in list.begun \ list.seen /\ r \notin ToSet(shown)
      BY <1>3, <2>2
    <3>3. (list.page - 1) * take < i
      BY <1>4, <1>7, <2>1, <3>1, <3>2
    <3>4. i > last
      BY <1>4, <1>7, <1>8, <3>1, <3>2, <3>3
    <3> QED
      BY <1>3, <1>4, <1>7, <3>1, <3>4
  <2> QED
    BY <2>1, <2>2
<1> QED
  BY <1>2, <1>3, <1>9, <1>10, Numbers DEF PagesInv

\* However long the list and whatever comes meanwhile, who read to the end has
\* seen all that was there.
THEOREM RequestsPagesComplete == RequestsSpec => []PagesComplete
<1>1. RequestsInit => PagesInv
  <2> SUFFICES ASSUME NEW of \in {"users", "projects"}, list = EmptyList(of)
               PROVE  PagesInv
    BY DEF RequestsInit
  <2>1. list \in Lists /\ Present(list) = {}
    BY DEF EmptyList, Lists, Present
  <2> QED
    BY <2>1 DEF PagesInv, ListTyped, Reading, EmptyList
<1>2. PagesInv /\ [RequestsNext]_<<vars, list>> => PagesInv'
  <2>1. ASSUME PagesInv, list' = list
        PROVE  PagesInv'
    BY <2>1 DEF PagesInv, ListTyped, Reading, Present, Strict, Before, Precedes
  <2> QED
    BY <2>1, Moves, PagesInsert, PagesRemove, PagesBegin, PagesRead
<1>3. PagesInv => PagesComplete
  BY DEF PagesInv, Reading, Strict, PagesComplete
<1> QED
  BY <1>1, <1>2, <1>3, PTL DEF RequestsSpec

-----------------------------------------------------------------------------
(* Updates are answered *)

\* The body of a question has the fields that are required, and one is as it may be.
BodyAsked ==
    subject = "bodies" /\ asked # None =>
      \E route \in Routes : \E field \in DOMAIN Classes[route] : \E value \in Sendable(route, field) :
        asked = [route |-> route, field |-> field, body |-> BodyWith(route, field, value)]

LEMMA BodyAskedKept ==
  BodyAsked /\ [RequestsNext]_<<vars, list>> => BodyAsked'
<1> SUFFICES ASSUME BodyAsked, [RequestsNext]_<<vars, list>>, subject' = "bodies",
                    asked' # None, asked' # asked
             PROVE  AskBody
  BY Moves DEF BodyAsked, AskBody, Ask
<1> QED
  BY Moves DEF Asking, AskUrls, AskBatch, AskName, AskEmails, AskAccess, AskAccount, Open

\* The requests of updates require nothing, and have columns for all they may have.
LEMMA UpdateFields ==
  ASSUME NEW route \in {"updateUser", "updateProject"}
  PROVE  /\ \A field \in DOMAIN Classes[route] : Classes[route][field].optional
         /\ DOMAIN Classes[route] \subseteq
              DOMAIN (IF route = "updateUser" THEN Table!User ELSE Table!Project)
         /\ \A object : DOMAIN Classes[route] \subseteq
              DOMAIN (IF route = "updateUser" THEN Table!toUserResponseDto(object)
                      ELSE Table!toProjectResponseDto(object))
<1>1. CASE route = "updateUser"
  <2>1. Classes[route] = Dto!UpdateUserRequestDto
    BY <1>1 DEF Classes
  <2> QED
    BY <1>1, <2>1 DEF Dto!UpdateUserRequestDto, Dto!Opt, Dto!Text, Dto!Link, Table!User,
                      Table!toUserResponseDto
<1>2. CASE route = "updateProject"
  <2>1. Classes[route] = Dto!UpdateProjectRequestDto
    BY <1>2 DEF Classes
  <2> QED
    BY <1>2, <2>1 DEF Dto!UpdateProjectRequestDto, Dto!Opt, Dto!Text, Dto!Link, Dto!Other,
                      Table!Project, Table!toProjectResponseDto
<1> QED
  BY <1>1, <1>2

\* Whatever is sent is stored, and no other field; what is answered is stored.
THEOREM RequestsUpdateAnswered == RequestsSpec => []UpdateAnswered
<1>1. RequestsInit => BodyAsked
  BY DEF RequestsInit, Init, BodyAsked
<1>2. BodyAsked => UpdateAnswered
  <2> SUFFICES ASSUME BodyAsked, subject = "bodies", asked # None, asked.route \in Updates,
                      PipeAccepts(asked.route, asked.body)
               PROVE  UpdateAnswered
    BY DEF UpdateAnswered
  <2> DEFINE route  == asked.route
             body   == asked.body
             dto    == Classes[route]
             row    == Row(route)
             object == Updated(route, body)
             saved  == Saved(row, object)
             answer == Answer(route, object)
             fields == IF route = "updateUser" THEN Table!toUserResponseDto(object)
                       ELSE Table!toProjectResponseDto(object)
  <2>1. DOMAIN dto \subseteq DOMAIN row
    BY UpdateFields DEF Updates, Row
  <2>2. DOMAIN body \subseteq DOMAIN dto
    BY DEF PipeAccepts, Unchecked, Updates, Dto!Accepts
  <2>3. /\ DOMAIN fields \subseteq DOMAIN row
        /\ \A field \in DOMAIN fields : fields[field] = object[field]
    BY DEF Table!toUserResponseDto, Table!toProjectResponseDto, Table!User, Table!Project, Row
  <2>4. DOMAIN object = DOMAIN row
    BY DEF Updated, Assigned
  <2>s. \A column \in DOMAIN body : body[column] # None
    <3>1. PICK r \in Routes : \E f \in DOMAIN Classes[r] : \E value \in Sendable(r, f) :
            asked = [route |-> r, field |-> f, body |-> BodyWith(r, f, value)]
      BY DEF BodyAsked
    <3>2. PICK f \in DOMAIN Classes[r] : \E value \in Sendable(r, f) :
            asked = [route |-> r, field |-> f, body |-> BodyWith(r, f, value)]
      BY <3>1
    <3>3. PICK value \in Sendable(r, f) :
            asked = [route |-> r, field |-> f, body |-> BodyWith(r, f, value)]
      BY <3>2
    <3>4. r = route /\ body = BodyWith(r, f, value)
      BY <3>3
    <3>5. {g \in DOMAIN Classes[r] : ~Classes[r][g].optional} = {}
      BY <3>4, UpdateFields DEF Updates
    <3>6. body = [g \in IF value = None THEN {} ELSE {f} |->
                    IF g = f THEN value ELSE Sample(Classes[r][g])]
      BY <3>4, <3>5 DEF BodyWith
    <3> QED
      BY <3>6
  <2>5. \A column \in DOMAIN row :
          IF column \in DOMAIN body THEN object[column] = body[column]
          ELSE object[column] \in {row[column], None}
    BY <2>1, <2>2 DEF Updated, Assigned, Dto!InstanceOf
  <2>6. DOMAIN answer = {field \in DOMAIN fields : object[field] # None}
        /\ \A field \in DOMAIN answer : answer[field] = object[field]
    BY <2>3 DEF Answer, fields
  <2> HIDE DEF row, object, fields, answer
  <2>7. \A column \in DOMAIN row :
          saved[column] = IF object[column] = None THEN row[column] ELSE object[column]
    BY DEF Saved
  <2> HIDE DEF saved
  <2>8. /\ \A column \in DOMAIN row :
             saved[column] = IF column \in DOMAIN body THEN body[column] ELSE row[column]
        /\ \A column \in DOMAIN answer : answer[column] = saved[column]
    BY <2>s, <2>2, <2>3, <2>5, <2>6, <2>7
  <2> QED
    BY <2>8 DEF UpdateAnswered, answer, saved, object, row
<1> QED
  BY <1>1, <1>2, BodyAskedKept, PTL DEF RequestsSpec

-----------------------------------------------------------------------------
(* Sessions are judged by their last activity *)

\* The fields of a record of a session; those of the activity agree with seen,
\* and with each other, until the clock is set back.
SessionTyped(s) ==
    /\ s = [field \in DOMAIN s |-> s[field]]
    /\ {"isActive", "joinedAt", "lastActivity", "username"} \subseteq DOMAIN s
    /\ s.isActive \in BOOLEAN /\ s.joinedAt \in Instants /\ s.lastActivity \in Instants
    /\ s.username # None

SessionsInv ==
    /\ now \in Instants /\ setBack \in BOOLEAN
    /\ sessions = [id \in SessionIds |-> sessions[id]] /\ seen = [id \in SessionIds |-> seen[id]]
    /\ \A id \in SessionIds :
         sessions[id] # None =>
           /\ SessionTyped(sessions[id])
           /\ sessions[id].lastActivity = seen[id]
           /\ ~setBack => sessions[id].joinedAt <= seen[id] /\ seen[id] <= now

LEMMA SessionPrepared ==
  ASSUME NEW id \in SessionIds, NEW info, now \in Instants
  PROVE  LET s == Session!prepareSessionData("project", userOf[id], info, now)
         IN  SessionTyped(s) /\ s.lastActivity = now /\ s.joinedAt = now
  BY HandlerConstants DEF Session!prepareSessionData, Session!FirstOf, SessionTyped

LEMMA SessionUpdated ==
  ASSUME NEW s, SessionTyped(s), NEW info, NEW cursor, now \in Instants
  PROVE  LET t == Session!prepareSessionUpdateData(s, info, cursor, now)
         IN  SessionTyped(t) /\ t.lastActivity = now /\ t.joinedAt = s.joinedAt
  BY DEF Session!prepareSessionUpdateData, Session!FirstOf, SessionTyped

LEMMA SessionEnded ==
  ASSUME NEW s, SessionTyped(s)
  PROVE  LET t == [s EXCEPT !.isActive = FALSE]
         IN  SessionTyped(t) /\ t.lastActivity = s.lastActivity /\ t.joinedAt = s.joinedAt
  BY DEF SessionTyped

LEMMA SessionsKept ==
  SessionsInv /\ [RequestsNext]_<<vars, list>> => SessionsInv'
<1> SUFFICES ASSUME SessionsInv, [RequestsNext]_<<vars, list>>
             PROVE  SessionsInv'
  OBVIOUS
<1>1. /\ now' \in Instants /\ setBack' \in BOOLEAN /\ now \in Instants
      /\ ~setBack' => ~setBack /\ now <= now'
  <2>1. now \in Int /\ now \in Instants /\ setBack \in BOOLEAN
    BY HandlerConstants DEF SessionsInv
  <2>2. CASE UNCHANGED <<now, setBack>>
    BY <2>1, <2>2
  <2>3. CASE Tick
    <3>1. PICK t \in Instants \ {now} : now' = t /\ setBack' = (setBack \/ t < now)
      BY <2>3 DEF Tick
    <3>2. t \in Int
      BY HandlerConstants
    <3>3. (t < now) \in BOOLEAN /\ (~(t < now) => now <= t)
      BY <2>1, <3>2
    <3> QED
      BY <2>1, <3>1, <3>3
  <2> QED
    BY <2>2, <2>3, Moves
<1>2. CASE UNCHANGED <<sessions, seen>>
  BY <1>1, <1>2, HandlerConstants DEF SessionsInv, SessionTyped
<1>3. ASSUME NEW id \in SessionIds, NEW s, NEW at,
             SessionTyped(s), s.lastActivity = at, UNCHANGED <<now, setBack>>,
             ~setBack => s.joinedAt <= at /\ at <= now,
             sessions' = [sessions EXCEPT ![id] = s], seen' = [seen EXCEPT ![id] = at]
      PROVE  SessionsInv'
  <2>1. sessions'[id] = s /\ seen'[id] = at
    BY <1>3 DEF SessionsInv
  <2>2. \A other \in SessionIds \ {id} :
          sessions'[other] = sessions[other] /\ seen'[other] = seen[other]
    BY <1>3 DEF SessionsInv
  <2>3. /\ sessions' = [x \in SessionIds |-> sessions'[x]]
        /\ seen' = [x \in SessionIds |-> seen'[x]]
    BY <1>3 DEF SessionsInv
  <2> QED
    BY <1>1, <1>3, <2>1, <2>2, <2>3 DEF SessionsInv
<1>4. ASSUME NEW id \in SessionIds, NEW info, PrepareSession(id, info)
      PROVE  SessionsInv'
  <2>1. now <= now
    <3>1. now \in Int
      BY <1>1, HandlerConstants
    <3> QED
      BY <3>1
  <2> QED
    BY <1>1, <1>3, <1>4, <2>1, SessionPrepared DEF PrepareSession
<1>5. ASSUME NEW id \in SessionIds, NEW info, NEW cursor, UpdateSession(id, info, cursor)
      PROVE  SessionsInv'
  <2> DEFINE s == Session!prepareSessionUpdateData(sessions[id], info, cursor, now)
  <2>1. /\ SessionTyped(sessions[id])
        /\ ~setBack => sessions[id].joinedAt <= seen[id] /\ seen[id] <= now
        /\ sessions[id].joinedAt \in Int /\ seen[id] \in Int /\ now \in Int
    BY <1>1, <1>5, HandlerConstants DEF UpdateSession, SessionsInv, SessionTyped
  <2>2. SessionTyped(s) /\ s.lastActivity = now /\ s.joinedAt = sessions[id].joinedAt
    BY <1>1, <2>1, SessionUpdated
  <2>3. /\ sessions' = [sessions EXCEPT ![id] = s] /\ seen' = [seen EXCEPT ![id] = now]
        /\ UNCHANGED <<now, setBack>>
    BY <1>5 DEF UpdateSession
  <2> HIDE DEF s
  <2>4. ~setBack => s.joinedAt <= now /\ now <= now
    BY <2>1, <2>2
  <2> QED
    BY <1>3, <2>2, <2>3, <2>4
<1>6. ASSUME NEW id \in SessionIds, EndSession(id)
      PROVE  SessionsInv'
  <2> DEFINE s == [sessions[id] EXCEPT !.isActive = FALSE]
  <2>1. /\ SessionTyped(sessions[id]) /\ sessions[id].lastActivity = seen[id]
        /\ ~setBack => sessions[id].joinedAt <= seen[id] /\ seen[id] <= now
    BY <1>6 DEF EndSession, SessionsInv
  <2>2. SessionTyped(s) /\ s.lastActivity = seen[id] /\ s.joinedAt = sessions[id].joinedAt
    BY <2>1, SessionEnded
  <2>3. /\ sessions' = [sessions EXCEPT ![id] = s] /\ seen' = [seen EXCEPT ![id] = seen[id]]
        /\ UNCHANGED <<now, setBack>>
    BY <1>6 DEF EndSession, SessionsInv
  <2> HIDE DEF s
  <2> QED
    BY <1>3, <2>1, <2>2, <2>3
<1> QED
  BY <1>2, <1>4, <1>5, <1>6, Moves

\* Whatever the clock does, a session is never valid for longer than a day
\* after its last activity, and for less only if the clock was set back.
THEOREM RequestsSessionJudged == RequestsSpec => []SessionJudged
<1>1. RequestsInit => SessionsInv
  BY HandlerConstants DEF RequestsInit, Init, SessionsInv
<1>2. SessionsInv => SessionJudged
  <2> SUFFICES ASSUME SessionsInv, NEW id \in SessionIds, sessions[id] # None
               PROVE  LET judged == Session!validateSessionState(sessions[id], now)
                          inTime == now <= Session!calculateSessionExpiry(seen[id], 24)
                      IN  /\ judged.isValid => sessions[id].isActive /\ inTime
                          /\ sessions[id].isActive /\ inTime /\ ~setBack => judged.isValid
                          /\ judged.shouldCleanup <=> sessions[id].isActive /\ ~inTime
    BY DEF SessionJudged
  <2> DEFINE s == sessions[id]
             reason == Session!ReasonInvalid(s, now)
  <2>1. /\ s.isActive \in BOOLEAN /\ s.lastActivity = seen[id]
        /\ s.joinedAt \in Int /\ seen[id] \in Int /\ now \in Int
        /\ ~setBack => s.joinedAt <= seen[id] /\ seen[id] <= now
    BY HandlerConstants DEF SessionsInv, SessionTyped
  <2>2. None \notin {"inactive", "expired", "invalid_join_time", "invalid_activity_time"}
    BY NoneIsNone DEF Reasons
  <2>3. Session!Hour = 3600000
    BY SMT DEF Session!Hour, Session!Minute
  <2> DEFINE inTime == now <= Session!calculateSessionExpiry(seen[id], 24)
  <2>4. inTime <=> now - s.lastActivity <= 24 * Session!Hour
    BY <2>1, <2>3, SMT DEF Session!calculateSessionExpiry
  <2>5. ~inTime <=> now - s.lastActivity > 24 * Session!Hour
    BY <2>1, <2>3, SMT DEF Session!calculateSessionExpiry
  <2> HIDE DEF s, inTime
  <2>6. CASE ~s.isActive
    <3>1. reason = "inactive"
      BY <2>6 DEF Session!ReasonInvalid
    <3> QED
      BY <2>2, <2>6, <3>1 DEF Session!validateSessionState, s
  <2>7. CASE s.isActive /\ ~inTime
    <3>1. reason = "expired"
      BY <2>1, <2>3, <2>5, <2>7, SMT DEF Session!ReasonInvalid
    <3> QED
      BY <2>2, <2>7, <3>1 DEF Session!validateSessionState, s, inTime
  <2>8. CASE s.isActive /\ inTime
    <3>1. reason = IF s.joinedAt > now THEN "invalid_join_time"
                   ELSE IF s.lastActivity < s.joinedAt THEN "invalid_activity_time" ELSE None
      BY <2>1, <2>3, <2>4, <2>8, SMT DEF Session!ReasonInvalid
    <3>2. ~setBack => reason = None
      BY <2>1, <3>1
    <3>3. reason # "expired"
      BY <2>2, <3>1
    <3> QED
      BY <2>8, <3>2, <3>3 DEF Session!validateSessionState, s, inTime
  <2> QED
    BY <2>1, <2>6, <2>7, <2>8
<1> QED
  BY <1>1, <1>2, SessionsKept, PTL DEF RequestsSpec

-----------------------------------------------------------------------------
(* Mutations are warned of *)

DataOf(timestamp) ==
    [profileID |-> "user", clientID |-> "client", pushVersion |-> "number",
     schemaVersion |-> None, mutations |-> <<MutationOf(timestamp)>>]

EntityTyped(e) ==
    /\ e = [field \in DOMAIN e |-> e[field]]
    /\ DOMAIN e = {"data", "answer", "validatedAt", "stored", "storedAt"}
    /\ e.validatedAt \in Int
    /\ \E timestamp \in Timestamps :
         /\ e.data = DataOf(timestamp)
         /\ e.answer = Mutation!validateMutationData(DataOf(timestamp), e.validatedAt)
         /\ \/ e.stored = None /\ e.storedAt = None
            \/ /\ e.stored \in Entities /\ e.storedAt \in Int /\ e.answer.isValid
               /\ e.stored.timestamp = Mutation!validateTimestamp(timestamp, e.storedAt)

EntityInv ==
    /\ now \in Int /\ setBack \in BOOLEAN
    /\ entity # None =>
         /\ EntityTyped(entity)
         /\ ~setBack => entity.validatedAt <= now
         /\ ~setBack /\ entity.storedAt # None => entity.validatedAt <= entity.storedAt

LEMMA OneMutation ==
  ASSUME NEW timestamp \in Int, NEW at \in Int
  PROVE  LET answer == Mutation!validateMutationData(DataOf(timestamp), at)
         IN  /\ answer.isValid => timestamp # 0
             /\ timestamp # 0 /\ (timestamp < at - 3600000 \/ timestamp > at + 3600000)
                  => answer.warnings # {}
<1> DEFINE m == MutationOf(timestamp)
          data == DataOf(timestamp)
          array == Mutation!validateMutationsArray(data.mutations, at)
<1>1. /\ data.mutations = <<m>> /\ DOMAIN data.mutations = {1} /\ data.mutations[1] = m
      /\ m.timestamp = timestamp
  BY DEF DataOf, MutationOf
<1>2. data.mutations # None
  <2>1. m \in Mutations
    BY DEF MutationOf, Mutations
  <2>2. <<m>> \in Seq(Mutations)
    BY <2>1
  <2> QED
    BY <1>1, <2>2, NoneIsNone
<1> HIDE DEF m, data
<1>3. /\ array.errors = {<<1, field>> : field \in Mutation!validateSingleMutation(m)}
      /\ {<<1, w>> : w \in Mutation!TimestampWarnings(m, at)} \subseteq array.warnings
  <2>1. /\ array.errors = UNION {{<<i, field>> :
                                   field \in Mutation!validateSingleMutation(data.mutations[i])} :
                                 i \in DOMAIN data.mutations}
        /\ UNION {{<<i, w>> : w \in Mutation!TimestampWarnings(data.mutations[i], at)} :
                    i \in DOMAIN data.mutations} \subseteq array.warnings
    BY <1>2 DEF Mutation!validateMutationsArray
  <2> QED
    BY <1>1, <2>1
<1> HIDE DEF array
<1>4. LET answer == Mutation!validateMutationData(data, at)
      IN  /\ answer.isValid => array.errors = {}
          /\ answer.warnings = array.warnings
  BY DEF Mutation!validateMutationData, array
<1>5. array.errors = {} => timestamp # 0
  <2>1. timestamp = 0 => "timestamp" \in Mutation!validateSingleMutation(m)
    BY <1>1 DEF Mutation!validateSingleMutation
  <2> QED
    BY <1>3, <2>1
<1>6. timestamp # 0 /\ (timestamp < at - 3600000 \/ timestamp > at + 3600000)
        => Mutation!TimestampWarnings(m, at) # {}
  <2>1. timestamp # None
    BY NoneIsNone
  <2>2. Mutation!HourOf = 3600000
    BY SMT DEF Mutation!HourOf
  <2> QED
    BY <1>1, <2>1, <2>2, SMT DEF Mutation!TimestampWarnings
<1>7. timestamp # 0 /\ (timestamp < at - 3600000 \/ timestamp > at + 3600000)
        => array.warnings # {}
  <2> SUFFICES ASSUME Mutation!TimestampWarnings(m, at) # {}
               PROVE  array.warnings # {}
    BY <1>6, SMT
  <2>1. PICK w : w \in Mutation!TimestampWarnings(m, at)
    OBVIOUS
  <2>2. <<1, w>> \in array.warnings
    BY <1>3, <2>1
  <2> QED
    BY <2>2
<1> QED
  BY <1>4, <1>5, <1>7, SMT DEF data

LEMMA EntityKept ==
  EntityInv /\ [RequestsNext]_<<vars, list>> => EntityInv'
<1> SUFFICES ASSUME EntityInv, [RequestsNext]_<<vars, list>>
             PROVE  EntityInv'
  OBVIOUS
<1>1. now \in Int /\ setBack \in BOOLEAN
  BY DEF EntityInv
<1>2. CASE entity' = entity
  <2>1. CASE UNCHANGED <<now, setBack>>
    BY <1>2, <2>1 DEF EntityInv, EntityTyped
  <2>2. CASE Tick
    <3>1. PICK t \in Instants \ {now} : now' = t /\ setBack' = (setBack \/ t < now)
      BY <2>2 DEF Tick
    <3>2. t \in Int /\ (t < now) \in BOOLEAN /\ (~(t < now) => now <= t)
      BY <1>1, HandlerConstants
    <3>3. now' \in Int /\ setBack' \in BOOLEAN /\ (~setBack' => ~setBack /\ now <= now')
      BY <1>1, <3>1, <3>2
    <3>4. entity # None => entity.validatedAt \in Int
      BY DEF EntityInv, EntityTyped
    <3> QED
      BY <1>1, <1>2, <3>3, <3>4 DEF EntityInv, EntityTyped
  <2> QED
    BY <2>1, <2>2, Moves
<1>3. ASSUME NEW timestamp \in Timestamps, ValidateMutation(timestamp)
      PROVE  EntityInv'
  <2>1. /\ entity' = [data |-> DataOf(timestamp),
                     answer |-> Mutation!validateMutationData(DataOf(timestamp), now),
                     validatedAt |-> now, stored |-> None, storedAt |-> None]
        /\ UNCHANGED <<now, setBack>>
    BY <1>3 DEF ValidateMutation, DataOf
  <2>2. EntityTyped(entity') /\ entity'.validatedAt = now /\ entity'.storedAt = None
    BY <1>1, <2>1 DEF EntityTyped
  <2> QED
    BY <1>1, <2>1, <2>2 DEF EntityInv
<1>4. CASE TransformMutation
  <2>1. /\ entity # None /\ entity.answer.isValid /\ EntityTyped(entity)
        /\ ~setBack => entity.validatedAt <= now
    BY <1>4 DEF TransformMutation, EntityInv
  <2>2. PICK timestamp \in Timestamps :
          /\ entity.data = DataOf(timestamp)
          /\ entity.answer = Mutation!validateMutationData(DataOf(timestamp), entity.validatedAt)
    BY <2>1 DEF EntityTyped
  <2> DEFINE prepared == Mutation!prepareMutationData("project", entity.data,
                                                      entity.data.mutations[1])
             stored == Mutation!transformMutationToEntity(prepared, now)
  <2>3. prepared = [projectId |-> "project", userId |-> "user", type |-> "cursor_updated",
                    mutationId |-> 0, status |-> "pending", timestamp |-> timestamp]
    BY <2>2 DEF DataOf, MutationOf, Mutation!prepareMutationData, Mutation!determineMutationType,
                Mutation!typeMap
  <2>4. /\ entity' = [entity EXCEPT !.storedAt = now, !.stored = stored]
        /\ UNCHANGED <<now, setBack>>
    BY <1>4 DEF TransformMutation
  <2> HIDE DEF prepared
  <2>5. stored = [projectId |-> "project", userId |-> "user", type |-> "cursor_updated",
                  mutationId |-> 0, status |-> "pending",
                  timestamp |-> Mutation!validateTimestamp(timestamp, now)]
    BY <2>3 DEF Mutation!transformMutationToEntity
  <2>6. Mutation!validateTimestamp(timestamp, now) \in Int
    BY <1>1, HandlerConstants DEF Mutation!validateTimestamp
  <2>7. stored \in Entities /\ stored.timestamp = Mutation!validateTimestamp(timestamp, now)
    BY <2>5, <2>6 DEF Entities
  <2> HIDE DEF stored
  <2>8. EntityTyped(entity') /\ entity'.validatedAt = entity.validatedAt /\ entity'.storedAt = now
    BY <1>1, <2>1, <2>2, <2>4, <2>7 DEF EntityTyped
  <2> QED
    BY <1>1, <2>1, <2>4, <2>8 DEF EntityInv
<1> QED
  BY <1>2, <1>3, <1>4, Moves

\* Nobody's mutation gets another time behind his back, but for the days that
\* may pass and the clock.
THEOREM RequestsReplacedWasWarned == RequestsSpec => []ReplacedWasWarned
<1>1. RequestsInit => EntityInv
  BY HandlerConstants DEF RequestsInit, Init, EntityInv
<1>2. EntityInv => ReplacedWasWarned
  <2> SUFFICES ASSUME EntityInv, entity # None, entity.stored # None, ~setBack,
                      entity.stored.timestamp # entity.data.mutations[1].timestamp
               PROVE  \/ entity.answer.warnings # {}
                      \/ entity.storedAt - entity.validatedAt > Mutation!Week - Mutation!HourOf
    BY DEF ReplacedWasWarned
  <2> DEFINE v == entity.validatedAt
             d == entity.storedAt
  <2>1. PICK timestamp \in Timestamps :
          /\ entity.data = DataOf(timestamp)
          /\ entity.answer = Mutation!validateMutationData(DataOf(timestamp), v)
          /\ d \in Int /\ entity.answer.isValid
          /\ entity.stored.timestamp = Mutation!validateTimestamp(timestamp, d)
    BY DEF EntityInv, EntityTyped
  <2>2. v \in Int /\ v <= d
    BY <2>1, NoneIsNone DEF EntityInv, EntityTyped
  <2>3. Mutation!validateTimestamp(timestamp, d) # timestamp
    BY <2>1 DEF DataOf, MutationOf
  <2>4. Mutation!HourOf = 3600000 /\ Mutation!Week = 604800000
    BY SMT DEF Mutation!HourOf, Mutation!Week
  <2>5. timestamp \in Int
    BY HandlerConstants
  <2>6. timestamp < d - 604800000 \/ timestamp > d + 3600000
    BY <2>3, <2>4, SMT DEF Mutation!validateTimestamp
  <2>7. timestamp # 0
    BY <2>1, <2>2, <2>5, OneMutation, SMT
  <2>8. (timestamp < v - 3600000 \/ timestamp > v + 3600000) => entity.answer.warnings # {}
    BY <2>1, <2>2, <2>5, <2>7, OneMutation, SMT
  <2> HIDE DEF v, d
  <2>9. \/ timestamp < v - 3600000 \/ timestamp > v + 3600000
        \/ d - v > 604800000 - 3600000
    BY <2>1, <2>2, <2>5, <2>6, SMT
  <2> QED
    BY <2>4, <2>8, <2>9, SMT DEF v, d
<1> QED
  BY <1>1, <1>2, EntityKept, PTL DEF RequestsSpec

-----------------------------------------------------------------------------

\* What lasts has its types, whatever is asked.
THEOREM RequestsTypeOK == RequestsSpec => []TypeOK
<1> DEFINE IInv == subject \in Subjects /\ SessionsInv /\ EntityInv
<1>1. RequestsInit => IInv
  BY HandlerConstants DEF RequestsInit, Init, SessionsInv, EntityInv
<1>2. IInv /\ [RequestsNext]_<<vars, list>> => IInv'
  BY Moves, SessionsKept, EntityKept
<1>3. IInv => TypeOK
  <2> SUFFICES ASSUME IInv
               PROVE  TypeOK
    OBVIOUS
  <2>1. \A id \in SessionIds :
          sessions[id] # None =>
            /\ sessions[id].isActive \in BOOLEAN
            /\ {sessions[id].joinedAt, sessions[id].lastActivity, seen[id]} \subseteq Instants
            /\ sessions[id].username # None
    BY DEF SessionsInv, SessionTyped
  <2>2. entity # None => (entity.stored = None <=> entity.storedAt = None)
    BY NoneIsNone DEF EntityInv, EntityTyped
  <2> QED
    BY <2>1, <2>2 DEF TypeOK, SessionsInv
<1> QED
  BY <1>1, <1>2, <1>3, PTL DEF RequestsSpec

-----------------------------------------------------------------------------
(* URLs are normal after one time, mostly *)

UrlsAsked == subject = "urls" /\ asked # None => asked[1] \in Urls /\ asked[2] \in Urls

LEMMA UrlsAskedKept ==
  UrlsAsked /\ [RequestsNext]_<<vars, list>> => UrlsAsked'
<1> SUFFICES ASSUME UrlsAsked, [RequestsNext]_<<vars, list>>, subject' = "urls",
                    asked' # None, asked' # asked
             PROVE  AskUrls
  BY Moves DEF UrlsAsked, AskUrls, Ask
<1> QED
  BY Moves DEF Asking, AskBody, AskBatch, AskName, AskEmails, AskAccess, AskAccount, Open

\* A path without its last slash has another only if it ended in two.
LEMMA SlashesLeft ==
  ASSUME NEW path \in Seq(STRING), path # <<>>
  PROVE  LET once == Url!WithoutSlash(path)
         IN  /\ once \in Seq(STRING) \ {<<>>}
             /\ Url!WithoutSlash(once) # once
                  <=> Len(path) > 2 /\ SubSeq(path, Len(path) - 1, Len(path)) = <<"", "">>
<1> DEFINE n == Len(path)
          cut == SubSeq(path, 1, n - 1)
          end == SubSeq(path, n - 1, n)
          once == Url!WithoutSlash(path)
<1>1. n \in Nat /\ n >= 1 /\ DOMAIN path = 1..n
  BY LenProperties, EmptySeq
<1>2. \A i \in 1..n : path[i] \in STRING
  BY ElementOfSeq
<1>3. once = IF n > 1 /\ path[n] = "" THEN cut ELSE path
  BY DEF Url!WithoutSlash
<1>4. \A s \in Seq(STRING) :
        /\ Len(s) \in Nat
        /\ Len(s) > 0 => s # <<>>
        /\ Url!WithoutSlash(s) # s <=> Len(s) > 1 /\ s[Len(s)] = ""
  <2> TAKE s \in Seq(STRING)
  <2> DEFINE m == Len(s)  shorter == SubSeq(s, 1, m - 1)
  <2>1. m \in Nat /\ (m > 0 => s # <<>>)
    BY LenProperties, EmptySeq
  <2>2. \A i \in 1..m : s[i] \in STRING
    BY ElementOfSeq
  <2>3. Url!WithoutSlash(s) = IF m > 1 /\ s[m] = "" THEN shorter ELSE s
    BY DEF Url!WithoutSlash
  <2> HIDE DEF m
  <2>4. m > 1 => Len(shorter) = m - 1
    <3>1. m > 1 => 1 <= m - 1 /\ m - 1 \in Int /\ m - 1 - 1 + 1 = m - 1
      BY <2>1
    <3>2. \A i \in 1..(m - 1) : s[i] \in STRING
      BY <2>1, <2>2
    <3> QED
      BY <3>1, <3>2, SubSeqProperties
  <2>5. m > 1 => shorter # s
    BY <2>1, <2>4 DEF m
  <2> QED
    BY <2>1, <2>3, <2>5 DEF m
<1> HIDE DEF n, cut, end, once
<1>5. n > 1 => cut \in Seq(STRING) /\ Len(cut) = n - 1 /\ cut[n - 1] = path[n - 1]
  <2> SUFFICES ASSUME n > 1
               PROVE  cut \in Seq(STRING) /\ Len(cut) = n - 1 /\ cut[n - 1] = path[n - 1]
    OBVIOUS
  <2>1. /\ \A i \in 1..(n - 1) : path[i] \in STRING
        /\ 1 \in Int /\ n - 1 \in Int /\ 1 <= n - 1 /\ n - 1 - 1 + 1 = n - 1
        /\ 1 + (n - 1) - 1 = n - 1 /\ n - 1 \in 1..(n - 1)
    BY <1>1, <1>2
  <2>2. /\ cut \in Seq(STRING) /\ Len(cut) = n - 1 - 1 + 1
        /\ \A i \in 1..(n - 1 - 1 + 1) : cut[i] = path[1 + i - 1]
    BY <2>1, SubSeqProperties DEF cut
  <2>3. n - 1 \in 1..(n - 1 - 1 + 1)
    BY <2>1
  <2>4. cut[n - 1] = path[1 + (n - 1) - 1]
    BY <2>2, <2>3
  <2> QED
    BY <2>1, <2>2, <2>4
<1>6. n > 2 => (end = <<"", "">> <=> path[n - 1] = "" /\ path[n] = "")
  <2> SUFFICES ASSUME n > 2
               PROVE  end = <<"", "">> <=> path[n - 1] = "" /\ path[n] = ""
    OBVIOUS
  <2> DEFINE S == {"", path[n - 1], path[n]}
  <2>1. /\ \A i \in (n - 1)..n : i = n - 1 \/ i = n
        /\ n - 1 \in Int /\ n \in Int /\ n - (n - 1) + 1 = 2 /\ n - 1 <= n
        /\ n - 1 + 1 - 1 = n - 1 /\ n - 1 + 2 - 1 = n /\ 1 \in 1..2 /\ 2 \in 1..2
    BY <1>1
  <2>2. \A i \in (n - 1)..n : path[i] \in S
    BY <2>1, Zenon
  <2> HIDE DEF S
  <2>3. end \in Seq(S) /\ Len(end) = 2 /\ \A i \in 1..2 : end[i] = path[n - 1 + i - 1]
    <3>1. /\ end \in Seq(S) /\ Len(end) = n - (n - 1) + 1
          /\ \A i \in 1..(n - (n - 1) + 1) : end[i] = path[n - 1 + i - 1]
      BY <2>1, <2>2, SubSeqProperties DEF end
    <3> QED
      BY <2>1, <3>1, Zenon
  <2>4. end[1] = path[n - 1] /\ end[2] = path[n]
    BY <2>1, <2>3, Zenon
  <2>5. end = <<path[n - 1], path[n]>>
    <3> DEFINE two == <<path[n - 1], path[n]>>
    <3>1. two \in Seq(S) /\ Len(two) = 2 /\ two[1] = path[n - 1] /\ two[2] = path[n]
      BY DEF S
    <3>2. \A i \in 1..2 : i = 1 \/ i = 2
      OBVIOUS
    <3> HIDE DEF two
    <3>3. \A i \in 1..Len(end) : end[i] = two[i]
      BY <2>3, <2>4, <3>1, <3>2
    <3> QED
      BY <2>3, <3>1, <3>3, SeqEqual DEF two
  <2>6. \A a, b : <<a, b>> = <<"", "">> <=> a = "" /\ b = ""
    OBVIOUS
  <2> QED
    BY <2>5, <2>6, Zenon
<1>7. /\ once \in Seq(STRING) /\ Len(once) > 0
      /\ Len(once) > 1 /\ once[Len(once)] = "" <=> n > 2 /\ path[n - 1] = "" /\ path[n] = ""
  <2>1. CASE n > 1 /\ path[n] = ""
    <3>1. once = cut
      BY <1>3, <2>1
    <3>2. once \in Seq(STRING) /\ Len(once) = n - 1 /\ once[Len(once)] = path[n - 1]
      BY <1>5, <2>1, <3>1, Zenon
    <3>3. n - 1 > 0 /\ (n - 1 > 1 <=> n > 2)
      <4>1. n \in Nat /\ n > 1
        BY <1>1, <2>1, Zenon
      <4> QED
        BY <4>1
    <3> QED
      BY <2>1, <3>2, <3>3, Zenon
  <2>2. CASE ~(n > 1 /\ path[n] = "")
    <3>1. once = path
      BY <1>3, <2>2
    <3>2. Len(once) = n
      BY <3>1 DEF n
    <3>3. n > 0 /\ (n > 2 => n > 1)
      BY <1>1
    <3> QED
      BY <2>2, <3>1, <3>2, <3>3, Zenon
  <2> QED
    BY <2>1, <2>2
<1> QED
  BY <1>1, <1>4, <1>6, <1>7 DEF once, end, n

Twice(u) == Url!normalizeUrl(Url!normalizeUrl(u))

TwoSlashes(u) ==
    Len(u.path) > 2 /\ SubSeq(u.path, Len(u.path) - 1, Len(u.path)) = <<"", "">>

NewDefault(u) == Url!Parsed(u).port = IF u.hostname \in Loopback THEN 80 ELSE 443

\* What normalising a URL that parses leaves: a URL that parses.
LEMMA NormalForm ==
  ASSUME NEW u \in UrlRecords
  PROVE  /\ Url!normalizeUrl(u) \in UrlRecords
         /\ Url!normalizeUrl(u) =
              [protocol |-> IF u.hostname \in Loopback THEN "http:" ELSE "https:",
               hostname |-> u.hostname, port |-> Url!Parsed(u).port,
               path |-> Url!WithoutSlash(u.path), query |-> FALSE, fragment |-> FALSE]
         /\ Url!Parsed(u).port \in Nat \cup {None}
         /\ Url!WithoutSlash(u.path) \in Seq(STRING) \ {<<>>}
         /\ u \notin Unparsable \cup {None}
<1> DEFINE once  == Url!normalizeUrl(u)
          protocol == IF u.hostname \in Loopback THEN "http:" ELSE "https:"
          port == Url!Parsed(u).port
          path == Url!WithoutSlash(u.path)
<1>1. UrlRecords \cap (Unparsable \cup {None}) = {}
  BY HandlerConstants, NoneIsNone
<1>2. once = [protocol |-> protocol, hostname |-> u.hostname, port |-> port,
             path |-> path, query |-> FALSE, fragment |-> FALSE]
  BY <1>1 DEF Url!normalizeUrl
<1>3. u.path \in Seq(STRING) /\ u.path # <<>> /\ u.hostname \in DOMAIN withoutWww
  BY DEF UrlRecords
<1>4. port \in Nat \cup {None}
  BY DEF UrlRecords, Url!Parsed
<1>5. path \in Seq(STRING) \ {<<>>}
  BY <1>3, SlashesLeft
<1> HIDE DEF port, path
<1>6. once \in UrlRecords
  BY <1>2, <1>3, <1>4, <1>5 DEF UrlRecords
<1> QED
  BY <1>1, <1>2, <1>4, <1>5, <1>6 DEF port, path

\* Parsed again, its port goes if it is the usual one of its new protocol.
LEMMA PortAgain ==
  ASSUME NEW u \in UrlRecords
  PROVE  Url!Parsed(Url!normalizeUrl(u)).port = IF NewDefault(u) THEN None ELSE Url!Parsed(u).port
<1> DEFINE once == Url!normalizeUrl(u)
          port == Url!Parsed(u).port
          default == IF u.hostname \in Loopback THEN 80 ELSE 443
<1>1. /\ once.protocol = IF u.hostname \in Loopback THEN "http:" ELSE "https:"
      /\ once.port = port /\ port \in Nat \cup {None}
      /\ once = [once EXCEPT !.port = once.port] /\ "port" \in DOMAIN once
  BY NormalForm
<1>2. Url!DefaultPort[once.protocol] = default
  BY <1>1 DEF Url!DefaultPort
<1> HIDE DEF once, port, default
<1>3. Url!Parsed(once).port = IF port = default THEN None ELSE port
  BY <1>1, <1>2 DEF Url!Parsed
<1> QED
  BY <1>3 DEF once, port, default, NewDefault

LEMMA NormalAgain ==
  ASSUME NEW u \in UrlRecords
  PROVE  Twice(u) # Url!normalizeUrl(u) <=> TwoSlashes(u) \/ NewDefault(u)
<1> DEFINE once  == Url!normalizeUrl(u)
          again == Twice(u)
          protocol == IF u.hostname \in Loopback THEN "http:" ELSE "https:"
          default  == IF u.hostname \in Loopback THEN 80 ELSE 443
          port == Url!Parsed(u).port
          path == Url!WithoutSlash(u.path)
<1>1. UrlRecords \cap (Unparsable \cup {None}) = {}
  BY HandlerConstants, NoneIsNone
<1>2. once = [protocol |-> protocol, hostname |-> u.hostname, port |-> port,
             path |-> path, query |-> FALSE, fragment |-> FALSE]
  BY NormalForm
<1>3. u.path \in Seq(STRING) /\ u.path # <<>>
  BY DEF UrlRecords
<1>4. port \in Nat \cup {None}
  BY NormalForm
<1>6. once \in UrlRecords
  BY NormalForm
<1> HIDE DEF port, path
<1>7. Url!Parsed(once).port = IF port = default THEN None ELSE port
  BY PortAgain DEF port, NewDefault
<1>8. again = [protocol |-> protocol, hostname |-> u.hostname, port |-> Url!Parsed(once).port,
              path |-> Url!WithoutSlash(path), query |-> FALSE, fragment |-> FALSE]
  <2>1. once \notin Unparsable \cup {None}
    BY <1>1, <1>6
  <2>2. once.hostname = u.hostname /\ once.path = path
    BY <1>2
  <2>3. again = Url!normalizeUrl(once)
    BY DEF Twice
  <2> HIDE DEF once, again
  <2> QED
    BY <2>1, <2>2, <2>3 DEF Url!normalizeUrl
<1>9. again # once <=> Url!WithoutSlash(path) # path \/ port = default
  <2>1. None # default
    BY NoneIsNone
  <2>2. again = once <=> Url!Parsed(once).port = port /\ Url!WithoutSlash(path) = path
    <3>1. /\ again.port = Url!Parsed(once).port /\ again.path = Url!WithoutSlash(path)
          /\ once.port = port /\ once.path = path
      BY <1>2, <1>8
    <3> HIDE DEF again, once, protocol
    <3> QED
      BY <1>2, <1>8, <3>1, Zenon
  <2> QED
    BY <1>7, <2>1, <2>2
<1> QED
  BY <1>3, <1>9, SlashesLeft DEF path, port, TwoSlashes, NewDefault

\* For every URL, not only those that TLC is given, normalising is done after one
\* time, but in the two cases named.
THEOREM RequestsNormalizedAgain == RequestsSpec => []NormalizedAgain
<1>1. RequestsInit => UrlsAsked
  BY DEF RequestsInit, Init, UrlsAsked
<1>2. UrlsAsked => NormalizedAgain
  <2> SUFFICES ASSUME asked[1] \in Urls, subject = "urls", asked # None
               PROVE  NormalizedAgain
    BY DEF UrlsAsked, NormalizedAgain
  <2>1. CASE asked[1] \in Unparsable
    BY <2>1 DEF NormalizedAgain, Url!normalizeUrl
  <2>2. CASE asked[1] \in UrlRecords
    <3>1. PICK u \in UrlRecords : u = asked[1]
      BY <2>2
    <3>2. u \notin Unparsable
      BY HandlerConstants
    <3>3. Twice(u) # Url!normalizeUrl(u) <=> TwoSlashes(u) \/ NewDefault(u)
      BY NormalAgain
    <3> QED
      BY <3>1, <3>2, <3>3, Zenon DEF NormalizedAgain, Twice, TwoSlashes, NewDefault
  <2> QED
    BY <2>1, <2>2, HandlerConstants
<1> QED
  BY <1>1, <1>2, UrlsAskedKept, PTL DEF RequestsSpec

-----------------------------------------------------------------------------
(* Opening a project shuts nobody out *)

AccessAsked ==
    subject = "access" /\ asked # None =>
      /\ asked.before \in Settings /\ asked.after \in Settings /\ asked.user \in Users \cup {None}

LEMMA AccessAskedKept ==
  AccessAsked /\ [RequestsNext]_<<vars, list>> => AccessAsked'
<1> SUFFICES ASSUME AccessAsked, [RequestsNext]_<<vars, list>>, subject' = "access",
                    asked' # None, asked' # asked
             PROVE  AskAccess
  BY Moves DEF AccessAsked, AskAccess, Ask
<1> QED
  BY Moves DEF Asking, AskBody, AskBatch, AskName, AskEmails, AskUrls, AskAccount, Open

Openness == {"isPublic", "allowGuests"}

\* Where the defaults are open, a merged setting is open unless it was closed; the
\* number of collaborators is within its limits, or no number.
LEMMA MergedSettings ==
  ASSUME NEW defaults, NEW s \in Settings,
         \A key \in Openness : key \in DOMAIN defaults /\ defaults[key] = TRUE,
         "maxCollaborators" \in DOMAIN defaults, defaults.maxCollaborators \in Int \cup {None}
  PROVE  LET merged == Project!mergeProjectSettings(defaults, s)
         IN  /\ \A key \in Openness :
                  Project!IsSet(merged, key) <=> (key \in DOMAIN s => s[key] = TRUE)
             /\ merged.maxCollaborators \in 1..1000 \cup {None}
<1> DEFINE both == Project!Spread(defaults, s)
          merged == Project!mergeProjectSettings(defaults, s)
          n == both.maxCollaborators
          clamped == Project!Min({Project!Max({n, 1}), 1000})
<1>1. /\ DOMAIN both = DOMAIN defaults \cup DOMAIN s
      /\ \A key \in DOMAIN both : both[key] = IF key \in DOMAIN s THEN s[key] ELSE defaults[key]
  BY DEF Project!Spread
<1>2. "maxCollaborators" \in DOMAIN both /\ n \in Int \cup {None}
  BY <1>1, SettingsGiven
<1>3. n \in Int => clamped \in 1..1000
  <2> SUFFICES ASSUME n \in Int PROVE clamped \in 1..1000
    OBVIOUS
  <2> HIDE DEF n
  <2> DEFINE larger == Project!Max({n, 1})
  <2>1. larger = IF n >= 1 THEN n ELSE 1
    BY SMT DEF Project!Max
  <2>2. larger \in Int /\ larger >= 1
    BY <2>1, SMT
  <2> HIDE DEF larger
  <2>3. Project!Min({larger, 1000}) = IF larger <= 1000 THEN larger ELSE 1000
    BY <2>2, SMT DEF Project!Min
  <2> QED
    BY <2>2, <2>3, SMT DEF larger
<1>4. merged = IF n # None THEN [both EXCEPT !.maxCollaborators = clamped] ELSE both
  BY <1>2 DEF Project!mergeProjectSettings
<1> HIDE DEF both, merged, clamped
<1>5. /\ \A key \in Openness : key \in DOMAIN merged /\ merged[key] = both[key]
      /\ merged.maxCollaborators \in 1..1000 \cup {None}
  <2>1. \A key \in Openness : key \in DOMAIN both /\ key # "maxCollaborators"
    BY <1>1 DEF Openness
  <2>2. CASE n = None
    BY <1>4, <2>1, <2>2
  <2>3. CASE n # None
    BY <1>2, <1>3, <1>4, <2>1, <2>3
  <2> QED
    BY <2>2, <2>3
<1>6. \A key \in Openness : Project!IsSet(merged, key) <=> (key \in DOMAIN s => s[key] = TRUE)
  BY <1>1, <1>5 DEF Project!IsSet
<1> QED
  BY <1>5, <1>6 DEF merged

\* Who may enter depends on who asks and on what is open.
LEMMA AccessByOpenness ==
  ASSUME NEW p, NEW q, NEW user, p.ownerId = q.ownerId,
         \A key \in Openness : Project!IsSet(p.settings, key) => Project!IsSet(q.settings, key)
  PROVE  /\ Project!HasAccess(p, user) => Project!HasAccess(q, user)
         /\ (\A key \in Openness : Project!IsSet(q.settings, key) => Project!IsSet(p.settings, key))
              => Project!checkProjectAccess(p, user) = Project!checkProjectAccess(q, user)
  BY DEF Project!HasAccess, Project!checkProjectAccess, Project!checkOwnership, Openness

\* For all settings that clients send, opening a project takes nobody's access.
THEOREM RequestsOpeningKeepsAccess == RequestsSpec => []OpeningKeepsAccess
<1>1. RequestsInit => AccessAsked
  BY DEF RequestsInit, Init, AccessAsked
<1>2. AccessAsked => OpeningKeepsAccess
  <2> SUFFICES ASSUME subject = "access", asked # None, asked.before \in Settings,
                      asked.after \in Settings
               PROVE  OpeningKeepsAccess
    BY DEF AccessAsked, OpeningKeepsAccess
  <2> DEFINE Merged(s) == Project!mergeProjectSettings(Project!createProjectSettings(<<>>), s)
             before    == [ownerId |-> "owner", settings |-> Merged(asked.before)]
             after     == [ownerId |-> "owner", settings |-> Merged(asked.after)]
             Other(defaults) ==
               [after EXCEPT !.settings = Project!mergeProjectSettings(defaults, asked.after)]
             Elsewhere == {Url!createDefaultSettings(TRUE), Session!createDefaultProjectSettings}
             Good(defaults) ==
               /\ \A key \in Openness : key \in DOMAIN defaults /\ defaults[key] = TRUE
               /\ "maxCollaborators" \in DOMAIN defaults
               /\ defaults.maxCollaborators \in Int \cup {None}
  <2>1. Good(Project!createProjectSettings(<<>>))
    <3>1. Project!createProjectSettings(<<>>) = Project!DefaultSettings
      BY DEF Project!createProjectSettings, Project!Spread, Project!DefaultSettings
    <3>2. Good(Project!DefaultSettings)
      BY DEF Project!DefaultSettings, Openness
    <3> QED
      BY <3>1, <3>2
  <2>2. \A defaults \in Elsewhere : Good(defaults)
    <3>1. Good(Url!createDefaultSettings(TRUE))
      BY DEF Url!createDefaultSettings, Openness
    <3>2. Good(Session!createDefaultProjectSettings)
      BY DEF Session!createDefaultProjectSettings, Openness
    <3> QED
      BY <3>1, <3>2
  <2>3. ASSUME NEW defaults, Good(defaults), NEW s \in Settings
        PROVE  /\ \A key \in Openness :
                    Project!IsSet(Project!mergeProjectSettings(defaults, s), key)
                      <=> (key \in DOMAIN s => s[key] = TRUE)
               /\ Project!mergeProjectSettings(defaults, s).maxCollaborators \in 1..1000 \cup {None}
    BY <2>3, MergedSettings
  <2> HIDE DEF Good
  <2>4. /\ before.ownerId = "owner" /\ before.settings = Merged(asked.before)
        /\ after.ownerId = "owner" /\ after.settings = Merged(asked.after)
        /\ \A defaults : /\ Other(defaults).ownerId = "owner"
                         /\ Other(defaults).settings
                              = Project!mergeProjectSettings(defaults, asked.after)
    OBVIOUS
  <2> HIDE DEF before, after, Other, Elsewhere
  <2>5. Project!HasAccess(before, asked.user) /\
          (\A key \in Openness : Project!IsSet(before.settings, key)
                                   => Project!IsSet(after.settings, key))
          => Project!HasAccess(after, asked.user)
    BY <2>4, AccessByOpenness
  <2>6. Project!checkProjectAccess(after, "owner") = "owner"
    <3>1. None # "owner"
      BY NoneIsNone
    <3> QED
      BY <2>4, <3>1 DEF Project!checkProjectAccess, Project!checkOwnership
  <2>7. \A defaults \in Elsewhere :
          Project!checkProjectAccess(Other(defaults), asked.user)
            = Project!checkProjectAccess(after, asked.user)
    <3> TAKE defaults \in Elsewhere
    <3> DEFINE other == Project!mergeProjectSettings(defaults, asked.after)
    <3> DEFINE s == asked.after
    <3>a. \A key \in Openness : Project!IsSet(other, key) <=> (key \in DOMAIN s => s[key] = TRUE)
      BY <2>2, <2>3
    <3>b. \A key \in Openness :
            Project!IsSet(Merged(asked.after), key) <=> (key \in DOMAIN s => s[key] = TRUE)
      BY <2>1, <2>3
    <3> HIDE DEF s
    <3>1. \A key \in Openness :
            Project!IsSet(other, key) <=> Project!IsSet(Merged(asked.after), key)
      BY <3>a, <3>b, Zenon
    <3> DEFINE p == Other(defaults)
               q == after
    <3>2. p.ownerId = q.ownerId
      BY <2>4
    <3>3. p.settings = other /\ q.settings = Merged(asked.after)
      BY <2>4
    <3> HIDE DEF other, Merged
    <3>4. \A key \in Openness : Project!IsSet(p.settings, key) <=> Project!IsSet(q.settings, key)
      BY <3>1, <3>3
    <3> HIDE DEF p, q
    <3>5. Project!checkProjectAccess(p, asked.user) = Project!checkProjectAccess(q, asked.user)
      BY <3>2, <3>4, AccessByOpenness
    <3> QED
      BY <3>5 DEF p, q
  <2>8. after.settings.maxCollaborators \in 1..1000 \cup {None}
    <3>1. Merged(asked.after).maxCollaborators \in 1..1000 \cup {None}
      BY <2>1, <2>3
    <3> QED
      BY <2>4, <3>1
  <2> QED
    BY <2>5, <2>6, <2>7, <2>8 DEF OpeningKeepsAccess, Openness, before, after, Other, Elsewhere
<1> QED
  BY <1>1, <1>2, AccessAskedKept, PTL DEF RequestsSpec

-----------------------------------------------------------------------------
(* What the pipe accepts fits, and the handlers' limits *)

Types == {"string", "number", "boolean", "object", "array"}
AllForms == Dto!Forms \cup {"moment"}
FormSets == {forms \in SUBSET AllForms : \E form \in forms : form # "quoted"}

Rules ==
    [type : Types, min : Int, max : Int, forms : FormSets, optional : BOOLEAN]

LEMMA RuleKinds ==
  /\ \A min \in Int, max \in Int, forms \in FormSets : Dto!Text(min, max, forms) \in Rules
  /\ \A min \in Int, max \in Int : Dto!Number(min, max) \in Rules
  /\ \A type \in Types : Dto!Other(type) \in Rules
  /\ \A rule \in Rules : Dto!Opt(rule) \in Rules
<1>1. {"plain", "moment"} \in FormSets /\ {"plain"} \in FormSets
  <2>1. {"plain", "moment"} \subseteq AllForms
    BY DEF AllForms, Dto!Forms, Dto!UsernameForms, Dto!Words
  <2>2. \A forms : forms \subseteq AllForms /\ "plain" \in forms => forms \in FormSets
    BY DEF FormSets
  <2> QED
    BY <2>1, <2>2
<1>2. 0 \in Int /\ Dto!BodyLimit \in Int
  BY DEF Dto!BodyLimit
<1>3. "string" \in Types /\ "number" \in Types /\ FALSE \in BOOLEAN /\ TRUE \in BOOLEAN
  BY DEF Types
<1>4. \A min \in Int, max \in Int, forms \in FormSets : Dto!Text(min, max, forms) \in Rules
  BY <1>3 DEF Dto!Text, Rules
<1>5. \A min \in Int, max \in Int : Dto!Number(min, max) \in Rules
  BY <1>1, <1>3 DEF Dto!Number, Rules
<1>6. \A type \in Types : Dto!Other(type) \in Rules
  BY <1>1, <1>2, <1>3 DEF Dto!Other, Rules
<1>7. \A rule \in Rules : Dto!Opt(rule) \in Rules
  BY <1>3 DEF Dto!Opt, Rules
<1> QED
  BY <1>4, <1>5, <1>6, <1>7

\* Each class has a rule for each field.
LEMMA ClassesAreRules ==
  ASSUME NEW route \in Routes, NEW f \in DOMAIN Classes[route]
  PROVE  Classes[route][f] \in Rules
<1>1. /\ Dto!Forms \in FormSets /\ Dto!UsernameForms \in FormSets
      /\ \A form \in {"strong", "role", "status"} : {form} \in FormSets
      /\ {"email", "quoted"} \in FormSets /\ {"url", "bareUrl"} \in FormSets
  <2>1. /\ \A form \in {"email", "quoted", "url", "bareUrl", "strong", "role", "status"} :
             form \in AllForms
        /\ "word" \in Dto!UsernameForms /\ "plain" \in Dto!Forms
        /\ Dto!Forms \subseteq AllForms /\ Dto!UsernameForms \subseteq AllForms
    BY DEF AllForms, Dto!Forms, Dto!UsernameForms, Dto!Words
  <2>2. \A form, forms : forms \subseteq AllForms /\ form \in forms /\ form # "quoted"
                         => forms \in FormSets
    BY DEF FormSets
  <2>3. {"email", "quoted"} \subseteq AllForms /\ {"url", "bareUrl"} \subseteq AllForms
    BY <2>1
  <2>4. \A form \in AllForms : form # "quoted" => {form} \in FormSets
    BY <2>2
  <2> QED
    BY <2>1, <2>2, <2>3, <2>4
<1>2. Dto!BodyLimit \in Int /\ -Dto!BodyLimit \in Int
  BY DEF Dto!BodyLimit
<1>3. Types = {"string", "number", "boolean", "object", "array"}
  BY DEF Types
<1>4. Dto!Email \in Rules /\ \A max \in Int : Dto!Link(max) \in Rules
  BY <1>1, RuleKinds DEF Dto!Email, Dto!Link
<1>5. Dto!AnyText \in Rules /\ Dto!AnyNumber \in Rules
  BY <1>1, <1>2, RuleKinds DEF Dto!AnyText, Dto!AnyNumber
<1>a. \A forms \in FormSets :
        /\ Dto!Text(0, 100, forms) \in Rules /\ Dto!Text(3, 20, forms) \in Rules
        /\ Dto!Text(8, 50, forms) \in Rules /\ Dto!Text(0, 255, forms) \in Rules
        /\ Dto!Text(1, 255, forms) \in Rules /\ Dto!Text(0, 1000, forms) \in Rules
        /\ Dto!Text(0, Dto!BodyLimit, forms) \in Rules
  BY <1>2, RuleKinds
<1>b. /\ Dto!Link(500) \in Rules /\ Dto!Link(2084) \in Rules
      /\ \A forms \in {Dto!Forms, Dto!UsernameForms, {"strong"}, {"role"}, {"status"}} :
           forms \in FormSets
  BY <1>1, <1>4
<1>c. Dto!Number(0, 1) \in Rules
  BY RuleKinds
<1> HIDE DEF Rules
<1>6. CASE route = "register"
  BY <1>6, <1>3, <1>4, <1>a, <1>b, RuleKinds DEF Classes, Dto!CreateUserDto
<1>7. CASE route = "createUser"
  BY <1>7, <1>3, <1>4, <1>a, <1>b, RuleKinds DEF Classes, Dto!CreateUserRequestDto
<1>8. CASE route = "updateUser"
  BY <1>8, <1>3, <1>4, <1>a, <1>b, RuleKinds DEF Classes, Dto!UpdateUserRequestDto
<1>9. CASE route = "createProject"
  BY <1>9, <1>3, <1>4, <1>a, <1>b, RuleKinds DEF Classes, Dto!CreateProjectRequestDto
<1>10. CASE route = "updateProject"
  BY <1>10, <1>3, <1>4, <1>a, <1>b, RuleKinds DEF Classes, Dto!UpdateProjectRequestDto
<1>11. CASE route = "mutation"
  BY <1>11, <1>2, <1>3, <1>5, RuleKinds DEF Classes, Dto!CreateMutationDto
<1>12. CASE route = "commentThread"
  BY <1>12, <1>c, <1>2, <1>3, <1>5, RuleKinds DEF Classes, Dto!CreateCommentThreadDto
<1>13. CASE route = "firstComment"
  BY <1>13, <1>2, <1>3, <1>5, RuleKinds DEF Classes, Dto!FirstCommentDto
<1> QED
  BY <1>6, <1>7, <1>8, <1>9, <1>10, <1>11, <1>12, <1>13 DEF Routes

Required(dto) == {f \in DOMAIN dto : ~dto[f].optional}

\* The fields that are required hold the least that is accepted, but for one that
\* is as it may be; null is only in a field that may be left out.
Minimal(dto, body, field) ==
    /\ Required(dto) \subseteq DOMAIN body /\ DOMAIN body \subseteq Required(dto) \cup {field}
    /\ \A f \in DOMAIN body :
         /\ body[f] \in Contents \cup {Null}
         /\ body[f] = Null => f = field /\ dto[f].optional
         /\ body[f] # Null => Dto!Fits(dto[f], body[f])
    /\ \A f \in DOMAIN body \ {field} :
         body[f].size = IF dto[f].min < 0 THEN 0 ELSE dto[f].min

LEMMA Samples ==
  ASSUME NEW rule \in Rules
  PROVE  /\ Sample(rule) \in Contents /\ Sample(rule) # Null
         /\ Sample(rule).type = rule.type
         /\ Sample(rule).size = IF rule.min < 0 THEN 0 ELSE rule.min
<1>1. (CHOOSE form \in rule.forms : form # "quoted") \in AllForms
  BY DEF Rules, FormSets
<1>2. Sample(rule) \in Contents
  BY <1>1 DEF Sample, Rules, Contents, Types, AllForms
<1> QED
  BY <1>2, RequestConstants DEF Sample

\* The fields of a body, whether it is accepted or not.
LEMMA BodyFields ==
  ASSUME NEW route \in Routes, NEW field \in DOMAIN Classes[route],
         NEW value \in Sendable(route, field), NEW body, body = BodyWith(route, field, value)
  PROVE  LET dto == Classes[route]
         IN  /\ Required(dto) \ {field} \subseteq DOMAIN body
             /\ DOMAIN body \subseteq Required(dto) \cup {field}
             /\ \A f \in DOMAIN body : dto[f] \in Rules /\ body[f] \in Contents \cup {Null}
             /\ \A f \in DOMAIN body \ {field} : body[f] = Sample(dto[f])
             /\ field \in DOMAIN body => body[field] = value
<1> DEFINE dto == Classes[route]
<1>1. /\ Required(dto) \ {field} \subseteq DOMAIN body
      /\ DOMAIN body \subseteq Required(dto) \cup {field}
      /\ \A f \in DOMAIN body \ {field} : body[f] = Sample(dto[f])
      /\ field \in DOMAIN body => value # None /\ body[field] = value
  BY DEF BodyWith, Required
<1>2. \A f \in DOMAIN body : dto[f] \in Rules
  BY <1>1, ClassesAreRules DEF Required
<1>3. field \in DOMAIN body => body[field] \in Contents \cup {Null}
  BY <1>1, RequestConstants DEF Sendable
<1>4. \A f \in DOMAIN body : body[f] \in Contents \cup {Null}
  BY <1>1, <1>2, <1>3, Samples
<1> QED
  BY <1>1, <1>2, <1>4

LEMMA AcceptedBody ==
  ASSUME NEW route \in Routes, NEW field \in DOMAIN Classes[route],
         NEW value \in Sendable(route, field),
         NEW body, body = BodyWith(route, field, value), Dto!Accepts(Classes[route], body)
  PROVE  Minimal(Classes[route], body, field)
<1> DEFINE dto == Classes[route]
<1>1. /\ DOMAIN body \subseteq Required(dto) \cup {field}
      /\ \A f \in DOMAIN body : dto[f] \in Rules /\ body[f] \in Contents \cup {Null}
      /\ \A f \in DOMAIN body \ {field} : body[f] = Sample(dto[f])
  BY BodyFields
<1>2. /\ Required(dto) \subseteq DOMAIN body
      /\ \A f \in DOMAIN body : IF body[f] # Null THEN Dto!Fits(dto[f], body[f]) ELSE dto[f].optional
  BY <1>1 DEF Dto!Accepts, Required
<1>3. \A f \in DOMAIN body \ {field} :
        body[f] # Null /\ body[f].size = IF dto[f].min < 0 THEN 0 ELSE dto[f].min
  BY <1>1, Samples
<1> HIDE DEF dto
<1> QED
  BY <1>1, <1>2, <1>3 DEF dto, Minimal

\* As asked[...] names them.
BodyOf(route, body) ==
    \E field \in DOMAIN Classes[route] : \E value \in Sendable(route, field) :
      body = BodyWith(route, field, value)

Size(body, field) == IF Given(body, field) = Null THEN None ELSE Given(body, field).size

\* A field that is sent is as its rule says, and one that is required is sent.
LEMMA FieldsInLimits ==
  ASSUME NEW route \in Routes, NEW body, BodyOf(route, body), Dto!Accepts(Classes[route], body),
         NEW f \in DOMAIN Classes[route]
  PROVE  /\ Given(body, f) = Null \/ Dto!Fits(Classes[route][f], Given(body, f))
         /\ ~Classes[route][f].optional => /\ f \in DOMAIN body /\ body[f] # Null
                                           /\ Dto!Fits(Classes[route][f], body[f])
<1>1. PICK field \in DOMAIN Classes[route] : \E value \in Sendable(route, field) :
               body = BodyWith(route, field, value)
  BY DEF BodyOf
<1>2. Minimal(Classes[route], body, field)
  BY <1>1, AcceptedBody
<1> QED
  BY <1>2 DEF Minimal, Required, Given

\* The size of a field that is sent is in its limits, that of a field that is required is one.
LEMMA SizeInLimits ==
  ASSUME NEW route \in Routes, NEW body, BodyOf(route, body), Dto!Accepts(Classes[route], body),
         NEW f \in DOMAIN Classes[route]
  PROVE  LET rule == Classes[route][f]
         IN  /\ Size(body, f) = None \/ Size(body, f) \in rule.min..rule.max
             /\ ~rule.optional => Size(body, f) \in rule.min..rule.max
BY FieldsInLimits DEF Size, Given, Dto!Fits

\* The characters of a text of a form.
LEMMA CharactersAt ==
  /\ \A form, i : CharacterAt(form, i) \in Characters
  /\ \A form \in Dto!Words : \A i : CharacterAt(form, i) = "a"
  /\ \A form \in Dto!Forms \ Dto!Words : form # "email" => CharacterAt(form, 1) \in {" ", "-"}
  /\ \A i : CharacterAt("email", i) = IF i = 2 THEN "@" ELSE IF i = 4 THEN "." ELSE "a"
  /\ CharacterAt("quoted", 2) = " "
<1>1. \A form, i : CharacterAt(form, i) \in {"a", " ", "@", ".", "-"}
  BY DEF CharacterAt, Dto!Words
<1>2. \A form, i : CharacterAt(form, i) \in Characters
  BY <1>1 DEF Characters, Letters
<1>3. \A form \in Dto!Words : \A i : CharacterAt(form, i) = "a"
  BY DEF CharacterAt, Dto!Words
<1>4. \A form \in Dto!Forms \ Dto!Words : form # "email" => CharacterAt(form, 1) \in {" ", "-"}
  BY DEF CharacterAt, Dto!Words
<1>5. /\ \A i : CharacterAt("email", i) = IF i = 2 THEN "@" ELSE IF i = 4 THEN "." ELSE "a"
      /\ CharacterAt("quoted", 2) = " "
  BY DEF CharacterAt, Dto!Words
<1> QED
  BY <1>2, <1>3, <1>4, <1>5

LEMMA SpeltText ==
  ASSUME NEW value, value.size \in Nat
  PROVE  /\ Spelt(value) \in Seq(Characters) /\ Len(Spelt(value)) = value.size
         /\ DOMAIN Spelt(value) = 1..value.size
         /\ \A i \in 1..value.size : Spelt(value)[i] = CharacterAt(value.form, i)
<1> DEFINE text == Spelt(value)  n == value.size
<1>1. /\ DOMAIN text = 1..n
      /\ \A i \in 1..n : text[i] = CharacterAt(value.form, i)
  BY DEF Spelt
<1>2. text \in [1..n -> Characters]
  BY <1>1, CharactersAt DEF Spelt
<1> HIDE DEF text, n
<1>3. n \in Nat
  BY DEF n
<1>4. text \in Seq(Characters)
  BY <1>2, <1>3
<1>5. Len(text) = n
  <2>1. Len(text) \in Nat /\ DOMAIN text = 1..Len(text)
    BY <1>4, LenProperties
  <2> QED
    BY <1>1, <1>3, <2>1
<1> QED
  BY <1>1, <1>4, <1>5 DEF text, n

LEMMA SpeltEmail ==
  ASSUME NEW value, value.size \in Nat, value.size >= 6, value.form \in {"email", "quoted"}
  PROVE  User!checkEmailFormat(Spelt(value)) <=> value.form # "quoted"
<1> DEFINE text == Spelt(value)
<1>1. /\ Len(text) = value.size /\ DOMAIN text = 1..value.size
      /\ \A i \in 1..value.size : text[i] = CharacterAt(value.form, i)
  BY SpeltText
<1>3. CASE value.form = "quoted"
  <2>1. 2 \in DOMAIN text
    BY <1>1
  <2>2. text[2] = " "
    BY <1>1, <1>3, <2>1, CharactersAt
  <2> QED
    BY <1>3, <2>1, <2>2, Zenon DEF User!checkEmailFormat
<1>4. CASE value.form = "email"
  <2>1. \A i \in 1..value.size : text[i] = IF i = 2 THEN "@" ELSE IF i = 4 THEN "." ELSE "a"
    <3>1. \A i \in 1..value.size : text[i] = CharacterAt("email", i)
      BY <1>1, <1>4
    <3> HIDE DEF text
    <3> QED
      BY <3>1, CharactersAt
  <2> HIDE DEF text
  <2>2. \A i \in DOMAIN text : text[i] # " " /\ (text[i] = "@" <=> i = 2)
    BY <1>1, <2>1
  <2>3. text[4] = "." /\ 4 \in 2 + 2..Len(text) - 1 /\ 2 \in 2..Len(text)
    BY <1>1, <2>1
  <2>4. User!checkEmailFormat(text)
    BY <2>2, <2>3, Zenon DEF User!checkEmailFormat
  <2> QED
    BY <1>4, <2>4 DEF text
<1> QED
  BY <1>3, <1>4

\* A username is valid if it is a word that is not too long.
LEMMA SpeltUsername ==
  ASSUME NEW value, value.size \in Nat, value.size >= 3, value.form \in Dto!Forms
  PROVE  User!validateUsername(Spelt(value)) = {}
           <=> value.form \in Dto!Words /\ value.size <= MaxUsername
<1> DEFINE text == Spelt(value)
<1>1. /\ text \in Seq(Characters) /\ Len(text) = value.size /\ DOMAIN text = 1..value.size
      /\ \A i \in 1..value.size : text[i] = CharacterAt(value.form, i)
  BY SpeltText
<1>2. text \notin {None, <<>>}
  <2>1. text # None
    BY <1>1, NoneIsNone
  <2>2. Len(text) # 0
    BY <1>1
  <2> QED
    BY <2>1, <2>2
<1>3. (\A i \in DOMAIN text : text[i] \in {"a", "A", "_"}) <=> value.form \in Dto!Words
  <2>1. CASE value.form \in Dto!Words
    BY <1>1, <2>1, CharactersAt
  <2>2. CASE value.form = "email"
    <3>1. 2 \in DOMAIN text /\ value.form \notin Dto!Words
      BY <1>1, <2>2 DEF Dto!Words
    <3>2. text[2] = "@"
      BY <1>1, <2>2, <3>1, CharactersAt
    <3> QED
      BY <3>1, <3>2
  <2>3. CASE value.form \notin Dto!Words \cup {"email"}
    <3>1. 1 \in DOMAIN text
      BY <1>1
    <3>2. text[1] \in {" ", "-"}
      BY <1>1, <2>3, <3>1, CharactersAt
    <3> QED
      BY <2>3, <3>1, <3>2
  <2> QED
    BY <2>1, <2>2, <2>3
<1> HIDE DEF text
<1>4. ~(Len(text) < 3) /\ (Len(text) > MaxUsername <=> ~(value.size <= MaxUsername))
  BY <1>1, Texts
<1>5. User!validateUsername(text) = {}
        <=> /\ \A i \in DOMAIN text : text[i] \in {"a", "A", "_"}
            /\ ~(Len(text) > MaxUsername)
  BY <1>2, <1>4, Zenon DEF User!validateUsername
<1> QED
  BY <1>3, <1>4, <1>5 DEF text

LEMMA ClassThenUser ==
  ASSUME NEW route \in {"register", "createUser"}, NEW body, BodyOf(route, body),
         Dto!Accepts(Classes[route], body)
  PROVE  User!validateUserData(
           [email |-> Spelt(body["email"]), username |-> Spelt(body["username"]),
            password |-> Size(body, "password")]).isValid
           <=> /\ body["email"].form # "quoted"
               /\ body["username"].form \in Dto!Words /\ body["username"].size <= MaxUsername
<1> DEFINE dto == Classes[route]  email == body["email"]  username == body["username"]
          password == Size(body, "password")
<1>1. /\ {"email", "username", "password"} \subseteq DOMAIN dto
      /\ dto["email"] = Dto!Email
      /\ \E forms \in SUBSET Dto!Forms : dto["username"] = Dto!Text(3, 20, forms)
      /\ \E forms : dto["password"] = Dto!Text(8, 50, forms)
  <2>1. CASE route = "register"
    <3>1. dto = Dto!CreateUserDto
      BY <2>1 DEF Classes
    <3>2. Dto!UsernameForms \in SUBSET Dto!Forms
      BY DEF Dto!Forms
    <3> QED
      BY <3>1, <3>2 DEF Dto!CreateUserDto
  <2>2. CASE route = "createUser"
    <3>1. dto = Dto!CreateUserRequestDto
      BY <2>2 DEF Classes
    <3> QED
      BY <3>1 DEF Dto!CreateUserRequestDto
  <2> QED
    BY <2>1, <2>2
<1>2. Dto!Fits(dto["email"], email)
  BY <1>1, FieldsInLimits DEF Dto!Email, Dto!Text, Routes
<1>3. Dto!Fits(dto["username"], username) /\ Dto!Fits(dto["password"], body["password"])
  BY <1>1, FieldsInLimits DEF Dto!Text, Routes
<1>4. password \in 8..50
  BY <1>1, SizeInLimits DEF Dto!Text, Routes
<1>5. /\ email.size \in Nat /\ email.size >= 6 /\ email.form \in {"email", "quoted"}
  BY <1>1, <1>2 DEF Dto!Fits, Dto!Email, Dto!Text
<1>6. username.size \in Nat /\ username.size >= 3 /\ username.form \in Dto!Forms
  BY <1>1, <1>3 DEF Dto!Fits, Dto!Text
<1> HIDE DEF email, username, password
<1>7. User!validatePassword(password) = {}
  BY <1>4 DEF User!validatePassword
<1>8. User!checkEmailFormat(Spelt(email)) <=> email.form # "quoted"
  BY <1>5, SpeltEmail
<1>9. User!validateUsername(Spelt(username)) = {}
        <=> username.form \in Dto!Words /\ username.size <= MaxUsername
  BY <1>6, SpeltUsername
<1> DEFINE data == [email |-> Spelt(email), username |-> Spelt(username), password |-> password]
<1>10. User!validateUserData(data).isValid
         <=> /\ User!checkEmailFormat(Spelt(email))
             /\ User!validateUsername(Spelt(username)) = {} /\ User!validatePassword(password) = {}
  <2>1. /\ data.email = Spelt(email) /\ data.username = Spelt(username)
        /\ data.password = password
    OBVIOUS
  <2> HIDE DEF data
  <2>2. User!validateUserData(data).isValid
          <=> (IF User!checkEmailFormat(Spelt(email)) THEN {} ELSE {"email"})
                \cup User!validateUsername(Spelt(username)) \cup User!validatePassword(password)
              = {}
    BY <2>1 DEF User!validateUserData
  <2> QED
    BY <2>2
<1> QED
  BY <1>7, <1>8, <1>9, <1>10 DEF email, username, password

\* A URL that may be left out is valid if it is not bare.
LEMMA TypedUrl ==
  ASSUME NEW value, value = Null \/ value.form \in {"url", "bareUrl"}
  PROVE  Project!validateProjectUrl(Typed(value)) = {} <=> value = Null \/ value.form # "bareUrl"
<1> DEFINE url == Typed(value)
<1>1. CASE value = Null
  BY <1>1 DEF Typed, Project!validateProjectUrl
<1>2. CASE value # Null /\ value.form = "bareUrl"
  <2>1. url \in Unparsable
    BY <1>2, RequestConstants, Zenon DEF Typed
  <2>2. url # None
    BY <2>1, NoneIsNone
  <2> HIDE DEF url
  <2>3. ~Project!validateUrl(url).isValid
    BY <2>1 DEF Project!validateUrl, Project!Valid
  <2>4. Project!validateProjectUrl(url) # {}
    BY <2>2, <2>3 DEF Project!validateProjectUrl, Project!validateUrlOfProject
  <2> QED
    BY <1>2, <2>4 DEF url
<1>3. CASE value # Null /\ value.form = "url"
  <2>1. url \in OfDomains
    BY <1>3, RequestConstants, Zenon DEF Typed
  <2> HIDE DEF url
  <2>2. /\ url \in Urls /\ url \notin Unparsable
        /\ url.protocol \in {"http:", "https:"} /\ url.hostname \in Domains
    BY <2>1 DEF OfDomains
  <2>3. url # None
    BY <2>2, NoneIsNone, HandlerConstants
  <2>6. Project!validateUrl(url).isValid
    BY <2>2 DEF Project!validateUrl, Project!Valid
  <2>7. Project!validateProjectUrl(url) = {}
    BY <2>3, <2>6 DEF Project!validateProjectUrl, Project!validateUrlOfProject
  <2> QED
    BY <1>3, <2>7 DEF url
<1> QED
  BY <1>1, <1>2, <1>3

LEMMA ClassThenProject ==
  ASSUME NEW body, BodyOf("createProject", body), Dto!Accepts(Classes["createProject"], body)
  PROVE  Project!validateProjectData(
           [name |-> TrimmedSize(body["name"]), url |-> Typed(Given(body, "url")),
            description |-> Size(body, "description")]).isValid
           <=> /\ TrimmedSize(body["name"]) \in 2..100
               /\ Size(body, "description") = None \/ Size(body, "description") <= 500
               /\ Given(body, "url") = Null \/ body["url"].form # "bareUrl"
<1> DEFINE n == TrimmedSize(body["name"])  d == Size(body, "description")
          u == Given(body, "url")
<1>1. /\ Classes["createProject"] = Dto!CreateProjectRequestDto
      /\ {"name", "description", "url"} \subseteq DOMAIN Classes["createProject"]
      /\ Classes["createProject"]["name"] = Dto!Text(1, 255, Dto!Forms)
      /\ Classes["createProject"]["description"] = Dto!Opt(Dto!Text(0, 1000, Dto!Forms))
      /\ Classes["createProject"]["url"] = Dto!Opt(Dto!Link(500))
  BY DEF Classes, Dto!CreateProjectRequestDto
<1>2. Dto!Fits(Dto!Text(1, 255, Dto!Forms), body["name"])
  <2>1. ~Classes["createProject"]["name"].optional
    BY <1>1 DEF Dto!Text
  <2> QED
    BY <1>1, <2>1, FieldsInLimits DEF Routes
<1>3. d = None \/ d \in 0..1000
  BY <1>1, SizeInLimits DEF Dto!Text, Dto!Opt, Routes
<1>4. u = Null \/ u.form \in {"url", "bareUrl"}
  BY <1>1, FieldsInLimits DEF Dto!Text, Dto!Link, Dto!Opt, Dto!Fits, Routes
<1>5. u # Null => u = body["url"]
  BY DEF Given
<1>6. n \in 0..255
  BY <1>2 DEF Dto!Fits, Dto!Text, TrimmedSize
<1>7. None \notin Int
  BY NoneIsNone
<1> HIDE DEF n, d, u
<1>8. n # None /\ (d # None => d \in Int)
  BY <1>3, <1>6, <1>7
<1>9. Project!validateProjectName(n) = {} <=> n \in 2..100
  BY <1>6, <1>8, SMT DEF Project!validateProjectName
<1>10. Project!validateProjectDescription(d) = {} <=> d = None \/ d <= 500
  BY <1>8, SMT DEF Project!validateProjectDescription
<1>11. Project!validateProjectUrl(Typed(u)) = {} <=> u = Null \/ u.form # "bareUrl"
  BY <1>4, TypedUrl
<1> DEFINE data == [name |-> n, url |-> Typed(u), description |-> d]
<1>12. data.name = n /\ data.url = Typed(u) /\ data.description = d
  OBVIOUS
<1> HIDE DEF data
<1>13. Project!validateProjectData(data).isValid
         <=> /\ Project!validateProjectName(n) = {} /\ Project!validateProjectUrl(Typed(u)) = {}
             /\ Project!validateProjectDescription(d) = {}
  BY <1>12 DEF Project!validateProjectData
<1> QED
  BY <1>5, <1>9, <1>10, <1>11, <1>13 DEF data, n, d, u

LEMMA ClassThenThread ==
  ASSUME NEW body, BodyOf("commentThread", body), Dto!Accepts(Classes["commentThread"], body)
  PROVE  Mutation!validateCommentThreadData(
           [x |-> Size(body, "x"), y |-> Size(body, "y"), page |-> Size(body, "page"),
            deploymentUrl |-> Size(body, "deploymentUrl"),
            firstComment |-> [body |-> 1, text |-> 1]]).isValid
           <=> Size(body, "page") > 0 \/ Size(body, "deploymentUrl") \notin {None, 0}
<1> DEFINE x == Size(body, "x")  y == Size(body, "y")  p == Size(body, "page")
          d == Size(body, "deploymentUrl")
          thread == [x |-> x, y |-> y, page |-> p, deploymentUrl |-> d,
                     firstComment |-> [body |-> 1, text |-> 1]]
<1>1. /\ Classes["commentThread"] = Dto!CreateCommentThreadDto
      /\ {"x", "y", "page", "deploymentUrl"} \subseteq DOMAIN Classes["commentThread"]
      /\ Classes["commentThread"]["x"] = Dto!Number(0, 1)
      /\ Classes["commentThread"]["y"] = Dto!Number(0, 1)
      /\ Classes["commentThread"]["page"] = Dto!AnyText
      /\ Classes["commentThread"]["deploymentUrl"] = Dto!Opt(Dto!AnyText)
  BY DEF Classes, Dto!CreateCommentThreadDto
<1>2. x \in 0..1 /\ y \in 0..1 /\ p \in Nat
  BY <1>1, SizeInLimits DEF Dto!Number, Dto!AnyText, Dto!Text, Dto!BodyLimit, Routes
<1>3. None \notin Int
  BY NoneIsNone
<1> HIDE DEF x, y, p, d
<1>4. Mutation!validateCoordinates(x, y) = {}
  BY <1>2, <1>3, SMT DEF Mutation!validateCoordinates
<1>5. Mutation!validateFirstComment([body |-> 1, text |-> 1]) = {}
  <2> DEFINE comment == [body |-> 1, text |-> 1]
  <2>1. comment # None
    <3>1. comment \in Remarks
      BY DEF Remarks
    <3> QED
      BY <3>1, RequestConstants
  <2>2. comment.body = 1 /\ comment.text = 1
    OBVIOUS
  <2> HIDE DEF comment
  <2> QED
    BY <1>3, <2>1, <2>2, SMT DEF Mutation!validateFirstComment, comment
<1>6. {p, d} \subseteq {None, 0} <=> ~(p > 0 \/ d \notin {None, 0})
  BY <1>2, <1>3
<1>7. /\ thread.x = x /\ thread.y = y /\ thread.page = p /\ thread.deploymentUrl = d
      /\ thread.firstComment = [body |-> 1, text |-> 1]
  OBVIOUS
<1> HIDE DEF thread
<1>8. Mutation!validateCommentThreadData(thread).isValid
        <=> (IF {p, d} \subseteq {None, 0} THEN {"page"} ELSE {}) = {}
  BY <1>4, <1>5, <1>7 DEF Mutation!validateCommentThreadData
<1> QED
  BY <1>6, <1>8 DEF thread, x, y, p, d

LEMMA ClassThenComment ==
  ASSUME NEW body, BodyOf("firstComment", body), Dto!Accepts(Classes["firstComment"], body)
  PROVE  Mutation!validateFirstComment([body |-> Size(body, "body"), text |-> Size(body, "text")])
           = {}
           <=> /\ Size(body, "body") = None \/ Size(body, "body") <= 5000
               /\ Size(body, "text") = None \/ Size(body, "text") <= 1000
<1> DEFINE b == Size(body, "body")  t == Size(body, "text")
          comment == [body |-> b, text |-> t]
<1>1. /\ Classes["firstComment"] = Dto!FirstCommentDto
      /\ {"body", "text"} \subseteq DOMAIN Classes["firstComment"]
      /\ Classes["firstComment"]["body"] = Dto!Other("array")
      /\ Classes["firstComment"]["text"] = Dto!AnyText
  BY DEF Classes, Dto!FirstCommentDto
<1>2. b \in Nat /\ t \in Nat
  BY <1>1, SizeInLimits DEF Dto!Other, Dto!AnyText, Dto!Text, Dto!BodyLimit, Routes
<1>3. None \notin Int
  BY NoneIsNone
<1> HIDE DEF b, t
<1>4. comment # None /\ comment.body = b /\ comment.text = t
  <2>1. comment \in Remarks
    BY <1>2 DEF Remarks
  <2> QED
    BY <2>1, RequestConstants
<1> HIDE DEF comment
<1> QED
  BY <1>2, <1>3, <1>4, SMT DEF Mutation!validateFirstComment, comment, b, t

\* A column takes what a field that fits into it may hold, and null if it may.
WithinColumn(rule, column) ==
    /\ rule.type \in Types /\ rule.max \in Int /\ column.length \in Int
    /\ rule.type = "string" => rule.max <= column.length

LEMMA FieldStored ==
  ASSUME NEW dto, NEW body, NEW field, Minimal(dto, body, field), NEW f \in DOMAIN body,
         NEW column, WithinColumn(dto[f], column)
  PROVE  Table!Storable(column, body[f]) <=> (body[f] = Null => column.nullable)
<1>1. CASE body[f] = Null
  BY <1>1 DEF Table!Storable
<1>2. CASE body[f] # Null
  <2>1. Dto!Fits(dto[f], body[f])
    BY <1>2 DEF Minimal
  <2>2. /\ body[f].type # "time" /\ body[f].type = dto[f].type
        /\ body[f].size <= dto[f].max /\ body[f].size \in Int
    BY <2>1 DEF Dto!Fits, WithinColumn, Types
  <2> QED
    BY <1>2, <2>2 DEF Table!Storable, WithinColumn
<1> QED
  BY <1>1, <1>2

UserFields == {"email", "username", "firstName", "lastName", "avatar", "role", "status"}

LEMMA UserColumns ==
  ASSUME NEW route \in {"register", "createUser", "updateUser"}, NEW f \in DOMAIN Classes[route]
  PROVE  /\ f \in UserFields \cup {"password"}
         /\ f \notin {"email", "password"} => WithinColumn(Classes[route][f], Table!User[f])
         /\ f \in {"email", "password"} => ~Classes[route][f].optional /\ route # "updateUser"
         /\ route # "updateUser" /\ Classes[route][f].optional => Table!User[f].nullable
         /\ f \in UserFields => (~Table!User[f].nullable <=> f \in {"email", "username", "role", "status"})
<1>1. CASE route = "register"
  <2>1. Classes[route] = Dto!CreateUserDto
    BY <1>1 DEF Classes
  <2> QED
    BY <1>1, <2>1 DEF Dto!CreateUserDto, Dto!Email, Dto!Text, Dto!Opt, Table!User, Table!Column,
                      Table!Nullable, Table!Text, Table!Wide, Dto!BodyLimit, WithinColumn, Types,
                      UserFields
<1>2. CASE route = "createUser"
  <2>1. Classes[route] = Dto!CreateUserRequestDto
    BY <1>2 DEF Classes
  <2> QED
    BY <1>2, <2>1 DEF Dto!CreateUserRequestDto, Dto!Email, Dto!Text, Dto!Opt, Dto!Link, Table!User,
                      Table!Column, Table!Nullable, Table!Text, Table!Wide, Dto!BodyLimit,
                      WithinColumn, Types, UserFields
<1>3. CASE route = "updateUser"
  <2>1. Classes[route] = Dto!UpdateUserRequestDto
    BY <1>3 DEF Classes
  <2> QED
    BY <1>3, <2>1 DEF Dto!UpdateUserRequestDto, Dto!Text, Dto!Opt, Dto!Link, Table!User,
                      Table!Column, Table!Nullable, Table!Text, Table!Wide, Dto!BodyLimit,
                      WithinColumn, Types, UserFields
<1> QED
  BY <1>1, <1>2, <1>3

\* What AcceptedFits excepts.
Narrower ==
    [register |-> [email |-> 255], createUser |-> [email |-> 255],
     updateUser |-> <<>>, createProject |-> <<>>, updateProject |-> <<>>,
     mutation |-> [profileID |-> KeyLength],
     commentThread |-> [page |-> 500, deploymentUrl |-> 500, pageTitle |-> 255],
     firstComment |-> [commitSha |-> 40, href |-> 500, text |-> 65535, deployment |-> KeyLength]]

NotNull ==
    [updateUser |-> {"username", "role", "status"}, updateProject |-> {"name", "isPublic"},
     firstComment |-> {"text", "leftOnLocalhost"}]

TooLong(route, field, body) ==
    /\ field \in DOMAIN Narrower[route] /\ Text(Given(body, field))
    /\ Given(body, field).size > Narrower[route][field]

NoNull(route, field, body) ==
    /\ route \in DOMAIN NotNull /\ field \in NotNull[route]
    /\ field \in DOMAIN body /\ Given(body, field) = Null

NotThere(route, field, body) ==
    route = "firstComment" /\ field = "text" /\ field \notin DOMAIN body

OutOfRange(route, body) == route = "mutation" /\ body.timestamp.form # "moment"

Excepted(route, field, body) ==
    \/ TooLong(route, field, body) \/ NoNull(route, field, body)
    \/ NotThere(route, field, body) \/ OutOfRange(route, body)

Fitting(route, field, body) ==
    RefusedColumns(route, body) # {} <=> Excepted(route, field, body)

LEMMA NewUserFits ==
  ASSUME NEW route \in {"register", "createUser"}, NEW field \in DOMAIN Classes[route], NEW body,
         Minimal(Classes[route], body, field)
  PROVE  Fitting(route, field, body)
<1> DEFINE dto == Classes[route]  row == UserRow(body)
<1>1. RefusedColumns(route, body) = Table!Refusing(Table!User, row)
  BY DEF RefusedColumns
<1>2. /\ DOMAIN body \subseteq DOMAIN dto
      /\ dto["email"] = Dto!Email /\ {"email", "password"} \subseteq Required(dto)
  <2>1. CASE route = "register"
    <3>1. dto = Dto!CreateUserDto
      BY <2>1 DEF Classes
    <3> QED
      BY <3>1 DEF Dto!CreateUserDto, Minimal, Required, Dto!Email, Dto!Text
  <2>2. CASE route = "createUser"
    <3>1. dto = Dto!CreateUserRequestDto
      BY <2>2 DEF Classes
    <3> QED
      BY <3>1 DEF Dto!CreateUserRequestDto, Minimal, Required, Dto!Email, Dto!Text
  <2> QED
    BY <2>1, <2>2
<1>3. {"email", "password"} \subseteq DOMAIN body
  BY <1>2 DEF Minimal
<1>4. /\ DOMAIN row = DOMAIN body /\ row["password"] = Hash
      /\ \A f \in DOMAIN body \ {"password"} : row[f] = body[f]
  BY <1>3 DEF UserRow
<1>5. Table!Storable(Table!User["password"], row["password"])
  <2>1. Hash # Null
    <3>1. Hash \in Contents
      BY DEF Hash, Contents, Dto!Forms
    <3> QED
      BY <3>1, RequestConstants
  <2> QED
    BY <1>4, <2>1 DEF Table!Storable, Table!User, Table!Nullable, Hash
<1>6. \A f \in DOMAIN body \ {"email", "password"} : Table!Storable(Table!User[f], row[f])
  <2> TAKE f \in DOMAIN body \ {"email", "password"}
  <2>1. f \in DOMAIN dto
    BY <1>2
  <2>2. /\ WithinColumn(dto[f], Table!User[f])
        /\ dto[f].optional => Table!User[f].nullable
    BY <2>1, UserColumns
  <2>3. Table!Storable(Table!User[f], body[f]) <=> (body[f] = Null => Table!User[f].nullable)
    BY <2>2, FieldStored
  <2>4. body[f] = Null => dto[f].optional
    BY DEF Minimal
  <2> QED
    BY <1>4, <2>2, <2>3, <2>4
<1>7. /\ body["email"] # Null /\ body["email"].type = "string" /\ body["email"].size \in Int
      /\ field # "email" => body["email"].size <= 255
  <2>1. body["email"] # Null
    BY <1>2, <1>3 DEF Minimal, Required
  <2>2. Dto!Fits(Dto!Email, body["email"])
    BY <1>2, <1>3, <2>1 DEF Minimal
  <2>3. field # "email" => body["email"].size = IF Dto!Email.min < 0 THEN 0 ELSE Dto!Email.min
    BY <1>2, <1>3 DEF Minimal
  <2> QED
    BY <2>1, <2>2, <2>3, SMT DEF Dto!Fits, Dto!Email, Dto!Text
<1>8. Table!Storable(Table!User["email"], row["email"]) <=> body["email"].size <= 255
  BY <1>3, <1>4, <1>7 DEF Table!Storable, Table!User, Table!Column
<1>9. RefusedColumns(route, body) # {} <=> field = "email" /\ ~(body["email"].size <= 255)
  <2>1. \A f \in DOMAIN body : f \in DOMAIN Table!User
    BY <1>2, UserColumns DEF Table!User, UserFields
  <2> QED
    BY <1>1, <1>3, <1>4, <1>5, <1>6, <1>7, <1>8, <2>1 DEF Table!Refusing
<1>10. Excepted(route, field, body) <=> field = "email" /\ ~(body["email"].size <= 255)
  <2>1. /\ ~NoNull(route, field, body) /\ ~OutOfRange(route, body)
        /\ ~NotThere(route, field, body)
    BY DEF NoNull, NotNull, OutOfRange, NotThere
  <2>2. /\ DOMAIN Narrower[route] = {"email"} /\ Narrower[route]["email"] = 255
    BY DEF Narrower
  <2>3. TooLong(route, field, body) <=> field = "email" /\ ~(body["email"].size <= 255)
    BY <1>3, <1>7, <2>2 DEF TooLong, Text, Given
  <2> QED
    BY <2>1, <2>3 DEF Excepted
<1> QED
  BY <1>9, <1>10 DEF Fitting

LEMMA ProjectColumns ==
  ASSUME NEW route \in {"createProject", "updateProject"}, NEW f \in DOMAIN Classes[route]
  PROVE  /\ f \in {"name", "description", "url", "domain", "isPublic", "settings"}
         /\ f \in DOMAIN Table!Project
         /\ WithinColumn(Classes[route][f], Table!Project[f])
         /\ ~Table!Project[f].nullable <=> f \in {"name", "isPublic"}
         /\ route = "createProject" /\ f \in {"name", "isPublic"} => ~Classes[route][f].optional
<1>1. CASE route = "createProject"
  <2>1. Classes[route] = Dto!CreateProjectRequestDto
    BY <1>1 DEF Classes
  <2> QED
    BY <1>1, <2>1 DEF Dto!CreateProjectRequestDto, Dto!Text, Dto!Opt, Dto!Link, Dto!Other,
                      Table!Project, Table!Column, Table!Nullable, Table!Text, Table!Wide,
                      Dto!BodyLimit, WithinColumn, Types
<1>2. CASE route = "updateProject"
  <2>1. Classes[route] = Dto!UpdateProjectRequestDto
    BY <1>2 DEF Classes
  <2> QED
    BY <1>2, <2>1 DEF Dto!UpdateProjectRequestDto, Dto!Text, Dto!Opt, Dto!Link, Dto!Other,
                      Table!Project, Table!Column, Table!Nullable, Table!Text, Table!Wide,
                      Dto!BodyLimit, WithinColumn, Types
<1> QED
  BY <1>1, <1>2

LEMMA ProjectFits ==
  ASSUME NEW field \in DOMAIN Classes["createProject"], NEW body,
         Minimal(Classes["createProject"], body, field)
  PROVE  Fitting("createProject", field, body)
<1> DEFINE dto == Classes["createProject"]
<1>1. RefusedColumns("createProject", body) = Table!Refusing(Table!Project, body)
  BY DEF RefusedColumns
<1>2. \A f \in DOMAIN body : Table!Storable(Table!Project[f], body[f])
  <2> TAKE f \in DOMAIN body
  <2>1. f \in DOMAIN dto
    BY DEF Minimal, Required
  <2>2. body[f] = Null => dto[f].optional
    BY DEF Minimal
  <2> QED
    BY <2>1, <2>2, ProjectColumns, FieldStored
<1>3. ~Excepted("createProject", field, body)
  BY DEF Excepted, TooLong, NoNull, NotThere, OutOfRange, Narrower, NotNull
<1> QED
  BY <1>1, <1>2, <1>3 DEF Fitting, Table!Refusing

LEMMA UpdateFits ==
  ASSUME NEW route \in {"updateUser", "updateProject"}, NEW field \in DOMAIN Classes[route],
         NEW body, Minimal(Classes[route], body, field)
  PROVE  Fitting(route, field, body)
<1> DEFINE table == IF route = "updateUser" THEN Table!User ELSE Table!Project
<1>1. DOMAIN body \subseteq {field}
  BY UpdateFields DEF Minimal, Required
<1>2. RefusedColumns(route, body) = Table!Refusing(table, body)
  <2>1. route = "updateUser" => UserRow(body) = body
    BY <1>1, UserColumns DEF UserRow
  <2> QED
    BY <2>1 DEF RefusedColumns
<1>3. /\ field \in DOMAIN table
      /\ WithinColumn(Classes[route][field], table[field])
      /\ ~table[field].nullable <=> field \in NotNull[route]
  <2>1. CASE route = "updateUser"
    <3>1. table = Table!User /\ NotNull[route] = {"username", "role", "status"}
      BY <2>1 DEF NotNull
    <3>2. UserFields \subseteq DOMAIN Table!User
      BY DEF Table!User, UserFields
    <3> QED
      BY <2>1, <3>1, <3>2, UserColumns
  <2>2. CASE route = "updateProject"
    <3>1. table = Table!Project /\ NotNull[route] = {"name", "isPublic"}
      BY <2>2 DEF NotNull
    <3> QED
      BY <2>2, <3>1, ProjectColumns
  <2> QED
    BY <2>1, <2>2
<1> HIDE DEF table
<1>4. RefusedColumns(route, body) # {}
        <=> field \in DOMAIN body /\ ~Table!Storable(table[field], body[field])
  BY <1>1, <1>2, <1>3 DEF Table!Refusing
<1>5. field \in DOMAIN body =>
        (Table!Storable(table[field], body[field]) <=> (body[field] = Null => table[field].nullable))
  BY <1>3, FieldStored
<1>6. Excepted(route, field, body)
        <=> field \in DOMAIN body /\ body[field] = Null /\ field \in NotNull[route]
  BY DEF Excepted, TooLong, NoNull, NotThere, OutOfRange, Narrower, NotNull, Given
<1> QED
  BY <1>3, <1>4, <1>5, <1>6 DEF Fitting

LEMMA MutationFits ==
  ASSUME NEW field \in DOMAIN Classes["mutation"], NEW body,
         Minimal(Classes["mutation"], body, field)
  PROVE  Fitting("mutation", field, body)
<1> DEFINE dto == Classes["mutation"]  row == MutationRow(body)  time == body["timestamp"]
          user == body["profileID"]
<1>1. dto = Dto!CreateMutationDto
  BY DEF Classes
<1>2. {"timestamp", "profileID"} \subseteq Required(dto)
  BY <1>1 DEF Dto!CreateMutationDto, Required, Dto!AnyNumber, Dto!Number, Dto!AnyText, Dto!Text
<1>3. time \in Contents
  BY <1>2 DEF Minimal, Required
<1>a. /\ "profileID" \in DOMAIN body /\ user # Null
      /\ user.type = "string" /\ user.size \in Int
      /\ field # "profileID" => user.size = 0
  <2>1. "profileID" \in DOMAIN body /\ user # Null
    BY <1>2 DEF Minimal, Required
  <2>2. dto["profileID"] = Dto!Text(0, Dto!BodyLimit, Dto!Forms)
    BY <1>1 DEF Dto!CreateMutationDto, Dto!AnyText
  <2>3. Dto!Fits(dto["profileID"], user)
    BY <2>1 DEF Minimal
  <2>4. field # "profileID" => user.size = 0
    BY <2>1, <2>2 DEF Minimal, Dto!Text
  <2> QED
    BY <2>1, <2>2, <2>3, <2>4 DEF Dto!Fits, Dto!Text, Dto!BodyLimit
<1>4. /\ row["timestamp"] \in Contents /\ row["timestamp"].type = "time"
      /\ row["timestamp"].form = time.form
  BY <1>3 DEF MutationRow, Contents
<1>5. row["metadata"] \in Contents /\ row["metadata"].type = "object"
  BY DEF MutationRow, Made, Contents, Dto!Forms
<1>6. DOMAIN row = {"userId", "metadata", "timestamp"} /\ row["userId"] = user
  BY DEF MutationRow
<1> HIDE DEF row, user
<1>7. /\ Table!Storable(Table!Mutation["metadata"], row["metadata"])
      /\ Table!Storable(Table!Mutation["timestamp"], row["timestamp"]) <=> time.form = "moment"
      /\ Table!Storable(Table!Mutation["userId"], row["userId"]) <=> user.size <= KeyLength
  <2>1. /\ Table!Storable(Table!Mutation["metadata"], row["metadata"])
        /\ Table!Storable(Table!Mutation["timestamp"], row["timestamp"]) <=> time.form = "moment"
    BY <1>4, <1>5, RequestConstants DEF Table!Storable
  <2>2. Table!Storable(Table!Mutation["userId"], row["userId"]) <=> user.size <= KeyLength
    BY <1>a, <1>6 DEF Table!Storable, Table!Mutation, Table!Column
  <2> QED
    BY <2>1, <2>2
<1>8. RefusedColumns("mutation", body) = Table!Refusing(Table!Mutation, row)
  BY DEF RefusedColumns, row
<1>9. RefusedColumns("mutation", body) # {} <=> time.form # "moment" \/ ~(user.size <= KeyLength)
  BY <1>6, <1>7, <1>8 DEF Table!Refusing, Table!Mutation
<1>10. Excepted("mutation", field, body)
         <=> time.form # "moment" \/ (field = "profileID" /\ ~(user.size <= KeyLength))
  <2>1. ~NoNull("mutation", field, body) /\ ~NotThere("mutation", field, body)
    BY DEF NoNull, NotNull, NotThere
  <2>2. DOMAIN Narrower["mutation"] = {"profileID"} /\ Narrower["mutation"]["profileID"] = KeyLength
    BY DEF Narrower
  <2>3. TooLong("mutation", field, body) <=> field = "profileID" /\ ~(user.size <= KeyLength)
    BY <1>a, <2>2, RequestConstants DEF TooLong, Text, Given, user
  <2> QED
    BY <2>1, <2>3 DEF Excepted, OutOfRange
<1>11. field # "profileID" => user.size <= KeyLength
  BY <1>a, RequestConstants
<1> QED
  BY <1>9, <1>10, <1>11 DEF Fitting

AnyText(rule) == rule.type = "string" /\ rule.min = 0 /\ rule.max \in Int

\* Of a body nothing is checked of, a field has its type, and only one may be
\* null, too long, or missing though it is required.
Loose(dto, body, field) ==
    /\ \A f \in DOMAIN dto : dto[f] \in Rules
    /\ DOMAIN body \subseteq DOMAIN dto
    /\ \A f \in DOMAIN body :
         body[f] \in Contents \cup {Null} /\ (body[f] # Null => body[f].type = dto[f].type)
    /\ \A f \in DOMAIN dto \ {field} :
         IF dto[f].optional THEN f \notin DOMAIN body
         ELSE /\ f \in DOMAIN body /\ body[f] # Null
              /\ body[f].size = IF dto[f].min < 0 THEN 0 ELSE dto[f].min

LEMMA LooseBody ==
  ASSUME NEW route \in Unchecked, NEW field \in DOMAIN Classes[route],
         NEW value \in Sendable(route, field), NEW body, body = BodyWith(route, field, value)
  PROVE  Loose(Classes[route], body, field)
<1> DEFINE dto == Classes[route]
<1>1. route \in Routes
  BY DEF Unchecked, Routes
<1>2. \A f \in DOMAIN dto : dto[f] \in Rules
  BY <1>1, ClassesAreRules
<1>3. /\ Required(dto) \ {field} \subseteq DOMAIN body
      /\ DOMAIN body \subseteq Required(dto) \cup {field}
      /\ \A f \in DOMAIN body : body[f] \in Contents \cup {Null}
      /\ \A f \in DOMAIN body \ {field} : body[f] = Sample(dto[f])
      /\ field \in DOMAIN body => body[field] = value
  BY <1>1, BodyFields
<1>4. field \in DOMAIN body /\ value # Null => value.type = dto[field].type
  <2>1. field \in DOMAIN body => value # None
    BY DEF BodyWith
  <2> QED
    BY <2>1 DEF Sendable
<1>5. \A f \in DOMAIN body \ {field} :
        /\ body[f] # Null /\ body[f].type = dto[f].type
        /\ body[f].size = IF dto[f].min < 0 THEN 0 ELSE dto[f].min
  BY <1>2, <1>3, Samples DEF Required
<1>6. \A f \in DOMAIN dto \ {field} : IF dto[f].optional THEN f \notin DOMAIN body ELSE f \in DOMAIN body
  BY <1>3 DEF Required
<1> HIDE DEF dto
<1> QED
  BY <1>2, <1>3, <1>4, <1>5, <1>6 DEF dto, Loose, Required

\* A text of such a body.
LEMMA LooseText ==
  ASSUME NEW dto, NEW body, NEW field, Loose(dto, body, field), NEW f \in DOMAIN dto,
         AnyText(dto[f])
  PROVE  /\ Given(body, f) # Null => Given(body, f).type = "string" /\ Given(body, f).size \in Int
         /\ field # f /\ dto[f].optional => Given(body, f) = Null
         /\ field # f /\ ~dto[f].optional => /\ f \in DOMAIN body
                                             /\ Given(body, f) # Null /\ Given(body, f).size = 0
<1>1. f \in DOMAIN body /\ body[f] # Null => body[f].type = "string" /\ body[f].size \in Int
  BY DEF Loose, AnyText, Contents
<1>2. field # f /\ ~dto[f].optional => f \in DOMAIN body /\ body[f] # Null /\ body[f].size = 0
  BY DEF Loose, AnyText
<1>3. field # f /\ dto[f].optional => f \notin DOMAIN body
  BY DEF Loose
<1> QED
  BY <1>1, <1>2, <1>3 DEF Given

LEMMA ThreadFits ==
  ASSUME NEW field \in DOMAIN Classes["commentThread"], NEW body,
         Loose(Classes["commentThread"], body, field)
  PROVE  Fitting("commentThread", field, body)
<1> DEFINE dto == Classes["commentThread"]  row == ThreadRow(body)
          d == Given(body, "deploymentUrl")
          page == Given(body, "page")  title == Given(body, "pageTitle")
<1>1. /\ {"deploymentUrl", "page", "pageTitle"} \subseteq DOMAIN dto
      /\ \A f \in {"deploymentUrl", "page", "pageTitle"} :
           AnyText(dto[f]) /\ (dto[f].optional <=> f = "deploymentUrl")
  BY DEF Classes, Dto!CreateCommentThreadDto, Dto!AnyText, Dto!Text, Dto!Opt, Dto!BodyLimit, AnyText
<1>2. /\ page # Null => page.type = "string" /\ page.size \in Int
      /\ field # "page" => page # Null /\ page.size = 0
  BY <1>1, LooseText
<1>3. /\ title # Null => title.type = "string" /\ title.size \in Int
      /\ field # "pageTitle" => title # Null /\ title.size = 0
  BY <1>1, LooseText
<1>4. /\ d # Null => d.type = "string" /\ d.size \in Int
      /\ field # "deploymentUrl" => d = Null
  BY <1>1, LooseText
<1>5. /\ DOMAIN row = {"url", "pageTitle"} /\ row["pageTitle"] = title
      /\ row["url"] = IF d = Null \/ d.size = 0 THEN page ELSE d
  BY DEF ThreadRow, Or
<1> HIDE DEF row, d, page, title
<1>6. /\ Table!Storable(Table!CommentThread["url"], row["url"])
           <=> IF d = Null \/ d.size = 0 THEN page = Null \/ page.size <= 500 ELSE d.size <= 500
      /\ Table!Storable(Table!CommentThread["pageTitle"], row["pageTitle"])
           <=> title = Null \/ title.size <= 255
  BY <1>2, <1>3, <1>4, <1>5 DEF Table!Storable, Table!CommentThread, Table!Nullable
<1>7. RefusedColumns("commentThread", body) = Table!Refusing(Table!CommentThread, row)
  BY DEF RefusedColumns, row
<1>8. RefusedColumns("commentThread", body) # {}
        <=> \/ ~IF d = Null \/ d.size = 0 THEN page = Null \/ page.size <= 500 ELSE d.size <= 500
            \/ ~(title = Null \/ title.size <= 255)
  BY <1>5, <1>6, <1>7 DEF Table!Refusing, Table!CommentThread
<1>9. Excepted("commentThread", field, body)
        <=> \/ field = "page" /\ page # Null /\ page.size > 500
            \/ field = "deploymentUrl" /\ d # Null /\ d.size > 500
            \/ field = "pageTitle" /\ title # Null /\ title.size > 255
  <2>1. /\ ~NoNull("commentThread", field, body) /\ ~OutOfRange("commentThread", body)
        /\ ~NotThere("commentThread", field, body)
    BY DEF NoNull, NotNull, OutOfRange, NotThere
  <2>2. /\ DOMAIN Narrower["commentThread"] = {"page", "deploymentUrl", "pageTitle"}
        /\ Narrower["commentThread"]["page"] = 500
        /\ Narrower["commentThread"]["deploymentUrl"] = 500
        /\ Narrower["commentThread"]["pageTitle"] = 255
    BY DEF Narrower
  <2> QED
    BY <1>2, <1>3, <1>4, <2>1, <2>2 DEF Excepted, TooLong, Text, page, title, d
<1> QED
  BY <1>2, <1>3, <1>4, <1>8, <1>9 DEF Fitting

LEMMA CommentFits ==
  ASSUME NEW field \in DOMAIN Classes["firstComment"], NEW body,
         Loose(Classes["firstComment"], body, field)
  PROVE  Fitting("firstComment", field, body)
<1> DEFINE dto == Classes["firstComment"]  row == CommentRow(body)
          sha == Given(body, "commitSha")  href == Given(body, "href")  text == Given(body, "text")
          id == Given(body, "deployment")
          local == IF "leftOnLocalhost" \in DOMAIN body THEN body["leftOnLocalhost"]
                   ELSE Made("boolean")
<1>1. /\ {"commitSha", "href", "text", "deployment", "body", "images", "leftOnLocalhost"}
           \subseteq DOMAIN dto
      /\ \A f \in {"commitSha", "href", "text", "deployment"} :
           AnyText(dto[f]) /\ (dto[f].optional <=> f # "text")
      /\ dto["body"].type = "array" /\ dto["images"].type = "array"
      /\ dto["leftOnLocalhost"].type = "boolean" /\ ~dto["leftOnLocalhost"].optional
  BY DEF Classes, Dto!FirstCommentDto, Dto!AnyText, Dto!Text, Dto!Opt, Dto!Other, Dto!BodyLimit,
         AnyText
<1>2. /\ text # Null => text.type = "string" /\ text.size \in Int
      /\ field # "text" => text # Null /\ text.size = 0
  BY <1>1, LooseText
<1>3. /\ sha # Null => sha.type = "string" /\ sha.size \in Int
      /\ field # "commitSha" => sha = Null
  BY <1>1, LooseText
<1>4. /\ href # Null => href.type = "string" /\ href.size \in Int
      /\ field # "href" => href = Null
  BY <1>1, LooseText
<1>5. /\ id # Null => id.type = "string" /\ id.size \in Int
      /\ field # "deployment" => id = Null
  BY <1>1, LooseText
<1>6. \A f \in {"body", "images"} : Given(body, f) # Null => Given(body, f).type = "array"
  BY <1>1 DEF Loose, Given
<1>7. /\ local # Null => local.type = "boolean"
      /\ local = Null <=> "leftOnLocalhost" \in DOMAIN body /\ body["leftOnLocalhost"] = Null
      /\ local = Null => field = "leftOnLocalhost"
  <2>1. Made("boolean") \in Contents /\ Made("boolean").type = "boolean"
    BY DEF Made, Contents, Dto!Forms
  <2>2. Made("boolean") # Null
    BY <2>1, RequestConstants
  <2>3. "leftOnLocalhost" \in DOMAIN body /\ body["leftOnLocalhost"] # Null
          => body["leftOnLocalhost"].type = "boolean"
    BY <1>1 DEF Loose
  <2>4. field # "leftOnLocalhost" => body["leftOnLocalhost"] # Null
    BY <1>1 DEF Loose
  <2> QED
    BY <2>1, <2>2, <2>3, <2>4
<1>8. /\ DOMAIN row = {"body", "content", "images", "commitSha", "href", "leftOnLocalhost",
                       "deploymentId", "position"}
      /\ row["body"] = Given(body, "body") /\ row["images"] = Given(body, "images")
      /\ row["leftOnLocalhost"] = local /\ row["position"] = Made("object")
      /\ row["content"] = text /\ row["commitSha"] = sha /\ row["href"] = href
      /\ row["deploymentId"] = IF id = Null \/ id.size = 0 THEN Null ELSE id
  BY DEF CommentRow, Or
<1> HIDE DEF row, sha, href, text, id, local
<1>9. \A f \in {"body", "images", "position"} : Table!Storable(Table!Comment[f], row[f])
  <2>1. Made("object") # Null /\ Made("object").type = "object"
    <3>1. Made("object") \in Contents
      BY DEF Made, Contents, Dto!Forms
    <3> QED
      BY <3>1, RequestConstants DEF Made
  <2>2. Table!Comment["body"].nullable /\ Table!Comment["images"].nullable
    BY DEF Table!Comment, Table!Nullable
  <2> QED
    BY <1>6, <1>8, <2>1, <2>2 DEF Table!Storable
<1>10. Table!Storable(Table!Comment["leftOnLocalhost"], row["leftOnLocalhost"]) <=> local # Null
  BY <1>7, <1>8 DEF Table!Storable, Table!Comment, Table!Column
<1>11. Table!Storable(Table!Comment["content"], row["content"])
         <=> text # Null /\ text.size <= 65535
  BY <1>2, <1>8 DEF Table!Storable, Table!Comment, Table!Column, Table!Text
<1>12. /\ Table!Storable(Table!Comment["commitSha"], row["commitSha"]) <=> sha = Null \/ sha.size <= 40
       /\ Table!Storable(Table!Comment["href"], row["href"]) <=> href = Null \/ href.size <= 500
  BY <1>3, <1>4, <1>8 DEF Table!Storable, Table!Comment, Table!Nullable
<1>13. Table!Storable(Table!Comment["deploymentId"], row["deploymentId"])
         <=> id = Null \/ id.size <= KeyLength
  BY <1>5, <1>8, RequestConstants DEF Table!Storable, Table!Comment, Table!Nullable
<1>14. RefusedColumns("firstComment", body) = Table!Refusing(Table!Comment, row)
  BY DEF RefusedColumns, row
<1>15. RefusedColumns("firstComment", body) # {}
         <=> \/ ~(text # Null /\ text.size <= 65535) \/ local = Null
             \/ ~(sha = Null \/ sha.size <= 40) \/ ~(href = Null \/ href.size <= 500)
             \/ ~(id = Null \/ id.size <= KeyLength)
  <2>1. DOMAIN Table!Comment = DOMAIN row
    BY <1>8 DEF Table!Comment
  <2> QED
    BY <1>8, <1>9, <1>10, <1>11, <1>12, <1>13, <1>14, <2>1 DEF Table!Refusing
<1>16. Excepted("firstComment", field, body)
         <=> \/ field = "text" /\ (text = Null \/ text.size > 65535)
             \/ field = "commitSha" /\ sha # Null /\ sha.size > 40
             \/ field = "href" /\ href # Null /\ href.size > 500
             \/ field = "deployment" /\ id # Null /\ id.size > KeyLength
             \/ field = "leftOnLocalhost" /\ local = Null
  <2>1. ~OutOfRange("firstComment", body)
    BY DEF OutOfRange
  <2>2. /\ DOMAIN Narrower["firstComment"] = {"commitSha", "href", "text", "deployment"}
        /\ Narrower["firstComment"]["commitSha"] = 40
        /\ Narrower["firstComment"]["href"] = 500
        /\ Narrower["firstComment"]["text"] = 65535
        /\ Narrower["firstComment"]["deployment"] = KeyLength
    BY DEF Narrower
  <2>3. TooLong("firstComment", field, body)
          <=> \/ field = "text" /\ text # Null /\ text.size > 65535
              \/ field = "commitSha" /\ sha # Null /\ sha.size > 40
              \/ field = "href" /\ href # Null /\ href.size > 500
              \/ field = "deployment" /\ id # Null /\ id.size > KeyLength
    BY <1>2, <1>3, <1>4, <1>5, <2>2 DEF TooLong, Text, text, sha, href, id
  <2>4. NoNull("firstComment", field, body) \/ NotThere("firstComment", field, body)
          <=> \/ field = "text" /\ text = Null
              \/ field = "leftOnLocalhost" /\ local = Null
    BY <1>7 DEF NoNull, NotNull, NotThere, Given, text
  <2> QED
    BY <2>1, <2>3, <2>4 DEF Excepted
<1>17. text # Null => text.size \in Int
  BY <1>2
<1> QED
  BY <1>2, <1>3, <1>4, <1>5, <1>7, <1>15, <1>16, RequestConstants DEF Fitting

\* Whatever is sent in one field, what the pipe accepts is refused by a table only
\* in the cases the property names.
THEOREM RequestsAcceptedFits == RequestsSpec => []AcceptedFits
<1>1. RequestsInit => BodyAsked
  BY DEF RequestsInit, Init, BodyAsked
<1>2. BodyAsked => AcceptedFits
  <2> SUFFICES ASSUME BodyAsked, subject = "bodies", asked # None,
                      PipeAccepts(asked.route, asked.body)
               PROVE  Fitting(asked.route, asked.field, asked.body)
    BY DEF AcceptedFits, Fitting, Excepted, TooLong, NoNull, NotThere, OutOfRange, Narrower, NotNull
  <2>1. PICK route \in Routes : \E field \in DOMAIN Classes[route] :
               \E value \in Sendable(route, field) :
                 asked = [route |-> route, field |-> field, body |-> BodyWith(route, field, value)]
    BY DEF BodyAsked
  <2>2. PICK field \in DOMAIN Classes[route] : \E value \in Sendable(route, field) :
               asked = [route |-> route, field |-> field, body |-> BodyWith(route, field, value)]
    BY <2>1
  <2>3. PICK value \in Sendable(route, field) :
               asked = [route |-> route, field |-> field, body |-> BodyWith(route, field, value)]
    BY <2>2
  <2>4. /\ asked.route = route /\ asked.field = field
        /\ asked.body = BodyWith(route, field, value)
    BY <2>3
  <2>5. CASE route \in Unchecked
    <3>1. Loose(Classes[route], asked.body, field)
      BY <2>4, <2>5, LooseBody
    <3> QED
      BY <2>4, <2>5, <3>1, ThreadFits, CommentFits DEF Unchecked
  <2>6. CASE route \notin Unchecked
    <3>1. Minimal(Classes[route], asked.body, field)
      BY <2>4, <2>6, AcceptedBody DEF PipeAccepts
    <3> QED
      BY <2>4, <2>6, <3>1, NewUserFits, ProjectFits, UpdateFits, MutationFits DEF Routes, Unchecked
  <2> QED
    BY <2>5, <2>6
<1> QED
  BY <1>1, <1>2, BodyAskedKept, PTL DEF RequestsSpec

\* Of all bodies that keep to their class, the handlers refuse exactly those the
\* property names.
THEOREM RequestsClassThenHandler == RequestsSpec => []ClassThenHandler
<1>1. RequestsInit => BodyAsked
  BY DEF RequestsInit, Init, BodyAsked
<1>2. BodyAsked => ClassThenHandler
  <2> SUFFICES ASSUME BodyAsked, subject = "bodies", asked # None,
                      Dto!Accepts(Classes[asked.route], asked.body)
               PROVE  ClassThenHandler
    BY DEF ClassThenHandler
  <2> DEFINE route == asked.route  body == asked.body
  <2>1. route \in Routes /\ BodyOf(route, body)
    <3>1. PICK r \in Routes : \E field \in DOMAIN Classes[r] : \E value \in Sendable(r, field) :
                 asked = [route |-> r, field |-> field, body |-> BodyWith(r, field, value)]
      BY DEF BodyAsked
    <3>2. route = r /\ \E field \in DOMAIN Classes[r] : \E value \in Sendable(r, field) :
                         body = BodyWith(r, field, value)
      BY <3>1
    <3> QED
      BY <3>2 DEF BodyOf
  <2>2. Dto!Accepts(Classes[route], body)
    OBVIOUS
  <2> HIDE DEF route, body
  <2>3. CASE route \in {"register", "createUser"}
    BY <2>1, <2>2, <2>3, ClassThenUser DEF ClassThenHandler, Size, route, body
  <2>4. CASE route = "createProject"
    BY <2>1, <2>2, <2>4, ClassThenProject DEF ClassThenHandler, Size, route, body
  <2>5. CASE route = "commentThread"
    BY <2>1, <2>2, <2>5, ClassThenThread, Zenon DEF ClassThenHandler, Size, route, body
  <2>6. CASE route = "firstComment"
    <3>1. Mutation!validateFirstComment(
            [body |-> Size(body, "body"), text |-> Size(body, "text")]) = {}
            <=> /\ Size(body, "body") = None \/ Size(body, "body") <= 5000
                /\ Size(body, "text") = None \/ Size(body, "text") <= 1000
      BY <2>1, <2>2, <2>6, ClassThenComment
    <3> QED
      BY <2>6, <3>1 DEF ClassThenHandler, Size, route, body
  <2>7. CASE route \in {"updateUser", "updateProject", "mutation"}
    BY <2>7 DEF ClassThenHandler, route
  <2> QED
    BY <2>1, <2>3, <2>4, <2>5, <2>6, <2>7 DEF Routes
<1> QED
  BY <1>1, <1>2, BodyAskedKept, PTL DEF RequestsSpec

-----------------------------------------------------------------------------
(* The segments of a path *)

\* The instance of UrlHandler counts as everyone does.
LEMMA CountedAlike == \A S : Url!Cardinality(S) = Cardinality(S)
  BY Zenon DEF Url!Cardinality, Cardinality

Rank(places, i) == Cardinality({j \in places : j < i})

\* An order of places in which any two of them come one before the other.
StrictOrder(before, places) ==
    /\ \A i \in places : <<i, i>> \notin before
    /\ \A i, j, k \in places : <<i, j>> \in before /\ <<j, k>> \in before => <<i, k>> \in before
    /\ \A i, j \in places : i # j => <<i, j>> \in before \/ <<j, i>> \in before

RankBy(before, places, i) == Cardinality({j \in places : <<j, i>> \in before})

\* The ranks of finitely many places are as the places are, and each is taken.
LEMMA Ranking ==
  ASSUME NEW places, IsFiniteSet(places), NEW before, StrictOrder(before, places)
  PROVE  /\ \A i \in places : RankBy(before, places, i) \in 0..(Cardinality(places) - 1)
         /\ \A i, k \in places :
              <<i, k>> \in before => RankBy(before, places, i) < RankBy(before, places, k)
         /\ \A n \in 1..Cardinality(places) : \E i \in places : RankBy(before, places, i) = n - 1
<1> DEFINE size == Cardinality(places)
          Earlier(i) == {j \in places : <<j, i>> \in before}
          rank == [i \in places |-> RankBy(before, places, i)]
<1>1. size \in Nat
  BY FS_CardinalityType
<1>2. ASSUME NEW i \in places
      PROVE  RankBy(before, places, i) \in 0..(size - 1)
  <2>1. Earlier(i) \in SUBSET (places \ {i})
    BY DEF StrictOrder
  <2>2. IsFiniteSet(places \ {i}) /\ Cardinality(places \ {i}) = size - 1
    BY FS_RemoveElement
  <2>3. IsFiniteSet(Earlier(i)) /\ Cardinality(Earlier(i)) <= size - 1
    BY <2>1, <2>2, FS_Subset
  <2> QED
    BY <2>3, <1>1, FS_CardinalityType DEF RankBy
<1>3. ASSUME NEW i \in places, NEW k \in places, <<i, k>> \in before
      PROVE  RankBy(before, places, i) < RankBy(before, places, k)
  <2>1. Earlier(i) \in SUBSET (Earlier(k) \ {i})
    BY <1>3 DEF StrictOrder
  <2>2. IsFiniteSet(Earlier(k))
    <3>1. Earlier(k) \in SUBSET places
      OBVIOUS
    <3> QED
      BY <3>1, FS_Subset
  <2>3. i \in Earlier(k)
    BY <1>3
  <2> HIDE DEF Earlier
  <2>4. /\ IsFiniteSet(Earlier(k) \ {i}) /\ Cardinality(Earlier(k) \ {i}) = Cardinality(Earlier(k)) - 1
        /\ Cardinality(Earlier(k)) \in Nat
    BY <2>2, <2>3, FS_RemoveElement, FS_CardinalityType
  <2>5. IsFiniteSet(Earlier(i)) /\ Cardinality(Earlier(i)) <= Cardinality(Earlier(k)) - 1
    BY <2>1, <2>4, FS_Subset
  <2>6. Cardinality(Earlier(i)) \in Nat
    BY <2>5, FS_CardinalityType
  <2>7. Cardinality(Earlier(i)) < Cardinality(Earlier(k))
    BY <2>4, <2>5, <2>6, SMT
  <2> QED
    BY <2>7 DEF Earlier, RankBy
<1>4. rank \in Injection(places, 0..(size - 1))
  <2>1. rank \in [places -> 0..(size - 1)]
    BY <1>2
  <2>2. \A i, k \in places : rank[i] = rank[k] => i = k
    <3>1. SUFFICES ASSUME NEW i \in places, NEW k \in places, i # k
                   PROVE  rank[i] # rank[k]
      OBVIOUS
    <3>2. <<i, k>> \in before \/ <<k, i>> \in before
      BY <3>1 DEF StrictOrder
    <3>3. rank[i] < rank[k] \/ rank[k] < rank[i]
      BY <1>3, <3>2
    <3>4. rank[i] \in Int /\ rank[k] \in Int
      BY <1>2
    <3> HIDE DEF rank
    <3> QED
      BY <3>3, <3>4
  <2> QED
    BY <2>1, <2>2 DEF Injection, IsInjective
<1>5. IsFiniteSet(0..(size - 1)) /\ Cardinality(0..(size - 1)) = size
  <2>1. Cardinality(0..(size - 1)) = IF 0 > size - 1 THEN 0 ELSE (size - 1) - 0 + 1
    BY <1>1, FS_Interval
  <2>2. IsFiniteSet(0..(size - 1))
    BY <1>1, FS_Interval
  <2> QED
    BY <1>1, <2>1, <2>2, SMT
<1> HIDE DEF rank
<1>6. rank \in Surjection(places, 0..(size - 1))
  BY <1>4, <1>5, FS_Injection
<1>7. \A n \in 1..size : n - 1 \in 0..(size - 1)
  BY <1>1, SMT
<1>8. \A n \in 1..size : \E i \in places : rank[i] = n - 1
  BY <1>6, <1>7 DEF Surjection
<1> QED
  BY <1>2, <1>3, <1>8 DEF rank

\* Numbers, for one.
LEMMA RankTaken ==
  ASSUME NEW places \in SUBSET Int, IsFiniteSet(places), NEW n \in 1..Cardinality(places)
  PROVE  \E i \in places : Rank(places, i) = n - 1
<1> DEFINE below == {pair \in places \X places : pair[1] < pair[2]}
<1>1. \A i, j \in places : <<i, j>> \in below <=> i < j
  OBVIOUS
<1> HIDE DEF below
<1>2. StrictOrder(below, places)
  <2>1. \A i \in places : <<i, i>> \notin below
    BY <1>1
  <2>2. \A i, j, k \in places : <<i, j>> \in below /\ <<j, k>> \in below => <<i, k>> \in below
    BY <1>1
  <2>3. \A i, j \in places : i # j => <<i, j>> \in below \/ <<j, i>> \in below
    BY <1>1
  <2> QED
    BY <2>1, <2>2, <2>3 DEF StrictOrder
<1>3. \A i \in places : RankBy(below, places, i) = Rank(places, i)
  <2> TAKE i \in places
  <2>1. {j \in places : <<j, i>> \in below} = {j \in places : j < i}
    BY <1>1
  <2> QED
    BY <2>1 DEF RankBy, Rank
<1> QED
  BY <1>2, <1>3, Ranking

\* So what filter() leaves depends on what is at the places alone.
LEMMA FilteredAlike ==
  ASSUME NEW s, NEW t, NEW places \in SUBSET Int, IsFiniteSet(places),
         \A i \in places : s[i] = t[i]
  PROVE  Url!Filtered(s, places) = Url!Filtered(t, places)
<1>1. \A n \in 1..Cardinality(places) : Url!PlaceOf(places, n) \in places
  BY RankTaken, CountedAlike DEF Rank, Url!PlaceOf
<1>2. \A n \in 1..Cardinality(places) : s[Url!PlaceOf(places, n)] = t[Url!PlaceOf(places, n)]
  BY <1>1
<1> QED
  BY <1>2, CountedAlike DEF Url!Filtered

\* The last slash separates no segment from another.
LEMMA SegmentsKept ==
  ASSUME NEW path \in Seq(STRING)
  PROVE  Url!PathSegments(Url!WithoutSlash(path)) = Url!PathSegments(path)
<1> DEFINE n == Len(path)
          once == Url!WithoutSlash(path)
          empty == ""
          Places(p) == {i \in DOMAIN p : p[i] # empty}
<1>1. CASE n > 1 /\ path[n] = empty
  <2>1. once = SubSeq(path, 1, n - 1)
    BY <1>1 DEF Url!WithoutSlash
  <2>2. n \in Nat /\ DOMAIN path = 1..n
    BY LenProperties
  <2>3. DOMAIN once = 1..(n - 1) /\ \A i \in 1..(n - 1) : once[i] = path[i]
    <3>1. \A i \in 1..(n - 1) : path[i] \in STRING
      BY <2>2, ElementOfSeq, SMT
    <3> HIDE DEF n, once, empty
    <3>2. /\ once \in Seq(STRING)
          /\ Len(once) = IF 1 <= n - 1 THEN n - 1 - 1 + 1 ELSE 0
          /\ \A i \in 1..(n - 1 - 1 + 1) : once[i] = path[1 + i - 1]
      BY <2>1, <2>2, <3>1, SubSeqProperties
    <3>3. DOMAIN once = 1..Len(once)
      BY <3>2, LenProperties
    <3>4. Len(once) = n - 1 /\ n - 1 - 1 + 1 = n - 1 /\ \A i \in 1..(n - 1) : 1 + i - 1 = i
      BY <1>1, <2>2, <3>2, SMT
    <3> QED
      BY <3>2, <3>3, <3>4
  <2> HIDE DEF once, n, empty
  <2>4. Places(once) = Places(path)
    <3>1. 1..n = 1..(n - 1) \cup {n}
      BY <1>1, <2>2, SMT
    <3>2. path[n] = empty
      BY <1>1
    <3> QED
      BY <2>2, <2>3, <3>1, <3>2, Zenon
  <2>5. \A i \in Places(path) : once[i] = path[i]
    BY <2>3, <2>4, Zenon
  <2>6. Places(path) \in SUBSET Int /\ IsFiniteSet(Places(path))
    <3>1. IsFiniteSet(1..n) /\ 1..n \in SUBSET Int
      BY <2>2, FS_Interval, SMT
    <3>2. Places(path) \in SUBSET (1..n)
      BY <2>2, Zenon
    <3> QED
      BY <3>1, <3>2, FS_Subset
  <2> HIDE DEF Places
  <2>7. Url!Filtered(once, Places(path)) = Url!Filtered(path, Places(path))
    BY <2>5, <2>6, FilteredAlike
  <2>8. Url!Filtered(once, Places(once)) = Url!Filtered(path, Places(path))
    BY <2>4, <2>7
  <2> QED
    BY <2>8, Zenon DEF Places, once, empty, Url!PathSegments
<1>2. CASE ~(n > 1 /\ path[n] = empty)
  BY <1>2 DEF Url!WithoutSlash
<1> QED
  BY <1>1, <1>2

-----------------------------------------------------------------------------
(* Accepted URLs stay accepted *)

\* What AcceptedStaysAccepted says of a URL and its normal form.
LikeAccepted(u, n) ==
    /\ Url!validateUrl(n).isValid
    /\ Url!extractDomainFromUrl(n) = Url!extractDomainFromUrl(u)
    /\ Url!generateProjectNameFromUrl(n) = Url!generateProjectNameFromUrl(u)
    /\ Url!analyzeUrlPattern(n).estimatedProjectType
         = Url!analyzeUrlPattern(u).estimatedProjectType
    /\ Url!analyzeUrlPattern(n).pathSegments = Url!analyzeUrlPattern(u).pathSegments
    /\ Url!validateUrlSecurity(n).warnings
         \subseteq Url!validateUrlSecurity(u).warnings \ {"protocol"}

LEMMA NormalAccepted ==
  ASSUME NEW u \in UrlRecords, Url!Valid(u)
  PROVE  LikeAccepted(u, Url!normalizeUrl(u))
<1> DEFINE n == Url!normalizeUrl(u)
<1>1. /\ u \notin Unparsable \cup {None} /\ n \notin Unparsable \cup {None}
      /\ n.protocol = IF u.hostname \in Loopback THEN "http:" ELSE "https:"
      /\ n.hostname = u.hostname
      /\ n.path = Url!WithoutSlash(u.path)
  BY NormalForm
<1>2. Url!PathSegments(n.path) = Url!PathSegments(u.path)
  <2>1. u.path \in Seq(STRING)
    BY DEF UrlRecords
  <2> QED
    BY <1>1, <2>1, SegmentsKept
<1>3. Url!Parsed(n).port \in {None, 80, 443} \/ Url!Parsed(n).port = Url!Parsed(u).port
  BY PortAgain DEF NewDefault
<1> HIDE DEF n
<1>4. Url!Valid(n)
  BY <1>1 DEF Url!Valid
<1>5. Url!SecurityWarnings(n) \subseteq Url!SecurityWarnings(u) \ {"protocol"}
  BY <1>1, <1>3 DEF Url!SecurityWarnings
<1>6. Url!validateUrl(n).isValid
  BY <1>4 DEF Url!validateUrl
<1>7. Url!extractDomainFromUrl(n) = Url!extractDomainFromUrl(u)
  BY <1>1 DEF Url!extractDomainFromUrl
<1>8. Url!generateProjectNameFromUrl(n) = Url!generateProjectNameFromUrl(u)
  BY <1>1, <1>2, Zenon DEF Url!generateProjectNameFromUrl
<1>9. /\ Url!analyzeUrlPattern(n).estimatedProjectType
           = Url!analyzeUrlPattern(u).estimatedProjectType
      /\ Url!analyzeUrlPattern(n).pathSegments = Url!analyzeUrlPattern(u).pathSegments
  BY <1>1, <1>2 DEF Url!analyzeUrlPattern
<1>10. /\ Url!validateUrlSecurity(n).warnings = Url!SecurityWarnings(n)
       /\ Url!validateUrlSecurity(u).warnings = Url!SecurityWarnings(u)
  BY <1>1 DEF Url!validateUrlSecurity
<1> QED
  BY <1>5, <1>6, <1>7, <1>8, <1>9, <1>10 DEF LikeAccepted, n

\* Whatever URL UrlHandler accepts, it accepts the normal form it returns, and
\* learns the same of it, with no more warnings.
THEOREM RequestsAcceptedStaysAccepted == RequestsSpec => []AcceptedStaysAccepted
<1>1. RequestsInit => UrlsAsked
  BY DEF RequestsInit, Init, UrlsAsked
<1>2. UrlsAsked => AcceptedStaysAccepted
  <2> SUFFICES ASSUME UrlsAsked, subject = "urls", asked # None,
                      Url!validateUrl(asked[1]).isValid
               PROVE  AcceptedStaysAccepted
    BY DEF AcceptedStaysAccepted
  <2> DEFINE u == asked[1]
  <2>1. Url!Valid(u)
    BY DEF Url!validateUrl
  <2>2. u \in UrlRecords
    BY <2>1, HandlerConstants DEF UrlsAsked, Url!Valid
  <2>3. LikeAccepted(u, Url!normalizeUrl(u))
    BY <2>1, <2>2, NormalAccepted
  <2>4. Url!validateUrl(u).normalizedUrl = Url!normalizeUrl(u)
    BY <2>1 DEF Url!validateUrl
  <2> QED
    BY <2>3, <2>4 DEF AcceptedStaysAccepted, LikeAccepted
<1> QED
  BY <1>1, <1>2, UrlsAskedKept, PTL DEF RequestsSpec

-----------------------------------------------------------------------------
(* A page is of one project *)

LEMMA TwoOfThree ==
  ASSUME NEW s
  PROVE  Url!Filtered(s, {1, 3}) = <<s[1], s[3]>>
<1>1. {j \in {1, 3} : j < 1} = {} /\ {j \in {1, 3} : j < 3} = {1}
  BY SMT
<1>2. Cardinality({}) = 0 /\ Cardinality({1}) = 1 /\ Cardinality({1, 3}) = 2
  <2>1. {1, 3} = {1} \cup {3} /\ 3 \notin {1}
    BY SMT
  <2>2. IsFiniteSet({1}) /\ Cardinality({1}) = 1
    BY FS_Singleton
  <2>3. Cardinality({1} \cup {3}) = IF 3 \in {1} THEN Cardinality({1}) ELSE Cardinality({1}) + 1
    BY <2>2, FS_AddElement
  <2> QED
    BY <2>1, <2>2, <2>3, FS_EmptySet
<1>3. Url!PlaceOf({1, 3}, 1) = 1 /\ Url!PlaceOf({1, 3}, 2) = 3
  <2>1. \A n : Url!PlaceOf({1, 3}, n) =
                 CHOOSE i \in {1, 3} : Cardinality({j \in {1, 3} : j < i}) = n - 1
    BY CountedAlike DEF Url!PlaceOf
  <2>2. \A i \in {1, 3} : Cardinality({j \in {1, 3} : j < i}) = IF i = 1 THEN 0 ELSE 1
    BY <1>1, <1>2
  <2>3. /\ \A i \in {1, 3} : Cardinality({j \in {1, 3} : j < i}) = 1 - 1 <=> i = 1
        /\ \A i \in {1, 3} : Cardinality({j \in {1, 3} : j < i}) = 2 - 1 <=> i = 3
    BY <2>2, SMT
  <2>4. Url!PlaceOf({1, 3}, 1) = 1
    BY <2>1, <2>3, Zenon
  <2>5. Url!PlaceOf({1, 3}, 2) = 3
    BY <2>1, <2>3, Zenon
  <2> QED
    BY <2>4, <2>5
<1>4. Url!Filtered(s, {1, 3}) = [n \in 1..2 |-> s[Url!PlaceOf({1, 3}, n)]]
  BY <1>2, CountedAlike DEF Url!Filtered
<1> QED
  BY <1>3, <1>4

\* What is hashed of URLs among which there is a value that is none.
LEMMA HashedOfThree ==
  ASSUME NEW u, NEW v, u # None, v # None
  PROVE  Url!convertUrlsToProjectIds(<<u, None, v>>).projectIds
           = <<Url!urlToProjectId(u), Url!urlToProjectId(v)>>
<1> DEFINE urls == <<u, None, v>>
          results == [i \in DOMAIN urls |-> Url!convertSingleUrl(urls[i])]
          successful == Url!Filtered(results, {i \in DOMAIN results : results[i].success})
<1>1. /\ DOMAIN results = {1, 2, 3}
      /\ results[1] = Url!convertSingleUrl(u)
      /\ results[2] = Url!convertSingleUrl(None)
      /\ results[3] = Url!convertSingleUrl(v)
  OBVIOUS
<1> HIDE DEF results
<1>2. /\ results[1].success /\ ~results[2].success /\ results[3].success
      /\ results[1].projectId = Url!urlToProjectId(u)
      /\ results[3].projectId = Url!urlToProjectId(v)
  <2>1. \A url : /\ Url!convertSingleUrl(url).success <=> url # None
                 /\ url # None => Url!convertSingleUrl(url).projectId = Url!urlToProjectId(url)
    BY DEF Url!convertSingleUrl
  <2> QED
    BY <1>1, <2>1, Zenon
<1>3. {i \in DOMAIN results : results[i].success} = {1, 3}
  BY <1>1, <1>2
<1>4. successful = <<results[1], results[3]>>
  BY <1>3, TwoOfThree
<1>5. Url!convertUrlsToProjectIds(urls).projectIds
        = [i \in DOMAIN successful |-> successful[i].projectId]
  BY DEF Url!convertUrlsToProjectIds, results
<1> HIDE DEF successful
<1>6. [i \in DOMAIN successful |-> successful[i].projectId]
        = <<results[1].projectId, results[3].projectId>>
  BY <1>4
<1> QED
  BY <1>2, <1>5, <1>6

LEMMA OneProject ==
  ASSUME NEW u \in UrlRecords \cup Unparsable, NEW v \in UrlRecords \cup Unparsable,
         Url!pageToProjectId(u) = Url!pageToProjectId(v)
  PROVE  Url!normalizeUrl(u) = Url!normalizeUrl(v)
<1> DEFINE page(url) == Url!gatewayNormalizeUrl(url)
          Plain(url) == [Url!Parsed(url) EXCEPT !.query = FALSE, !.fragment = FALSE]
<1>1. page(u) = page(v)
  <2>1. \A url : Url!pageToProjectId(url).sha256 = page(url)
    BY DEF Url!pageToProjectId, Url!HashOf
  <2> QED
    BY <2>1
<1>2. \A url \in UrlRecords :
        /\ url \notin Unparsable \cup {None}
        /\ page(url) = Plain(url)
        /\ Plain(url).hostname = url.hostname /\ Plain(url).path = url.path
        /\ Plain(url).port = Url!Parsed(url).port
        /\ Plain(url) \notin Unparsable
  <2> TAKE url \in UrlRecords
  <2>1. url \notin Unparsable \cup {None}
    BY HandlerConstants, NoneIsNone
  <2>2. Url!Parsed(url) \in UrlRecords
    BY DEF UrlRecords, Url!Parsed
  <2>3. Url!Parsed(url).hostname = url.hostname /\ Url!Parsed(url).path = url.path
    BY DEF UrlRecords, Url!Parsed
  <2>4. /\ Plain(url) \in UrlRecords
        /\ Plain(url).hostname = Url!Parsed(url).hostname
        /\ Plain(url).path = Url!Parsed(url).path
        /\ Plain(url).port = Url!Parsed(url).port
    BY <2>2 DEF UrlRecords
  <2> QED
    BY <2>1, <2>3, <2>4, HandlerConstants DEF Url!gatewayNormalizeUrl
<1>3. \A url \in Unparsable : page(url) = url
  BY DEF Url!gatewayNormalizeUrl
<1> HIDE DEF page, Plain
<1>4. CASE u \in Unparsable \/ v \in Unparsable
  BY <1>1, <1>2, <1>3, <1>4
<1>5. CASE u \in UrlRecords /\ v \in UrlRecords
  <2>1. u.hostname = v.hostname /\ u.path = v.path /\ Url!Parsed(u).port = Url!Parsed(v).port
    BY <1>1, <1>2, <1>5
  <2>2. u \notin Unparsable \cup {None} /\ v \notin Unparsable \cup {None}
    BY <1>2, <1>5
  <2> QED
    BY <2>1, <2>2 DEF Url!normalizeUrl
<1> QED
  BY <1>4, <1>5

\* Of any two URLs that the gateway takes for one page, UrlHandler makes one
\* project, alone or among others, and ProjectHandler makes the same.
THEOREM RequestsPageDecidesProject == RequestsSpec => []PageDecidesProject
<1>1. RequestsInit => UrlsAsked
  BY DEF RequestsInit, Init, UrlsAsked
<1>2. UrlsAsked => PageDecidesProject
  <2> SUFFICES ASSUME UrlsAsked, subject = "urls", asked # None,
                      Url!pageToProjectId(asked[1]) = Url!pageToProjectId(asked[2])
               PROVE  PageDecidesProject
    BY DEF PageDecidesProject
  <2> DEFINE u == asked[1]  v == asked[2]
  <2>1. u \in UrlRecords \cup Unparsable /\ v \in UrlRecords \cup Unparsable
    BY HandlerConstants DEF UrlsAsked
  <2>2. u # None /\ v # None
    BY <2>1, NoneIsNone
  <2>3. Url!normalizeUrl(u) = Url!normalizeUrl(v)
    BY <2>1, OneProject
  <2>4. Url!urlToProjectId(u) = Url!urlToProjectId(v)
    BY <2>3 DEF Url!urlToProjectId
  <2>5. Project!generateProjectIdFromUrl(v) = Url!urlToProjectId(v)
    BY DEF Project!generateProjectIdFromUrl, Project!normalizeProjectUrl, Project!normalizeUrl,
           Project!Parsed, Project!DefaultPort, Project!WithoutSlash, Project!HashOf,
           Url!urlToProjectId, Url!normalizeUrl, Url!Parsed, Url!DefaultPort, Url!WithoutSlash,
           Url!HashOf
  <2>6. Url!convertUrlsToProjectIds(<<u, None, v>>).projectIds
          = <<Url!urlToProjectId(u), Project!generateProjectIdFromUrl(v)>>
    BY <2>2, <2>5, HashedOfThree
  <2> QED
    BY <2>4, <2>6 DEF PageDecidesProject
<1> QED
  BY <1>1, <1>2, UrlsAskedKept, PTL DEF RequestsSpec

-----------------------------------------------------------------------------
(* A generated name is made of itself again *)

\* The least and the greatest of finitely many numbers.
LEMMA Extremes ==
  ASSUME NEW S \in SUBSET Int, IsFiniteSet(S), S # {}
  PROVE  /\ User!Min(S) \in S /\ \A i \in S : User!Min(S) <= i
         /\ User!Max(S) \in S /\ \A i \in S : i <= User!Max(S)
<1> DEFINE size == Cardinality(S)
<1>1. size \in Nat \ {0}
  BY FS_CardinalityType, FS_EmptySet
<1>2. PICK least \in S : Rank(S, least) = 1 - 1
  BY <1>1, RankTaken
<1>3. PICK greatest \in S : Rank(S, greatest) = size - 1
  BY <1>1, RankTaken
<1>4. \A i \in S : least <= i
  <2>1. {j \in S : j < least} \in SUBSET S
    OBVIOUS
  <2>2. IsFiniteSet({j \in S : j < least})
    BY <2>1, FS_Subset
  <2>3. {j \in S : j < least} = {}
    BY <1>2, <2>2, FS_EmptySet DEF Rank
  <2> QED
    BY <2>3, SMT
<1>5. \A i \in S : i <= greatest
  <2>1. IsFiniteSet(S \ {greatest}) /\ Cardinality(S \ {greatest}) = size - 1
    BY FS_RemoveElement
  <2>2. {j \in S : j < greatest} \in SUBSET (S \ {greatest})
    BY SMT
  <2>3. S \ {greatest} = {j \in S : j < greatest}
    BY <1>3, <2>1, <2>2, FS_Subset DEF Rank
  <2> QED
    BY <2>3, SMT
<1>6. User!Min(S) \in S /\ \A i \in S : User!Min(S) <= i
  BY <1>4, Zenon DEF User!Min
<1>7. User!Max(S) \in S /\ \A i \in S : User!Max(S) >= i
  <2>1. \A i \in S : greatest >= i
    BY <1>5
  <2> QED
    BY <2>1, Zenon DEF User!Max
<1> QED
  BY <1>6, <1>7

\* A sequence is what its places say.
LEMMA SequenceOf ==
  ASSUME NEW S, NEW text \in Seq(S)
  PROVE  /\ Len(text) \in Nat /\ DOMAIN text = 1..Len(text)
         /\ \A i \in 1..Len(text) : text[i] \in S
         /\ Len(text) = 0 <=> text = <<>>
         /\ IsFiniteSet(DOMAIN text)
BY LenProperties, ElementOfSeq, EmptySeq, FS_Interval

LEMMA PlacesOf ==
  ASSUME NEW S, NEW text \in Seq(S), NEW kept \in SUBSET DOMAIN text
  PROVE  /\ kept \in SUBSET Int /\ IsFiniteSet(kept)
         /\ kept # {} => /\ User!Min(kept) \in kept /\ \A i \in kept : User!Min(kept) <= i
                         /\ User!Max(kept) \in kept /\ \A i \in kept : i <= User!Max(kept)
<1>1. kept \in SUBSET Int
  BY SequenceOf
<1>2. IsFiniteSet(kept)
  BY SequenceOf, FS_Subset
<1> QED
  BY <1>1, <1>2, Extremes

\* What is left of a text without its underscores at the end is left as it is.
LEMMA TailGone ==
  ASSUME NEW text \in Seq(Letters)
  PROVE  /\ User!WithoutTail(text) \in Seq(Letters)
         /\ Len(User!WithoutTail(text)) <= Len(text)
         /\ User!WithoutTail(User!WithoutTail(text)) = User!WithoutTail(text)
<1> DEFINE Kept(t) == {i \in DOMAIN t : t[i] # "_"}
          left == User!WithoutTail(text)
          last == User!Max(Kept(text))
<1>1. \A t : User!WithoutTail(t) = IF Kept(t) = {} THEN <<>> ELSE SubSeq(t, 1, User!Max(Kept(t)))
  BY DEF User!WithoutTail
<1>2. CASE Kept(text) = {}
  <2>1. left = <<>> /\ Kept(<<>>) = {}
    <3>1. left = <<>>
      BY <1>1, <1>2, Zenon
    <3>2. DOMAIN <<>> = {}
      OBVIOUS
    <3> QED
      BY <3>1, <3>2, Zenon
  <2> HIDE DEF left, Kept
  <2>2. User!WithoutTail(<<>>) = <<>>
    BY <1>1, <2>1
  <2> QED
    BY <2>1, <2>2, EmptySeq, SequenceOf DEF left
<1>3. CASE Kept(text) # {}
  <2>1. /\ Len(text) \in Nat /\ DOMAIN text = 1..Len(text)
        /\ \A i \in 1..Len(text) : text[i] \in Letters
    BY SequenceOf
  <2>2. last \in 1..Len(text)
    <3>1. last \in Kept(text)
      BY <1>3, PlacesOf
    <3> QED
      BY <2>1, <3>1
  <2>0. text[last] # "_"
    <3>1. last \in Kept(text)
      BY <1>3, PlacesOf
    <3> QED
      BY <3>1
  <2> HIDE DEF Kept, left, last
  <2>3. left = SubSeq(text, 1, last)
    BY <1>1, <1>3 DEF left, last
  <2>4. /\ left \in Seq(Letters) /\ Len(left) = last
        /\ \A i \in 1..last : left[i] = text[i]
    <3>1. last \in Int /\ 1 <= last /\ last - 1 + 1 = last /\ \A i \in 1..last : 1 + i - 1 = i
      BY <2>1, <2>2, SMT
    <3>2. \A i \in 1..last : text[i] \in Letters
      BY <2>1, <2>2, SMT
    <3>3. /\ SubSeq(text, 1, last) \in Seq(Letters)
          /\ Len(SubSeq(text, 1, last)) = IF 1 <= last THEN last - 1 + 1 ELSE 0
          /\ \A i \in 1..last - 1 + 1 : SubSeq(text, 1, last)[i] = text[1 + i - 1]
      BY <3>1, <3>2, SubSeqProperties
    <3> QED
      BY <2>3, <3>1, <3>3
  <2>5. last \in Kept(left) /\ Kept(left) \in SUBSET (1..last)
    <3>1. DOMAIN left = 1..last
      BY <2>4, SequenceOf
    <3>2. last \in 1..last
      BY <2>1, <2>2, SMT
    <3> QED
      BY <2>0, <2>4, <3>1, <3>2, Zenon DEF Kept
  <2>6. User!Max(Kept(left)) = last
    <3>1. Kept(left) \in SUBSET DOMAIN left
      BY DEF Kept
    <3>2. User!Max(Kept(left)) \in 1..last /\ last <= User!Max(Kept(left))
      BY <2>4, <2>5, <3>1, PlacesOf
    <3> QED
      BY <2>2, <3>2, SMT
  <2>7. User!WithoutTail(left) = SubSeq(left, 1, last)
    BY <1>1, <2>5, <2>6
  <2>8. SubSeq(left, 1, last) = left
    BY <2>4, SubSeqFull
  <2>9. last <= Len(text)
    BY <2>1, <2>2, SMT
  <2> QED
    BY <2>4, <2>7, <2>8, <2>9 DEF left
<1> QED
  BY <1>2, <1>3

\* trim() of a text leaves a text, and one without spaces as it is.
LEMMA Trimmed ==
  ASSUME NEW text \in Seq(Characters)
  PROVE  /\ User!trim(text) \in Seq(Characters)
         /\ (\A i \in DOMAIN text : text[i] # " ") => User!trim(text) = text
<1> DEFINE kept == {i \in DOMAIN text : text[i] # " "}
          first == User!Min(kept)
          last == User!Max(kept)
          n == Len(text)
<1>1. User!trim(text) = IF kept = {} THEN <<>> ELSE SubSeq(text, first, last)
  BY DEF User!trim
<1>2. n \in Nat /\ DOMAIN text = 1..n /\ \A i \in 1..n : text[i] \in Characters
  BY SequenceOf
<1>3. n = 0 => text = <<>>
  BY SequenceOf
<1>4. kept # {} => /\ first \in kept /\ \A i \in kept : first <= i
                   /\ last \in kept /\ \A i \in kept : i <= last
  BY PlacesOf
<1>5. kept \in SUBSET (1..n)
  BY <1>2
<1> HIDE DEF first, last, n
<1>6. ASSUME kept # {}
      PROVE  SubSeq(text, first, last) \in Seq(Characters)
  <2>1. first \in 1..n /\ last \in 1..n
    BY <1>4, <1>5, <1>6
  <2>2. first \in Int /\ last \in Int /\ \A i \in first..last : i \in 1..n
    BY <1>2, <2>1, SMT
  <2> QED
    BY <1>2, <2>2, SubSeqProperties
<1>7. ASSUME kept # {}, kept = 1..n
      PROVE  SubSeq(text, first, last) = text
  <2>1. first \in 1..n /\ last \in 1..n /\ \A i \in 1..n : first <= i /\ i <= last
    BY <1>4, <1>7, Zenon
  <2>2. 1 \in 1..n /\ n \in 1..n
    BY <1>2, <2>1, SMT
  <2>3. first = 1 /\ last = n
    BY <1>2, <2>1, <2>2, SMT
  <2> QED
    BY <2>3, SubSeqFull DEF n
<1>8. (\A i \in DOMAIN text : text[i] # " ") => kept = 1..n
  BY <1>2
<1> HIDE DEF kept
<1>9. kept = {} => <<>> \in Seq(Characters)
  BY EmptySeq
<1>10. ASSUME kept = {}, kept = 1..n
       PROVE  text = <<>>
  <2>1. 1 \notin 1..n
    BY <1>10
  <2>2. n = 0
    BY <1>2, <2>1, SMT
  <2> QED
    BY <1>3, <2>2
<1> QED
  BY <1>1, <1>6, <1>7, <1>8, <1>9, <1>10, Zenon

NameAsked ==
    subject = "names" /\ asked # None =>
      \E provider \in Providers, id \in ProviderIds, name \in Names :
        asked = [provider |-> provider, providerId |-> id, username |-> name]

LEMMA NameAskedKept ==
  NameAsked /\ [RequestsNext]_<<vars, list>> => NameAsked'
<1> SUFFICES ASSUME NameAsked, [RequestsNext]_<<vars, list>>, subject' = "names",
                    asked' # None, asked' # asked
             PROVE  AskName
  BY Moves, Zenon DEF NameAsked, AskName, Ask
<1> QED
  BY Moves DEF Asking, AskBody, AskBatch, AskUrls, AskEmails, AskAccess, AskAccount, Open

Cut(base) == IF Len(base) > MaxUsername THEN SubSeq(base, 1, MaxUsername) ELSE base

\* A short text of letters is itself once spaces, capitals and the rest are gone.
LEMMA LettersStay ==
  ASSUME NEW text \in Seq(Letters)
  PROVE  /\ User!trim(text) = text
         /\ User!Underscored(User!toLowerCase(text)) = text
<1>1. text \in Seq(Characters)
  <2>1. Letters \subseteq Characters
    BY DEF Characters
  <2> QED
    BY <2>1, SeqMonotonic
<1>2. \A i \in DOMAIN text : text[i] \in Letters
  BY SequenceOf
<1>3. text = [i \in DOMAIN text |-> text[i]]
  <2>1. text \in [1..Len(text) -> Letters] /\ DOMAIN text = 1..Len(text)
    BY LenProperties
  <2> QED
    BY <2>1
<1>4. User!toLowerCase(text) = text
  <2>1. \A i \in DOMAIN text : text[i] # "A"
    BY <1>2 DEF Letters
  <2>2. \A i \in DOMAIN text : (IF text[i] = "A" THEN "a" ELSE text[i]) = text[i]
    BY <2>1
  <2> QED
    BY <1>3, <2>2, Zenon DEF User!toLowerCase
<1>5. User!Underscored(text) = text
  <2>1. \A i \in DOMAIN text : (IF text[i] \in {"a", "_"} THEN text[i] ELSE "_") = text[i]
    BY <1>2 DEF Letters
  <2> QED
    BY <1>3, <2>1, Zenon DEF User!Underscored
<1>6. User!trim(text) = text
  <2>1. \A i \in DOMAIN text : text[i] # " "
    BY <1>2 DEF Letters
  <2> QED
    BY <1>1, <2>1, Trimmed
<1> QED
  BY <1>4, <1>5, <1>6

LEMMA CutShort ==
  ASSUME NEW base \in Seq(Letters)
  PROVE  Cut(base) \in Seq(Letters) /\ Len(Cut(base)) \in 0..MaxUsername
<1>1. /\ Len(base) \in Nat /\ \A i \in 1..Len(base) : base[i] \in Letters
      /\ MaxUsername \in Nat
  BY SequenceOf, Texts
<1>2. CASE Len(base) > MaxUsername
  <2>1. \A i \in 1..MaxUsername : base[i] \in Letters
    BY <1>1, <1>2, SMT
  <2>2. /\ SubSeq(base, 1, MaxUsername) \in Seq(Letters)
        /\ Len(SubSeq(base, 1, MaxUsername))
             = IF 1 <= MaxUsername THEN MaxUsername - 1 + 1 ELSE 0
    BY <1>1, <2>1, SubSeqProperties
  <2>3. (IF 1 <= MaxUsername THEN MaxUsername - 1 + 1 ELSE 0) \in 0..MaxUsername
    BY <1>1, SMT
  <2> QED
    BY <1>2, <2>2, <2>3 DEF Cut
<1>3. CASE ~(Len(base) > MaxUsername)
  <2>1. Len(base) \in 0..MaxUsername
    BY <1>1, <1>3, SMT
  <2> QED
    BY <1>3, <2>1 DEF Cut
<1> QED
  BY <1>2, <1>3

\* What a name is made of: the name that was given, or the provider's.
LEMMA BaseOfName ==
  ASSUME NEW provider \in Providers, NEW id \in ProviderIds,
         NEW username \in Seq(Characters) \cup {None}
  PROVE  \E base \in Seq(Letters) :
           /\ User!generateOAuthUsername(provider, id, username) = User!WithoutTail(Cut(base))
           /\ username # None /\ username \in Seq(Letters) \ {<<>>} => base = username
<1> DEFINE given == User!Underscored(User!toLowerCase(User!trim(username)))
          base == IF username # None /\ User!trim(username) # <<>>
                  THEN given ELSE User!ProviderName(provider, id)
<1>1. User!generateOAuthUsername(provider, id, username) = User!WithoutTail(Cut(base))
  BY DEF User!generateOAuthUsername, Cut
<1>2. User!ProviderName(provider, id) \in Seq(Letters)
  <2>1. providerText[provider] \in Seq(Letters) /\ id \in Seq(Letters)
    BY Texts
  <2>2. <<"_">> \in Seq(Letters)
    BY DEF Letters
  <2> QED
    BY <2>1, <2>2, ConcatProperties DEF User!ProviderName
<1>3. ASSUME username # None
      PROVE  given \in Seq(Letters)
  <2> DEFINE trimmed == User!trim(username)
            lower == User!toLowerCase(trimmed)
  <2>1. trimmed \in Seq(Characters)
    BY <1>3, Trimmed
  <2>2. Len(trimmed) \in Nat /\ DOMAIN trimmed = 1..Len(trimmed)
    BY <2>1, SequenceOf
  <2> HIDE DEF trimmed
  <2>3. DOMAIN lower = 1..Len(trimmed)
    BY <2>2 DEF User!toLowerCase
  <2> HIDE DEF lower
  <2>4. \A i \in DOMAIN lower : (IF lower[i] \in {"a", "_"} THEN lower[i] ELSE "_") \in Letters
    BY DEF Letters
  <2>5. User!Underscored(lower) \in [1..Len(trimmed) -> Letters]
    BY <2>3, <2>4 DEF User!Underscored
  <2>6. User!Underscored(lower) \in Seq(Letters)
    BY <2>2, <2>5
  <2> QED
    BY <2>6 DEF lower, trimmed
<1>4. ASSUME username # None, username \in Seq(Letters) \ {<<>>}
      PROVE  base = username
  BY <1>4, LettersStay
<1> HIDE DEF given
<1>5. base \in Seq(Letters)
  BY <1>2, <1>3
<1> QED
  BY <1>1, <1>4, <1>5, Zenon

\* For every name that a provider may send, of any length.
THEOREM RequestsGeneratedNameLegal == RequestsSpec => []GeneratedNameLegal
<1>1. RequestsInit => NameAsked
  BY DEF RequestsInit, Init, NameAsked
<1>2. NameAsked => GeneratedNameLegal
  <2> SUFFICES ASSUME NEW provider \in Providers, NEW id \in ProviderIds, NEW username \in Names,
                      asked = [provider |-> provider, providerId |-> id, username |-> username]
               PROVE  GeneratedNameLegal
    BY Zenon DEF NameAsked, GeneratedNameLegal
  <2> DEFINE Generated(given) == User!generateOAuthUsername(provider, id, given)
            name == Generated(username)
  <2>1. PICK base \in Seq(Letters) : name = User!WithoutTail(Cut(base))
    BY Texts, BaseOfName
  <2>2. /\ name \in Seq(Letters) /\ Len(name) <= Len(Cut(base))
        /\ User!WithoutTail(name) = name
    BY <2>1, CutShort, TailGone
  <2>3. Len(name) <= MaxUsername
    <3>1. Len(name) \in Nat /\ Len(Cut(base)) \in 0..MaxUsername /\ MaxUsername \in Nat
      BY <2>2, CutShort, SequenceOf, Texts
    <3> HIDE DEF name
    <3> QED
      BY <2>2, <3>1, SMT
  <2> HIDE DEF name
  <2>4. User!validateUsername(name) \subseteq {"short"}
    <3>1. \A i \in DOMAIN name : name[i] \in {"a", "A", "_"}
      BY <2>2, SequenceOf DEF Letters
    <3>2. ~(Len(name) > MaxUsername)
      <4>1. Len(name) \in Nat /\ MaxUsername \in Nat
        BY <2>2, SequenceOf, Texts
      <4> QED
        BY <2>3, <4>1, SMT
    <3> QED
      BY <3>1, <3>2, Zenon DEF User!validateUsername
  <2>5. ASSUME name # <<>>
        PROVE  Generated(name) = name
    <3>1. name \in Seq(Characters)
      <4>1. Letters \subseteq Characters
        BY DEF Characters
      <4> QED
        BY <2>2, <4>1, SeqMonotonic
    <3>2. name # None
      BY <3>1, NoneIsNone
    <3>3. Generated(name) = User!WithoutTail(Cut(name))
      BY <2>2, <2>5, <3>1, <3>2, BaseOfName
    <3>4. Cut(name) = name
      <4>1. Len(name) \in Nat /\ MaxUsername \in Nat
        BY <2>2, SequenceOf, Texts
      <4>2. ~(Len(name) > MaxUsername)
        BY <2>3, <4>1, SMT
      <4> QED
        BY <4>2 DEF Cut
    <3> QED
      BY <2>2, <3>3, <3>4
  <2> QED
    BY <2>4, <2>5 DEF GeneratedNameLegal, name
<1> QED
  BY <1>1, <1>2, NameAskedKept, PTL DEF RequestsSpec

-----------------------------------------------------------------------------
(* A valid user stays valid, and one e-mail is one account *)

\* What filter() leaves of a stretch of places is the stretch.
LEMMA FilteredStretch ==
  ASSUME NEW s, NEW m \in Int, NEW n \in Int, m <= n
  PROVE  Url!Filtered(s, m..n) = [k \in 1..n - m + 1 |-> s[m + k - 1]]
<1> DEFINE Ranked(i) == Cardinality({j \in m..n : j < i})
<1>1. Cardinality(m..n) = n - m + 1
  BY FS_Interval
<1>2. ASSUME NEW i \in m..n
      PROVE  Ranked(i) = i - m
  <2>1. {j \in m..n : j < i} = m..(i - 1)
    BY SMT
  <2>2. i - 1 \in Int
    BY SMT
  <2>3. Cardinality(m..(i - 1)) = IF m > i - 1 THEN 0 ELSE (i - 1) - m + 1
    BY <2>2, FS_Interval
  <2>4. (IF m > i - 1 THEN 0 ELSE (i - 1) - m + 1) = i - m
    BY SMT
  <2> QED
    BY <2>1, <2>3, <2>4
<1>3. ASSUME NEW k \in 1..n - m + 1
      PROVE  Url!PlaceOf(m..n, k) = m + k - 1
  <2>1. \A i \in m..n : Ranked(i) = k - 1 <=> i = m + k - 1
    <3> TAKE i \in m..n
    <3>1. Ranked(i) = i - m
      BY <1>2
    <3> HIDE DEF Ranked
    <3> QED
      BY <3>1, SMT
  <2>2. m + k - 1 \in m..n
    BY SMT
  <2>3. Url!PlaceOf(m..n, k) = CHOOSE i \in m..n : Ranked(i) = k - 1
    BY CountedAlike DEF Url!PlaceOf
  <2> HIDE DEF Ranked
  <2> QED
    BY <2>1, <2>2, <2>3, Zenon
<1>4. Url!Filtered(s, m..n) = [k \in 1..n - m + 1 |-> s[Url!PlaceOf(m..n, k)]]
  BY <1>1, CountedAlike DEF Url!Filtered
<1>5. \A k \in 1..n - m + 1 : s[Url!PlaceOf(m..n, k)] = s[m + k - 1]
  BY <1>3
<1> QED
  BY <1>4, <1>5

LEMMA UpTo == \A a, b \in Nat : 1..a = 1..b => a = b
<1> TAKE a, b \in Nat
<1> SUFFICES ASSUME a < b  PROVE b \in 1..b /\ b \notin 1..a
  BY SMT
<1> QED
  BY SMT

Lower(text) == User!toLowerCase(text)

\* Small letters are as many, and what else they are not, they were not before.
LEMMA Lowered ==
  ASSUME NEW text \in Seq(Characters)
  PROVE  /\ Lower(text) \in Seq(Characters)
         /\ Len(Lower(text)) = Len(text)
         /\ \A i \in 1..Len(text) :
              /\ Lower(text)[i] = IF text[i] = "A" THEN "a" ELSE text[i]
              /\ \A c \in {" ", "@", "."} : Lower(text)[i] = c <=> text[i] = c
<1>1. /\ Len(text) \in Nat /\ DOMAIN text = 1..Len(text)
      /\ \A i \in 1..Len(text) : text[i] \in Characters
  BY SequenceOf
<1>2. Lower(text) = [i \in 1..Len(text) |-> IF text[i] = "A" THEN "a" ELSE text[i]]
  BY <1>1 DEF Lower, User!toLowerCase
<1>3. \A i \in 1..Len(text) : (IF text[i] = "A" THEN "a" ELSE text[i]) \in Characters
  BY <1>1 DEF Characters, Letters
<1>4. Lower(text) \in Seq(Characters) /\ Len(Lower(text)) = Len(text)
  <2>1. Lower(text) \in [1..Len(text) -> Characters]
    BY <1>2, <1>3
  <2>2. Lower(text) \in Seq(Characters) /\ DOMAIN Lower(text) = 1..Len(text)
    BY <1>1, <2>1
  <2>3. Len(Lower(text)) \in Nat /\ 1..Len(Lower(text)) = 1..Len(text)
    BY <2>2, SequenceOf
  <2> QED
    BY <1>1, <2>2, <2>3, UpTo
<1>5. \A i \in 1..Len(text) : Lower(text)[i] = IF text[i] = "A" THEN "a" ELSE text[i]
  BY <1>2
<1> QED
  BY <1>4, <1>5

\* An e-mail is one in small letters, too.
LEMMA FormatOfLower ==
  ASSUME NEW text \in Seq(Characters), User!checkEmailFormat(text)
  PROVE  /\ User!checkEmailFormat(Lower(text))
         /\ User!normalizeEmail(text) = Lower(text)
<1> DEFINE lower == Lower(text)
<1>1. /\ Len(text) \in Nat /\ DOMAIN text = 1..Len(text)
      /\ lower \in Seq(Characters) /\ DOMAIN lower = 1..Len(text) /\ Len(lower) = Len(text)
      /\ \A i \in 1..Len(text) : \A c \in {" ", "@", "."} : lower[i] = c <=> text[i] = c
  BY Lowered, SequenceOf
<1>2. PICK at \in 2..Len(text) :
        /\ \A i \in DOMAIN text : text[i] # " " /\ (text[i] = "@" <=> i = at)
        /\ \E dot \in at + 2..Len(text) - 1 : text[dot] = "."
  BY DEF User!checkEmailFormat
<1>3. PICK dot \in at + 2..Len(text) - 1 : text[dot] = "."
  BY <1>2
<1>4. dot \in 1..Len(text)
  <2>1. Len(text) \in Nat
    BY <1>1
  <2> QED
    BY <2>1, SMT
<1> HIDE DEF lower
<1>5. \A i \in DOMAIN lower : lower[i] # " " /\ (lower[i] = "@" <=> i = at)
  BY <1>1, <1>2
<1>6. lower[dot] = "."
  BY <1>1, <1>3, <1>4
<1>7. User!checkEmailFormat(lower)
  BY <1>1, <1>5, <1>6 DEF User!checkEmailFormat
<1>8. User!trim(lower) = lower
  BY <1>1, <1>5, Trimmed
<1> QED
  BY <1>7, <1>8 DEF lower, Lower, User!normalizeEmail

Unspaced(text) == Url!Filtered(text, {i \in DOMAIN text : text[i] # " "})

LEMMA UnspacedItself ==
  ASSUME NEW text \in Seq(Characters), User!checkEmailFormat(text)
  PROVE  Unspaced(text) = text
<1> DEFINE n == Len(text)
<1>1. DOMAIN text = 1..n /\ text = [i \in 1..n |-> text[i]]
  BY SequenceOf, LenProperties
<1>2. PICK at \in 2..n : \A i \in DOMAIN text : text[i] # " "
  BY DEF User!checkEmailFormat
<1>3. n \in Nat
  BY SequenceOf
<1>4. n \in Int /\ 1 \in Int /\ 1 <= n
  BY <1>3, SMT
<1>5. {i \in DOMAIN text : text[i] # " "} = 1..n
  BY <1>1, <1>2
<1> HIDE DEF n
<1>6. Url!Filtered(text, 1..n) = [k \in 1..n - 1 + 1 |-> text[1 + k - 1]]
  BY <1>4, FilteredStretch
<1>7. n - 1 + 1 = n /\ \A k \in 1..n : 1 + k - 1 = k
  BY <1>3, SMT
<1> QED
  BY <1>1, <1>5, <1>6, <1>7 DEF Unspaced

NoSpace(text) == \A i \in DOMAIN text : text[i] # " "

\* Unspaced, a text is what trim() leaves, if that has no space.
LEMMA UnspacedTrimmed ==
  ASSUME NEW text \in Seq(Characters),
         NoSpace(User!trim(text)),
         User!trim(text) # <<>>
  PROVE  Unspaced(text) = User!trim(text)
<1> DEFINE trimmed == User!trim(text)
          kept == {i \in DOMAIN text : text[i] # " "}
          m == User!Min(kept)
          n == User!Max(kept)
<1>1. kept # {} /\ trimmed = SubSeq(text, m, n)
  BY Zenon DEF User!trim
<1>2. /\ kept \in SUBSET DOMAIN text /\ kept \in SUBSET Int
      /\ m \in kept /\ n \in kept /\ \A i \in kept : m <= i /\ i <= n
  <2>1. kept \in SUBSET DOMAIN text
    OBVIOUS
  <2> QED
    BY <1>1, <2>1, PlacesOf, Zenon
<1>3. m \in Int /\ n \in Int /\ m <= n
  BY <1>2
<1>4. Len(text) \in Nat /\ DOMAIN text = 1..Len(text)
  BY SequenceOf
<1>5. \A i \in m..n : i \in DOMAIN text
  <2>1. m \in 1..Len(text) /\ n \in 1..Len(text)
    BY <1>2, <1>4, Zenon
  <2> HIDE DEF m, n
  <2> QED
    BY <1>4, <2>1, SMT
<1>6. \A i \in m..n : text[i] \in Characters
  BY <1>4, <1>5, SequenceOf
<1> HIDE DEF m, n
<1>7. \A k \in 1..n - m + 1 : m + k - 1 \in m..n
  BY <1>3, SMT
<1>8. \A i \in m..n : i - m + 1 \in 1..n - m + 1 /\ m + (i - m + 1) - 1 = i
  BY <1>3, SMT
<1> HIDE DEF trimmed
<1>9. /\ trimmed \in Seq(Characters) /\ Len(trimmed) = n - m + 1
      /\ \A k \in 1..n - m + 1 : trimmed[k] = text[m + k - 1]
  <2>1. /\ SubSeq(text, m, n) \in Seq(Characters)
        /\ Len(SubSeq(text, m, n)) = IF m <= n THEN n - m + 1 ELSE 0
        /\ \A k \in 1..n - m + 1 : SubSeq(text, m, n)[k] = text[m + k - 1]
    BY <1>3, <1>6, SubSeqProperties
  <2> QED
    BY <1>1, <1>3, <2>1
<1>10. DOMAIN trimmed = 1..n - m + 1 /\ trimmed = [k \in 1..n - m + 1 |-> trimmed[k]]
  <2>1. DOMAIN trimmed = 1..Len(trimmed) /\ trimmed \in [1..Len(trimmed) -> Characters]
    BY <1>9, LenProperties
  <2> QED
    BY <1>9, <2>1
<1>11. m..n \subseteq kept
  <2> SUFFICES ASSUME NEW i \in m..n  PROVE i \in kept
    OBVIOUS
  <2>1. trimmed[i - m + 1] = text[i] /\ i - m + 1 \in DOMAIN trimmed
    BY <1>8, <1>9, <1>10
  <2>2. trimmed[i - m + 1] # " "
    BY <2>1 DEF trimmed, NoSpace
  <2> QED
    BY <1>5, <2>1, <2>2
<1>12. kept \subseteq m..n
  <2> HIDE DEF kept
  <2> QED
    BY <1>2, <1>3
<1>13. Unspaced(text) = Url!Filtered(text, m..n)
  BY <1>11, <1>12 DEF Unspaced
<1>14. Url!Filtered(text, m..n) = [k \in 1..n - m + 1 |-> text[m + k - 1]]
  BY <1>3, FilteredStretch
<1> QED
  BY <1>9, <1>10, <1>13, <1>14 DEF trimmed

Same(a, b) ==
    Len(a) = Len(b) /\ \A i \in DOMAIN a : a[i] = b[i] \/ {a[i], b[i]} = {"a", "A"}

\* Capitals and spaces around it do not make another e-mail.
LEMMA OneEmail ==
  ASSUME NEW e \in Seq(Characters), NEW f \in Seq(Characters),
         User!checkEmailFormat(e), User!checkEmailFormat(User!normalizeEmail(f)),
         Same(Unspaced(e), Unspaced(f))
  PROVE  User!normalizeEmail(e) = User!normalizeEmail(f)
<1> DEFINE g == Lower(f)
          t == User!trim(g)
<1>1. User!normalizeEmail(f) = t
  BY DEF Lower, User!normalizeEmail
<1>2. g \in Seq(Characters) /\ Len(g) = Len(f) /\ DOMAIN g = DOMAIN f
  BY Lowered, SequenceOf
<1>3. t \in Seq(Characters)
  BY <1>2, Trimmed
<1>4. t # <<>> /\ \A i \in DOMAIN t : t[i] # " "
  <2>1. PICK at \in 2..Len(t) : \A i \in DOMAIN t : t[i] # " "
    BY <1>1 DEF User!checkEmailFormat
  <2> HIDE DEF t
  <2>2. Len(t) # 0
    <3>1. Len(t) \in Nat
      BY <1>3, SequenceOf
    <3> QED
      BY <3>1, SMT
  <2> QED
    BY <1>3, <2>1, <2>2, SequenceOf
<1>5. Unspaced(g) = t
  BY <1>2, <1>4, UnspacedTrimmed DEF NoSpace
<1>6. \A i \in DOMAIN f : g[i] = (IF f[i] = "A" THEN "a" ELSE f[i]) /\ (g[i] = " " <=> f[i] = " ")
  <2> TAKE i \in DOMAIN f
  <2>1. i \in 1..Len(f)
    BY SequenceOf
  <2>2. " " \in {" ", "@", "."}
    OBVIOUS
  <2> QED
    BY <2>1, <2>2, Lowered
<1> HIDE DEF g, t
<1> DEFINE places == {i \in DOMAIN f : f[i] # " "}
          u == Unspaced(f)
<1>7. {i \in DOMAIN g : g[i] # " "} = places
  BY <1>2, <1>6
<1>8. t = Url!Filtered(g, places) /\ u = Url!Filtered(f, places)
  BY <1>5, <1>7 DEF Unspaced
<1>9. \A k \in 1..Cardinality(places) : Url!PlaceOf(places, k) \in DOMAIN f
  <2>1. places \in SUBSET DOMAIN f
    OBVIOUS
  <2>2. places \in SUBSET Int /\ IsFiniteSet(places)
    BY <2>1, PlacesOf
  <2>3. \A k \in 1..Cardinality(places) : Url!PlaceOf(places, k) \in places
    BY <2>2, RankTaken, CountedAlike DEF Rank, Url!PlaceOf
  <2> QED
    BY <2>1, <2>3
<1> HIDE DEF places
<1>10. /\ DOMAIN t = 1..Cardinality(places) /\ DOMAIN u = 1..Cardinality(places)
       /\ \A k \in 1..Cardinality(places) : t[k] = IF u[k] = "A" THEN "a" ELSE u[k]
  BY <1>6, <1>8, <1>9, CountedAlike DEF Url!Filtered
<1>11. u \in Seq(Characters)
  <2>1. IsFiniteSet(places)
    <3>1. places \in SUBSET DOMAIN f
      BY DEF places
    <3> QED
      BY <3>1, PlacesOf
  <2>2. Cardinality(places) \in Nat
    BY <2>1, FS_CardinalityType
  <2>3. u \in [1..Cardinality(places) -> Characters]
    <3>1. u = [k \in 1..Cardinality(places) |-> f[Url!PlaceOf(places, k)]]
      BY <1>8, CountedAlike DEF Url!Filtered
    <3> QED
      BY <1>9, <3>1, SequenceOf
  <2> QED
    BY <2>2, <2>3
<1>12. Len(u) = Len(e) /\ \A i \in DOMAIN e : e[i] = u[i] \/ {e[i], u[i]} = {"a", "A"}
  BY UnspacedItself DEF Same
<1>13. Len(t) = Len(u)
  <2>1. 1..Len(t) = 1..Len(u) /\ Len(t) \in Nat /\ Len(u) \in Nat
    BY <1>3, <1>10, <1>11, SequenceOf
  <2> QED
    BY <2>1, UpTo
<1>14. /\ Lower(e) \in Seq(Characters) /\ Len(Lower(e)) = Len(e)
       /\ \A i \in 1..Len(e) : Lower(e)[i] = IF e[i] = "A" THEN "a" ELSE e[i]
       /\ DOMAIN e = 1..Len(e)
  BY Lowered, SequenceOf
<1>15. \A i \in 1..Len(e) : Lower(e)[i] = t[i]
  <2> TAKE i \in 1..Len(e)
  <2>1. t[i] = IF u[i] = "A" THEN "a" ELSE u[i]
    <3>1. DOMAIN u = 1..Len(e)
      BY <1>11, <1>12, SequenceOf
    <3> QED
      BY <1>10, <3>1
  <2>2. Lower(e)[i] = IF e[i] = "A" THEN "a" ELSE e[i]
    BY <1>14
  <2>3. e[i] = u[i] \/ {e[i], u[i]} = {"a", "A"}
    BY <1>12, <1>14
  <2>4. ASSUME {e[i], u[i]} = {"a", "A"}
        PROVE  e[i] \in {"a", "A"} /\ u[i] \in {"a", "A"}
    BY <2>4
  <2> QED
    BY <2>1, <2>2, <2>3, <2>4
<1>16. Lower(e) = t
  BY <1>3, <1>12, <1>13, <1>14, <1>15, SeqEqual
<1> QED
  BY <1>1, <1>16, FormatOfLower

EmailsAsked == subject = "emails" /\ asked # None => asked[1] \in Emails /\ asked[2] \in Emails

LEMMA EmailsAskedKept ==
  EmailsAsked /\ [RequestsNext]_<<vars, list>> => EmailsAsked'
<1> SUFFICES ASSUME EmailsAsked, [RequestsNext]_<<vars, list>>, subject' = "emails",
                    asked' # None, asked' # asked
             PROVE  AskEmails
  BY Moves DEF EmailsAsked, AskEmails, Ask
<1> QED
  BY Moves DEF Asking, AskBody, AskBatch, AskName, AskUrls, AskAccess, AskAccount, Open

\* What PreparedStaysValid makes of an e-mail.
AccountOf(email) ==
    [email |-> email, username |-> <<"a", "A", "_">>, password |-> 8,
     provider |-> None, providerId |-> None, isEmailVerified |-> FALSE]

Prepared(email) == User!prepareUserEntityData(AccountOf(email))

ByOAuth(email) ==
    User!prepareOAuthProfile([email |-> email, provider |-> CHOOSE p \in Providers : TRUE,
                              providerId |-> <<"a">>, username |-> None])

Validated(data) ==
    User!validateUserData([email |-> data.email, username |-> data.username,
                           password |-> 8]).isValid

LEMMA Triple ==
  ASSUME NEW S, NEW x \in S, NEW y \in S, NEW z \in S
  PROVE  /\ <<x, y, z>> \in Seq(S) /\ DOMAIN <<x, y, z>> = {1, 2, 3}
         /\ <<x, y, z>>[1] = x /\ <<x, y, z>>[2] = y /\ <<x, y, z>>[3] = z
OBVIOUS

LEMMA PreparedUser ==
  ASSUME NEW email \in Seq(Characters)
  PROVE  /\ Prepared(email) # None
         /\ Prepared(email).email = User!normalizeEmail(email)
         /\ Prepared(email).username = <<"a", "A", "_">>
         /\ ByOAuth(email).email = User!normalizeEmail(email)
         /\ ByOAuth(email).username = User!ProviderName(CHOOSE p \in Providers : TRUE, <<"a">>)
<1> DEFINE name == <<"a", "A", "_">>
<1>1. User!trim(name) = name /\ name \in Seq(Characters)
  <2>1. "a" \in Characters /\ "A" \in Characters /\ "_" \in Characters
    BY DEF Characters, Letters
  <2>2. /\ name \in Seq(Characters) /\ DOMAIN name = {1, 2, 3}
        /\ name[1] = "a" /\ name[2] = "A" /\ name[3] = "_"
    BY <2>1, Triple
  <2> HIDE DEF name
  <2>3. \A i \in DOMAIN name : name[i] # " "
    BY <2>2
  <2> QED
    BY <2>2, <2>3, Trimmed
<1>2. User!normalizeEmail(email) \in Seq(Characters)
  BY Lowered, Trimmed DEF Lower, User!normalizeEmail
<1> HIDE DEF name
<1>3. Prepared(email) = [email |-> User!normalizeEmail(email), username |-> name,
                         provider |-> "local", providerId |-> None, emailVerified |-> FALSE]
  BY <1>1 DEF Prepared, AccountOf, User!prepareUserEntityData, name
<1>4. Prepared(email) \in UserData
  BY <1>1, <1>2, <1>3 DEF UserData
<1>5. Prepared(email) # None
  BY <1>4, NoneIsNone
<1>6. /\ ByOAuth(email).email = User!normalizeEmail(email)
      /\ ByOAuth(email).username = User!ProviderName(CHOOSE p \in Providers : TRUE, <<"a">>)
  BY DEF ByOAuth, User!prepareOAuthProfile, User!createDefaultUsername
<1>7. Prepared(email).email = User!normalizeEmail(email) /\ Prepared(email).username = name
  BY <1>3
<1> QED
  BY <1>5, <1>6, <1>7, Zenon DEF name

\* The provider's name is a username.
LEMMA ProviderNameFits ==
  User!validateUsername(User!ProviderName(CHOOSE p \in Providers : TRUE, <<"a">>)) = {}
<1> DEFINE p == CHOOSE p \in Providers : TRUE
          name == User!ProviderName(p, <<"a">>)
          text == providerText[p]
<1>1. text \in Seq(Letters) /\ Len(text) \in 1..MaxUsername - 2 /\ MaxUsername \in Nat
  <2>1. p \in Providers
    BY Texts
  <2> QED
    BY <2>1, Texts
<1> HIDE DEF text
<1>2. /\ <<"_">> \in Seq(Letters) /\ <<"a">> \in Seq(Letters)
      /\ Len(<<"_">>) = 1 /\ Len(<<"a">>) = 1
  BY DEF Letters
<1> DEFINE under == <<"_">>  digit == <<"a">>
<1>6. /\ under \in Seq(Letters) /\ Len(under) = 1
      /\ digit \in Seq(Letters) /\ Len(digit) = 1
  BY <1>2
<1>3. name = text \o under \o digit
  BY DEF User!ProviderName, text
<1> HIDE DEF name, under, digit
<1>4. text \o under \in Seq(Letters) /\ Len(text \o under) = Len(text) + Len(under)
  BY <1>1, <1>6, ConcatProperties
<1> DEFINE front == text \o under
<1> HIDE DEF front
<1>5. name \in Seq(Letters) /\ Len(name) = Len(text) + Len(under) + Len(digit)
  <2>1. front \in Seq(Letters) /\ Len(front) = Len(text) + Len(under) /\ name = front \o digit
    BY <1>3, <1>4 DEF front
  <2>2. /\ front \o digit \in Seq(Letters)
        /\ Len(front \o digit) = Len(front) + Len(digit)
    BY <1>6, <2>1, ConcatProperties
  <2> QED
    BY <2>1, <2>2, Zenon
<1>7. Len(name) \in 3..MaxUsername /\ ~(Len(name) < 3) /\ ~(Len(name) > MaxUsername)
  BY <1>1, <1>5, <1>6, SMT
<1>8. \A i \in DOMAIN name : name[i] \in {"a", "A", "_"}
  BY <1>5, SequenceOf DEF Letters
<1>9. User!validateUsername(name) = {}
  BY <1>7, <1>8, Zenon DEF User!validateUsername
<1> QED
  BY <1>9 DEF name

\* For all e-mails, of any length.
THEOREM RequestsPreparedStaysValid == RequestsSpec => []PreparedStaysValid
<1>1. RequestsInit => EmailsAsked
  BY DEF RequestsInit, Init, EmailsAsked
<1>2. EmailsAsked => PreparedStaysValid
  <2> SUFFICES ASSUME EmailsAsked, subject = "emails", asked # None
               PROVE  PreparedStaysValid
    BY DEF PreparedStaysValid
  <2> DEFINE e == asked[1]  f == asked[2]
  <2>1. e \in Seq(Characters) /\ f \in Seq(Characters)
    BY Texts DEF EmailsAsked
  <2> HIDE DEF e, f
  <2>2. \A data : Validated(data) <=> /\ User!checkEmailFormat(data.email)
                                      /\ User!validateUsername(data.username) = {}
    <3> TAKE data
    <3>1. User!validatePassword(8) = {}
      BY DEF User!validatePassword
    <3>2. Validated(data) <=> (IF User!checkEmailFormat(data.email) THEN {} ELSE {"email"})
                                \cup User!validateUsername(data.username)
                                \cup User!validatePassword(8) = {}
      BY DEF Validated, User!validateUserData
    <3> QED
      BY <3>1, <3>2
  <2>3. ASSUME Validated(AccountOf(e))
        PROVE  Validated(Prepared(e)) /\ Validated(ByOAuth(e))
    <3>1. /\ User!checkEmailFormat(e)
          /\ User!validateUsername(<<"a", "A", "_">>) = {}
      <4>1. AccountOf(e).email = e /\ AccountOf(e).username = <<"a", "A", "_">>
        BY DEF AccountOf
      <4> QED
        BY <2>2, <2>3, <4>1, Zenon
    <3>2. User!checkEmailFormat(User!normalizeEmail(e))
      BY <2>1, <3>1, FormatOfLower
    <3> QED
      BY <2>1, <2>2, <3>1, <3>2, PreparedUser, ProviderNameFits, Zenon
  <2>4. ASSUME User!checkEmailFormat(e), Same(Unspaced(e), Unspaced(f)),
               User!checkEmailFormat(User!normalizeEmail(f))
        PROVE  /\ User!checkUserConflict(Prepared(e), Prepared(f).email, None) = "email"
               /\ User!checkUserConflict(Prepared(e), ByOAuth(f).email, None) = "email"
    <3>1. User!normalizeEmail(e) = User!normalizeEmail(f)
      BY <2>1, <2>4, OneEmail
    <3>2. /\ Prepared(e) # None /\ Prepared(e).email = Prepared(f).email
          /\ Prepared(e).email = ByOAuth(f).email
      BY <2>1, <3>1, PreparedUser
    <3> QED
      BY <3>2 DEF User!checkUserConflict
  <2> QED
    BY <2>3, <2>4, Zenon
       DEF PreparedStaysValid, e, f, AccountOf, Prepared, ByOAuth, Validated, Unspaced, Same
<1> QED
  BY <1>1, <1>2, EmailsAskedKept, PTL DEF RequestsSpec

-----------------------------------------------------------------------------
(* The average lies between the extremes *)

\* Induction on a set of numbers.
LEMMA AllNumbers ==
  ASSUME NEW A \in SUBSET Nat, 0 \in A, \A n \in A : n + 1 \in A
  PROVE  A = Nat
<1> SUFFICES ASSUME NEW n \in Nat, n \notin A  PROVE FALSE
  OBVIOUS
<1> DEFINE missing == {i \in 0..n : i \notin A}
          least == User!Min(missing)
<1>1. missing \in SUBSET (0..n) /\ n \in missing
  BY SMT
<1>2. IsFiniteSet(missing) /\ missing \in SUBSET Int
  <2>1. IsFiniteSet(0..n) /\ 0..n \in SUBSET Int
    BY FS_Interval, SMT
  <2> QED
    BY <1>1, <2>1, FS_Subset
<1>3. least \in missing /\ \A i \in missing : least <= i
  BY <1>1, <1>2, Extremes
<1> HIDE DEF least
<1>4. least \in 0..n /\ least \notin A
  BY <1>3
<1>5. least # 0 /\ least - 1 \in 0..n
  BY <1>4, SMT
<1>6. least - 1 \in A
  <2>1. least - 1 \notin missing
    <3>1. ~(least <= least - 1)
      BY <1>4, SMT
    <3> QED
      BY <1>3, <3>1
  <2> QED
    BY <1>5, <2>1
<1>7. least - 1 + 1 = least
  BY <1>4, SMT
<1> QED
  BY <1>4, <1>6, <1>7

Lasted(x) == now - x.joinedAt

\* The last summand and the sum of the rest.
SumStep(g, s) ==
    IF s = {} THEN 0 ELSE LET x == CHOOSE x \in s : TRUE IN Lasted(x) + g[s \ {x}]

SumOf(g, S) == g = [s \in SUBSET S |-> SumStep(g, s)]

\* What MapThenSumSet is.
LEMMA SumUnfolded ==
  ASSUME NEW S
  PROVE  Session!MapThenSumSet(LAMBDA s : now - s.joinedAt, S) = (CHOOSE g : SumOf(g, S))[S]
BY DEF Session!MapThenSumSet, Session!MapThenFoldSet, SumOf, SumStep, Lasted

\* There is such a function: up to any size, and so up to that of the whole set.
LEMMA SumExists ==
  ASSUME NEW S, IsFiniteSet(S)
  PROVE  \E g : SumOf(g, S)
<1> DEFINE Sub(n) == {s \in SUBSET S : Cardinality(s) <= n}
          UpToSize(g, n) == g = [s \in Sub(n) |-> SumStep(g, s)]
          A == {n \in Nat : \E g : UpToSize(g, n)}
<1>1. \A s \in SUBSET S : IsFiniteSet(s) /\ Cardinality(s) \in Nat
  BY FS_Subset, FS_CardinalityType
<1>2. 0 \in A
  <2> DEFINE g == [s \in Sub(0) |-> 0]
  <2>1. \A s \in Sub(0) : s = {}
    <3> TAKE s \in Sub(0)
    <3>1. Cardinality(s) = 0
      BY <1>1, SMT
    <3> QED
      BY <1>1, <3>1, FS_EmptySet
  <2>2. \A s \in Sub(0) : SumStep(g, s) = 0
    BY <2>1 DEF SumStep
  <2> HIDE DEF Sub
  <2>3. UpToSize(g, 0)
    BY <2>2
  <2> QED
    BY <2>3
<1>3. ASSUME NEW n \in A
      PROVE  n + 1 \in A
  <2>1. n \in Nat
    OBVIOUS
  <2>2. PICK g : UpToSize(g, n)
    OBVIOUS
  <2> DEFINE h == [s \in Sub(n + 1) |-> SumStep(g, s)]
  <2>3. \A s \in Sub(n) : s \in Sub(n + 1)
    BY <1>1, <2>1, SMT
  <2>4. ASSUME NEW s \in Sub(n + 1), s # {}, NEW x \in s
        PROVE  s \ {x} \in Sub(n)
    <3>1. IsFiniteSet(s) /\ Cardinality(s) <= n + 1 /\ Cardinality(s) \in Nat
      BY <1>1
    <3>2. Cardinality(s \ {x}) = Cardinality(s) - 1
      BY <3>1, FS_RemoveElement
    <3>3. Cardinality(s \ {x}) <= n
      BY <2>1, <3>1, <3>2, SMT
    <3> QED
      BY <3>3
  <2> HIDE DEF Sub
  <2>5. \A s \in Sub(n) : h[s] = g[s]
    BY <2>2, <2>3, Zenon
  <2> HIDE DEF h
  <2>6. \A s \in Sub(n + 1) : SumStep(h, s) = SumStep(g, s)
    <3> TAKE s \in Sub(n + 1)
    <3>1. CASE s = {}
      BY <3>1 DEF SumStep
    <3>2. CASE s # {}
      <4> DEFINE x == CHOOSE x \in s : TRUE
      <4>1. x \in s
        BY <3>2
      <4>2. h[s \ {x}] = g[s \ {x}]
        BY <2>4, <2>5, <3>2, <4>1
      <4>3. \A f : SumStep(f, s) = Lasted(x) + f[s \ {x}]
        BY <3>2 DEF SumStep
      <4> HIDE DEF x
      <4> QED
        BY <4>2, <4>3
    <3> QED
      BY <3>1, <3>2
  <2>7. UpToSize(h, n + 1)
    BY <2>6, Zenon DEF h
  <2> HIDE DEF UpToSize
  <2> QED
    BY <2>1, <2>7, SMT
<1>4. A = Nat
  <2> HIDE DEF A
  <2>1. A \in SUBSET Nat
    BY DEF A
  <2> QED
    BY <1>2, <1>3, <2>1, AllNumbers
<1>5. PICK g : UpToSize(g, Cardinality(S))
  <2>1. Cardinality(S) \in Nat
    BY FS_CardinalityType
  <2> QED
    BY <1>4, <2>1
<1>6. Sub(Cardinality(S)) = SUBSET S
  BY FS_Subset
<1> QED
  BY <1>5, <1>6 DEF SumOf

\* A sum of so many summands lies between as many times the bounds of each.
LEMMA SumBounds ==
  ASSUME NEW S, IsFiniteSet(S), NEW g, SumOf(g, S), NEW lo \in Int, NEW hi \in Int,
         \A x \in S : Lasted(x) \in Int /\ lo <= Lasted(x) /\ Lasted(x) <= hi
  PROVE  /\ g[S] \in Int
         /\ lo * Cardinality(S) <= g[S] /\ g[S] <= hi * Cardinality(S)
<1> DEFINE Within(s) == /\ g[s] \in Int
                        /\ lo * Cardinality(s) <= g[s] /\ g[s] <= hi * Cardinality(s)
          A == {n \in Nat : \A s \in SUBSET S : Cardinality(s) = n => Within(s)}
<1>1. \A s \in SUBSET S : /\ IsFiniteSet(s) /\ Cardinality(s) \in Nat
                          /\ g[s] = SumStep(g, s)
  BY FS_Subset, FS_CardinalityType DEF SumOf
<1>2. 0 \in A
  <2> SUFFICES ASSUME NEW s \in SUBSET S, Cardinality(s) = 0
               PROVE  Within(s)
    OBVIOUS
  <2>1. s = {}
    BY <1>1, FS_EmptySet
  <2>2. g[s] = 0
    BY <1>1, <2>1 DEF SumStep
  <2> QED
    BY <2>2, SMT
<1>3. ASSUME NEW n \in A
      PROVE  n + 1 \in A
  <2>1. n \in Nat /\ n + 1 \in Nat
    BY SMT
  <2> SUFFICES ASSUME NEW s \in SUBSET S, Cardinality(s) = n + 1
               PROVE  Within(s)
    BY <2>1, Zenon
  <2> DEFINE x == CHOOSE x \in s : TRUE
            rest == s \ {x}
  <2>2. s # {}
    <3>1. Cardinality({}) = 0 /\ n + 1 # 0
      BY <2>1, FS_EmptySet
    <3> QED
      BY <3>1
  <2>3. x \in s
    BY <2>2
  <2>4. rest \in SUBSET S /\ Cardinality(rest) = Cardinality(s) - 1
    BY <1>1, <2>3, FS_RemoveElement
  <2>5. g[s] = Lasted(x) + g[rest]
    BY <1>1, <2>2 DEF SumStep
  <2>6. Lasted(x) \in Int /\ lo <= Lasted(x) /\ Lasted(x) <= hi
    BY <2>3
  <2> HIDE DEF x, rest
  <2>7. Cardinality(rest) = n
    BY <2>1, <2>4, SMT
  <2>8. Within(rest)
    BY <2>4, <2>7
  <2>9. lo * (n + 1) = lo * n + lo /\ hi * (n + 1) = hi * n + hi /\ lo * n \in Int /\ hi * n \in Int
    BY <2>1, SMT
  <2> DEFINE a == lo * n  b == hi * n  c == lo * (n + 1)  d == hi * (n + 1)
  <2>10. g[rest] \in Int /\ a <= g[rest] /\ g[rest] <= b /\ c = a + lo /\ d = b + hi
         /\ a \in Int /\ b \in Int
    BY <2>7, <2>8, <2>9
  <2> HIDE DEF a, b, c, d
  <2>11. Lasted(x) + g[rest] \in Int /\ c <= Lasted(x) + g[rest] /\ Lasted(x) + g[rest] <= d
    BY <2>6, <2>10, SMT
  <2> QED
    BY <2>5, <2>11 DEF c, d
<1>4. A = Nat
  <2> HIDE DEF A
  <2>1. A \in SUBSET Nat
    BY DEF A
  <2> QED
    BY <1>2, <1>3, <2>1, AllNumbers
<1>5. Cardinality(S) \in A
  BY <1>1, <1>4
<1> QED
  BY <1>5

LEMMA Quotient ==
  ASSUME NEW a \in Int, NEW b \in Nat \ {0}
  PROVE  a \div b \in Int /\ b * (a \div b) <= a /\ a < b * (a \div b + 1)
BY SMT

LEMMA Product ==
  ASSUME NEW n \in Nat \ {0}, NEW a \in Int, NEW b \in Int
  PROVE  /\ a * n \in Int /\ b * n \in Int
         /\ a <= b => a * n <= b * n
         /\ a < b => a * n < b * n
BY SMT

\* The quotient of a sum by so many minutes, rounded, is between what is rounded
\* of as many times one bound and the other.
LEMMA RoundedBetween ==
  ASSUME NEW n \in Nat \ {0}, NEW sum \in Int, NEW lo \in Int, NEW hi \in Int,
         lo * n <= sum, sum <= hi * n
  PROVE  /\ Session!Rounded(lo, Session!Minute) <= Session!Rounded(sum, Session!Minute * n)
         /\ Session!Rounded(sum, Session!Minute * n) <= Session!Rounded(hi, Session!Minute)
<1> DEFINE b == 60000 * n
          p == (sum + 30000 * n) \div b
          q == (lo + 30000) \div 60000
          r == (hi + 30000) \div 60000
<1>1. /\ Session!Rounded(lo, Session!Minute) = q /\ Session!Rounded(hi, Session!Minute) = r
      /\ Session!Rounded(sum, Session!Minute * n) = p
  <2>1. Session!Minute = 60000 /\ 60000 \div 2 = 30000
    BY SMT DEF Session!Minute
  <2>2. (60000 * n) \div 2 = 30000 * n
    BY SMT
  <2> QED
    BY <2>1, <2>2 DEF Session!Rounded
<1>2. b \in Nat \ {0} /\ sum + 30000 * n \in Int /\ lo + 30000 \in Int /\ hi + 30000 \in Int
  BY SMT
<1>3. p \in Int /\ b * p <= sum + 30000 * n /\ sum + 30000 * n < b * (p + 1)
  <2> DEFINE a == sum + 30000 * n
  <2>1. a \in Int /\ b \in Nat \ {0}
    BY <1>2
  <2> HIDE DEF a, b
  <2>2. a \div b \in Int /\ b * (a \div b) <= a /\ a < b * (a \div b + 1)
    BY <2>1, Quotient
  <2> QED
    BY <2>2 DEF a
<1>4. q \in Int /\ 60000 * q <= lo + 30000 /\ r \in Int /\ hi + 30000 < 60000 * (r + 1)
  BY <1>2, Quotient
<1> HIDE DEF p, q, r, b
<1>5. q <= p
  <2> SUFFICES ASSUME p + 1 <= q  PROVE FALSE
    BY <1>3, <1>4, SMT
  <2>1. 60000 * (p + 1) <= lo + 30000
    BY <1>3, <1>4, SMT
  <2>2. 60000 * (p + 1) * n <= (lo + 30000) * n
    BY <1>2, <1>3, <2>1, Product
  <2>3. (lo + 30000) * n = lo * n + 30000 * n /\ 60000 * (p + 1) * n = b * (p + 1)
    BY <1>3, SMT DEF b
  <2> DEFINE x == b * (p + 1)  y == lo * n  z == 30000 * n
  <2>4. x \in Int /\ y \in Int /\ z \in Int
    BY <1>2, <1>3, SMT
  <2>5. x <= y + z /\ y <= sum /\ sum + z < x
    BY <1>3, <2>2, <2>3
  <2> HIDE DEF x, y, z
  <2> QED
    BY <2>4, <2>5, SMT
<1>6. p <= r
  <2> SUFFICES ASSUME r + 1 <= p  PROVE FALSE
    BY <1>3, <1>4, SMT
  <2>1. hi + 30000 < 60000 * p
    BY <1>3, <1>4, SMT
  <2>2. (hi + 30000) * n < 60000 * p * n
    BY <1>2, <1>3, <2>1, Product
  <2>3. (hi + 30000) * n = hi * n + 30000 * n /\ 60000 * p * n = b * p
    BY <1>3, SMT DEF b
  <2> DEFINE x == b * p  y == hi * n  z == 30000 * n
  <2>4. x \in Int /\ y \in Int /\ z \in Int
    BY <1>2, <1>3, SMT
  <2>5. y + z < x /\ sum <= y /\ x <= sum + z
    BY <1>3, <2>2, <2>3
  <2> HIDE DEF x, y, z
  <2> QED
    BY <2>4, <2>5, SMT
<1> QED
  BY <1>1, <1>5, <1>6

\* What is counted over sessions of which each has its times.
LEMMA StatsOf ==
  ASSUME NEW kept, IsFiniteSet(kept), now \in Int,
         \A s \in kept : s.isActive \in BOOLEAN /\ s.joinedAt \in Int
  PROVE  LET stats == Session!calculateSessionStats(kept, now)
             Minutes(joinedAt) == Session!Rounded(now - joinedAt, Session!Minute)
         IN  /\ stats.active + stats.inactive = stats.total
             /\ stats.active > 0 =>
                  /\ Minutes(stats.newestActiveSession) <= stats.averageSessionDuration
                  /\ stats.averageSessionDuration <= Minutes(stats.oldestActiveSession)
                  /\ \A s \in kept : s.isActive => s.joinedAt \in
                       stats.oldestActiveSession..stats.newestActiveSession
<1> DEFINE active == {s \in kept : s.isActive}
          stats == Session!calculateSessionStats(kept, now)
          joined == {s.joinedAt : s \in active}
          oldest == Session!Min(joined)
          newest == Session!Max(joined)
          n == Cardinality(active)
          average == Session!calculateAverageSessionDuration(active, now)
<1>1. IsFiniteSet(active) /\ n \in Nat /\ Cardinality(kept) \in Nat
  <2>1. active \in SUBSET kept
    OBVIOUS
  <2> QED
    BY <2>1, FS_Subset, FS_CardinalityType
<1>2. \A S : Session!Cardinality(S) = Cardinality(S)
  BY Zenon DEF Session!Cardinality, Cardinality
<1>3. stats = [total |-> Cardinality(kept), active |-> n, inactive |-> Cardinality(kept) - n,
               averageSessionDuration |-> average,
               oldestActiveSession |-> Session!findOldestAndNewestSessions(active).oldest,
               newestActiveSession |-> Session!findOldestAndNewestSessions(active).newest]
  BY <1>2, Zenon DEF Session!calculateSessionStats
<1> DEFINE finds == Session!findOldestAndNewestSessions(active)
<1>4. /\ stats.total = Cardinality(kept) /\ stats.active = n
      /\ stats.inactive = Cardinality(kept) - n /\ stats.averageSessionDuration = average
      /\ stats.oldestActiveSession = finds.oldest /\ stats.newestActiveSession = finds.newest
  BY <1>3
<1> HIDE DEF stats, average, finds
<1>5. n + (Cardinality(kept) - n) = Cardinality(kept)
  <2> HIDE DEF n
  <2> QED
    BY <1>1, SMT
<1>6. ASSUME n > 0
      PROVE  /\ finds.oldest = oldest /\ finds.newest = newest
             /\ oldest \in Int /\ newest \in Int
             /\ \A s \in active : oldest <= s.joinedAt /\ s.joinedAt <= newest
             /\ Session!Rounded(now - newest, Session!Minute) <= average
             /\ average <= Session!Rounded(now - oldest, Session!Minute)
  <2>1. active # {}
    BY <1>6, FS_EmptySet
  <2>2. joined \in SUBSET Int /\ joined # {} /\ IsFiniteSet(joined)
    <3>1. joined \in SUBSET Int /\ joined # {}
      BY <2>1
    <3> DEFINE f == [s \in active |-> s.joinedAt]
    <3>2. f \in Surjection(active, joined)
      BY DEF Surjection
    <3> QED
      BY <1>1, <3>1, <3>2, FS_Surjection
  <2>3. /\ oldest \in joined /\ \A i \in joined : oldest <= i
        /\ newest \in joined /\ \A i \in joined : i <= newest
    <3>1. \A S : Session!Min(S) = User!Min(S) /\ Session!Max(S) = User!Max(S)
      BY Zenon DEF Session!Min, User!Min, Session!Max, User!Max
    <3> HIDE DEF joined
    <3> QED
      BY <2>2, <3>1, Extremes
  <2>4. finds.oldest = oldest /\ finds.newest = newest
    BY <2>1 DEF finds, Session!findOldestAndNewestSessions
  <2> HIDE DEF oldest, newest
  <2>5. oldest \in Int /\ newest \in Int /\ \A s \in active : oldest <= s.joinedAt /\ s.joinedAt <= newest
    BY <2>2, <2>3
  <2> HIDE DEF joined
  <2>6. PICK g : SumOf(g, active) /\ g = CHOOSE sum : SumOf(sum, active)
    BY <1>1, SumExists
  <2>7. average = Session!Rounded(g[active], Session!Minute * n)
    <3>1. Session!MapThenSumSet(LAMBDA s : now - s.joinedAt, active) = g[active]
      BY <2>6, SumUnfolded
    <3>2. average = Session!Rounded(Session!MapThenSumSet(LAMBDA s : now - s.joinedAt, active),
                                    Session!Minute * Session!Cardinality(active))
      BY <2>1 DEF average, Session!calculateAverageSessionDuration
    <3> QED
      BY <1>2, <3>1, <3>2
  <2> DEFINE lo == now - newest  hi == now - oldest
  <2>8. \A s \in active : Lasted(s) \in Int /\ lo <= Lasted(s) /\ Lasted(s) <= hi
    <3> TAKE s \in active
    <3>1. s.joinedAt \in Int /\ oldest <= s.joinedAt /\ s.joinedAt <= newest
      BY <2>5
    <3> QED
      BY <2>5, <3>1, SMT DEF Lasted
  <2>9. lo \in Int /\ hi \in Int
    BY <2>5
  <2> HIDE DEF lo, hi, active
  <2>10. g[active] \in Int /\ lo * n <= g[active] /\ g[active] <= hi * n
    BY <1>1, <2>6, <2>8, <2>9, SumBounds
  <2>11. n \in Nat \ {0}
    BY <1>1, <1>6
  <2> HIDE DEF n
  <2>12. /\ Session!Rounded(lo, Session!Minute) <= Session!Rounded(g[active], Session!Minute * n)
         /\ Session!Rounded(g[active], Session!Minute * n) <= Session!Rounded(hi, Session!Minute)
    BY <2>9, <2>10, <2>11, RoundedBetween
  <2> QED
    BY <2>4, <2>5, <2>7, <2>12 DEF lo, hi
<1>7. ASSUME n > 0, NEW s \in kept, s.isActive
      PROVE  s.joinedAt \in oldest..newest
  <2>1. s \in active /\ s.joinedAt \in Int
    BY <1>7
  <2>2. oldest \in Int /\ newest \in Int /\ oldest <= s.joinedAt /\ s.joinedAt <= newest
    BY <1>6, <1>7, <2>1
  <2> HIDE DEF oldest, newest
  <2> QED
    BY <2>1, <2>2
<1> HIDE DEF n, oldest, newest
<1> QED
  BY <1>4, <1>5, <1>6, <1>7 DEF stats

\* Whatever sessions there are, however many, and wherever the clock was set.
THEOREM RequestsStatsBounded == RequestsSpec => []StatsBounded
<1>1. RequestsInit => SessionsInv
  BY HandlerConstants DEF RequestsInit, Init, SessionsInv
<1>2. SessionsInv => StatsBounded
  <2> SUFFICES ASSUME SessionsInv  PROVE StatsBounded
    OBVIOUS
  <2> DEFINE known == {x \in SessionIds : sessions[x] # None}
            row(id) == Project!Spread([id |-> id], sessions[id])
            kept == {row(id) : id \in known}
  <2>1. IsFiniteSet(kept)
    <3>1. IsFiniteSet(known)
      <4>1. known \in SUBSET SessionIds
        OBVIOUS
      <4> QED
        BY <4>1, HandlerConstants, FS_Subset
    <3> DEFINE f == [id \in known |-> row(id)]
    <3>2. f \in Surjection(known, kept)
      BY DEF Surjection
    <3> QED
      BY <3>1, <3>2, FS_Surjection
  <2>2. \A s \in kept : s.isActive \in BOOLEAN /\ s.joinedAt \in Int
    <3> SUFFICES ASSUME NEW id \in known
                 PROVE  row(id).isActive \in BOOLEAN /\ row(id).joinedAt \in Int
      OBVIOUS
    <3>1. SessionTyped(sessions[id])
      BY DEF SessionsInv
    <3>2. row(id).isActive = sessions[id].isActive /\ row(id).joinedAt = sessions[id].joinedAt
      BY <3>1 DEF SessionTyped, Project!Spread
    <3> QED
      BY <3>1, <3>2, HandlerConstants DEF SessionTyped
  <2>3. now \in Int
    BY HandlerConstants DEF SessionsInv
  <2> HIDE DEF known, row
  <2> QED
    BY <2>1, <2>2, <2>3, StatsOf DEF StatsBounded, known, row
<1> QED
  BY <1>1, <1>2, SessionsKept, PTL DEF RequestsSpec

-----------------------------------------------------------------------------
(* What is said of a batch *)

Batch(results) ==
    /\ Len(results) \in Nat /\ DOMAIN results = 1..Len(results)
    /\ \A i \in DOMAIN results : results[i].status \in {"success", "failed"}

CountOf(results, error) == Cardinality({i \in DOMAIN results : results[i].error = error})

LEMMA CountedInBatch ==
  /\ \A S : Mutation!Cardinality(S) = Cardinality(S)
  /\ \A results, error : Mutation!countErrorOccurrences(results, error) = CountOf(results, error)
  /\ \A results, i, j :
       Mutation!MoreCommon(results, i, j)
         <=> \/ CountOf(results, results[i].error) > CountOf(results, results[j].error)
             \/ /\ CountOf(results, results[i].error) = CountOf(results, results[j].error)
                /\ i < j
<1>1. \A S : Mutation!Cardinality(S) = Cardinality(S)
  BY Zenon DEF Mutation!Cardinality, Cardinality
<1>2. \A results, error : Mutation!countErrorOccurrences(results, error) = CountOf(results, error)
  BY <1>1 DEF Mutation!countErrorOccurrences, CountOf
<1> QED
  BY <1>1, <1>2, Zenon DEF Mutation!MoreCommon

\* What is sorted: the first places, each with its error.
LEMMA FirstPlacesOrdered ==
  ASSUME NEW results, Batch(results)
  PROVE  LET places == Mutation!FirstPlaces(results)
             before == {pair \in places \X places : Mutation!MoreCommon(results, pair[1], pair[2])}
         IN  /\ IsFiniteSet(places) /\ places \subseteq DOMAIN results
             /\ \A i \in DOMAIN results : CountOf(results, results[i].error) \in Nat
             /\ StrictOrder(before, places)
             /\ \A i, j \in places : <<i, j>> \in before <=> Mutation!MoreCommon(results, i, j)
             /\ \A i, j \in places : results[i].error = results[j].error => i = j
             /\ \A i \in DOMAIN results : results[i].error # None =>
                  \E j \in places : results[j].error = results[i].error
<1> DEFINE places == Mutation!FirstPlaces(results)
          before == {pair \in places \X places : Mutation!MoreCommon(results, pair[1], pair[2])}
          n == Len(results)
          count(i) == CountOf(results, results[i].error)
<1>1. n \in Nat /\ DOMAIN results = 1..n
  BY DEF Batch
<1>2. IsFiniteSet(DOMAIN results)
  BY <1>1, FS_Interval
<1>3. places \in SUBSET DOMAIN results
  BY DEF Mutation!FirstPlaces
<1>4. IsFiniteSet(places)
  BY <1>2, <1>3, FS_Subset
<1>5. \A i \in DOMAIN results : count(i) \in Nat
  <2> TAKE i \in DOMAIN results
  <2>1. {j \in DOMAIN results : results[j].error = results[i].error} \in SUBSET DOMAIN results
    OBVIOUS
  <2> QED
    BY <1>2, <2>1, FS_Subset, FS_CardinalityType DEF CountOf
<1>6. \A i, j \in places : <<i, j>> \in before <=> Mutation!MoreCommon(results, i, j)
  OBVIOUS
<1> DEFINE Sooner(i, j) == count(i) > count(j) \/ (count(i) = count(j) /\ i < j)
<1>7. \A i, j \in places : <<i, j>> \in before <=> Sooner(i, j)
  <2>1. \A i, j : Mutation!MoreCommon(results, i, j) <=> Sooner(i, j)
    BY CountedInBatch
  <2> HIDE DEF before, places, Sooner
  <2> QED
    BY <1>6, <2>1, Zenon
<1>8. \A i \in places : count(i) \in Int /\ i \in Int
  BY <1>1, <1>3, <1>5
<1>9. StrictOrder(before, places)
  <2> HIDE DEF before, count, places
  <2>1. \A i \in places : <<i, i>> \notin before
    BY <1>7, <1>8
  <2>2. \A i, j, k \in places : <<i, j>> \in before /\ <<j, k>> \in before => <<i, k>> \in before
    BY <1>7, <1>8
  <2>3. \A i, j \in places : i # j => <<i, j>> \in before \/ <<j, i>> \in before
    <3> TAKE i, j \in places
    <3>1. /\ <<i, j>> \in before <=> count(i) > count(j) \/ (count(i) = count(j) /\ i < j)
          /\ <<j, i>> \in before <=> count(j) > count(i) \/ (count(j) = count(i) /\ j < i)
      BY <1>7
    <3>2. count(i) \in Int /\ count(j) \in Int /\ i \in Int /\ j \in Int
      BY <1>8
    <3> QED
      BY <3>1, <3>2, SMT
  <2> QED
    BY <2>1, <2>2, <2>3 DEF StrictOrder
<1>10. \A i, j \in places : results[i].error = results[j].error => i = j
  <2> SUFFICES ASSUME NEW i \in places, NEW j \in places, results[i].error = results[j].error, i < j
               PROVE  FALSE
    BY <1>8
  <2>1. i \in 1..j - 1
    <3>1. i \in 1..n /\ j \in 1..n
      BY <1>1, <1>3
    <3> QED
      BY <3>1
  <2> QED
    BY <2>1 DEF Mutation!FirstPlaces
<1>11. ASSUME NEW i \in DOMAIN results, results[i].error # None
       PROVE  \E j \in places : results[j].error = results[i].error
  <2> DEFINE same == {j \in DOMAIN results : results[j].error = results[i].error}
            first == User!Min(same)
  <2>1. same \in SUBSET DOMAIN results /\ same # {}
    OBVIOUS
  <2>2. IsFiniteSet(same) /\ same \in SUBSET Int
    BY <1>1, <1>2, <2>1, FS_Subset
  <2>3. first \in same /\ \A j \in same : first <= j
    BY <2>1, <2>2, Extremes
  <2> HIDE DEF first
  <2>4. first \in 1..n
    BY <1>1, <2>3
  <2>5. \A j \in 1..first - 1 : j \in DOMAIN results /\ ~(first <= j)
    <3> HIDE DEF same
    <3> QED
      BY <1>1, <2>4
  <2>6. \A j \in 1..first - 1 : results[j].error # results[first].error
    BY <2>3, <2>5
  <2>7. first \in places
    BY <1>11, <2>3, <2>6 DEF Mutation!FirstPlaces
  <2> QED
    BY <2>3, <2>7
<1> QED
  BY <1>3, <1>4, <1>5, <1>6, <1>9, <1>10, <1>11

\* Of fewer than 20000, the rounded rate tells none and all from some.
RateRight(p, t) ==
    LET rate == Mutation!calculateSuccessRate(p, t)
    IN  /\ rate \in Int /\ rate <= 10000
        /\ rate = 10000 <=> p = t
        /\ rate = 0 <=> p = 0

LEMMA RateOfFew ==
  ASSUME NEW t \in FewEnough, NEW p \in 0..t
  PROVE  RateRight(p, t)
<1>1. t \in 1..19999
  BY DEF FewEnough
<1> DEFINE rate == Mutation!calculateSuccessRate(p, t)
          a == 20000 * p + t
          b == 2 * t
<1>2. a \in Int /\ b \in Nat \ {0} /\ t \in Int /\ p \in Int /\ t # 0
  BY <1>1, SMT
<1>3. (20000 * t <= a => p = t) /\ (a < 2 * t => p = 0)
  BY <1>1, SMT
<1>4. rate = a \div b
  <2>1. ~(t = 0)
    BY <1>2
  <2> QED
    BY <2>1 DEF Mutation!calculateSuccessRate, b
<1> HIDE DEF rate, b
<1> DEFINE low == b * rate  high == b * (rate + 1)
<1>5. rate \in Int /\ low <= a /\ a < high
  <2> HIDE DEF a
  <2> QED
    BY <1>2, <1>4, Quotient
<1>6. rate * b = low /\ (rate + 1) * b = high /\ low \in Int /\ high \in Int
  BY <1>2, <1>5, SMT
<1>7. \A q \in Int : /\ q * b \in Int
                     /\ q <= rate => q * b <= low
                     /\ rate + 1 <= q => high <= q * b
  <2> TAKE q \in Int
  <2>1. rate + 1 \in Int
    BY <1>5
  <2> HIDE DEF low, high
  <2> QED
    BY <1>2, <1>5, <1>6, <2>1, Product
<1> HIDE DEF low, high
<1>8. 10001 * b = 20002 * t /\ 10000 * b = 20000 * t /\ 1 * b = 2 * t /\ 0 * b = 0
  BY <1>1, SMT DEF b
<1>9. rate <= 10000
  <2> SUFFICES ASSUME 10001 <= rate  PROVE FALSE
    BY <1>5
  <2>1. 20002 * t <= low
    BY <1>7, <1>8
  <2> QED
    BY <1>2, <1>5, <1>6, <2>1, SMT
<1>10. p = t => rate = 10000
  <2> SUFFICES ASSUME p = t, rate + 1 <= 10000  PROVE FALSE
    BY <1>5, <1>9
  <2>1. high <= 20000 * t
    BY <1>7, <1>8
  <2> QED
    BY <1>2, <1>5, <1>6, <2>1, SMT
<1>11. rate = 10000 => p = t
  <2> SUFFICES ASSUME rate = 10000  PROVE p = t
    OBVIOUS
  <2>1. low = 20000 * t
    BY <1>6, <1>8
  <2> QED
    BY <1>5, <1>3, <2>1
<1>12. p = 0 => rate = 0
  <2> SUFFICES ASSUME p = 0  PROVE rate = 0
    OBVIOUS
  <2>1. ~(1 <= rate)
    <3> SUFFICES ASSUME 1 <= rate  PROVE FALSE
      OBVIOUS
    <3>1. 2 * t <= low
      BY <1>7, <1>8
    <3> QED
      BY <1>2, <1>5, <1>6, <3>1, SMT
  <2>2. ~(rate + 1 <= 0)
    <3> SUFFICES ASSUME rate + 1 <= 0  PROVE FALSE
      OBVIOUS
    <3>1. high <= 0
      BY <1>7, <1>8
    <3> QED
      BY <1>2, <1>5, <1>6, <3>1, SMT
  <2> QED
    BY <1>5, <2>1, <2>2
<1>13. rate = 0 => p = 0
  <2> SUFFICES ASSUME rate = 0  PROVE p = 0
    OBVIOUS
  <2>1. high = 2 * t
    BY <1>6, <1>8
  <2> QED
    BY <1>5, <1>3, <2>1
<1> QED
  BY <1>5, <1>9, <1>10, <1>11, <1>12, <1>13 DEF rate, RateRight

\* In a batch, what did not succeed failed.
LEMMA Succeeded ==
  ASSUME NEW results, Batch(results)
  PROVE  LET processed == Mutation!countMutations(results, "success")
             failed    == Mutation!countMutations(results, "failed")
         IN  /\ processed \in 0..Len(results)
             /\ failed = 0 <=> processed = Len(results)
<1> DEFINE places == DOMAIN results
          With(status) == {i \in places : results[i].status = status}
          n == Len(results)
<1>1. n \in Nat /\ places = 1..n /\ \A i \in places : results[i].status \in {"success", "failed"}
  BY DEF Batch
<1>2. \A status : Mutation!countMutations(results, status) = Cardinality(With(status))
  BY CountedInBatch DEF Mutation!countMutations
<1> DEFINE good == With("success")  bad == With("failed")
<1>3. good \in SUBSET places /\ bad \in SUBSET places /\ bad = places \ good /\ good \cap bad = {}
      /\ good \cup bad = places
  BY <1>1
<1>4. Mutation!countMutations(results, "success") = Cardinality(good)
      /\ Mutation!countMutations(results, "failed") = Cardinality(bad)
  BY <1>2
<1> HIDE DEF good, bad, places
<1>5. IsFiniteSet(places) /\ Cardinality(places) = n
  <2>1. IsFiniteSet(1..n) /\ Cardinality(1..n) = IF 1 > n THEN 0 ELSE n - 1 + 1
    BY <1>1, FS_Interval
  <2>2. (IF 1 > n THEN 0 ELSE n - 1 + 1) = n
    <3>1. n \in Nat
      BY <1>1
    <3> QED
      BY <3>1, SMT
  <2> QED
    BY <1>1, <2>1, <2>2
<1>6. IsFiniteSet(good) /\ Cardinality(good) \in Nat /\ Cardinality(good) <= n
      /\ IsFiniteSet(bad)
  BY <1>3, <1>5, FS_Subset, FS_CardinalityType
<1>7. Cardinality(bad) = 0 <=> bad = {}
  BY <1>6, FS_EmptySet
<1>8. Cardinality(good) = n <=> good = places
  BY <1>3, <1>5, <1>6, FS_Subset
<1>9. bad = {} <=> good = places
  BY <1>3
<1>10. Cardinality(good) \in 0..n
  BY <1>1, <1>6
<1> QED
  BY <1>4, <1>7, <1>8, <1>9, <1>10

LEMMA MostCommonListed ==
  ASSUME NEW results, Batch(results)
  PROVE  ListsMostCommon(results, Mutation!extractCommonErrors(results))
<1> DEFINE places == Mutation!FirstPlaces(results)
          before == {pair \in places \X places : Mutation!MoreCommon(results, pair[1], pair[2])}
          size == Cardinality(places)
          length == IF size < MaxErrors THEN size ELSE MaxErrors
          rank(i) == RankBy(before, places, i)
          ranked(n) == CHOOSE i \in places : rank(i) = n - 1
          listed == [n \in 1..length |-> results[ranked(n)].error]
          count(i) == CountOf(results, results[i].error)
<1>1. /\ IsFiniteSet(places) /\ places \subseteq DOMAIN results
      /\ \A i \in DOMAIN results : count(i) \in Nat
      /\ StrictOrder(before, places)
      /\ \A i, j \in places : <<i, j>> \in before <=> Mutation!MoreCommon(results, i, j)
      /\ \A i, j \in places : results[i].error = results[j].error => i = j
      /\ \A i \in DOMAIN results : results[i].error # None =>
           \E j \in places : results[j].error = results[i].error
  BY FirstPlacesOrdered
<1>2. /\ size \in Nat /\ MaxErrors \in Nat /\ length \in Nat /\ length <= size
      /\ length < size => length = MaxErrors
  <2>1. size \in Nat /\ MaxErrors \in Nat
    BY <1>1, Batches, FS_CardinalityType
  <2> HIDE DEF size
  <2> QED
    BY <2>1, SMT
<1> HIDE DEF before, places
<1>3. /\ \A i \in places : rank(i) \in 0..(size - 1)
      /\ \A i, k \in places : <<i, k>> \in before => rank(i) < rank(k)
      /\ \A n \in 1..size : \E i \in places : rank(i) = n - 1
  BY <1>1, Ranking
<1>4. Mutation!extractCommonErrors(results) = listed
  <2>1. \A i \in places : rank(i) = Cardinality({j \in places : Mutation!MoreCommon(results, j, i)})
    <3> TAKE i \in places
    <3>1. {j \in places : <<j, i>> \in before} = {j \in places : Mutation!MoreCommon(results, j, i)}
      BY <1>1
    <3> QED
      BY <3>1 DEF RankBy
  <2>2. \A n : Mutation!SortedPlace(results, n)
                 = CHOOSE i \in places :
                     Cardinality({j \in places : Mutation!MoreCommon(results, j, i)}) = n - 1
    BY CountedInBatch DEF Mutation!SortedPlace, places
  <2>3. \A n : Mutation!SortedPlace(results, n) = ranked(n)
    <3> TAKE n
    <3>1. \A i : i \in places /\ rank(i) = n - 1
                   <=> i \in places
                       /\ Cardinality({j \in places : Mutation!MoreCommon(results, j, i)}) = n - 1
      BY <2>1
    <3> QED
      BY <2>2, <3>1
  <2>4. Mutation!extractCommonErrors(results)
          = [n \in 1..length |-> results[Mutation!SortedPlace(results, n)].error]
    BY CountedInBatch DEF Mutation!extractCommonErrors, places
  <2> QED
    BY <2>3, <2>4
<1> HIDE DEF rank, length, size
<1>5. \A n \in 1..length : ranked(n) \in places /\ rank(ranked(n)) = n - 1 /\ n \in 1..size
  <2> TAKE n \in 1..length
  <2>1. n \in 1..size
    BY <1>2
  <2>2. \E i \in places : rank(i) = n - 1
    BY <1>3, <2>1
  <2> QED
    BY <2>1, <2>2
<1> HIDE DEF ranked
<1>6. \A i, k \in places : rank(i) < rank(k) => count(i) >= count(k) /\ i # k
  <2> TAKE i, k \in places
  <2>1. rank(i) \in Int /\ rank(k) \in Int
    BY <1>2, <1>3, SMT
  <2>2. SUFFICES ASSUME rank(i) < rank(k)  PROVE count(i) >= count(k) /\ i # k
    OBVIOUS
  <2>3. i # k /\ ~(rank(k) < rank(i))
    BY <2>1, <2>2, SMT
  <2>4. <<i, k>> \in before
    BY <1>1, <1>3, <2>3 DEF StrictOrder
  <2>5. count(i) \in Int /\ count(k) \in Int
    BY <1>1
  <2>6. Mutation!MoreCommon(results, i, k)
    BY <1>1, <2>4
  <2>7. count(i) > count(k) \/ count(i) = count(k)
    BY <2>6, CountedInBatch
  <2> QED
    BY <2>3, <2>5, <2>7
<1>7. DOMAIN listed = 1..length /\ Len(listed) = length
      /\ \A n \in 1..length : listed[n] = results[ranked(n)].error
  <2>1. listed \in Seq({results[i].error : i \in places})
    BY <1>2, <1>5
  <2>2. DOMAIN listed = 1..length
    OBVIOUS
  <2>3. Len(listed) \in Nat /\ 1..Len(listed) = 1..length
    BY <2>1, <2>2, LenProperties
  <2>4. Len(listed) = length
    BY <1>2, <2>3, UpTo
  <2> QED
    BY <2>2, <2>4
<1> HIDE DEF listed, count
<1>8. ASSUME NEW i \in DOMAIN listed, NEW j \in DOMAIN listed, i < j
      PROVE  listed[i] # listed[j] /\ CountOf(results, listed[i]) >= CountOf(results, listed[j])
  <2>1. i \in 1..length /\ j \in 1..length
    BY <1>7
  <2>2. rank(ranked(i)) < rank(ranked(j)) /\ ranked(i) \in places /\ ranked(j) \in places
    <3>1. rank(ranked(i)) = i - 1 /\ rank(ranked(j)) = j - 1
          /\ ranked(i) \in places /\ ranked(j) \in places
      BY <1>5, <2>1
    <3>2. i - 1 < j - 1
      BY <1>8, <2>1, SMT
    <3> QED
      BY <3>1, <3>2
  <2>3. count(ranked(i)) >= count(ranked(j)) /\ ranked(i) # ranked(j)
    BY <1>6, <2>2
  <2>4. results[ranked(i)].error # results[ranked(j)].error
    BY <1>1, <2>2, <2>3
  <2> QED
    BY <1>7, <2>1, <2>3, <2>4 DEF count
<1>9. ASSUME NEW at \in DOMAIN results, results[at].error # None
      PROVE  \/ \E i \in DOMAIN listed : listed[i] = results[at].error
             \/ /\ Len(listed) = MaxErrors
                /\ \A i \in DOMAIN listed :
                     CountOf(results, listed[i]) >= CountOf(results, results[at].error)
  <2>1. PICK p \in places : results[p].error = results[at].error
    BY <1>1, <1>9
  <2> DEFINE r == rank(p)
  <2>2. r \in 0..(size - 1)
    BY <1>3
  <2> HIDE DEF r
  <2>3. CASE r < length
    <3>1. r \in Nat /\ length \in Nat /\ r < length
      BY <1>2, <2>2, <2>3, SMT
    <3>2. \E m \in 1..length : m - 1 = r
      <4>1. r + 1 \in 1..length /\ (r + 1) - 1 = r
        BY <3>1, SMT
      <4> QED
        BY <4>1
    <3>3. PICK m \in 1..length : m - 1 = r
      BY <3>2
    <3>4. ranked(m) \in places /\ rank(ranked(m)) = r
      BY <1>5, <3>3
    <3>5. ranked(m) = p
      <4> SUFFICES ASSUME ranked(m) # p  PROVE FALSE
        OBVIOUS
      <4>1. rank(ranked(m)) < rank(p) \/ rank(p) < rank(ranked(m))
        BY <1>1, <1>3, <3>4 DEF StrictOrder
      <4>2. ~(r < r)
        BY <3>1, SMT
      <4> QED
        BY <3>4, <4>1, <4>2 DEF r
    <3> QED
      BY <1>7, <2>1, <3>3, <3>5
  <2>4. CASE ~(r < length)
    <3>1. length < size /\ r \in Int /\ \A n \in 1..length : n - 1 < r
      BY <1>2, <2>2, <2>4, SMT
    <3>2. ASSUME NEW i \in 1..length
          PROVE  count(ranked(i)) >= count(p)
      <4>1. rank(ranked(i)) < rank(p) /\ ranked(i) \in places
        BY <1>5, <3>1 DEF r
      <4> QED
        BY <1>6, <4>1
    <3>3. \A i \in DOMAIN listed : CountOf(results, listed[i]) >= CountOf(results, results[at].error)
      BY <1>7, <2>1, <3>2 DEF count
    <3> QED
      BY <1>2, <1>7, <3>1, <3>3
  <2> QED
    BY <2>3, <2>4
<1>10. \A error \in {results[i].error : i \in DOMAIN results} \ {None} :
         \/ \E i \in DOMAIN listed : listed[i] = error
         \/ /\ Len(listed) = MaxErrors
            /\ \A i \in DOMAIN listed : CountOf(results, listed[i]) >= CountOf(results, error)
  BY <1>9
<1>11. ListsMostCommon(results, listed)
  BY <1>8, <1>10, Zenon DEF ListsMostCommon, CountOf
<1> QED
  BY <1>4, <1>11

BatchAsked == subject = "batches" /\ asked # None => asked \in BatchResults

LEMMA BatchAskedKept ==
  BatchAsked /\ [RequestsNext]_<<vars, list>> => BatchAsked'
<1> SUFFICES ASSUME BatchAsked, [RequestsNext]_<<vars, list>>, subject' = "batches",
                    asked' # None, asked' # asked
             PROVE  AskBatch
  BY Moves DEF BatchAsked, AskBatch, Ask
<1> QED
  BY Moves DEF Asking, AskBody, AskUrls, AskName, AskEmails, AskAccess, AskAccount, Open

\* Of whatever batch, and for whatever number of listed errors.
THEOREM RequestsSummaryOfBatch == RequestsSpec => []SummaryOfBatch
<1>1. RequestsInit => BatchAsked
  BY DEF RequestsInit, Init, BatchAsked
<1>2. BatchAsked => SummaryOfBatch
  <2> SUFFICES ASSUME BatchAsked, subject = "batches", asked # None
               PROVE  SummaryOfBatch
    BY Zenon DEF SummaryOfBatch
  <2> DEFINE answer == Mutation!createBatchProcessResult(asked)
            processed == Mutation!countMutations(asked, "success")
            failed == Mutation!countMutations(asked, "failed")
  <2>1. Batch(asked)
    BY Batches DEF BatchAsked, Batch
  <2>2. /\ answer.success <=> failed = 0
        /\ answer.processedMutations = processed
        /\ answer.successRate = Mutation!calculateSuccessRate(processed, Len(asked))
        /\ answer.commonErrors = Mutation!extractCommonErrors(asked)
    BY DEF Mutation!createBatchProcessResult
  <2> HIDE DEF answer, processed, failed
  <2>3. processed \in 0..Len(asked) /\ (failed = 0 <=> processed = Len(asked))
    BY <2>1, Succeeded DEF processed, failed
  <2>4. ASSUME Len(asked) \in FewEnough
        PROVE  RateTells(answer)
    <3>1. RateRight(processed, Len(asked))
      BY <2>3, <2>4, RateOfFew
    <3> QED
      BY <2>2, <2>3, <3>1 DEF RateRight, RateTells
  <2>5. ListsMostCommon(asked, answer.commonErrors)
    BY <2>1, <2>2, MostCommonListed
  <2>6. AllButOneTells
    <3> SUFFICES ASSUME NEW total \in {1, 2, 3, 7, 9999, 10001, 19999}
                 PROVE  Mutation!calculateSuccessRate(total - 1, total) < 10000
      BY DEF AllButOneTells
    <3>1. total \in FewEnough /\ total - 1 \in 0..total /\ total - 1 # total
      BY SMT DEF FewEnough
    <3>2. RateRight(total - 1, total)
      BY <3>1, RateOfFew
    <3> DEFINE rate == Mutation!calculateSuccessRate(total - 1, total)
    <3>3. rate \in Int /\ rate <= 10000 /\ rate # 10000
      BY <3>1, <3>2 DEF RateRight
    <3> HIDE DEF rate
    <3>4. rate < 10000
      BY <3>3
    <3> QED
      BY <3>4 DEF rate
  <2> QED
    BY <2>4, <2>5, <2>6, Zenon DEF SummaryOfBatch, answer
<1> QED
  BY <1>1, <1>2, BatchAskedKept, PTL DEF RequestsSpec
=============================================================================

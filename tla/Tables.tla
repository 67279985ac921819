------------------------------- MODULE Tables -------------------------------
(***************************************************************************)
(* The columns of the tables a request writes, as the entities declare     *)
(* them, and the fields of an entity that are answered.  MySQL in strict   *)
(* mode refuses a text longer than its column, a null where none may be,   *)
(* and a time that its type cannot hold.  A column that nothing is given   *)
(* for holds its default, or null; one that has neither is refused.  What  *)
(* foreign keys refuse is in Mutations.                                    *)
(***************************************************************************)
EXTENDS Integers

CONSTANTS
    Null,
    KeyLength       \* how long a column of type uuid is that is not generated (36 or 255)

Column(length) == [length |-> length, nullable |-> FALSE]
Nullable(length) == [length |-> length, nullable |-> TRUE]

\* text, 65535 bytes; json and the rest hold whatever the pipe lets through.
Text == 65535
Wide == 102400

Storable(column, value) ==
    IF value = Null THEN column.nullable
    ELSE /\ value.type = "string" => value.size <= column.length
         /\ value.type = "time" => value.form = "moment"

\* The columns that refuse what the row gives them.
Refusing(table, row) ==
    {name \in DOMAIN table \cap DOMAIN row : ~Storable(table[name], row[name])}

User ==
    [email |-> Column(255), password |-> Nullable(255), username |-> Column(50),
     firstName |-> Nullable(100), lastName |-> Nullable(100), avatar |-> Nullable(Text),
     role |-> Column(Wide), status |-> Column(Wide), refreshToken |-> Nullable(500)]

Project ==
    [name |-> Column(255), description |-> Nullable(Text), url |-> Nullable(500),
     domain |-> Nullable(255), isPublic |-> Column(Wide), settings |-> Nullable(Wide)]

Mutation == [userId |-> Column(KeyLength), metadata |-> Nullable(Wide), timestamp |-> Column(Wide)]

CommentThread == [url |-> Nullable(500), pageTitle |-> Nullable(255)]

Comment ==
    [body |-> Nullable(Wide), content |-> Column(Text), images |-> Nullable(Wide),
     commitSha |-> Nullable(40), href |-> Nullable(500), leftOnLocalhost |-> Column(Wide),
     deploymentId |-> Nullable(KeyLength), position |-> Column(Wide)]

\* Those of the columns above that are copied.
toUserResponseDto(user) ==
    [field \in {"email", "username", "firstName", "lastName", "avatar", "role", "status"} |->
       user[field]]

toProjectResponseDto(project) ==
    [field \in {"name", "description", "url", "domain", "isPublic", "settings"} |->
       project[field]]
=============================================================================

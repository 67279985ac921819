-------------------------------- MODULE Dtos --------------------------------
(***************************************************************************)
(* What the global ValidationPipe accepts: the decorators of the DTOs, as  *)
(* a rule for each field.  A value has a type, a size (the length of a     *)
(* text, the value of a number) and a form (which pattern a text matches). *)
(* A body is a function on the fields that were sent.                      *)
(***************************************************************************)
EXTENDS Integers, TLC

CONSTANT Null       \* JSON's null

\* The limit of express.json, which no text that was sent exceeds.
BodyLimit == 102400

\* A word has letters, digits and underscores only, and so have the values of
\* the enums.  A quoted e-mail has its local part in quotes, where spaces and @
\* may be; a bare URL is without protocol, or has another than http and https, or
\* an address for a host; a blank text is nothing but spaces.
Words == {"word", "role", "status", "provider"}
UsernameForms == Words \cup {"hyphen", "uuid"}
Forms == UsernameForms \cup {"plain", "blank", "email", "quoted", "url", "bareUrl", "strong"}

\* @IsString, @MinLength and @IsNotEmpty, @MaxLength, a pattern or an enum
Text(min, max, forms) ==
    [type |-> "string", min |-> min, max |-> max, forms |-> forms, optional |-> FALSE]

\* isEmail: 64 characters before the @ and 254 after it; isURL: 2084 in all
Email == Text(6, 64 + 1 + 254, {"email", "quoted"})
Link(max) == Text(4, max, {"url", "bareUrl"})

\* A moment is the milliseconds of a time from 1970 to 2038.
Number(min, max) ==
    [type |-> "number", min |-> min, max |-> max, forms |-> {"plain", "moment"}, optional |-> FALSE]

Other(type) == [type |-> type, min |-> 0, max |-> BodyLimit, forms |-> {"plain"}, optional |-> FALSE]

\* @IsOptional
Opt(rule) == [rule EXCEPT !.optional = TRUE]

Fits(rule, value) ==
    value.type = rule.type /\ value.size \in rule.min..rule.max /\ value.form \in rule.forms

\* @IsOptional passes over null; whitelist and forbidNonWhitelisted refuse the rest.
Accepts(dto, body) ==
    /\ DOMAIN body \subseteq DOMAIN dto
    /\ \A field \in DOMAIN dto :
         IF field \in DOMAIN body /\ body[field] # Null THEN Fits(dto[field], body[field])
         ELSE dto[field].optional

\* transform: an instance of the class, which has every field it declares (the
\* target is ES2022); those that were not sent are undefined.
InstanceOf(dto, body, undefined) ==
    [field \in DOMAIN dto |-> IF field \in DOMAIN body THEN body[field] ELSE undefined]

CreateUserDto ==
    [email |-> Email, password |-> Text(8, 50, {"strong"}), username |-> Text(3, 20, UsernameForms),
     firstName |-> Opt(Text(0, 100, Forms)), lastName |-> Opt(Text(0, 100, Forms))]

CreateUserRequestDto ==
    [email |-> Email, password |-> Text(8, 50, Forms), username |-> Text(3, 20, Forms),
     firstName |-> Opt(Text(0, 100, Forms)), lastName |-> Opt(Text(0, 100, Forms)),
     avatar |-> Opt(Link(2084))]

UpdateUserRequestDto ==
    [username |-> Opt(Text(3, 20, Forms)),
     firstName |-> Opt(Text(0, 100, Forms)), lastName |-> Opt(Text(0, 100, Forms)),
     avatar |-> Opt(Link(2084)),
     role |-> Opt(Text(0, BodyLimit, {"role"})), status |-> Opt(Text(0, BodyLimit, {"status"}))]

PaginationRequestDto == [page |-> Opt(Number(1, BodyLimit)), limit |-> Opt(Number(1, BodyLimit))]

UserSearchRequestDto ==
    [search |-> Opt(Text(0, 100, Forms)), role |-> Opt(Text(0, BodyLimit, {"role"})),
     status |-> Opt(Text(0, BodyLimit, {"status"})),
     provider |-> Opt(Text(0, BodyLimit, {"provider"}))] @@ PaginationRequestDto

\* isPublic becomes true or false, whatever was sent.
ProjectSearchRequestDto ==
    [search |-> Opt(Text(0, 100, Forms)), ownerId |-> Opt(Text(36, 36, {"uuid"})),
     isPublic |-> Opt(Other("boolean")), domain |-> Opt(Text(0, 255, Forms))]
      @@ PaginationRequestDto

\* Mutant: the name may be as long as a URL.
CreateProjectRequestDto_LongName ==
    [name |-> Text(1, 500, Forms), description |-> Opt(Text(0, 1000, Forms)),
     url |-> Opt(Link(500)), domain |-> Opt(Text(0, 255, Forms)), isPublic |-> Other("boolean"),
     settings |-> Opt(Other("object"))]

CreateProjectRequestDto ==
    [name |-> Text(1, 255, Forms), description |-> Opt(Text(0, 1000, Forms)),
     url |-> Opt(Link(500)), domain |-> Opt(Text(0, 255, Forms)), isPublic |-> Other("boolean"),
     settings |-> Opt(Other("object"))]

UpdateProjectRequestDto ==
    [name |-> Opt(Text(0, 255, Forms)), description |-> Opt(Text(0, 1000, Forms)),
     url |-> Opt(Link(500)), domain |-> Opt(Text(0, 255, Forms)),
     isPublic |-> Opt(Other("boolean")), settings |-> Opt(Other("object"))]

AnyText == Text(0, BodyLimit, Forms)
AnyNumber == Number(-BodyLimit, BodyLimit)

\* A batch of one mutation, the fields of both classes side by side.
CreateMutationDto ==
    [profileID |-> AnyText, clientID |-> AnyText, pushVersion |-> Opt(AnyNumber),
     schemaVersion |-> Opt(AnyText),
     id |-> AnyNumber, name |-> AnyText, args |-> Other("object"), timestamp |-> AnyNumber]

\* Of a deployment only the id is read.
FirstCommentDto ==
    [id |-> AnyText, commitSha |-> Opt(AnyText), href |-> Opt(AnyText),
     deployment |-> Opt(AnyText), body |-> Other("array"), text |-> AnyText,
     images |-> Other("array"), leftOnLocalhost |-> Other("boolean")]

CreateCommentThreadDto ==
    [shortId |-> Opt(AnyNumber), id |-> AnyText, nodeId |-> AnyText,
     x |-> Number(0, 1), y |-> Number(0, 1),
     page |-> AnyText, pageTitle |-> AnyText, userAgent |-> AnyText,
     screenWidth |-> AnyNumber, screenHeight |-> AnyNumber, devicePixelRatio |-> AnyNumber,
     deploymentUrl |-> Opt(AnyText), draftMode |-> Other("boolean"),
     firstComment |-> Other("object")]
=============================================================================

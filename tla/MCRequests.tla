----------------------------- MODULE MCRequests -----------------------------
(* Inputs of the handlers and requests for TLC: each kind of URL, text, time *)
(* and result that the code tells apart, and both sides of each boundary.    *)
EXTENDS Requests, TLC

CONSTANTS garbage, local, dev, site, www, google

MCWithoutWww == local :> local @@ dev :> dev @@ site :> site @@ www :> site

MCUrls ==
    {garbage} \cup
    [protocol : {"http:", "https:", "ftp:"}, hostname : {local, dev, www},
     port : {None, 80, 443, 9000},
     path : {<<"">>, <<"a">>, <<"a", "">>, <<"a", "", "">>, <<"", "">>, <<"a", "b">>},
     query : BOOLEAN, fragment : {FALSE}]

MCResults ==
    UNION {[1..n -> [status : {"success"}, error : {None}]
                      \cup [status : {"failed"}, error : {None, "e1", "e2", "e3"}]] : n \in 0..5}

MCProviderText == google :> <<"a">>

MCProviderIds == {<<"a">>, <<"a", "a", "a">>}

MCNames == {None} \cup UNION {[1..n -> {"a", "A", "_", "-", " "}] : n \in 0..5}

\* Between spaces or not, of small letters or capitals; some are no e-mails.
MCEmails ==
    {before \o <<a, at, b, ".", c>> \o after :
       before \in {<<>>, <<" ">>}, after \in {<<>>, <<" ">>},
       a \in {"a", "A"}, at \in {"@", "a"}, b \in {"a", "A"}, c \in {"a", "."}}

MCSettings ==
    UNION {[keys -> BOOLEAN] : keys \in SUBSET {"isPublic", "allowGuests"}}
      \cup {[maxCollaborators |-> n] : n \in {0, 1, 1000, 1001, None}}

Day == 24 * 60 * 60 * 1000

MCInfos == [username : {"name", None}, userEmail : {None}, email : {"mail"}]

\* What is 24 hours, 15 minutes and a week after what, and just before or after.
MCInstants == {0, 90000, 899000, 900000, Day, Day + 90001, 7 * Day + 3600000}

MCTimestamps == {0, 1, 3600000, 3600001, Day, 7 * Day, 7 * Day + 3600000}

MCUserOf == [id \in SessionIds |-> "owner"]

MCDefaultName == [user \in {"owner", "other"} |-> "user_"]

\* On both sides of each limit of a class, a handler, a column or a token.
MCSizes ==
    UNION {{n, n + 1} : n \in {0, 1, 2, 4, 7, 19, 36, 40, 49, 100, 188, 189, 205, 206, 254, 255, 319,
                               500, 1000, 5000, 65535}}

MCValues ==
    {Null}
      \cup [type : {"string"}, size : MCSizes,
            form : {"plain", "blank", "word", "hyphen", "email", "url", "bareUrl", "strong",
                    "role", "status"}]
      \cup [type : {"string"}, size : MCSizes \ 0..7, form : {"quoted"}]
      \cup [type : {"number"}, size : {-1, 0, 1, 2, 10001}, form : {"plain"}]
      \cup [type : {"number"}, size : {1}, form : {"moment"}]
      \cup [type : {"boolean", "object"}, size : {0}, form : {"plain"}]
      \cup [type : {"array"}, size : {0, 5000, 5001}, form : {"plain"}]
=============================================================================

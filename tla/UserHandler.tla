---------------------------- MODULE UserHandler ----------------------------
(***************************************************************************)
(* The rules of UserHandler: which data of a user are valid, and how names *)
(* and e-mails are made.  A text is a sequence of characters, of which     *)
(* these are told apart: "a" small letters and digits, "A" capitals, "_",  *)
(* "@", ".", " " white space and "-" all the rest.                         *)
(***************************************************************************)
EXTENDS Integers, Sequences, FiniteSets, FiniteSetsExt

CONSTANTS
    MaxUsername,    \* the longest username (20)
    providerText,   \* what an OAuth provider is called, in small letters
    None

trim(text) ==
    LET kept == {i \in DOMAIN text : text[i] # " "}
    IN  IF kept = {} THEN <<>> ELSE SubSeq(text, Min(kept), Max(kept))

toLowerCase(text) == [i \in DOMAIN text |-> IF text[i] = "A" THEN "a" ELSE text[i]]

normalizeEmail(email) == trim(toLowerCase(email))

\* One @ with something before it, and a dot inside what follows; no space.
checkEmailFormat(email) ==
    \E at \in 2..Len(email) :
      /\ \A i \in DOMAIN email : email[i] # " " /\ (email[i] = "@" <=> i = at)
      /\ \E dot \in at + 2..Len(email) - 1 : email[dot] = "."

\* Mutant: a hyphen is as good as a letter.
validateUsername_AllowsHyphen(username) ==
    IF username \in {None, <<>>} THEN {}
    ELSE (IF Len(username) < 3 THEN {"short"} ELSE {})
           \cup (IF Len(username) > MaxUsername THEN {"long"} ELSE {})
           \cup IF \A i \in DOMAIN username : username[i] \in {"a", "A", "_", "-"}
                THEN {} ELSE {"characters"}

\* An empty username or password is as good as none.
validateUsername(username) ==
    IF username \in {None, <<>>} THEN {}
    ELSE (IF Len(username) < 3 THEN {"short"} ELSE {})
           \cup (IF Len(username) > MaxUsername THEN {"long"} ELSE {})
           \cup IF \A i \in DOMAIN username : username[i] \in {"a", "A", "_"}
                THEN {} ELSE {"characters"}

\* A password is its length.
validatePassword(password) ==
    IF password \in {None, 0} \cup 8..100 THEN {} ELSE {"password"}

validateUserData(data) ==
    LET errors == (IF checkEmailFormat(data.email) THEN {} ELSE {"email"})
                    \cup validateUsername(data.username) \cup validatePassword(data.password)
    IN  [isValid |-> errors = {}, errors |-> errors]

ProviderName(provider, providerId) == providerText[provider] \o <<"_">> \o providerId

createDefaultUsername(profile) ==
    IF profile.username \in {None, <<>>} THEN ProviderName(profile.provider, profile.providerId)
    ELSE profile.username

prepareOAuthProfile(profile) ==
    [email |-> normalizeEmail(profile.email), provider |-> profile.provider,
     providerId |-> profile.providerId, username |-> createDefaultUsername(profile),
     isEmailVerified |-> TRUE]

\* Whatever is no small letter, digit or underscore becomes an underscore.
Underscored(text) == [i \in DOMAIN text |-> IF text[i] \in {"a", "_"} THEN text[i] ELSE "_"]

WithoutTail(text) ==
    LET kept == {i \in DOMAIN text : text[i] # "_"}
    IN  IF kept = {} THEN <<>> ELSE SubSeq(text, 1, Max(kept))

\* Mutant: the underscores go before the name is cut.
generateOAuthUsername_CutLast(provider, providerId, profileUsername) ==
    LET base == IF profileUsername # None /\ trim(profileUsername) # <<>>
                THEN Underscored(toLowerCase(trim(profileUsername)))
                ELSE ProviderName(provider, providerId)
        kept == WithoutTail(base)
    IN  IF Len(kept) > MaxUsername THEN SubSeq(kept, 1, MaxUsername) ELSE kept

generateOAuthUsername(provider, providerId, profileUsername) ==
    LET base == IF profileUsername # None /\ trim(profileUsername) # <<>>
                THEN Underscored(toLowerCase(trim(profileUsername)))
                ELSE ProviderName(provider, providerId)
        cut  == IF Len(base) > MaxUsername THEN SubSeq(base, 1, MaxUsername) ELSE base
    IN  WithoutTail(cut)

checkUserConflict(existingUser, checkEmail, checkUsername) ==
    CASE existingUser = None -> None
      [] existingUser # None /\ existingUser.email = checkEmail -> "email"
      [] existingUser # None /\ existingUser.email # checkEmail ->
           IF checkUsername \notin {None, <<>>} /\ existingUser.username = checkUsername
           THEN "username" ELSE None

\* Mutant: capitals stay.
prepareUserEntityData_KeepsCase(data) ==
    [email |-> trim(data.email), username |-> trim(data.username),
     provider |-> IF data.provider = None THEN "local" ELSE data.provider,
     providerId |-> data.providerId, emailVerified |-> data.isEmailVerified]

prepareUserEntityData(data) ==
    [email |-> normalizeEmail(data.email), username |-> trim(data.username),
     provider |-> IF data.provider = None THEN "local" ELSE data.provider,
     providerId |-> data.providerId, emailVerified |-> data.isEmailVerified]
=============================================================================

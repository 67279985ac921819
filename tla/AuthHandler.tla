---------------------------- MODULE AuthHandler ----------------------------
(***************************************************************************)
(* The rules of AuthHandler: what a token says, how long it is valid, and  *)
(* what is answered with it.  now is in milliseconds, iat and exp are in   *)
(* seconds.  The signature is external: a token is what it was signed for. *)
(***************************************************************************)
EXTENDS Integers

CONSTANT None

Seconds(now) == now \div 1000

generateTokenPayload(user, now) ==
    [sub |-> user.id, email |-> user.email, username |-> user.username, iat |-> Seconds(now)]

\* signAsync: exp counts from iat.
signAsync(payload, kind, lifetime) == [payload |-> payload, kind |-> kind,
                                       exp |-> payload.iat + lifetime]

\* expiresIn: '15m'
createAccessToken(payload) == signAsync(payload, "access", 15 * 60)

\* expiresIn: '7d'
createRefreshToken(payload) == signAsync(payload, "refresh", 7 * 24 * 60 * 60)

\* Mutant: a token is still valid in the second it expires.
validateTokenExpiry_Late(exp, now) == exp >= Seconds(now)

validateTokenExpiry(exp, now) == exp > Seconds(now)

\* Password and refresh token are left out.
transformUserToDto(user) ==
    [field \in DOMAIN user \ {"password", "refreshToken"} |-> user[field]]

prepareTokenResponse(accessToken, refreshToken, user) ==
    [accessToken |-> accessToken, refreshToken |-> refreshToken, expiresIn |-> 900,
     user |-> transformUserToDto(user)]

validateRefreshTokenMatch(storedToken, providedToken) ==
    storedToken # None /\ storedToken = providedToken

\* Whatever it was signed for, no longer valid or not.
decodeTokenPayload(token) == IF token = None THEN None ELSE token.payload
=============================================================================

--------------------------- MODULE SessionHandler ---------------------------
(***************************************************************************)
(* The rules of SessionHandler: what a session starts with, what an update *)
(* changes, until when it is valid, what is counted over several.  Times   *)
(* are milliseconds; now is what Date returns during the call.             *)
(***************************************************************************)
EXTENDS Integers, FiniteSets, FiniteSetsExt

CONSTANTS
    defaultName,    \* user_ and the first eight characters of a user's id
    None

Minute == 60 * 1000
Hour == 60 * Minute

\* username || user_..., userEmail || email, userAvatar || avatar
FirstOf(a, b) == IF a # None THEN a ELSE b

\* Mutant: no last activity until the first update.
prepareSessionData_NoActivity(projectId, userId, info, now) ==
    [projectId |-> projectId, userId |-> userId,
     username |-> FirstOf(info.username, defaultName[userId]),
     userEmail |-> FirstOf(info.userEmail, info.email),
     isActive |-> TRUE, joinedAt |-> now, lastActivity |-> None, cursorPosition |-> None]

prepareSessionData(projectId, userId, info, now) ==
    [projectId |-> projectId, userId |-> userId,
     username |-> FirstOf(info.username, defaultName[userId]),
     userEmail |-> FirstOf(info.userEmail, info.email),
     isActive |-> TRUE, joinedAt |-> now, lastActivity |-> now, cursorPosition |-> None]

\* What an update writes; what it does not mention stays.
prepareSessionUpdateData(session, info, cursorPosition, now) ==
    [session EXCEPT
       !.lastActivity = now, !.isActive = TRUE,
       !.username = FirstOf(info.username, @),
       !.userEmail = FirstOf(FirstOf(info.userEmail, info.email), @),
       !.cursorPosition = FirstOf(cursorPosition, @)]

\* Mutant: expired from the 24th hour on, not after it.
ReasonInvalid_AtDay(session, now) ==
    CASE ~session.isActive -> "inactive"
      [] session.isActive /\ now - session.lastActivity >= 24 * Hour -> "expired"
      [] session.isActive /\ now - session.lastActivity < 24 * Hour ->
           IF session.joinedAt > now THEN "invalid_join_time"
           ELSE IF session.lastActivity < session.joinedAt THEN "invalid_activity_time"
           ELSE None

\* The first check that fails gives the reason.
ReasonInvalid(session, now) ==
    CASE ~session.isActive -> "inactive"
      [] session.isActive /\ now - session.lastActivity > 24 * Hour -> "expired"
      [] session.isActive /\ now - session.lastActivity <= 24 * Hour ->
           IF session.joinedAt > now THEN "invalid_join_time"
           ELSE IF session.lastActivity < session.joinedAt THEN "invalid_activity_time"
           ELSE None

validateSessionState(session, now) ==
    LET reason == ReasonInvalid(session, now)
    IN  [isValid |-> reason = None, reason |-> reason, shouldCleanup |-> reason = "expired"]

\* setHours counts on the host's wall clock; a host that runs on UTC is assumed.
calculateSessionExpiry(joinedAt, inactiveHours) == joinedAt + inactiveHours * Hour

\* Math.round of a quotient by an even number: halves go up.
Rounded(a, b) == (a + b \div 2) \div b

\* Mutant: the sum, not divided.
calculateAverageSessionDuration_Sum(active, now) ==
    IF active = {} THEN 0
    ELSE Rounded(MapThenSumSet(LAMBDA s : now - s.joinedAt, active), Minute)

\* In minutes; zero if there is none.
calculateAverageSessionDuration(active, now) ==
    IF active = {} THEN 0
    ELSE Rounded(MapThenSumSet(LAMBDA s : now - s.joinedAt, active), Minute * Cardinality(active))

findOldestAndNewestSessions(active) ==
    LET joined == {s.joinedAt : s \in active}
    IN  IF active = {} THEN [oldest |-> None, newest |-> None]
        ELSE [oldest |-> Min(joined), newest |-> Max(joined)]

calculateSessionStats(sessions, now) ==
    LET active == {s \in sessions : s.isActive}
    IN  [total |-> Cardinality(sessions), active |-> Cardinality(active),
         inactive |-> Cardinality(sessions) - Cardinality(active),
         averageSessionDuration |-> calculateAverageSessionDuration(active, now),
         oldestActiveSession |-> findOldestAndNewestSessions(active).oldest,
         newestActiveSession |-> findOldestAndNewestSessions(active).newest]

createDefaultProjectSettings ==
    [allowComments |-> TRUE, allowGuests |-> TRUE, isPublic |-> TRUE, maxCollaborators |-> 50,
     enableRealTimeSync |-> TRUE, enableMouseTracking |-> TRUE, enableNotifications |-> TRUE,
     sessionTimeout |-> 24, autoCleanup |-> TRUE]
=============================================================================

---------------------------- MODULE MouseTracking ----------------------------
(***************************************************************************)
(* MouseTrackingService and the operations of CollaborationService that    *)
(* call it: throttled cursor events, trails, recorded paths, idle flags.   *)
(* Every operation is synchronous, so it is one action.  The tracking state*)
(* belongs to a user, the recorded path to a user in a project.            *)
(* These are the operations the service offers, in any order: single moves *)
(* and departures come from the gateway; batches, clicks and idle flags    *)
(* have REST endpoints only, which cannot call them yet: the guard that    *)
(* would tell them the user is commented out.                              *)
(***************************************************************************)
EXTENDS Trails

CONSTANTS
    Users, Projects, Positions,
    THROTTLE_MS, BATCH_SIZE,
    Batches,        \* the position lists clients post
    Epoch,          \* Date.now() when the process starts
    MaxTime,        \* bound: the clock stops there
    Never           \* no time

ASSUME TrackingConstants ==
    /\ THROTTLE_MS \in Nat \ {0} /\ BATCH_SIZE \in Nat \ {0}
    /\ Batches \subseteq Seq(Positions)
    /\ Epoch \in Nat /\ Epoch >= THROTTLE_MS
    /\ MaxTime \in Nat
    /\ Never \notin Nat

VARIABLES
    now,            \* Date.now(), never going back
    userStates,     \* Map: user -> tracking state
    mousePaths,     \* Map: project and user -> path
    emitted,        \* the events the last operation emitted
    recent          \* history: the last PATH_KEPT positions recorded

trackVars == <<userStates, mousePaths>>
vars == <<now, trackVars, emitted, recent>>

-----------------------------------------------------------------------------

Keys == Projects \X Users

\* Map.set and Map.delete
Put(map, key, value) ==
    [k \in DOMAIN map \cup {key} |-> IF k = key THEN value ELSE map[k]]
Delete(map, key) == [k \in DOMAIN map \ {key} |-> map[k]]

\* getUserState; `sent` is history: the last cursor.move of this state.
NewState == [lastUpdate |-> 0, trail |-> <<>>, isIdle |-> FALSE, sent |-> Never]
getUserState(u) == IF u \in DOMAIN userStates THEN userStates[u] ELSE NewState

\* The path a call of recordMousePath finds or creates.
NewPath == [path_data |-> <<>>, is_active |-> TRUE]
pathOf(key) == IF key \in DOMAIN mousePaths THEN mousePaths[key] ELSE NewPath

\* The history: the last PATH_KEPT positions recorded.
Remember(key, positions) ==
    recent' = [recent EXCEPT ![key] = LastOf(@ \o positions, PATH_KEPT)]

\* Mutant: the oldest positions are kept instead of the latest.
recordMousePath_KeepsOldest(key, positions) ==
    LET all == pathOf(key).path_data \o positions IN
    /\ mousePaths' = Put(mousePaths, key,
         [pathOf(key) EXCEPT !.path_data = SubSeq(all, 1, PathLength(Len(all)))])
    /\ Remember(key, positions)

\* recordMousePath for each position in turn; is_active is only set on creation.
recordMousePath(key, positions) ==
    /\ mousePaths' = Put(mousePaths, key,
         [pathOf(key) EXCEPT !.path_data = extendPath(@, positions)])
    /\ Remember(key, positions)

Event(kind, p, u, count) == [kind |-> kind, project |-> p, user |-> u, count |-> count]

-----------------------------------------------------------------------------
(* Operations *)

\* updateMousePosition inside the throttle period: the trail only.
ThrottledMove(p, u, pos) ==
    LET state == getUserState(u) IN
    /\ now - state.lastUpdate < THROTTLE_MS
    /\ userStates' = Put(userStates, u, [state EXCEPT !.trail = updateTrail(@, <<pos>>)])
    /\ emitted' = {}
    /\ UNCHANGED <<now, mousePaths, recent>>

\* updateMousePosition otherwise: cursor.move, and cursor.trail when it is long.
BroadcastMove(p, u, pos) ==
    LET state == getUserState(u)
        trail == updateTrail(state.trail, <<pos>>)
        full  == Len(trail) >= BATCH_SIZE
    IN
    /\ now - state.lastUpdate >= THROTTLE_MS
    /\ userStates' = Put(userStates, u,
         [lastUpdate |-> now, trail |-> IF full THEN <<>> ELSE trail,
          isIdle |-> FALSE, sent |-> now])
    /\ emitted' = {Event("cursor.move", p, u, 1)}
                    \cup (IF full THEN {Event("cursor.trail", p, u, Len(trail))} ELSE {})
    /\ recordMousePath(<<p, u>>, <<pos>>)
    /\ UNCHANGED now

\* Mutant: a batch leaves the time of the last update alone.
updateMouseBatch_Rewinds(p, u, positions) ==
    LET state == getUserState(u) IN
    /\ positions # <<>>
    /\ userStates' = Put(userStates, u,
         [state EXCEPT !.lastUpdate = 0, !.isIdle = FALSE,
                       !.trail = updateTrail(@, positions)])
    /\ emitted' = {Event("cursor.batch", p, u, Len(positions))}
    /\ recordMousePath(<<p, u>>, positions)
    /\ UNCHANGED now

\* Mutant: the trail of a batch is not cut.
updateMouseBatch_Uncut(p, u, positions) ==
    LET state == getUserState(u) IN
    /\ positions # <<>>
    /\ userStates' = Put(userStates, u,
         [state EXCEPT !.lastUpdate = now, !.isIdle = FALSE, !.trail = @ \o positions])
    /\ emitted' = {Event("cursor.batch", p, u, Len(positions))}
    /\ recordMousePath(<<p, u>>, positions)
    /\ UNCHANGED now

\* updateMouseBatch; an empty list returns at once.
updateMouseBatch(p, u, positions) ==
    LET state == getUserState(u) IN
    /\ positions # <<>>
    /\ userStates' = Put(userStates, u,
         [state EXCEPT !.lastUpdate = now, !.isIdle = FALSE,
                       !.trail = updateTrail(@, positions)])
    /\ emitted' = {Event("cursor.batch", p, u, Len(positions))}
    /\ recordMousePath(<<p, u>>, positions)
    /\ UNCHANGED now

\* handleMouseClick only emits.
handleMouseClick(p, u) ==
    /\ emitted' = {Event("mouse.click", p, u, 1)}
    /\ UNCHANGED <<now, trackVars, recent>>

\* setUserActive and setUserIdle: the flag of a tracked user, the event for anyone.
setUserIdle(p, u, isIdle) ==
    /\ userStates' = IF u \notin DOMAIN userStates THEN userStates
                     ELSE [userStates EXCEPT ![u].isIdle = isIdle]
    /\ emitted' = {Event(IF isIdle THEN "user.idle" ELSE "user.active", p, u, 1)}

updateUserActivity(p, u, isActive) ==
    /\ setUserIdle(p, u, ~isActive)
    /\ UNCHANGED <<now, mousePaths, recent>>

\* Mutant: the project's path is closed whether there is one or not.
cleanupUser_CreatesPath(p, u) ==
    /\ userStates' = Delete(userStates, u)
    /\ mousePaths' = Put(mousePaths, <<p, u>>, [is_active |-> FALSE])
    /\ emitted' = {}
    /\ UNCHANGED <<now, recent>>

\* cleanupUser, run by leaveProject: the user's state, and the project's path.
cleanupUser(p, u) ==
    /\ userStates' = Delete(userStates, u)
    /\ mousePaths' = IF <<p, u>> \notin DOMAIN mousePaths THEN mousePaths
                     ELSE [mousePaths EXCEPT ![<<p, u>>].is_active = FALSE]
    /\ emitted' = {}
    /\ UNCHANGED <<now, recent>>

Tick ==
    /\ now < MaxTime
    /\ now' = now + 1
    /\ emitted' = {}
    /\ UNCHANGED <<trackVars, recent>>

-----------------------------------------------------------------------------

Init ==
    /\ now = Epoch
    /\ userStates = <<>>
    /\ mousePaths = <<>>
    /\ emitted = {}
    /\ recent = [key \in Keys |-> <<>>]

Next ==
    \/ Tick
    \/ \E p \in Projects, u \in Users :
         \/ \E pos \in Positions : ThrottledMove(p, u, pos) \/ BroadcastMove(p, u, pos)
         \/ \E positions \in Batches : updateMouseBatch(p, u, positions)
         \/ handleMouseClick(p, u)
         \/ \E isActive \in BOOLEAN : updateUserActivity(p, u, isActive)
         \/ cleanupUser(p, u)

Spec == Init /\ [][Next]_vars

-----------------------------------------------------------------------------
(* Properties *)

State == [lastUpdate : Nat, trail : Seq(Positions), isIdle : BOOLEAN,
          sent : Nat \cup {Never}]
Path == [path_data : Seq(Positions), is_active : BOOLEAN]

\* The two Maps of the service hold tracking states and paths.
TypeOK ==
    /\ now \in Nat
    /\ DOMAIN userStates \subseteq Users
    /\ \A u \in DOMAIN userStates : userStates[u] \in State
    /\ DOMAIN mousePaths \subseteq Keys
    /\ \A key \in DOMAIN mousePaths : mousePaths[key] \in Path
    /\ recent \in [Keys -> Seq(Positions)]

\* Memory stays bounded whatever mixture of single updates and batches of any
\* length arrives: a trail never exceeds TRAIL_LENGTH, a path PATH_LIMIT - 1.
BoundedMemory ==
    /\ \A u \in DOMAIN userStates : Len(userStates[u].trail) <= TRAIL_LENGTH
    /\ \A key \in DOMAIN mousePaths : Len(mousePaths[key].path_data) < PATH_LIMIT

\* A path holds the last PATH_KEPT positions recorded, however often it was cut,
\* in whatever batches they came, and over the leaves and returns of the user.
PathKeepsRecent ==
    \A key \in Keys : LastOf(pathOf(key).path_data, PATH_KEPT) = recent[key]

\* The events of tracked users are throttled: with `sent` the refinement of
\* the limiter's variable, every operation is a step the limiter allows.
Limiter == INSTANCE RateLimiter
    WITH Gap <- THROTTLE_MS, clock <- now,
         sent <- [u \in Users |-> getUserState(u).sent]
Throttled == Limiter!Spec
=============================================================================

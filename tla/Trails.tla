------------------------------- MODULE Trails -------------------------------
(***************************************************************************)
(* The two bounded position lists of MouseTrackingService: the trail of a  *)
(* user and the recorded path of a user in a project.  The service pushes  *)
(* positions one at a time; these operators say what pushing a whole list  *)
(* amounts to.  TrailLoops justifies them.                                 *)
(***************************************************************************)
EXTENDS Integers, Sequences

CONSTANTS
    TRAIL_LENGTH,
    PATH_LIMIT,     \* 1000: a path that reaches it is cut ...
    PATH_KEPT       \* 500: ... to its last positions

ASSUME TrailConstants ==
    /\ TRAIL_LENGTH \in Nat \ {0}
    /\ PATH_LIMIT \in Nat /\ PATH_KEPT \in Nat \ {0}
    /\ PATH_KEPT < PATH_LIMIT

\* The last n elements of a sequence, all of them if it has fewer.
LastOf(q, n) == IF Len(q) <= n THEN q ELSE SubSeq(q, Len(q) - n + 1, Len(q))

\* updateTrail for each position: push, shift when longer than TRAIL_LENGTH.
updateTrail(trail, positions) == LastOf(trail \o positions, TRAIL_LENGTH)

\* The length of a path after n pushes, each cutting it to PATH_KEPT when it
\* reaches PATH_LIMIT.
PathLength(n) ==
    IF n < PATH_LIMIT THEN n
    ELSE PATH_KEPT + ((n - PATH_LIMIT) % (PATH_LIMIT - PATH_KEPT))

\* The data of a path once the positions are recorded.
extendPath(data, positions) ==
    LET all == data \o positions IN LastOf(all, PathLength(Len(all)))
=============================================================================

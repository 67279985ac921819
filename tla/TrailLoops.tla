----------------------------- MODULE TrailLoops -----------------------------
(***************************************************************************)
(* The loops of updateMouseBatch as the code runs them, one position after *)
(* the other, against the closed forms of Trails.                          *)
(***************************************************************************)
EXTENDS Trails

CONSTANT Positions

VARIABLES
    trail, path,    \* state.trail and path.path_data
    trail0, path0,  \* what they were before the loop
    pushed          \* the positions pushed so far

vars == <<trail, path, trail0, path0, pushed>>

Init ==
    /\ trail \in Seq(Positions) /\ Len(trail) <= TRAIL_LENGTH
    /\ path \in Seq(Positions) /\ Len(path) < PATH_LIMIT
    /\ trail0 = trail /\ path0 = path
    /\ pushed = <<>>

\* One call of recordMousePath: push, then slice(-PATH_KEPT) when it is long.
recordMousePath(pos) ==
    path' = LET longer == Append(path, pos)
            IN  IF Len(longer) >= PATH_LIMIT THEN LastOf(longer, PATH_KEPT) ELSE longer

\* One call of updateTrail: push, then shift when it is too long.
pushTrail(pos) ==
    trail' = LET longer == Append(trail, pos)
             IN  IF Len(longer) > TRAIL_LENGTH THEN Tail(longer) ELSE longer

Push(pos) ==
    /\ pushTrail(pos)
    /\ recordMousePath(pos)
    /\ pushed' = Append(pushed, pos)
    /\ UNCHANGED <<trail0, path0>>

Next == \E pos \in Positions : Push(pos)

Spec == Init /\ [][Next]_vars

-----------------------------------------------------------------------------

\* Pushing the positions of a batch one at a time, with a shift or a cut after
\* any of them, leaves what the closed forms say, however many cuts happened.
LoopIsClosedForm ==
    /\ trail = updateTrail(trail0, pushed)
    /\ path = extendPath(path0, pushed)
=============================================================================

--------------------------- MODULE MCMouseTracking ---------------------------
(* Small instances of MouseTracking: limits scaled down, their order kept. *)
EXTENDS MouseTracking, TLC

CONSTANTS u1, u2, p1, p2, a, b

MCBatches == {<<>>, <<a>>, <<a, b>>, <<b, a, b, a>>}

\* View: no action reads what was emitted.
WithoutEvents == <<now, trackVars, recent>>
=============================================================================

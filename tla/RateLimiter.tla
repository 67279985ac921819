----------------------------- MODULE RateLimiter -----------------------------
(***************************************************************************)
(* What the throttling of cursor events promises: as long as a user is     *)
(* tracked, two cursor.move events of the user are at least Gap apart.     *)
(* A user who is no longer tracked (cleanupUser) starts anew.              *)
(***************************************************************************)
EXTENDS Integers

CONSTANTS Users, Gap, Never

VARIABLES clock, sent   \* sent[u]: time of the last event of u, or Never

vars == <<clock, sent>>

Init ==
    /\ clock \in Nat
    /\ sent = [u \in Users |-> Never]

Advance == clock' > clock /\ UNCHANGED sent

Send(u) ==
    /\ sent[u] # Never => clock - sent[u] >= Gap
    /\ sent' = [sent EXCEPT ![u] = clock]
    /\ UNCHANGED clock

Forget(u) ==
    /\ sent' = [sent EXCEPT ![u] = Never]
    /\ UNCHANGED clock

Next == Advance \/ \E u \in Users : Send(u) \/ Forget(u)

Spec == Init /\ [][Next]_vars
=============================================================================

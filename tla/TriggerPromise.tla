---------------------------- MODULE TriggerPromise ----------------------------
(***************************************************************************)
(* What the pass of a controller is promised by a call of Trigger: at most *)
(* one run, begun while the call lasts; a name for it only if there is     *)
(* one; and an end.  It is not promised that a call that fails has begun   *)
(* none, nor that one that succeeds without a name has begun one.          *)
(***************************************************************************)
EXTENDS Naturals

VARIABLES
    call,    \* "none", "running", "failed" or "triggered"
    began,   \* how many runs it has begun
    named    \* whether it reports one by name or link

vars == <<call, began, named>>

Init == call = "none" /\ began = 0 /\ named = FALSE

Called ==
    /\ call # "running"
    /\ call' = "running" /\ began' = 0 /\ named' = FALSE

RunBegins ==
    /\ call = "running" /\ began = 0
    /\ began' = 1
    /\ UNCHANGED <<call, named>>

Fails ==
    /\ call = "running"
    /\ call' = "failed"
    /\ UNCHANGED <<began, named>>

Succeeds ==
    /\ call = "running"
    /\ call' = "triggered"
    /\ named' \in (IF began = 1 THEN BOOLEAN ELSE {FALSE})
    /\ UNCHANGED began

Next == Called \/ RunBegins \/ Fails \/ Succeeds

Spec == Init /\ [][Next]_vars

\* No call lasts for ever.
Returns == call = "running" ~> call # "running"

ReturningSpec == Spec /\ Returns
=============================================================================

----------------------------- MODULE PackClaims -----------------------------
(***************************************************************************)
(* What comments and documents of the repository say of the controller and *)
(* the code does otherwise.  Every property here is violated; the README   *)
(* says how.                                                               *)
(***************************************************************************)
EXTENDS PackController

\* pack_controller.go:169, "Resync periodically to detect drift": a spec whose
\* run is recorded in the status gets another run only when the resync timer
\* has fired.  The status write of the first run is itself a watch event.
RerunsOnlyOnResync ==
    [][ runs' > runs /\ status.obs = generation /\ status.phase = "Applying"
        => ~timer ]_runs

\* types.go:72-74, spec.namespace is "the cluster namespace the in-cluster CRDs
\* [...] should land in": what is applied there stays.  The owner reference is
\* to a Pack of another namespace, so the garbage collector removes it.
ForeignObjectsStay ==
    <>[](exists /\ Verdict(Spec0) = "ok" /\ OnKubernetes(Spec0) =>
            \A o \in RenderedObjects(Spec0) : live[o] = PlanHash(Spec0))
=============================================================================

---------------------------- MODULE PackPromise -----------------------------
(***************************************************************************)
(* What the operator promises to whoever reads the status of a Pack: each  *)
(* report is a verdict on the spec that is current at the instant it is    *)
(* published, it is a verdict that spec can have, and a spec that stays    *)
(* gets one.  There is no cache, no queue, no copy and no fault here.      *)
(***************************************************************************)
EXTENDS PackOperator

VARIABLES
    specs,   \* every spec the Pack has had
    exists,  \* FALSE once it is deleted
    report   \* the last report: a generation and an outcome

vars == <<specs, exists, report>>

Outcomes == {"none", "ready", "degraded", "blocked"}
NoReport == [gen |-> 0, outcome |-> "none"]

\* What a report may say of a spec.  A valid one may fail to be applied.
MayBe(s, outcome) ==
    CASE Verdict(s) = "ok"      -> outcome \in {"ready", "degraded"}
      [] Verdict(s) = "blocked" -> outcome = "blocked"
      [] Verdict(s) = "error"   -> outcome = "degraded"

Init ==
    /\ \E s \in Specs : specs = <<s>>
    /\ exists = TRUE
    /\ report = NoReport

Edit ==
    /\ exists
    /\ \E s \in Specs \ {specs[Len(specs)]} : specs' = Append(specs, s)
    /\ UNCHANGED <<exists, report>>

Delete ==
    /\ exists
    /\ exists' = FALSE
    /\ report' = NoReport
    /\ UNCHANGED specs

Report ==
    /\ exists
    /\ \E outcome \in Outcomes :
        /\ MayBe(specs[Len(specs)], outcome)
        /\ report' = [gen |-> Len(specs), outcome |-> outcome]
    /\ UNCHANGED <<specs, exists>>

Next == Edit \/ Delete \/ Report

CatchUp == report.gen # Len(specs) /\ Report

Spec == Init /\ [][Next]_vars

FairSpec == Spec /\ WF_vars(CatchUp)
=============================================================================

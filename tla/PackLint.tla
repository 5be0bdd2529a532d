------------------------------- MODULE PackLint -------------------------------
(***************************************************************************)
(* packlint over the files of its command line.  Authors write the files   *)
(* while it runs, so each is what it is at the moment it is read.          *)
(***************************************************************************)
EXTENDS LintRules, Integers

CONSTANTS
    Manifests,   \* what may be in a file that loads
    MaxFiles     \* bound: how many files a command line names

ASSUME LintAssumption == Manifests \subseteq Pack /\ MaxFiles \in Nat

VARIABLES
    pc,        \* "flags", "linting" or "exited"
    format,    \* whether the output format is a known one
    left,      \* how many files are still to be linted
    results,   \* the results so far, each with the manifest it is about
    anyErr,
    exit,      \* the exit code, -1 while there is none
    unread     \* history: a file did not load

vars == <<pc, format, left, results, anyErr, exit, unread>>

Init ==
    /\ pc = "flags"
    /\ format \in BOOLEAN
    /\ left \in 0..MaxFiles
    /\ results = <<>>
    /\ anyErr = FALSE
    /\ exit = -1
    /\ unread = FALSE

Exit(code) == pc' = "exited" /\ exit' = code

Usage ==
    /\ pc = "flags"
    /\ IF left = 0 THEN Exit(2) ELSE pc' = "linting" /\ UNCHANGED exit
    /\ UNCHANGED <<format, left, results, anyErr, unread>>

\* Defective variant: nobody looks whether there is a file left.
LoadFailsAgain ==
    /\ pc = "linting"
    /\ left' = left - 1
    /\ anyErr' = TRUE
    /\ unread' = TRUE
    /\ UNCHANGED <<pc, format, results, exit>>

\* Not there, not YAML, or not the types of a pack.
LoadFails ==
    /\ pc = "linting"
    /\ left > 0
    /\ left' = left - 1
    /\ anyErr' = TRUE
    /\ unread' = TRUE
    /\ UNCHANGED <<pc, format, results, exit>>

\* The schema is compiled for every file again.
SchemaFails ==
    /\ pc = "linting"
    /\ left > 0
    /\ Exit(2)
    /\ UNCHANGED <<format, left, results, anyErr, unread>>

Result(m) ==
    [read        |-> m,
     schemaOK    |-> Schema(m) = {},
     refsOK      |-> ~HasErrors(Schema(m) \cup Refs(m)),
     tierTarget  |-> TierTarget(m),
     tierReached |-> TierReached(m),
     findings    |-> Findings(m)]

\* Defective variant: the verdict on the last file is the verdict on all.
LintForgets(m) ==
    /\ pc = "linting"
    /\ left > 0
    /\ left' = left - 1
    /\ results' = Append(results, Result(m))
    /\ anyErr' = HasErrors(Findings(m))
    /\ UNCHANGED <<pc, format, exit, unread>>

Lint(m) ==
    /\ pc = "linting"
    /\ left > 0
    /\ left' = left - 1
    /\ results' = Append(results, Result(m))
    /\ anyErr' = (anyErr \/ HasErrors(Findings(m)))
    /\ UNCHANGED <<pc, format, exit, unread>>

\* An unknown format is noticed only when everything has been linted.
Emit ==
    /\ pc = "linting"
    /\ left = 0
    /\ Exit(IF ~format THEN 2 ELSE IF anyErr THEN 1 ELSE 0)
    /\ UNCHANGED <<format, left, results, anyErr, unread>>

Next == Usage \/ LoadFails \/ SchemaFails \/ (\E m \in Manifests : Lint(m)) \/ Emit

Spec == Init /\ [][Next]_vars

-----------------------------------------------------------------------------
(***************************************************************************)
(* Properties.                                                             *)
(***************************************************************************)

Results == {Result(m) : m \in Manifests}

TypeOK ==
    /\ pc \in {"flags", "linting", "exited"}
    /\ format \in BOOLEAN
    /\ left \in 0..MaxFiles
    /\ results \in Seq(Results)
    /\ anyErr \in BOOLEAN
    /\ exit \in {-1, 0, 1, 2}
    /\ unread \in BOOLEAN

Linted == {results[i] : i \in DOMAIN results}

\* The tiers a criticality asks for, and the clauses of each.
Demanded(criticality) ==
    CASE criticality = "tier-1" -> {"tier-1", "tier-2", "tier-3"}
      [] criticality = "tier-2" -> {"tier-2", "tier-3"}
      [] criticality = "tier-3" -> {"tier-3"}

Clauses(tier, m) ==
    CASE tier = "tier-1" -> scoreTier1(m)
      [] tier = "tier-2" -> scoreTier2(m)
      [] tier = "tier-3" -> scoreTier3(m)

\* Every clause of the tier and of those below it passes as conformance.go scores
\* it (scoreTier1 to 3).  docs/maturity-model.md asks for more in some of them: the
\* README lists where.
PassesClauses(m, tier) ==
    \A t \in Demanded(tier) : \A c \in Clauses(t, m) : c.pass

Enforced(m) ==
    {v \in versionSpecs(m) : v.gating = "enforce" /\ v.declared # <<>>}

\* Backends by IDs of their own, references that lead to one, and every
\* version that is enforced within its bounds.
Sound(m) ==
    /\ \A i, j \in DOMAIN m.backends :
           m.backends[i].id = m.backends[j].id => i = j
    /\ \A r \in backendRefs(m) :
           r.kind = "external" \/ (r.kind = "id" /\ r.id \in backendIDs(m))
    /\ \A v \in Enforced(m) :
           /\ v.min # <<>> => ~versionLT(v.declared, v.min)
           /\ v.max # <<>> => ~versionLT(v.max, v.declared)

\* What the four passes together demand of a file that has been loaded.
Acceptable(m) ==
    /\ ~m.malformed /\ ~m.dangling
    /\ m.criticality \in Tiers
    /\ Sound(m)
    /\ PassesClauses(m, m.criticality)

\* packlint exits with 0 exactly when every file on its command line has been
\* read and each, as it was read, satisfies all of schema, references, backends
\* and clauses (main.go:10-11).  The verdicts on several files and of four passes
\* meet in one flag and one list of findings, and neither a later file nor a
\* later pass may clear an earlier error.  A file that does not load gives 1, as
\* the loop has it; that main.go:12 says 2 is in the README.
ExitTellsTheTruth ==
    exit \in {0, 1} =>
        (exit = 0 <=> ~unread /\ \A r \in Linted : Acceptable(r.read))

\* A pack of a known criticality reaches its target exactly when no clause is
\* an error, and never a stricter tier than its target: the verdict of
\* reachedTier and the severities of emitFindings come about separately.
ReachMatchesFindings ==
    \A r \in Linted : r.tierTarget \in Tiers =>
        /\ r.tierReached = r.tierTarget
           <=> ~\E f \in r.findings : f.pass \in Tiers /\ f.severity = "error"
        /\ r.tierReached \in Demanded(r.tierTarget) \cup {"none"}

\* Tiers are cumulative: what passes at one passes, as it is, at each lower
\* one (conformance.go:14-16).
TiersAreCumulative ==
    \A r \in Linted : r.tierReached = r.tierTarget /\ r.tierTarget \in Tiers =>
        \A t \in Demanded(r.tierTarget) :
            TierReached([r.read EXCEPT !.criticality = t]) = t

\* The number that has a version's components as its digits.
Weight(v, base) ==
    base * (base * Component3(v, 1) + Component3(v, 2)) + Component3(v, 3)

DigitSum(v) == Component3(v, 1) + Component3(v, 2) + Component3(v, 3)

\* A base above all components.
Base(v) == 1 + DigitSum(v.declared) + DigitSum(v.min) + DigitSum(v.max)

OutOfBounds(v) ==
    \/ v.min # <<>> /\ Weight(v.declared, Base(v)) < Weight(v.min, Base(v))
    \/ v.max # <<>> /\ Weight(v.declared, Base(v)) > Weight(v.max, Base(v))

\* A version outside its bounds is an error exactly when it is enforced, and
\* goes by numbers, not by letters: 2.9 is below 2.53 (evalVersion, versionLT).
GatingDecides ==
    \A r \in Linted :
        (\E f \in r.findings : f.pass = "versions" /\ f.severity = "error")
        <=> (\E v \in Enforced(r.read) : OutOfBounds(v))
=============================================================================

------------------------------ MODULE HttpTrigger ------------------------------
(***************************************************************************)
(* httptrigger.Trigger: one pass after the other asks it to start the      *)
(* pipeline of a Pack.  It reads a secret through the cache of the         *)
(* manager, posts, and makes a PipelineRunInfo of the answer.  Meanwhile   *)
(* users write and delete secrets, point the Pack to another one and       *)
(* revoke tokens at the pipeline.                                          *)
(***************************************************************************)
EXTENDS Integers

CONSTANTS
    Namespaces,      \* of the cluster
    PackNamespace,   \* the Pack's own
    Namespace,       \* the field Namespace of the Trigger
    Names,           \* of secrets
    Endpoints,       \* URLs a request can be built for
    MaxWrites        \* bound: how often users change anything

ASSUME BoundAssumption == MaxWrites \in Nat

ASSUME NamesAssumption ==
    PackNamespace \in Namespaces /\ "" \notin Names /\ "" \notin Endpoints

Keys == Namespaces \X Names

\* The token of each write is a new one; 0 stands for a secret without it, and
\* "" for a URL that is missing or makes no request.
Tokens == 0..MaxWrites
Versions == [url: Endpoints \cup {""}, token: Tokens]
Absent == [url |-> "", token |-> 0]

\* What an answer may name: the run as Azure DevOps or as GitHub Actions does.
Fields == {"id", "run_id", "web", "html_url"}

Infos == [runID: {"", "id", "run_id"}, url: {"", "web", "html_url"}]
NoInfo == [runID |-> "", url |-> ""]

VARIABLES
    secrets,   \* what the API server holds
    cached,    \* what the cached client answers
    ref,       \* the Pack's credentialsSecretRef
    writes,    \* how often users have changed anything
    revoked,   \* tokens the pipeline refuses
    pc,        \* of the pass: "idle", "resolving", "posting", "posted",
               \* "failed" or "triggered"
    name,      \* the ref that the pass was started with
    url,
    token,
    started,   \* history: how many runs this pass has started
    info,
    stored     \* history: every version that was ever stored, with its key

vars == <<secrets, cached, ref, writes, revoked, pc, name, url, token, started,
          info, stored>>
users == <<secrets, ref, writes, revoked, stored>>

Init ==
    /\ secrets = [k \in Keys |-> Absent]
    /\ cached = secrets
    /\ ref = ""
    /\ writes = 0
    /\ revoked = {}
    /\ pc = "idle"
    /\ name = "" /\ url = "" /\ token = 0
    /\ started = 0
    /\ info = NoInfo
    /\ stored = {}

-----------------------------------------------------------------------------
(* Users, and the watch that feeds the cache. *)

Changes == writes < MaxWrites /\ writes' = writes + 1

WriteSecret(k) ==
    /\ Changes
    /\ \E u \in Endpoints \cup {""}, t \in {0, writes + 1} :
           /\ secrets' = [secrets EXCEPT ![k] = [url |-> u, token |-> t]]
           /\ stored' = stored \cup {<<k, [url |-> u, token |-> t]>>}
    /\ UNCHANGED <<cached, ref, revoked, pc, name, url, token, started, info>>

DeleteSecret(k) ==
    /\ Changes
    /\ secrets[k] # Absent
    /\ secrets' = [secrets EXCEPT ![k] = Absent]
    /\ UNCHANGED <<cached, ref, revoked, pc, name, url, token, started, info, stored>>

EditRef(n) ==
    /\ Changes
    /\ n # ref
    /\ ref' = n
    /\ UNCHANGED <<secrets, cached, revoked, pc, name, url, token, started, info, stored>>

Revoke(t) ==
    /\ Changes
    /\ t \in 1..writes /\ t \notin revoked
    /\ revoked' = revoked \cup {t}
    /\ UNCHANGED <<secrets, cached, ref, pc, name, url, token, started, info, stored>>

CacheSync(k) ==
    /\ cached[k] # secrets[k]
    /\ cached' = [cached EXCEPT ![k] = secrets[k]]
    /\ UNCHANGED <<secrets, ref, writes, revoked, pc, name, url, token, started, info, stored>>

-----------------------------------------------------------------------------
(* The pass. *)

\* A pass over the Pack, the first one or a retry.
Begin ==
    /\ pc \in {"idle", "failed", "triggered"}
    /\ pc' = "resolving"
    /\ name' = ref
    /\ started' = 0
    /\ info' = NoInfo
    /\ UNCHANGED <<users, cached, url, token>>

key == <<Namespace, name>>

Get(k) == IF k \in Keys THEN cached[k] ELSE Absent

Fail == pc' = "failed" /\ UNCHANGED <<users, cached, name, url, token, started, info>>

\* No ref, no secret, no URL, or the API server does not answer.
ResolveFails == pc = "resolving" /\ Fail

\* Defective variant: the URL and the token are read by a Get each.
ResolveTwice ==
    /\ pc = "resolving"
    /\ name # ""
    /\ IF url = ""
       THEN /\ Get(key).url # ""
            /\ url' = Get(key).url
            /\ UNCHANGED <<pc, token>>
       ELSE pc' = "posting" /\ token' = Get(key).token /\ UNCHANGED url
    /\ UNCHANGED <<users, cached, name, started, info>>

\* Defective variant: credentials that were found once are remembered.
ResolveOnce ==
    /\ pc = "resolving"
    /\ name # ""
    /\ \/ url # "" /\ UNCHANGED <<url, token>>
       \/ url = "" /\ Get(key).url # "" /\ url' = Get(key).url /\ token' = Get(key).token
    /\ pc' = "posting"
    /\ UNCHANGED <<users, cached, name, started, info>>

resolveCredentials ==
    /\ pc = "resolving"
    /\ name # ""
    /\ Get(key).url # ""
    /\ url' = Get(key).url
    /\ token' = Get(key).token
    /\ pc' = "posting"
    /\ UNCHANGED <<users, cached, name, started, info>>

\* The pipeline starts a run.  It knows the tokens that were not revoked.
RunStarts ==
    /\ pc = "posting"
    /\ token \notin revoked
    /\ pc' = "posted"
    /\ started' = started + 1
    /\ UNCHANGED <<users, cached, name, url, token, info>>

\* 300 or above, or the request did not get through.
Refused == pc = "posting" /\ Fail

\* Defective variant: a request whose answer is lost is posted again at once.
AnswerLostPostAgain ==
    /\ pc = "posted"
    /\ pc' = "posting"
    /\ UNCHANGED <<users, cached, name, url, token, started, info>>

\* The answer is lost, or does not come in 30 seconds.
AnswerLost == pc = "posted" /\ Fail

\* Defective variant: what is not in the answer is printed as well.
RunInfoUnchecked(body) ==
    [runID |-> "id",
     url |-> IF "web" \in body THEN "web"
             ELSE IF "html_url" \in body THEN "html_url" ELSE ""]

\* Where the recorded name and link of the run are taken from.
RunInfo(body) ==
    [runID |-> IF "id" \in body THEN "id"
               ELSE IF "run_id" \in body THEN "run_id" ELSE "",
     url |-> IF "web" \in body THEN "web"
             ELSE IF "html_url" \in body THEN "html_url" ELSE ""]

Report(body) ==
    /\ info' = RunInfo(body)
    /\ pc' = "triggered"
    /\ UNCHANGED <<users, cached, name, url, token, started>>

\* An answer below 300 with a body of any shape, an empty one too.
Answered(body) == pc = "posted" /\ Report(body)

\* A page that is no JSON, say the one to sign in, is below 300 as well.
AnsweredByPage == pc = "posting" /\ Report({})

Users ==
    \/ \E k \in Keys : WriteSecret(k) \/ DeleteSecret(k)
    \/ \E n \in Names \cup {""} : EditRef(n)
    \/ \E t \in Tokens : Revoke(t)

Trigger ==
    \/ ResolveFails \/ resolveCredentials
    \/ RunStarts \/ Refused \/ AnswerLost \/ AnsweredByPage
    \/ \E body \in SUBSET Fields : Answered(body)

Next == Users \/ (\E k \in Keys : CacheSync(k)) \/ Begin \/ Trigger

\* Failed passes are retried and good ones repeated (resync), the watch delivers,
\* and neither the API server nor the pipeline fails for ever.
Fairness ==
    /\ WF_vars(Begin) /\ WF_vars(Trigger)
    /\ \A k \in Keys : WF_vars(CacheSync(k))
    /\ SF_vars(resolveCredentials)
    /\ SF_vars(RunStarts)
    /\ SF_vars(\E body \in SUBSET Fields : Answered(body))

Spec == Init /\ [][Next]_vars

FairSpec == Spec /\ Fairness

-----------------------------------------------------------------------------
(***************************************************************************)
(* Properties.                                                             *)
(***************************************************************************)

TypeOK ==
    /\ secrets \in [Keys -> Versions]
    /\ cached \in [Keys -> Versions]
    /\ ref \in Names \cup {""}
    /\ writes \in Tokens
    /\ revoked \subseteq Tokens
    /\ pc \in {"idle", "resolving", "posting", "posted", "failed", "triggered"}
    /\ name \in Names \cup {""}
    /\ url \in Endpoints \cup {""}
    /\ token \in Tokens
    /\ started \in {0, 1}
    /\ info \in Infos
    /\ stored \subseteq Keys \X Versions

\* What is posted goes to the URL and with the token of one version of the
\* secret that the pass was started with, whatever is rotated in between
\* (resolveCredentials).
CredentialsPaired ==
    pc \in {"posting", "posted"} =>
        <<key, [url |-> url, token |-> token]>> \in stored

\* A run that is reported under a name or a link was started by this pass,
\* once; an answer below 300 alone does not make one (Trigger).
NamedRunsAreReal ==
    pc = "triggered" /\ info # NoInfo => started = 1

\* What the controller, for which a call is one step, sees of it.
Promise ==
    INSTANCE TriggerPromise WITH
        call  <- IF pc = "idle" THEN "none"
                 ELSE IF pc \in {"resolving", "posting", "posted"} THEN "running"
                 ELSE pc,
        began <- started,
        named <- info # NoInfo

\* A call that is refused, loses its answer or gets the wrong one begins one run
\* at most, names none it has not begun, and ends (Trigger, its timeout).
PromiseKept == Promise!ReturningSpec

\* The secret the Pack names, in the Pack's namespace, is good.
GoodCredentials ==
    /\ ref \in Names
    /\ LET v == secrets[<<PackNamespace, ref>>]
       IN  v.url # "" /\ v.token # 0 /\ v.token \notin revoked

\* Once the secret in the Pack's namespace is good and stays so, runs are
\* started, however it was rotated and revoked before (types.go:98-100,
\* httptrigger.go:32).
GoodCredentialsSuffice == <>[]GoodCredentials => []<>(started = 1)
=============================================================================

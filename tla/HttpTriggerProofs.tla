-------------------------- MODULE HttpTriggerProofs --------------------------
(***************************************************************************)
(* The URL and the token of a request belong together and reported runs    *)
(* are real, for every cluster, every field Namespace and every number of  *)
(* changes.                                                                *)
(***************************************************************************)
EXTENDS HttpTrigger, TLAPS

\* Whatever has a URL, in the API server or the cache, was stored as it is;
\* a pass has started a run from the moment the pipeline accepts it on, and knows
\* of none before it has an answer.
IInv ==
    /\ TypeOK
    /\ \A k \in Keys : secrets[k].url # "" => <<k, secrets[k]>> \in stored
    /\ \A k \in Keys : cached[k].url # "" => <<k, cached[k]>> \in stored
    /\ CredentialsPaired
    /\ pc \in {"resolving", "posting"} => started = 0
    /\ pc = "posted" => started = 1
    /\ pc # "triggered" => info = NoInfo
    /\ NamedRunsAreReal

Others == <<secrets, cached, ref, writes, revoked, stored>>

LEMMA AbsentType ==
    0 \in Tokens /\ Absent \in Versions /\ Absent.url = "" /\ NoInfo \in Infos
<1>1. 0 \in Tokens
  BY BoundAssumption DEF Tokens
<1> QED
  BY <1>1 DEF Absent, Versions, NoInfo, Infos

LEMMA ChangesType ==
    ASSUME TypeOK, Changes
    PROVE  writes' = writes + 1 /\ writes' \in Tokens
<1>1. writes \in Tokens
  BY DEF TypeOK
<1> QED
  BY <1>1, BoundAssumption DEF Changes, Tokens

LEMMA InitIInv == Init => IInv
<1> SUFFICES ASSUME Init PROVE IInv
  OBVIOUS
<1>1. TypeOK
  BY AbsentType DEF Init, TypeOK
<1>2. \A k \in Keys : secrets[k].url = "" /\ cached[k].url = ""
  BY AbsentType DEF Init
<1> QED
  BY <1>1, <1>2 DEF Init, IInv, CredentialsPaired, NamedRunsAreReal

\* Users leave the pass alone, and what was stored stays stored.
LEMMA UsersStep ==
    ASSUME IInv, Users PROVE IInv'
<1> USE DEF IInv
<1>1. ASSUME UNCHANGED <<pc, name, url, token, started, info>>, stored \subseteq stored'
      PROVE  /\ CredentialsPaired'
             /\ (pc \in {"resolving", "posting"} => started = 0)'
             /\ (pc = "posted" => started = 1)'
             /\ (pc # "triggered" => info = NoInfo)'
             /\ NamedRunsAreReal'
  BY <1>1 DEF CredentialsPaired, NamedRunsAreReal, key
<1>2. ASSUME NEW k \in Keys, WriteSecret(k) PROVE IInv'
  <2>1. PICK u \in Endpoints \cup {""}, t \in {0, writes + 1} :
          /\ secrets' = [secrets EXCEPT ![k] = [url |-> u, token |-> t]]
          /\ stored' = stored \cup {<<k, [url |-> u, token |-> t]>>}
    BY <1>2 DEF WriteSecret
  <2>2. writes' = writes + 1 /\ writes' \in Tokens /\ t \in Tokens
    BY <1>2, ChangesType, AbsentType DEF WriteSecret
  <2>3. [url |-> u, token |-> t] \in Versions
    BY <2>2 DEF Versions
  <2>4. UNCHANGED <<cached, ref, revoked, pc, name, url, token, started, info>>
    BY <1>2 DEF WriteSecret
  <2>5. TypeOK'
    <3>1. secrets' \in [Keys -> Versions]
      BY <2>1, <2>3 DEF TypeOK
    <3>2. stored' \subseteq Keys \X Versions
      <4>1. <<k, [url |-> u, token |-> t]>> \in Keys \X Versions
        BY <2>3
      <4>2. stored \subseteq Keys \X Versions
        BY DEF TypeOK
      <4> HIDE DEF IInv
      <4> QED
        BY <2>1, <4>1, <4>2
    <3> QED
      BY <2>2, <2>4, <3>1, <3>2 DEF TypeOK
  <2>6. \A j \in Keys : secrets'[j].url # "" => <<j, secrets'[j]>> \in stored'
    BY <2>1 DEF TypeOK
  <2>7. \A j \in Keys : cached'[j].url # "" => <<j, cached'[j]>> \in stored'
    BY <2>1, <2>4
  <2> QED
    BY <1>1, <2>1, <2>4, <2>5, <2>6, <2>7
<1>3. ASSUME NEW k \in Keys, DeleteSecret(k) PROVE IInv'
  <2>1. /\ secrets' = [secrets EXCEPT ![k] = Absent]
        /\ UNCHANGED <<cached, ref, revoked, pc, name, url, token, started, info, stored>>
    BY <1>3 DEF DeleteSecret
  <2>2. writes' \in Tokens
    BY <1>3, ChangesType DEF DeleteSecret
  <2>3. TypeOK'
    BY <2>1, <2>2, AbsentType DEF TypeOK
  <2>4. \A j \in Keys : secrets'[j].url # "" => <<j, secrets'[j]>> \in stored'
    BY <2>1, AbsentType DEF TypeOK
  <2> QED
    BY <1>1, <2>1, <2>3, <2>4
<1>4. ASSUME NEW n \in Names \cup {""}, EditRef(n) PROVE IInv'
  <2>1. /\ ref' = n
        /\ UNCHANGED <<secrets, cached, revoked, pc, name, url, token, started, info, stored>>
    BY <1>4 DEF EditRef
  <2>2. writes' \in Tokens
    BY <1>4, ChangesType DEF EditRef
  <2>3. TypeOK'
    BY <2>1, <2>2 DEF TypeOK
  <2> QED
    BY <1>1, <2>1, <2>3
<1>5. ASSUME NEW t \in Tokens, Revoke(t) PROVE IInv'
  <2>1. /\ revoked' = revoked \cup {t}
        /\ UNCHANGED <<secrets, cached, ref, pc, name, url, token, started, info, stored>>
    BY <1>5 DEF Revoke
  <2>2. writes' \in Tokens
    BY <1>5, ChangesType DEF Revoke
  <2>3. TypeOK'
    BY <2>1, <2>2 DEF TypeOK
  <2> QED
    BY <1>1, <2>1, <2>3
<1> QED
  BY <1>2, <1>3, <1>4, <1>5 DEF Users

LEMMA SyncStep ==
    ASSUME IInv, NEW k \in Keys, CacheSync(k) PROVE IInv'
<1>1. /\ cached' = [cached EXCEPT ![k] = secrets[k]]
      /\ UNCHANGED <<secrets, ref, writes, revoked, pc, name, url, token, started, info, stored>>
  BY DEF CacheSync
<1>2. TypeOK'
  BY <1>1 DEF IInv, TypeOK
<1>3. \A j \in Keys : cached'[j].url # "" => <<j, cached'[j]>> \in stored'
  BY <1>1 DEF IInv, TypeOK
<1> QED
  BY <1>1, <1>2, <1>3 DEF IInv, CredentialsPaired, NamedRunsAreReal, key

\* The pass leaves users, secrets and cache alone.
LEMMA PassKeepsStored ==
    ASSUME IInv, UNCHANGED Others
    PROVE  /\ \A k \in Keys : secrets'[k].url # "" => <<k, secrets'[k]>> \in stored'
           /\ \A k \in Keys : cached'[k].url # "" => <<k, cached'[k]>> \in stored'
  BY DEF IInv, Others

LEMMA PassStep ==
    ASSUME IInv, Begin \/ Trigger PROVE IInv'
<1> USE DEF IInv, users
<1>1. UNCHANGED Others
  BY DEF Begin, Trigger, ResolveFails, resolveCredentials, RunStarts, Refused,
         AnswerLost, AnsweredByPage, Answered, Report, Fail, Others
<1>2. /\ \A k \in Keys : secrets'[k].url # "" => <<k, secrets'[k]>> \in stored'
      /\ \A k \in Keys : cached'[k].url # "" => <<k, cached'[k]>> \in stored'
  BY <1>1, PassKeepsStored
<1>3. ASSUME Begin PROVE IInv'
  <2>1. TypeOK'
    BY <1>1, <1>3, AbsentType DEF Begin, TypeOK, Others
  <2> QED
    BY <1>2, <1>3, <2>1 DEF Begin, CredentialsPaired, NamedRunsAreReal
<1>4. ASSUME Fail, pc # "triggered" PROVE IInv'
  <2>1. TypeOK'
    BY <1>1, <1>4 DEF Fail, TypeOK, Others
  <2> QED
    BY <1>2, <1>4, <2>1 DEF Fail, CredentialsPaired, NamedRunsAreReal
<1>5. ASSUME resolveCredentials PROVE IInv'
  <2>1. key \in Keys /\ Get(key) = cached[key]
    BY <1>5, AbsentType DEF resolveCredentials, Get
  <2>2. cached[key] \in Versions /\ <<key, cached[key]>> \in stored
    BY <1>5, <2>1 DEF resolveCredentials, TypeOK
  <2>3. /\ url' = cached[key].url /\ token' = cached[key].token /\ pc' = "posting"
        /\ UNCHANGED <<name, started, info>> /\ pc = "resolving"
    BY <1>5, <2>1 DEF resolveCredentials
  <2>4. cached[key] = [url |-> cached[key].url, token |-> cached[key].token]
    BY <2>2 DEF Versions
  <2>5. key' = key /\ stored' = stored
    BY <1>1, <2>3 DEF key, Others
  <2>6. TypeOK'
    BY <1>1, <2>2, <2>3 DEF TypeOK, Versions, Others
  <2>7. <<key', [url |-> url', token |-> token']>> \in stored'
    BY <2>2, <2>3, <2>4, <2>5
  <2> QED
    BY <1>2, <2>3, <2>6, <2>7 DEF CredentialsPaired, NamedRunsAreReal
<1>6. ASSUME RunStarts PROVE IInv'
  <2>1. /\ pc = "posting" /\ pc' = "posted" /\ started' = 1
        /\ UNCHANGED <<name, url, token, info>>
    <3>1. pc = "posting" /\ started' = started + 1
      BY <1>6 DEF RunStarts
    <3>2. started = 0
      BY <3>1
    <3> HIDE DEF IInv
    <3>3. started' = 1
      BY <3>1, <3>2
    <3> QED
      BY <1>6, <3>3 DEF RunStarts
  <2>2. TypeOK'
    BY <1>1, <2>1 DEF TypeOK, Others
  <2>3. key' = key /\ stored' = stored
    BY <1>1, <2>1 DEF key, Others
  <2> QED
    BY <1>2, <2>1, <2>2, <2>3 DEF CredentialsPaired, NamedRunsAreReal
<1>7. ASSUME NEW body \in SUBSET Fields, Answered(body) PROVE IInv'
  <2>1. RunInfo(body) \in Infos
    BY DEF RunInfo, Infos
  <2>2. TypeOK'
    BY <1>1, <1>7, <2>1 DEF Answered, Report, TypeOK, Others
  <2> QED
    BY <1>2, <1>7, <2>2 DEF Answered, Report, CredentialsPaired, NamedRunsAreReal
<1>8. ASSUME AnsweredByPage PROVE IInv'
  <2>1. RunInfo({}) = NoInfo
    BY DEF RunInfo, NoInfo
  <2>2. TypeOK'
    BY <1>1, <1>8, <2>1, AbsentType DEF AnsweredByPage, Report, TypeOK, Others
  <2> QED
    BY <1>2, <1>8, <2>1, <2>2
       DEF AnsweredByPage, Report, CredentialsPaired, NamedRunsAreReal
<1> QED
  BY <1>3, <1>4, <1>5, <1>6, <1>7, <1>8
     DEF Trigger, ResolveFails, Refused, AnswerLost

LEMMA Invariance == Spec => []IInv
<1>1. IInv /\ [Next]_vars => IInv'
  <2> SUFFICES ASSUME IInv, [Next]_vars PROVE IInv'
    OBVIOUS
  <2>1. CASE UNCHANGED vars
    BY <2>1 DEF vars, IInv, TypeOK, CredentialsPaired, NamedRunsAreReal, key
  <2> QED
    BY <2>1, UsersStep, SyncStep, PassStep DEF Next
<1> QED
  BY <1>1, InitIInv, PTL DEF Spec

\* Every variable keeps its type; among them, that no pass starts two runs.
THEOREM TriggerTypeCorrect == Spec => []TypeOK
<1>1. IInv => TypeOK
  BY DEF IInv
<1> QED
  BY <1>1, Invariance, PTL

\* What is posted goes to the URL and with the token of one version of the
\* secret (resolveCredentials), whatever is rotated in between.
THEOREM CredentialsBelongTogether == Spec => []CredentialsPaired
<1>1. IInv => CredentialsPaired
  BY DEF IInv
<1> QED
  BY <1>1, Invariance, PTL

\* A run that is reported under a name or a link was started (Trigger).
THEOREM ReportedRunsAreReal == Spec => []NamedRunsAreReal
<1>1. IInv => NamedRunsAreReal
  BY DEF IInv
<1> QED
  BY <1>1, Invariance, PTL

\* What a call does to the three things a controller sees of it.
LEMMA CallsKeepThePromise ==
    ASSUME IInv, Begin \/ Trigger PROVE [Promise!Next]_(Promise!vars)
<1> USE DEF IInv, Promise!vars
<1>1. CASE Begin
  BY <1>1 DEF Begin, Promise!Next, Promise!Called
<1>2. ASSUME pc \in {"resolving", "posting", "posted"}, Fail
      PROVE  Promise!Fails
  BY <1>2 DEF Fail, Promise!Fails
<1>3. CASE ResolveFails \/ Refused \/ AnswerLost
  BY <1>2, <1>3 DEF ResolveFails, Refused, AnswerLost, Promise!Next
<1>4. CASE resolveCredentials
  BY <1>4 DEF resolveCredentials
<1>5. CASE RunStarts
  <2>1. pc = "posting" /\ started = 0 /\ pc' = "posted" /\ UNCHANGED info
    BY <1>5 DEF RunStarts
  <2>2. started' = 1
    <3>1. started' = started + 1
      BY <1>5 DEF RunStarts
    <3> HIDE DEF IInv
    <3> QED
      BY <2>1, <3>1
  <2> QED
    BY <2>1, <2>2 DEF Promise!Next, Promise!RunBegins
<1>6. ASSUME NEW body \in SUBSET Fields, Answered(body) PROVE Promise!Succeeds
  BY <1>6 DEF Answered, Report, Promise!Succeeds
<1>7. CASE AnsweredByPage
  <2>1. info' = NoInfo
    BY <1>7 DEF AnsweredByPage, Report, RunInfo, NoInfo
  <2> QED
    BY <1>7, <2>1 DEF AnsweredByPage, Report, Promise!Next, Promise!Succeeds
<1> QED
  BY <1>1, <1>3, <1>4, <1>5, <1>6, <1>7 DEF Trigger, Promise!Next

\* To the controller a call is what TriggerPromise says (but for its end, which is
\* liveness): one run at most, and no name without one, whatever is refused, lost
\* or answered by something else (Trigger, httptrigger.go:45-98).
THEOREM CallsArePromised == Spec => Promise!Spec
<1>1. Init => Promise!Init
  BY DEF Init, Promise!Init
<1>2. IInv /\ [Next]_vars => [Promise!Next]_(Promise!vars)
  <2> SUFFICES ASSUME IInv, [Next]_vars PROVE [Promise!Next]_(Promise!vars)
    OBVIOUS
  <2>1. CASE UNCHANGED <<pc, started, info>>
    BY <2>1 DEF Promise!vars
  <2>2. CASE Begin \/ Trigger
    BY <2>2, CallsKeepThePromise
  <2> QED
    BY <2>1, <2>2
       DEF Next, Users, WriteSecret, DeleteSecret, EditRef, Revoke, CacheSync, vars
<1> QED
  BY <1>1, <1>2, Invariance, PTL DEF Spec, Promise!Spec
=============================================================================

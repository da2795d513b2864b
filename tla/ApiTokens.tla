----------------------------- MODULE ApiTokens -----------------------------
(***************************************************************************)
(* The tokens with which a tenant's own systems trigger a deal, and the    *)
(* endpoint they present them to: who may trigger what, and under which    *)
(* idempotency key.  Intake has the races for one key; here keys are what  *)
(* the sender and the token make them, for several tenants and deals, and  *)
(* a key may be used again for another deal.                               *)
(***************************************************************************)
EXTENDS Naturals

CONSTANTS
  ApiToken, Tenant, Deal,
  Address,          \* client addresses
  Header,           \* Idempotency-Keys the sender chooses
  NoHeader,         \* none, or one that the pattern refuses
  AnyDeal,          \* in a key that does not name its deal
  Trigger,          \* requests in flight at one time
  MaxTriggers,      \* bound: requests
  MaxApiFaults      \* bound: failures of the database or the queue

ASSUME ApiTokensAssumption ==
  /\ NoHeader \notin Header /\ AnyDeal \notin Deal
  /\ {MaxTriggers, MaxApiFaults} \subseteq Nat

VARIABLES
  apiTokens,   \* [ApiToken -> row of api_tokens]
  trigger,     \* [Trigger -> the request]
  claims,      \* rows of idempotency_keys, with the job they were claimed for
  apiJobs,     \* jobs added to the queue
  triggers, apiFaults,  \* so far
  duplicates,  \* ghost: triggers answered as duplicates: their job and their key
  unkept       \* ghost: claims whose request added no job

apiVars == <<apiTokens, trigger, claims, apiJobs, triggers, apiFaults, duplicates, unkept>>

TriggeredJob == [hub: Tenant, deal: Deal]
\* "client:<hub>:<header>", or the hash of hub, deal and body: one body for each deal.
IdemKey == [hub: Tenant, header: Header \cup {NoHeader}, deal: Deal \cup {AnyDeal}]
KeyOf(hub, deal, header) ==
  [hub |-> hub, header |-> header, deal |-> IF header = NoHeader THEN deal ELSE AnyDeal]

NoTrigger == [pc |-> "idle"]
ApiTokensTypeOK ==
  /\ apiTokens \in [ApiToken -> [hub: Tenant, state: {"none", "live", "revoked"},
                                 list: SUBSET Address]]
  /\ \A r \in Trigger :
       \/ trigger[r] = NoTrigger
       \/ trigger[r] \in [pc: {"claim", "add", "release"}, job: TriggeredJob, key: IdemKey]
  /\ claims \subseteq [key: IdemKey, job: TriggeredJob]
  /\ apiJobs \subseteq [job: TriggeredJob, key: IdemKey]
  /\ triggers \in 0..MaxTriggers /\ apiFaults \in 0..MaxApiFaults
  /\ duplicates \subseteq [job: TriggeredJob, key: IdemKey]
  /\ unkept \subseteq [key: IdemKey, job: TriggeredJob]

ApiInit ==
  /\ apiTokens \in [ApiToken -> [hub: Tenant, state: {"none"}, list: {{}}]]
  /\ trigger = [r \in Trigger |-> NoTrigger]
  /\ claims = {} /\ apiJobs = {} /\ duplicates = {} /\ unkept = {}
  /\ triggers = 0 /\ apiFaults = 0

-----------------------------------------------------------------------------
\* The tenant's admins

MintApiToken(t, list) ==
  /\ apiTokens[t].state = "none"
  /\ apiTokens' = [apiTokens EXCEPT ![t].state = "live", ![t].list = list]
  /\ UNCHANGED <<trigger, claims, apiJobs, triggers, apiFaults, duplicates, unkept>>

\* A revoked token's list is left alone.
UpdateApiTokenAllowlist(t, list) ==
  /\ apiTokens[t].state = "live"
  /\ apiTokens' = [apiTokens EXCEPT ![t].list = list]
  /\ UNCHANGED <<trigger, claims, apiJobs, triggers, apiFaults, duplicates, unkept>>

RevokeApiToken(t) ==
  /\ apiTokens[t].state = "live"
  /\ apiTokens' = [apiTokens EXCEPT ![t].state = "revoked"]
  /\ UNCHANGED <<trigger, claims, apiJobs, triggers, apiFaults, duplicates, unkept>>

-----------------------------------------------------------------------------
\* POST /api/trigger

Verified(t) == apiTokens[t].state = "live"
\* An empty list lets every address in.
Allowed(t, address) == apiTokens[t].list = {} \/ address \in apiTokens[t].list

\* Mutant: a client's key is not the tenant's own.
PresentUnscoped(r, t, address, deal, header) ==
  /\ trigger[r] = NoTrigger /\ Verified(t) /\ Allowed(t, address)
  /\ triggers < MaxTriggers /\ triggers' = triggers + 1
  /\ LET hub == IF header = NoHeader THEN apiTokens[t].hub ELSE CHOOSE h \in Tenant : TRUE
     IN trigger' = [trigger EXCEPT ![r] =
         [pc |-> "claim", job |-> [hub |-> apiTokens[t].hub, deal |-> deal],
          key |-> KeyOf(hub, deal, header)]]
  /\ UNCHANGED <<apiTokens, claims, apiJobs, apiFaults, duplicates, unkept>>

\* The token names the tenant.  Any other request is refused before it claims a key.
Present(r, t, address, deal, header) ==
  /\ trigger[r] = NoTrigger /\ Verified(t) /\ Allowed(t, address)
  /\ triggers < MaxTriggers /\ triggers' = triggers + 1
  /\ LET hub == apiTokens[t].hub
     IN  trigger' = [trigger EXCEPT ![r] =
           [pc |-> "claim", job |-> [hub |-> hub, deal |-> deal],
            key |-> KeyOf(hub, deal, header)]]
  /\ UNCHANGED <<apiTokens, claims, apiJobs, apiFaults, duplicates, unkept>>

ClaimRow(r) == [key |-> trigger[r].key, job |-> trigger[r].job]
ApiFault == apiFaults < MaxApiFaults /\ apiFaults' = apiFaults + 1
TriggerEnds(r) == trigger' = [trigger EXCEPT ![r] = NoTrigger]

\* INSERT ... ON CONFLICT DO NOTHING: whose key is there already is a duplicate.
ClaimKey(r) ==
  /\ trigger[r].pc = "claim"
  /\ IF \E row \in claims : row.key = trigger[r].key
     THEN TriggerEnds(r) /\ duplicates' = duplicates \cup {ClaimRow(r)} /\ UNCHANGED claims
     ELSE /\ trigger' = [trigger EXCEPT ![r].pc = "add"]
          /\ claims' = claims \cup {ClaimRow(r)}
          /\ UNCHANGED duplicates
  /\ UNCHANGED <<apiTokens, apiJobs, triggers, apiFaults, unkept>>

EnqueueProcessDeal(r) ==
  /\ trigger[r].pc = "add"
  /\ TriggerEnds(r)
  /\ apiJobs' = apiJobs \cup {ClaimRow(r)}
  /\ UNCHANGED <<apiTokens, claims, triggers, apiFaults, duplicates, unkept>>

\* The queue refuses the job, and the claim is released; if that fails, it stays.
EnqueueFails(r) ==
  /\ trigger[r].pc = "add" /\ ApiFault
  /\ trigger' = [trigger EXCEPT ![r].pc = "release"]
  /\ unkept' = unkept \cup {ClaimRow(r)}
  /\ UNCHANGED <<apiTokens, claims, apiJobs, triggers, duplicates>>
ReleaseKey(r) ==
  /\ trigger[r].pc = "release"
  /\ TriggerEnds(r)
  /\ \/ claims' = {row \in claims : row.key # trigger[r].key} /\ UNCHANGED apiFaults
     \/ ApiFault /\ UNCHANGED claims
  /\ UNCHANGED <<apiTokens, apiJobs, triggers, duplicates, unkept>>

\* The daily maintenance drops the keys of last week: no request is that old.
PurgeKeys ==
  /\ claims # {} /\ claims' = {}
  /\ \A r \in Trigger : trigger[r] = NoTrigger
  /\ UNCHANGED <<apiTokens, trigger, apiJobs, triggers, apiFaults, duplicates, unkept>>

ApiNext ==
  \/ \E t \in ApiToken :
       \/ \E list \in SUBSET Address : MintApiToken(t, list) \/ UpdateApiTokenAllowlist(t, list)
       \/ RevokeApiToken(t)
  \/ \E r \in Trigger :
       \/ \E t \in ApiToken, address \in Address, deal \in Deal, header \in Header \cup {NoHeader} :
            Present(r, t, address, deal, header)
       \/ ClaimKey(r)
       \/ EnqueueProcessDeal(r)
       \/ EnqueueFails(r)
       \/ ReleaseKey(r)
  \/ PurgeKeys

ApiSpec == ApiInit /\ [][ApiNext]_apiVars

-----------------------------------------------------------------------------
UnderWay(key) == \E r \in Trigger : trigger[r].pc \in {"add", "release"} /\ trigger[r].key = key

\* A trigger that is told it is a duplicate is one: its deal has, or gets, a job of that
\* tenant under that key.  Unless the request that claimed the key added no job, or the
\* sender had used its header for another deal of the same tenant (apiTrigger.ts: the
\* key, scoped to the tenant and not to the deal, is claimed before the job is added).
DuplicatesAreDuplicates ==
  \A d \in duplicates :
    \/ d \in apiJobs
    \/ UnderWay(d.key)
    \/ \E row \in unkept : row.key = d.key
    \/ /\ d.key.header # NoHeader
       /\ \E job \in apiJobs : job.key = d.key /\ job.job.hub = d.job.hub
=============================================================================

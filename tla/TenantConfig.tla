---------------------------- MODULE TenantConfig ----------------------------
(***************************************************************************)
(* One tenant's configuration row: first-time configuration, partial       *)
(* updates with their history, the rotation of the webhook token, the      *)
(* webhook allow-list, and the maintenance steps that delete old history   *)
(* and move a legacy access code into the vault.  None of them uses a      *)
(* transaction: each statement is a step, and requests interleave.         *)
(* Writes of the settings, the columns redactConfig keeps for the history, *)
(* are numbered: settings n are what the n-th write left in the row.  The  *)
(* access code has its own columns, and whether one is set, a flag of the  *)
(* history, is judged with them.  Tenants have separate rows; this is one. *)
(***************************************************************************)
EXTENDS Naturals, Sequences

CONSTANTS
  Request,     \* requests in flight at one time
  Code,        \* access codes
  None,        \* no access code
  Keep,        \* a PUT whose body leaves the access code alone (absent or masked)
  MaxWrites,   \* bound: writes of the settings
  MaxTokens,   \* bound: tokens made
  MaxFaults    \* bound: faults

ASSUME ConfigAssumption ==
  /\ {MaxWrites, MaxTokens, MaxFaults} \subseteq Nat
  /\ None \notin Code /\ Keep \notin Code \cup {None}

VARIABLES
  exists,      \* there is a row in tenant_config
  settings,    \* version of its settings
  plain,       \* access_code, the legacy column
  sealed,      \* access_code_ct, _iv, _tag
  token,       \* the token whose hash is in webhook_token_hash; 0 is none
  history,     \* the rows of tenant_config_history, oldest first: "after" of each
  request,     \* [Request -> what the request is doing]
  sealing,     \* the access code the maintenance step has read, or None
  tokens,      \* tokens made so far
  faults,      \* faults so far
  saved,       \* ghost: the access code the admin saved last
  overtaken,   \* ghost: it was saved while the maintenance step held a copy
  unrecorded,  \* ghost: settings whose request left no history row
  purged,      \* ghost: settings a history row of which was deleted by age
  shown        \* ghost: tokens shown to the admin

row == <<exists, settings, plain, sealed, token>>
vars == <<row, history, request, sealing, tokens, faults, saved, overtaken, unrecorded, purged, shown>>

Settings == 0..MaxWrites
Token == 0..MaxTokens
MaybeCode == Code \cup {None}
PC == {"idle", "create", "created", "update", "reread", "record", "rotated"}

\* settings: the version the request wrote, then the one it read back.
Idle == [pc |-> "idle", settings |-> 0, token |-> 0]

TypeOK ==
  /\ exists \in BOOLEAN /\ settings \in Settings /\ token \in Token
  /\ plain \in MaybeCode /\ sealed \in MaybeCode
  /\ history \in Seq(Settings)
  /\ unrecorded \subseteq Settings /\ purged \subseteq Settings
  /\ request \in [Request -> [pc: PC, settings: Settings, token: Token]]
  /\ sealing \in MaybeCode
  /\ tokens \in Token /\ faults \in 0..MaxFaults
  /\ saved \in MaybeCode /\ overtaken \in BOOLEAN
  /\ shown \subseteq Token

\* A tenant that has only installed the app, or one that was configured before the
\* vault had access codes and the webhook URL a token; a creation leaves no history
\* row, an update one.
Init ==
  /\ \/ exists = FALSE /\ plain = None /\ history = <<>> /\ unrecorded = {}
     \/ /\ exists = TRUE /\ plain \in MaybeCode
        /\ \/ history = <<>> /\ unrecorded = {0}
           \/ history = <<0>> /\ unrecorded = {}
  /\ sealed = None /\ saved = plain
  /\ settings = 0 /\ purged = {}
  /\ token = 0 /\ tokens = 0 /\ shown = {0}
  /\ request = [r \in Request |-> Idle]
  /\ sealing = None /\ overtaken = FALSE
  /\ faults = 0

-----------------------------------------------------------------------------
At(r, pc) == request[r].pc = pc
End(r) == request' = [request EXCEPT ![r] = Idle]

\* readAccessCode: the vaulted columns first.
ReadAccessCode == IF sealed # None THEN sealed ELSE plain

\* The request has written its settings and not yet its history row.
Pending(r) == request[r].pc \in {"created", "reread", "record"}

\* Mutants: the mask is saved as a code; the legacy column is left as it is.
SaveMask(c) ==
  sealed' = c /\ plain' = None /\ saved' = c /\ overtaken' = (sealing # None)
SaveSealedOnly(c) ==
  IF c = Keep THEN UNCHANGED <<plain, sealed, saved, overtaken>>
  ELSE sealed' = c /\ saved' = c /\ overtaken' = (sealing # None) /\ UNCHANGED plain

\* A code is always vaulted and the legacy column cleared; "" and null clear both.
SaveCode(c) ==
  IF c = Keep THEN UNCHANGED <<plain, sealed, saved, overtaken>>
  ELSE sealed' = c /\ plain' = None /\ saved' = c /\ overtaken' = (sealing # None)

WriteSettings == settings < MaxWrites /\ settings' = settings + 1

\* A handler that writes settings and no history row.
WriteUnrecorded == WriteSettings /\ unrecorded' = unrecorded \cup {settings'}

\* generateWebhookToken
NewToken == tokens < MaxTokens /\ tokens' = tokens + 1 /\ token' = tokens'

-----------------------------------------------------------------------------
\* PUT /tenants/:hubId/config

\* The handler reads the row and branches on whether there is one.
ReadExisting(r) ==
  /\ At(r, "idle")
  /\ request' = [request EXCEPT ![r].pc = IF exists THEN "update" ELSE "create"]
  /\ UNCHANGED <<row, history, sealing, tokens, faults, saved, overtaken, unrecorded, purged, shown>>

\* First-time configuration inserts the row with a new token.  If a row has appeared
\* meanwhile, the primary key refuses it.
CreateRefused(r) ==
  /\ At(r, "create") /\ exists
  /\ End(r)
  /\ UNCHANGED <<row, history, sealing, tokens, faults, saved, overtaken, unrecorded, purged, shown>>

Create(r, c) ==
  /\ At(r, "create") /\ ~exists
  /\ exists' = TRUE
  /\ WriteSettings /\ NewToken
  /\ SaveCode(IF c = Keep THEN None ELSE c)
  /\ request' = [request EXCEPT ![r] = [pc |-> "created", settings |-> settings', token |-> token']]
  /\ UNCHANGED <<history, sealing, faults, unrecorded, purged, shown>>

\* The history row of a creation has before = null, and the column is NOT NULL: the
\* insert fails, and the request with it, before it would answer with the token.
CreateFails(r) ==
  /\ At(r, "created")
  /\ unrecorded' = unrecorded \cup {request[r].settings}
  /\ End(r)
  /\ UNCHANGED <<row, history, sealing, tokens, faults, saved, overtaken, purged, shown>>

\* Mutant: "after" is what the row was when the request read it first.
UpdateReadsFirst(r, c) ==
  /\ At(r, "update")
  /\ WriteSettings
  /\ SaveCode(c)
  /\ request' = [request EXCEPT ![r] = [pc |-> "record", settings |-> settings, token |-> 0]]
  /\ UNCHANGED <<exists, token, history, sealing, tokens, faults, unrecorded, purged, shown>>

\* The partial update.
Update(r, c) ==
  /\ At(r, "update")
  /\ WriteSettings
  /\ SaveCode(c)
  /\ request' = [request EXCEPT ![r] = [pc |-> "reread", settings |-> settings', token |-> 0]]
  /\ UNCHANGED <<exists, token, history, sealing, tokens, faults, unrecorded, purged, shown>>

\* The SELECT for "after" finds what the last update left, be it another request's.
Reread(r) ==
  /\ At(r, "reread")
  /\ request' = [request EXCEPT ![r].pc = "record", ![r].settings = settings]
  /\ UNCHANGED <<row, history, sealing, tokens, faults, saved, overtaken, unrecorded, purged, shown>>

\* The history row; then the audit row, the invalidation (module WebhookGuard) and
\* the answer.
Record(r) ==
  /\ At(r, "record")
  /\ history' = Append(history, request[r].settings)
  /\ End(r)
  /\ UNCHANGED <<row, sealing, tokens, faults, saved, overtaken, unrecorded, purged, shown>>

-----------------------------------------------------------------------------
\* POST /tenants/:hubId/webhook-token/rotate

\* UPDATE ... RETURNING: without a row, 404 and no change.  The hash and its date are
\* settings the history keeps.
Rotate(r) ==
  /\ At(r, "idle") /\ exists
  /\ NewToken /\ WriteUnrecorded
  /\ request' = [request EXCEPT ![r] = [pc |-> "rotated", settings |-> 0, token |-> token']]
  /\ UNCHANGED <<exists, plain, sealed, history, sealing, faults, saved, overtaken, purged,
                 shown>>

\* Invalidation, an audit row whose failure is only logged, and the answer.
ShowToken(r) ==
  /\ At(r, "rotated")
  /\ shown' = shown \cup {request[r].token}
  /\ End(r)
  /\ UNCHANGED <<row, history, sealing, tokens, faults, saved, overtaken, unrecorded, purged>>

\* PUT /tenants/:hubId/webhook-allowlist: one UPDATE, which without a row changes
\* nothing; the invalidation, the audit row and the answer change nothing here.
Allow ==
  /\ exists
  /\ WriteUnrecorded
  /\ UNCHANGED <<exists, plain, sealed, token, history, request, sealing, tokens, faults, saved,
                 overtaken, purged, shown>>

-----------------------------------------------------------------------------
\* The maintenance step tenantConfigHistory

\* DELETE ... WHERE changed_at < cutoff: the n oldest rows, whatever is in force.
PurgeHistory(n) ==
  /\ history' = SubSeq(history, n + 1, Len(history))
  /\ purged' = purged \cup {history[m] : m \in 1..n}
  /\ UNCHANGED <<row, request, sealing, tokens, faults, saved, overtaken, unrecorded, shown>>

-----------------------------------------------------------------------------
\* The maintenance step accessCodesSealed

\* Rows with a plain code and no vaulted one.
SealSelect ==
  /\ sealing = None
  /\ exists /\ plain # None /\ sealed = None
  /\ sealing' = plain
  /\ UNCHANGED <<row, history, request, tokens, faults, saved, overtaken, unrecorded, purged, shown>>

\* The UPDATE does not ask whether the row still is what the SELECT saw.
SealWrite ==
  /\ sealing # None
  /\ sealed' = sealing /\ plain' = None /\ sealing' = None
  /\ UNCHANGED <<exists, settings, token, history, request, tokens, faults, saved, overtaken,
                 unrecorded, purged, shown>>

-----------------------------------------------------------------------------
\* Failures

Fault == faults < MaxFaults /\ faults' = faults + 1

\* A statement fails, its answer is lost, or the process dies: what was written stays.
Abort(r) ==
  /\ ~At(r, "idle")
  /\ Fault
  /\ unrecorded' = unrecorded \cup IF Pending(r) THEN {request[r].settings} ELSE {}
  /\ End(r)
  /\ UNCHANGED <<row, history, sealing, tokens, saved, overtaken, purged, shown>>

SealFails ==
  /\ sealing # None
  /\ Fault
  /\ sealing' = None /\ overtaken' = FALSE
  /\ UNCHANGED <<row, history, request, tokens, saved, unrecorded, purged, shown>>

-----------------------------------------------------------------------------
Step(r) ==
  \/ ReadExisting(r) \/ CreateRefused(r) \/ CreateFails(r) \/ Reread(r) \/ Record(r)
  \/ \E c \in MaybeCode \cup {Keep} : Create(r, c) \/ Update(r, c)
  \/ Rotate(r) \/ ShowToken(r)
  \/ Abort(r)

Next ==
  \/ (\E r \in Request : Step(r)) \/ Allow
  \/ \E n \in 1..Len(history) : PurgeHistory(n)
  \/ SealSelect \/ SealWrite \/ SealFails

Spec == Init /\ [][Next]_vars

-----------------------------------------------------------------------------
\* Properties

\* The access code the pipeline reads is the one the admin saved last, over the
\* legacy column, the vault, clearing and the maintenance step - unless it was saved
\* while that step stood between its SELECT and its UPDATE (config.ts 46-59).
CodeAsSaved == ReadAccessCode = saved \/ overtaken

InHistory == {history[n] : n \in 1..Len(history)}

\* Whoever asks the history what is in force gets an answer.  When no update is under
\* way, the settings in force are in it, though requests may have recorded each
\* other's settings in place of their own - unless they were written by a request
\* that keeps no history (a rotation of the token, the allow-list), by one that
\* failed before its row, as every creation does, or so long ago that a row of them
\* was deleted by age (adminApi.ts 343-359, maintenance.ts 69-74).
SettingsInForceRecorded ==
  (exists /\ \A r \in Request : ~Pending(r)) => settings \in InHistory \cup unrecorded \cup purged

\* "Create configuration stores it and shows the webhook URL once" (GO-LIVE.md
\* 51-52): without a fault, the token in force is one the admin has been shown, when
\* all requests are over.  What fails is the history row of the creation.
CreatedUrlIsShown ==
  (faults = 0 /\ \A r \in Request : At(r, "idle")) => token \in shown
=============================================================================

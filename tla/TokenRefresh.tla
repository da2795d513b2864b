---------------------------- MODULE TokenRefresh ----------------------------
(***************************************************************************)
(* The HubSpot tokens of one tenant: the row in oauth_tokens, the calls    *)
(* that load it, refresh it and overwrite it without a condition, from     *)
(* several workers and processes at once, and the OAuth callback that      *)
(* stores what a new installation was granted.  HubSpot issues the tokens, *)
(* lets them lapse and withdraws grants; that is external.  A refresh      *)
(* token stands for the grant it came with.                                *)
(***************************************************************************)
EXTENDS Naturals

CONSTANTS
  Caller,      \* calls of withHubSpotClient in flight at one time
  Browser,     \* installations in flight at one time
  MaxGrants,   \* bound: installations
  MaxTokens    \* bound: access tokens issued

ASSUME TokenRefreshAssumption == {MaxGrants, MaxTokens} \subseteq Nat

VARIABLES
  tokenRow,   \* what is stored: a grant and its access token, or nothing
  caller,     \* [Caller -> what the call is doing]
  install,    \* [Browser -> what the callback is doing]
  grants,     \* installations granted so far
  tokens,     \* access tokens issued so far
  lapsed,     \* access tokens HubSpot no longer takes
  withdrawn,  \* grants HubSpot no longer refreshes
  stored,     \* ghost: the newest grant a callback has stored
  overtaken,  \* ghost: an earlier grant was written over that one
  unhealed    \* ghost: a call ended with a token that was known to be refused

tokenVars == <<tokenRow, caller, install, grants, tokens, lapsed, withdrawn, stored, overtaken,
               unhealed>>

Grant == 0..MaxGrants      \* 0: none
Token == 0..MaxTokens      \* 0: none
TokenRow == [grant: Grant, access: Token]
CallerPC == {"idle", "load", "refresh", "store", "fn"}
InstallPC == {"idle", "asked", "granted", "known"}

\* force: the retry; refused: the lapsed tokens at the time of the first 401.
Resting == [pc |-> "idle", force |-> FALSE, grant |-> 0, access |-> 0, refused |-> {}]
NoInstall == [pc |-> "idle", grant |-> 0, access |-> 0]

TokensTypeOK ==
  /\ tokenRow \in TokenRow
  /\ caller \in [Caller -> [pc: CallerPC, force: BOOLEAN, grant: Grant, access: Token,
                            refused: SUBSET Token]]
  /\ install \in [Browser -> [pc: InstallPC, grant: Grant, access: Token]]
  /\ grants \in Grant /\ tokens \in Token
  /\ lapsed \subseteq Token /\ withdrawn \subseteq Grant
  /\ stored \in Grant
  /\ overtaken \in BOOLEAN /\ unhealed \in BOOLEAN

TokensInit ==
  /\ tokenRow = [grant |-> 0, access |-> 0]
  /\ caller = [c \in Caller |-> Resting]
  /\ install = [b \in Browser |-> NoInstall]
  /\ grants = 0 /\ tokens = 0 /\ lapsed = {} /\ withdrawn = {}
  /\ stored = 0 /\ overtaken = FALSE /\ unhealed = FALSE

-----------------------------------------------------------------------------
\* A call: withHubSpotClient

CallerAt(c, pc) == caller[c].pc = pc
CallerStops(c) == caller' = [caller EXCEPT ![c] = Resting]

\* HubSpot issues an access token.
Issue == tokens < MaxTokens /\ tokens' = tokens + 1

CallBegins(c) ==
  /\ CallerAt(c, "idle")
  /\ caller' = [caller EXCEPT ![c].pc = "load"]
  /\ UNCHANGED <<tokenRow, install, grants, tokens, lapsed, withdrawn, stored, overtaken, unhealed>>

\* loadTokens: no row, no client.  The token is used as it is or refreshed: by force, or
\* because two minutes or less are left of it, which may be so of any token.
Load(c) ==
  /\ CallerAt(c, "load")
  /\ IF tokenRow.grant = 0 THEN CallerStops(c)
     ELSE \E pc \in (IF caller[c].force THEN {"refresh"} ELSE {"refresh", "fn"}) :
            caller' = [caller EXCEPT ![c].pc = pc, ![c].grant = tokenRow.grant,
                                     ![c].access = tokenRow.access]
  /\ UNCHANGED <<tokenRow, install, grants, tokens, lapsed, withdrawn, stored, overtaken, unhealed>>

\* Mutant: the retry takes the stored token.
AgainAsStored(c) ==
  caller' = [caller EXCEPT ![c].pc = "fn", ![c].force = TRUE, ![c].refused = lapsed,
                           ![c].access = tokenRow.access]

\* A 401 the first time, from HubSpot's API or its token endpoint: refresh and run fn once
\* more.
Again(c) ==
  caller' = [caller EXCEPT ![c].pc = "load", ![c].force = TRUE, ![c].refused = lapsed]

\* POST grant_type=refresh_token.
Refresh(c) ==
  /\ CallerAt(c, "refresh")
  /\ caller[c].grant \notin withdrawn
  /\ Issue
  /\ caller' = [caller EXCEPT ![c].pc = "store", ![c].access = tokens']
  /\ UNCHANGED <<tokenRow, install, grants, lapsed, withdrawn, stored, overtaken, unhealed>>

\* ... is refused, or not answered.
RefreshFails(c) ==
  /\ CallerAt(c, "refresh")
  /\ \/ CallerStops(c)
     \/ ~caller[c].force /\ Again(c)
  /\ UNCHANGED <<tokenRow, install, grants, tokens, lapsed, withdrawn, stored, overtaken, unhealed>>

\* UPDATE ... WHERE hub_id: over what the row is by now.  The caller goes on with the
\* token it was answered, not with the row's.
StoreRefreshed(c) ==
  /\ CallerAt(c, "store")
  /\ tokenRow' = [grant |-> caller[c].grant, access |-> caller[c].access]
  /\ overtaken' = (caller[c].grant < stored)
  /\ caller' = [caller EXCEPT ![c].pc = "fn"]
  /\ UNCHANGED <<install, grants, tokens, lapsed, withdrawn, stored, unhealed>>

\* fn: done, or failed for another reason, with a token that is taken; else 401.
Fn(c) ==
  /\ CallerAt(c, "fn")
  /\ IF caller[c].access \notin lapsed THEN CallerStops(c) /\ UNCHANGED unhealed
     ELSE IF ~caller[c].force THEN Again(c) /\ UNCHANGED unhealed
     ELSE CallerStops(c) /\ unhealed' = (unhealed \/ caller[c].access \in caller[c].refused)
  /\ UNCHANGED <<tokenRow, install, grants, tokens, lapsed, withdrawn, stored, overtaken>>

\* Any other error, and the death of the process.
CallStops(c) ==
  /\ caller[c].pc \in {"load", "store", "fn"}
  /\ CallerStops(c)
  /\ UNCHANGED <<tokenRow, install, grants, tokens, lapsed, withdrawn, stored, overtaken, unhealed>>

-----------------------------------------------------------------------------
\* An installation: GET /oauth/install, HubSpot's consent page, GET /oauth/callback

InstallAt(b, pc) == install[b].pc = pc

\* The state's nonce goes into a cookie of this browser; asked again, a later one replaces it.
AskInstall(b) ==
  /\ InstallAt(b, "idle") /\ grants < MaxGrants
  /\ install' = [install EXCEPT ![b].pc = "asked"]
  /\ UNCHANGED <<tokenRow, caller, grants, tokens, lapsed, withdrawn, stored, overtaken, unhealed>>

\* A callback whose state this browser's cookie bears out, which clears the cookie; any
\* other is refused and changes nothing.  exchangeCode: HubSpot takes a code once.
ExchangeCode(b) ==
  /\ InstallAt(b, "asked")
  /\ grants < MaxGrants /\ grants' = grants + 1
  /\ Issue
  /\ install' = [install EXCEPT ![b] = [pc |-> "granted", grant |-> grants', access |-> tokens']]
  /\ UNCHANGED <<tokenRow, caller, lapsed, withdrawn, stored, overtaken, unhealed>>

\* fetchAccountInfo tells which tenant this is.
FetchAccount(b) ==
  /\ InstallAt(b, "granted")
  /\ install' = [install EXCEPT ![b].pc = "known"]
  /\ UNCHANGED <<tokenRow, caller, grants, tokens, lapsed, withdrawn, stored, overtaken, unhealed>>

\* Tenant and tokens, in one transaction: inserted, or written over what is there.
StoreInstall(b) ==
  /\ InstallAt(b, "known")
  /\ tokenRow' = [grant |-> install[b].grant, access |-> install[b].access]
  /\ stored' = IF install[b].grant > stored THEN install[b].grant ELSE stored
  /\ overtaken' = (install[b].grant < stored)
  /\ install' = [install EXCEPT ![b] = NoInstall]
  /\ UNCHANGED <<caller, grants, tokens, lapsed, withdrawn, unhealed>>

\* The state lapses after ten minutes; HubSpot or Postgres refuses, or the process dies.
InstallFails(b) ==
  /\ ~InstallAt(b, "idle")
  /\ install' = [install EXCEPT ![b] = NoInstall]
  /\ UNCHANGED <<tokenRow, caller, grants, tokens, lapsed, withdrawn, stored, overtaken, unhealed>>

-----------------------------------------------------------------------------
\* HubSpot: an access token expires or is revoked; an uninstalled or replaced grant ends.
Lapse(t) ==
  /\ t \in 1..tokens \ lapsed
  /\ lapsed' = lapsed \cup {t}
  /\ UNCHANGED <<tokenRow, caller, install, grants, tokens, withdrawn, stored, overtaken, unhealed>>

Withdraw(g) ==
  /\ g \in 1..grants \ withdrawn
  /\ withdrawn' = withdrawn \cup {g}
  /\ UNCHANGED <<tokenRow, caller, install, grants, tokens, lapsed, stored, overtaken, unhealed>>

TokensNext ==
  \/ \E c \in Caller : \/ CallBegins(c) \/ Load(c) \/ Refresh(c) \/ RefreshFails(c)
                       \/ StoreRefreshed(c) \/ Fn(c) \/ CallStops(c)
  \/ \E b \in Browser : \/ AskInstall(b) \/ ExchangeCode(b) \/ FetchAccount(b)
                        \/ StoreInstall(b) \/ InstallFails(b)
  \/ \E t \in Token : Lapse(t)
  \/ \E g \in Grant : Withdraw(g)

TokensSpec == TokensInit /\ [][TokensNext]_tokenVars

-----------------------------------------------------------------------------
\* The stored tokens are those of the newest installation, until an installation that
\* was granted earlier is stored later, or a refresh that loaded the row before the
\* installation finishes after it (client.ts 73-85).  And "the token is refreshed once and
\* fn is retried with a fresh client" (client.ts 111): whoever else refreshes or stores
\* meanwhile, the retry is not made with a token that was refused already - a second 401
\* means that HubSpot let the new token lapse.
NewestTokensServe ==
  /\ tokenRow.grant = stored \/ overtaken
  /\ ~unhealed
=============================================================================

-------------------------- MODULE BackOfficeProofs --------------------------
(***************************************************************************)
(* What holds of parts around the pipeline for every value of their        *)
(* constants, one section for each module: HubSpot tokens, failed logins,  *)
(* live pages, triggers, the configuration page, the erasure of a deal,    *)
(* the standalone tools.  Each section has what strengthens its property   *)
(* to an invariant, the lemmas of its actions and the theorems.  Accounts  *)
(* has its proofs in AccountsProofs.  The last section carries the parts'  *)
(* theorems over to the specification that runs them beside one another.   *)
(***************************************************************************)
EXTENDS MCBackOffice, AccountsProofs, FiniteSetTheorems, SequenceTheorems, TLAPS

-----------------------------------------------------------------------------
(* TokenRefresh *)

\* What a call holds is of a grant no newer than the newest one stored, and the refusals
\* it remembers are of tokens issued so far; the token it retries with is none of them.
HoldsNothingRefused(c) ==
  /\ caller[c].grant <= stored
  /\ caller[c].refused \subseteq 1..tokens
  /\ caller[c].force /\ caller[c].pc \in {"store", "fn"} => caller[c].access \notin caller[c].refused

TokensIInv ==
  /\ TokensTypeOK
  /\ lapsed \subseteq 1..tokens
  /\ tokenRow.grant <= stored
  /\ NewestTokensServe
  /\ \A c \in Caller : HoldsNothingRefused(c)

LEMMA TokensBounds ==
  /\ MaxGrants \in Nat /\ MaxTokens \in Nat
  /\ 0 \in Grant /\ 0 \in Token
BY TokenRefreshAssumption DEF Grant, Token

LEMMA TokensInitially == TokensInit => TokensIInv
<1> SUFFICES ASSUME TokensInit PROVE TokensIInv
  OBVIOUS
<1>1. TokensTypeOK
  BY TokensBounds DEF TokensInit, TokensTypeOK, TokenRow, CallerPC, InstallPC, Resting, NoInstall
<1>2. ASSUME NEW c \in Caller PROVE HoldsNothingRefused(c)
  <2>1. caller[c] = Resting /\ stored = 0
    BY DEF TokensInit
  <2> QED BY <2>1 DEF HoldsNothingRefused, Resting
<1> QED BY <1>1, <1>2 DEF TokensInit, TokensIInv, NewestTokensServe

CallType == [pc: CallerPC, force: BOOLEAN, grant: Grant, access: Token, refused: SUBSET Token]

\* A call moves: the rest of the invariant is about what it leaves.
LEMMA OneCallerMoves ==
  ASSUME TokensIInv, NEW c \in Caller,
         caller' \in [Caller -> CallType],
         \A d \in Caller \ {c} : caller'[d] = caller[d],
         HoldsNothingRefused(c)',
         tokens' \in Token, tokens <= tokens',
         UNCHANGED <<install, grants, lapsed, withdrawn, stored>>,
         tokenRow' \in TokenRow, overtaken' \in BOOLEAN, unhealed' = FALSE,
         tokenRow'.grant <= stored, tokenRow'.grant = stored \/ overtaken'
  PROVE  TokensIInv'
<1>1. TokensTypeOK'
  BY DEF TokensIInv, TokensTypeOK, CallType
<1>2. 1..tokens \subseteq 1..tokens'
  BY TokensBounds DEF TokensIInv, TokensTypeOK, Token
<1>3. ASSUME NEW d \in Caller PROVE HoldsNothingRefused(d)'
  BY <1>2 DEF HoldsNothingRefused, TokensIInv
<1> QED BY <1>1, <1>2, <1>3 DEF TokensIInv, NewestTokensServe

\* The fields of a call that is about to move.
LEMMA CallFields ==
  ASSUME TokensIInv, NEW c \in Caller
  PROVE  /\ caller \in [Caller -> CallType] /\ HoldsNothingRefused(c)
         /\ tokens \in Token /\ tokenRow \in TokenRow /\ tokenRow.grant <= stored
         /\ overtaken \in BOOLEAN /\ unhealed = FALSE
         /\ tokenRow.grant = stored \/ overtaken
         /\ stored \in Grant /\ lapsed \subseteq 1..tokens /\ lapsed \subseteq Token
BY DEF TokensIInv, TokensTypeOK, CallType, NewestTokensServe

\* ... and moves alone.
LEMMA OneCallerMovesAlone ==
  ASSUME TokensIInv, NEW c \in Caller,
         caller' \in [Caller -> CallType],
         \A d \in Caller \ {c} : caller'[d] = caller[d],
         HoldsNothingRefused(c)',
         UNCHANGED <<tokenRow, install, grants, tokens, lapsed, withdrawn, stored, overtaken,
                     unhealed>>
  PROVE  TokensIInv'
<1>1. tokens' \in Token /\ tokens <= tokens'
  <2>1. tokens \in Token /\ tokens' = tokens
    BY CallFields
  <2> QED BY <2>1, TokensBounds DEF Token
<1>2. /\ tokenRow' \in TokenRow /\ overtaken' \in BOOLEAN /\ unhealed' = FALSE
      /\ tokenRow'.grant <= stored /\ (tokenRow'.grant = stored \/ overtaken')
  BY CallFields
<1> QED BY <1>1, <1>2, OneCallerMoves

\* A call that stops holds nothing.
LEMMA StopKeeps ==
  ASSUME TokensIInv, NEW c \in Caller, CallerStops(c), stored' = stored
  PROVE  /\ caller' \in [Caller -> CallType] /\ HoldsNothingRefused(c)'
         /\ \A d \in Caller \ {c} : caller'[d] = caller[d]
<1>1. 0 <= stored
  <2>1. stored \in Grant
    BY CallFields
  <2> QED BY <2>1, TokensBounds DEF Grant
<1>2. Resting \in CallType
  BY TokensBounds DEF Resting, CallType, CallerPC
<1>3. caller' \in [Caller -> CallType] /\ \A d \in Caller \ {c} : caller'[d] = caller[d]
  BY <1>2, CallFields DEF CallerStops
<1>4. caller'[c] = Resting
  BY CallFields DEF CallerStops
<1>5. HoldsNothingRefused(c)'
  BY <1>1, <1>4 DEF HoldsNothingRefused, Resting
<1> QED BY <1>3, <1>5

\* A call that was refused its token knows the tokens that have lapsed, and has no other yet.
LEMMA AgainKeeps ==
  ASSUME TokensIInv, NEW c \in Caller, Again(c), stored' = stored, tokens' = tokens
  PROVE  /\ caller' \in [Caller -> CallType] /\ HoldsNothingRefused(c)'
         /\ \A d \in Caller \ {c} : caller'[d] = caller[d]
BY CallFields DEF Again, CallType, CallerPC, HoldsNothingRefused

LEMMA TokensPreserved == TokensIInv /\ [TokensNext]_tokenVars => TokensIInv'
<1> SUFFICES ASSUME TokensIInv, [TokensNext]_tokenVars PROVE TokensIInv'
  OBVIOUS
<1> USE DEF CallerAt, InstallAt
<1>1. ASSUME NEW c \in Caller, CallBegins(c) PROVE TokensIInv'
  <2>1. /\ caller' \in [Caller -> CallType] /\ HoldsNothingRefused(c)'
        /\ \A d \in Caller \ {c} : caller'[d] = caller[d]
    BY <1>1, CallFields DEF CallBegins, CallType, CallerPC, HoldsNothingRefused
  <2> QED BY <1>1, <2>1, OneCallerMovesAlone DEF CallBegins
<1>2. ASSUME NEW c \in Caller, Load(c) PROVE TokensIInv'
  <2>1. CASE tokenRow.grant = 0
    BY <1>2, <2>1, StopKeeps, OneCallerMovesAlone DEF Load
  <2>2. CASE tokenRow.grant # 0
    <3>1. PICK pc \in {"refresh", "fn"} :
            /\ caller[c].force => pc = "refresh"
            /\ caller' = [caller EXCEPT ![c].pc = pc, ![c].grant = tokenRow.grant,
                                        ![c].access = tokenRow.access]
      BY <1>2, <2>2 DEF Load
    <3>2. tokens' = tokens /\ stored' = stored
      BY <1>2 DEF Load
    <3>3. /\ caller' \in [Caller -> CallType]
          /\ \A d \in Caller \ {c} : caller'[d] = caller[d]
      <4>1. tokenRow.grant \in Grant /\ tokenRow.access \in Token /\ pc \in CallerPC
        BY CallFields DEF TokenRow, CallerPC
      <4> QED BY <3>1, <4>1, CallFields DEF CallType
    <3>4. caller[c] \in CallType /\ tokenRow.grant <= stored
      BY CallFields
    <3>5. /\ caller'[c].pc = pc /\ caller'[c].grant = tokenRow.grant
          /\ caller'[c].force = caller[c].force /\ caller'[c].refused = caller[c].refused
      BY <3>1, CallFields DEF CallType
    <3>6. HoldsNothingRefused(c)'
      BY <3>1, <3>2, <3>4, <3>5, CallFields DEF HoldsNothingRefused
    <3> QED BY <1>2, <3>3, <3>6, OneCallerMovesAlone DEF Load
  <2> QED BY <2>1, <2>2
<1>3. ASSUME NEW c \in Caller, Refresh(c) PROVE TokensIInv'
  <2>1. tokens' = tokens + 1 /\ tokens \in Nat /\ tokens' \in Token
    <3>1. tokens \in Token
      BY CallFields
    <3> QED BY <1>3, <3>1, TokensBounds DEF Refresh, Issue, Token
  <2>2. tokens <= tokens' /\ tokens' \notin 1..tokens /\ 1..tokens \subseteq 1..tokens'
    BY <2>1
  <2>3. caller' = [caller EXCEPT ![c].pc = "store", ![c].access = tokens']
    BY <1>3 DEF Refresh
  <2>4. /\ caller' \in [Caller -> CallType]
        /\ \A d \in Caller \ {c} : caller'[d] = caller[d]
    BY <2>1, <2>3, CallFields DEF CallType, CallerPC
  <2>5. HoldsNothingRefused(c)'
    <3>1. /\ caller'[c].grant = caller[c].grant /\ caller'[c].refused = caller[c].refused
          /\ caller'[c].access = tokens' /\ stored' = stored
      <4>1. stored' = stored /\ tokens' \in Token
        BY <1>3, <2>1 DEF Refresh
      <4> QED BY <2>3, <4>1, CallFields DEF CallType
    <3> QED BY <2>2, <3>1, CallFields DEF HoldsNothingRefused
  <2>6. /\ tokenRow' \in TokenRow /\ overtaken' \in BOOLEAN /\ unhealed' = FALSE
        /\ tokenRow'.grant <= stored /\ (tokenRow'.grant = stored \/ overtaken')
        /\ UNCHANGED <<install, grants, lapsed, withdrawn, stored>>
    BY <1>3, CallFields DEF Refresh
  <2> QED BY <2>1, <2>2, <2>4, <2>5, <2>6, OneCallerMoves
<1>4. ASSUME NEW c \in Caller, RefreshFails(c) PROVE TokensIInv'
  BY <1>4, StopKeeps, AgainKeeps, OneCallerMovesAlone DEF RefreshFails
<1>5. ASSUME NEW c \in Caller, StoreRefreshed(c) PROVE TokensIInv'
  <2>1. /\ caller' \in [Caller -> CallType]
        /\ \A d \in Caller \ {c} : caller'[d] = caller[d]
    BY <1>5, CallFields DEF StoreRefreshed, CallType, CallerPC
  <2>2. caller[c] \in CallType /\ caller[c].grant <= stored /\ stored \in Grant
    BY CallFields DEF HoldsNothingRefused
  <2>3. HoldsNothingRefused(c)'
    <3>1. /\ caller'[c].grant = caller[c].grant /\ caller'[c].refused = caller[c].refused
          /\ caller'[c].access = caller[c].access /\ caller'[c].force = caller[c].force
          /\ stored' = stored /\ tokens' = tokens /\ caller[c].pc = "store"
      BY <1>5, CallFields DEF StoreRefreshed, CallType
    <3> QED BY <3>1, CallFields DEF HoldsNothingRefused
  <2>4. tokenRow' \in TokenRow /\ tokenRow'.grant = caller[c].grant
    BY <1>5, <2>2 DEF StoreRefreshed, TokenRow, CallType
  <2>5. overtaken' \in BOOLEAN /\ (caller[c].grant = stored \/ overtaken')
    <3>1. overtaken' = (caller[c].grant < stored)
      BY <1>5, Zenon DEF StoreRefreshed
    <3>2. caller[c].grant \in Nat /\ stored \in Nat
      BY <2>2, TokensBounds DEF CallType, Grant
    <3>3. caller[c].grant = stored \/ caller[c].grant < stored
      BY <2>2, <3>2
    <3>4. CASE caller[c].grant < stored
      BY <3>1, <3>4, Zenon
    <3>5. CASE ~(caller[c].grant < stored)
      <4>1. (caller[c].grant < stored) = FALSE
        BY <3>2, <3>5
      <4>2. overtaken' = FALSE
        BY <3>1, <4>1, Zenon
      <4> QED BY <3>3, <3>5, <4>2
    <3> QED BY <3>4, <3>5
  <2>6. /\ tokenRow'.grant <= stored /\ (tokenRow'.grant = stored \/ overtaken')
        /\ overtaken' \in BOOLEAN
    BY <2>2, <2>4, <2>5
  <2>7. tokens' \in Token /\ tokens <= tokens' /\ unhealed' = FALSE
    <3>1. tokens \in Token /\ tokens' = tokens /\ unhealed' = FALSE
      BY <1>5, CallFields DEF StoreRefreshed
    <3> QED BY <3>1, TokensBounds DEF Token
  <2>8. UNCHANGED <<install, grants, lapsed, withdrawn, stored>>
    BY <1>5 DEF StoreRefreshed
  <2> QED BY <2>1, <2>3, <2>4, <2>6, <2>7, <2>8, OneCallerMoves
<1>6. ASSUME NEW c \in Caller, Fn(c) PROVE TokensIInv'
  <2>1. unhealed' = unhealed
    BY <1>6, CallFields DEF Fn, HoldsNothingRefused
  <2>2. CallerStops(c) \/ Again(c)
    BY <1>6 DEF Fn
  <2> QED BY <1>6, <2>1, <2>2, StopKeeps, AgainKeeps, OneCallerMovesAlone DEF Fn
<1>7. ASSUME NEW c \in Caller, CallStops(c) PROVE TokensIInv'
  BY <1>7, StopKeeps, OneCallerMovesAlone DEF CallStops
<1>8. ASSUME NEW b \in Browser, AskInstall(b) PROVE TokensIInv'
  <2>1. TokensTypeOK'
    BY <1>8, TokensBounds DEF AskInstall, TokensIInv, TokensTypeOK, InstallPC
  <2>2. \A c \in Caller : HoldsNothingRefused(c)'
    BY <1>8 DEF AskInstall, TokensIInv, HoldsNothingRefused
  <2> QED BY <1>8, <2>1, <2>2 DEF AskInstall, TokensIInv, NewestTokensServe
<1>9. ASSUME NEW b \in Browser, ExchangeCode(b) PROVE TokensIInv'
  <2>1. tokens' = tokens + 1 /\ tokens \in Nat /\ tokens' \in Token /\ grants' \in Grant
    BY <1>9, TokensBounds DEF ExchangeCode, Issue, TokensIInv, TokensTypeOK, Token, Grant
  <2>2. TokensTypeOK'
    BY <1>9, <2>1, TokensBounds DEF ExchangeCode, TokensIInv, TokensTypeOK, InstallPC
  <2>3. 1..tokens \subseteq 1..tokens'
    BY <2>1
  <2>4. \A c \in Caller : HoldsNothingRefused(c)'
    BY <1>9, <2>3 DEF ExchangeCode, TokensIInv, HoldsNothingRefused
  <2> QED BY <1>9, <2>2, <2>3, <2>4 DEF ExchangeCode, TokensIInv, NewestTokensServe
<1>10. ASSUME NEW b \in Browser, FetchAccount(b) PROVE TokensIInv'
  <2>1. TokensTypeOK'
    BY <1>10, TokensBounds DEF FetchAccount, TokensIInv, TokensTypeOK, InstallPC
  <2>2. \A c \in Caller : HoldsNothingRefused(c)'
    BY <1>10 DEF FetchAccount, TokensIInv, HoldsNothingRefused
  <2> QED BY <1>10, <2>1, <2>2 DEF FetchAccount, TokensIInv, NewestTokensServe
<1>11. ASSUME NEW b \in Browser, StoreInstall(b) PROVE TokensIInv'
  <2>1. install[b].grant \in Grant /\ stored \in Grant /\ tokenRow'.grant = install[b].grant
    BY <1>11 DEF StoreInstall, TokensIInv, TokensTypeOK
  <2>2. install[b].grant \in Nat /\ stored \in Nat
    BY <2>1, TokensBounds DEF Grant
  <2>3. /\ stored' \in Grant /\ stored <= stored' /\ install[b].grant <= stored'
        /\ overtaken' \in BOOLEAN /\ (install[b].grant = stored' \/ overtaken')
    <3>1. stored' = IF install[b].grant > stored THEN install[b].grant ELSE stored
      BY <1>11 DEF StoreInstall
    <3>2. overtaken' = (install[b].grant < stored)
      BY <1>11, Zenon DEF StoreInstall
    <3>3. /\ stored' \in Grant /\ stored <= stored' /\ install[b].grant <= stored'
          /\ install[b].grant = stored' \/ install[b].grant < stored
      BY <2>1, <2>2, <3>1
    <3>4. overtaken' \in BOOLEAN /\ (install[b].grant < stored => overtaken')
      <4>1. CASE install[b].grant < stored
        BY <3>2, <4>1, Zenon
      <4>2. CASE ~(install[b].grant < stored)
        <5>1. (install[b].grant < stored) = FALSE
          BY <2>2, <4>2
        <5>2. overtaken' = FALSE
          BY <3>2, <5>1, Zenon
        <5> QED BY <4>2, <5>2
      <4> QED BY <4>1, <4>2
    <3> QED BY <3>3, <3>4
  <2>4. TokensTypeOK'
    BY <1>11, <2>3, TokensBounds
       DEF StoreInstall, TokensIInv, TokensTypeOK, InstallPC, TokenRow, NoInstall
  <2>5. ASSUME NEW c \in Caller PROVE HoldsNothingRefused(c)'
    <3>1. caller[c].grant \in Nat /\ stored' \in Nat
      BY <2>3, TokensBounds DEF TokensIInv, TokensTypeOK, Grant
    <3> QED BY <1>11, <2>2, <2>3, <3>1 DEF StoreInstall, TokensIInv, HoldsNothingRefused
  <2> QED BY <1>11, <2>1, <2>3, <2>4, <2>5 DEF StoreInstall, TokensIInv, NewestTokensServe
<1>12. ASSUME NEW b \in Browser, InstallFails(b) PROVE TokensIInv'
  <2>1. TokensTypeOK'
    BY <1>12, TokensBounds DEF InstallFails, TokensIInv, TokensTypeOK, InstallPC, NoInstall
  <2>2. \A c \in Caller : HoldsNothingRefused(c)'
    BY <1>12 DEF InstallFails, TokensIInv, HoldsNothingRefused
  <2> QED BY <1>12, <2>1, <2>2 DEF InstallFails, TokensIInv, NewestTokensServe
<1>13. ASSUME NEW t \in Token, Lapse(t) PROVE TokensIInv'
  <2>1. lapsed' \subseteq 1..tokens /\ lapsed' \subseteq Token
    BY <1>13 DEF Lapse, TokensIInv, TokensTypeOK
  <2>2. TokensTypeOK'
    BY <1>13, <2>1 DEF Lapse, TokensIInv, TokensTypeOK
  <2>3. \A c \in Caller : HoldsNothingRefused(c)'
    BY <1>13 DEF Lapse, TokensIInv, HoldsNothingRefused
  <2> QED BY <1>13, <2>1, <2>2, <2>3 DEF Lapse, TokensIInv, NewestTokensServe
<1>14. ASSUME NEW g \in Grant, Withdraw(g) PROVE TokensIInv'
  <2>1. TokensTypeOK'
    BY <1>14 DEF Withdraw, TokensIInv, TokensTypeOK
  <2>2. \A c \in Caller : HoldsNothingRefused(c)'
    BY <1>14 DEF Withdraw, TokensIInv, HoldsNothingRefused
  <2> QED BY <1>14, <2>1, <2>2 DEF Withdraw, TokensIInv, NewestTokensServe
<1>15. CASE UNCHANGED tokenVars
  BY <1>15 DEF tokenVars, TokensIInv, TokensTypeOK, HoldsNothingRefused, NewestTokensServe
<1> QED BY <1>1, <1>2, <1>3, <1>4, <1>5, <1>6, <1>7, <1>8, <1>9, <1>10, <1>11, <1>12, <1>13,
           <1>14, <1>15 DEF TokensNext

THEOREM TokensInvariance == TokensSpec => []TokensIInv
BY TokensInitially, TokensPreserved, PTL DEF TokensSpec

\* Whoever refreshes or stores meanwhile, the stored tokens are those of the newest
\* installation unless an older grant was written over it, and no retry after a 401 is
\* made with a token that was refused already (client.ts 73-127, oauth.ts 131-181).
THEOREM TokensOfTheNewest == TokensSpec => []NewestTokensServe
<1>1. TokensIInv => NewestTokensServe
  BY DEF TokensIInv
<1> QED BY <1>1, TokensInvariance, PTL

-----------------------------------------------------------------------------
(* LoginThrottle *)

\* The logins from an address that are at one place.
Logins(pc, ip) == {a \in Attempt : attempt[a] = [pc |-> pc, ip |-> ip]}

ThrottleInvariant == ThrottleTypeOK /\ ThrottleIInv

\* However the logins are placed: the two kinds that count are not more than all.
LEMMA PlacesAreFew ==
  ASSUME NEW f, NEW ip
  PROVE  LET P == {a \in Attempt : f[a] = [pc |-> "bump", ip |-> ip]}
             J == {a \in Attempt : f[a] = [pc |-> "check", ip |-> ip]}
         IN  Cardinality(P) + Cardinality(J) <= Cardinality(Attempt)
<1> DEFINE P == {a \in Attempt : f[a] = [pc |-> "bump", ip |-> ip]}
           J == {a \in Attempt : f[a] = [pc |-> "check", ip |-> ip]}
<1>1. P \subseteq Attempt /\ J \subseteq Attempt /\ P \cap J = {}
  OBVIOUS
<1>2. IsFiniteSet(Attempt) /\ Cardinality(Attempt) \in Nat
  BY LoginThrottleAssumption, FS_CardinalityType
<1>3. IsFiniteSet(P) /\ IsFiniteSet(J)
  BY <1>1, <1>2, FS_Subset
<1>4. Cardinality(P) \in Nat /\ Cardinality(J) \in Nat
  BY <1>3, FS_CardinalityType
<1>5. Cardinality(P \cup J) = Cardinality(P) + Cardinality(J)
  <2>1. Cardinality(P \cap J) = 0
    BY <1>1, FS_EmptySet
  <2>2. Cardinality(P \cup J) = Cardinality(P) + Cardinality(J) - Cardinality(P \cap J)
    BY <1>3, FS_Union
  <2> QED BY <1>4, <2>1, <2>2
<1>6. Cardinality(P \cup J) <= Cardinality(Attempt)
  BY <1>1, <1>2, FS_Subset
<1> QED BY <1>5, <1>6

\* They are finitely many.
LEMMA LoginsAreFew ==
  ASSUME NEW ip
  PROVE  /\ IsFiniteSet(Logins("bump", ip)) /\ IsFiniteSet(Logins("check", ip))
         /\ Pending(ip) \in Nat /\ Judging(ip) \in Nat
         /\ Cardinality(Attempt) \in Nat
         /\ Pending(ip) + Judging(ip) <= Cardinality(Attempt)
<1> DEFINE P == Logins("bump", ip)
           J == Logins("check", ip)
<1>1. P \subseteq Attempt /\ J \subseteq Attempt
  BY DEF Logins
<1>2. IsFiniteSet(Attempt) /\ Cardinality(Attempt) \in Nat
  BY LoginThrottleAssumption, FS_CardinalityType
<1>3. IsFiniteSet(P) /\ IsFiniteSet(J)
  BY <1>1, <1>2, FS_Subset
<1>4. Pending(ip) = Cardinality(P) /\ Judging(ip) = Cardinality(J)
  BY DEF Pending, Judging, Logins
<1>5. Cardinality(P) \in Nat /\ Cardinality(J) \in Nat
  BY <1>3, FS_CardinalityType
<1>6. Pending(ip) + Judging(ip) <= Cardinality(Attempt)
  BY PlacesAreFew DEF Pending, Judging
<1> QED BY <1>2, <1>3, <1>4, <1>5, <1>6

\* A login that moves is counted where it goes and no longer where it was.
LEMMA OneLoginMoves ==
  ASSUME ThrottleTypeOK, NEW a \in Attempt, NEW pc \in AttemptPC, NEW ip \in Ip,
         attempt' = [attempt EXCEPT ![a] = [pc |-> pc, ip |-> ip]], NEW i \in Ip
  PROVE  /\ Pending(i)' = Pending(i)
              + (IF pc = "bump" /\ ip = i THEN 1 ELSE 0)
              - (IF attempt[a].pc = "bump" /\ attempt[a].ip = i THEN 1 ELSE 0)
         /\ Judging(i)' = Judging(i)
              + (IF pc = "check" /\ ip = i THEN 1 ELSE 0)
              - (IF attempt[a].pc = "check" /\ attempt[a].ip = i THEN 1 ELSE 0)
<1>1. ASSUME NEW q \in AttemptPC, IsFiniteSet(Logins(q, i))
      PROVE  Cardinality(Logins(q, i)') = Cardinality(Logins(q, i))
               + (IF pc = q /\ ip = i THEN 1 ELSE 0)
               - (IF attempt[a].pc = q /\ attempt[a].ip = i THEN 1 ELSE 0)
  <2> DEFINE L == Logins(q, i)
             L2 == Logins(q, i)'
  <2>1. attempt[a] \in [pc: AttemptPC, ip: Ip] /\ attempt'[a] = [pc |-> pc, ip |-> ip]
    BY DEF ThrottleTypeOK
  <2>2. a \in L <=> attempt[a].pc = q /\ attempt[a].ip = i
    BY <2>1 DEF Logins
  <2>3. a \in L2 <=> pc = q /\ ip = i
    BY <2>1 DEF Logins
  <2>4. \A b \in Attempt \ {a} : attempt'[b] = attempt[b]
    BY DEF ThrottleTypeOK
  <2>5. L2 = IF pc = q /\ ip = i THEN L \cup {a} ELSE L \ {a}
    BY <2>2, <2>3, <2>4 DEF Logins
  <2>6. Cardinality(L) \in Nat
    BY <1>1, FS_CardinalityType
  <2>7. /\ Cardinality(L \cup {a}) = IF a \in L THEN Cardinality(L) ELSE Cardinality(L) + 1
        /\ Cardinality(L \ {a}) = IF a \in L THEN Cardinality(L) - 1 ELSE Cardinality(L)
    BY <1>1, FS_AddElement, FS_RemoveElement
  <2> HIDE DEF L, L2
  <2>8. Cardinality(L2) = Cardinality(L) + (IF pc = q /\ ip = i THEN 1 ELSE 0)
                            - (IF attempt[a].pc = q /\ attempt[a].ip = i THEN 1 ELSE 0)
    BY <2>2, <2>5, <2>6, <2>7
  <2> QED BY <2>8 DEF L, L2
<1>2. Pending(i) = Cardinality(Logins("bump", i)) /\ Judging(i) = Cardinality(Logins("check", i))
  BY DEF Pending, Judging, Logins
<1>3. /\ Pending(i)' = Cardinality(Logins("bump", i)')
      /\ Judging(i)' = Cardinality(Logins("check", i)')
  BY DEF Pending, Judging, Logins
<1>4. "bump" \in AttemptPC /\ "check" \in AttemptPC
  BY DEF AttemptPC
<1> QED BY <1>1, <1>2, <1>3, <1>4, LoginsAreFew

LEMMA ThrottleInitially == ThrottleInit => ThrottleInvariant
<1> SUFFICES ASSUME ThrottleInit PROVE ThrottleInvariant
  OBVIOUS
<1>1. ThrottleTypeOK
  BY LoginThrottleAssumption DEF ThrottleInit, ThrottleTypeOK, AttemptPC
<1>2. ASSUME NEW ip \in Ip
      PROVE  /\ guesses[ip] <= hard[ip] + Pending(ip) + uncounted
             /\ hard[ip] + Pending(ip) + Judging(ip) <= LOGIN_HARD_LOCK - 1 + Cardinality(Attempt)
  <2>1. guesses[ip] = 0 /\ hard[ip] = 0 /\ uncounted = 0
    BY DEF ThrottleInit
  <2> QED BY <2>1, LoginsAreFew, LoginThrottleAssumption
<1> QED BY <1>1, <1>2 DEF ThrottleInvariant, ThrottleIInv

\* What the invariant says of one address, in numbers.
Within(ip) ==
  /\ guesses[ip] <= hard[ip] + Pending(ip) + uncounted
  /\ hard[ip] + Pending(ip) + Judging(ip) <= LOGIN_HARD_LOCK - 1 + Cardinality(Attempt)

LEMMA Numbers ==
  ASSUME ThrottleInvariant, NEW ip \in Ip
  PROVE  /\ Within(ip) /\ guesses[ip] \in Nat /\ hard[ip] \in Nat /\ uncounted \in Nat
         /\ Pending(ip) \in Nat /\ Judging(ip) \in Nat /\ Cardinality(Attempt) \in Nat
         /\ Pending(ip) + Judging(ip) <= Cardinality(Attempt)
         /\ LOGIN_HARD_LOCK \in Nat /\ LOGIN_HARD_LOCK > 0
BY LoginsAreFew, LoginThrottleAssumption DEF ThrottleInvariant, ThrottleIInv, ThrottleTypeOK, Within

\* A counter that is cleared, while no login moves.
LEMMA ClearedKeeps ==
  ASSUME ThrottleInvariant, NEW ip \in Ip, Cleared(ip), UNCHANGED <<attempt, uncounted>>,
         NEW i \in Ip
  PROVE  Within(i)'
<1>1. Pending(i)' = Pending(i) /\ Judging(i)' = Judging(i) /\ uncounted' = uncounted
  BY DEF Pending, Judging
<1>2. CASE i = ip
  <2>1. guesses'[i] = 0 /\ hard'[i] = 0
    BY <1>2 DEF Cleared, ThrottleInvariant, ThrottleTypeOK
  <2> QED BY <1>1, <2>1, Numbers DEF Within
<1>3. CASE i # ip
  <2>1. guesses'[i] = guesses[i] /\ hard'[i] = hard[i]
    BY <1>3 DEF Cleared, ThrottleInvariant, ThrottleTypeOK
  <2> QED BY <1>1, <2>1, Numbers DEF Within
<1> QED BY <1>2, <1>3

LEMMA ThrottleTypePreserved ==
  ASSUME ThrottleTypeOK, [ThrottleNext]_throttleVars PROVE ThrottleTypeOK'
<1>1. /\ MaxUnlocks \in Nat /\ MaxUncounted \in Nat
  BY LoginThrottleAssumption
<1> USE <1>1 DEF ThrottleTypeOK, AttemptPC, AttemptAt, AttemptTo, Cleared
<1>2. ASSUME NEW a \in Attempt, NEW ip \in Ip, Begin(a, ip) PROVE ThrottleTypeOK'
  BY <1>2 DEF Begin
<1>3. ASSUME NEW a \in Attempt, Wrong(a) PROVE ThrottleTypeOK'
  BY <1>3 DEF Wrong
<1>4. ASSUME NEW a \in Attempt, Bump(a) PROVE ThrottleTypeOK'
  BY <1>4 DEF Bump
<1>5. ASSUME NEW a \in Attempt, BumpLost(a) PROVE ThrottleTypeOK'
  BY <1>5 DEF BumpLost
<1>6. ASSUME NEW a \in Attempt, Undecided(a) \/ Right(a) \/ ResetLost(a) PROVE ThrottleTypeOK'
  BY <1>6 DEF Undecided, Right, ResetLost
<1>7. ASSUME NEW a \in Attempt, Reset(a) PROVE ThrottleTypeOK'
  BY <1>7 DEF Reset
<1>8. CASE Unlock
  BY <1>8 DEF Unlock
<1>9. ASSUME NEW ip \in Ip, UnlockNext(ip) \/ WindowEnds(ip) PROVE ThrottleTypeOK'
  BY <1>9 DEF UnlockNext, WindowEnds
<1>10. CASE UNCHANGED throttleVars
  BY <1>10 DEF throttleVars
<1> QED BY <1>2, <1>3, <1>4, <1>5, <1>6, <1>7, <1>8, <1>9, <1>10 DEF ThrottleNext

\* Where a login that goes to the place named pc was, and what that changes.
LEMMA LoginGoes ==
  ASSUME ThrottleInvariant, NEW a \in Attempt, NEW pc \in AttemptPC, AttemptTo(a, pc), NEW i \in Ip
  PROVE  /\ attempt[a].ip \in Ip
         /\ Pending(i)' = Pending(i)
              + (IF pc = "bump" /\ attempt[a].ip = i THEN 1 ELSE 0)
              - (IF attempt[a].pc = "bump" /\ attempt[a].ip = i THEN 1 ELSE 0)
         /\ Judging(i)' = Judging(i)
              + (IF pc = "check" /\ attempt[a].ip = i THEN 1 ELSE 0)
              - (IF attempt[a].pc = "check" /\ attempt[a].ip = i THEN 1 ELSE 0)
<1>1. attempt[a] \in [pc: AttemptPC, ip: Ip] /\ ThrottleTypeOK
  BY DEF ThrottleInvariant, ThrottleTypeOK
<1>2. attempt' = [attempt EXCEPT ![a] = [pc |-> pc, ip |-> attempt[a].ip]]
  <2>1. [attempt[a] EXCEPT !.pc = pc] = [pc |-> pc, ip |-> attempt[a].ip]
    BY <1>1
  <2> QED BY <2>1 DEF AttemptTo
<1>3. PICK ip \in Ip : ip = attempt[a].ip
  BY <1>1
<1>4. attempt' = [attempt EXCEPT ![a] = [pc |-> pc, ip |-> ip]]
  BY <1>2, <1>3
<1> HIDE <1>2, <1>3
<1>5. /\ Pending(i)' = Pending(i)
           + (IF pc = "bump" /\ ip = i THEN 1 ELSE 0)
           - (IF attempt[a].pc = "bump" /\ attempt[a].ip = i THEN 1 ELSE 0)
      /\ Judging(i)' = Judging(i)
           + (IF pc = "check" /\ ip = i THEN 1 ELSE 0)
           - (IF attempt[a].pc = "check" /\ attempt[a].ip = i THEN 1 ELSE 0)
  BY <1>1, <1>4, OneLoginMoves
<1> QED BY <1>3, <1>5

LEMMA ThrottlePreserved == ThrottleInvariant /\ [ThrottleNext]_throttleVars => ThrottleInvariant'
<1> SUFFICES ASSUME ThrottleInvariant, [ThrottleNext]_throttleVars PROVE ThrottleInvariant'
  OBVIOUS
<1>1. ThrottleTypeOK'
  BY ThrottleTypePreserved DEF ThrottleInvariant
<1>2. ThrottleTypeOK /\ "idle" \in AttemptPC /\ "bump" \in AttemptPC /\ "check" \in AttemptPC
      /\ "reset" \in AttemptPC
  BY DEF ThrottleInvariant, AttemptPC
<1> SUFFICES ASSUME NEW i \in Ip PROVE Within(i)'
  BY <1>1 DEF ThrottleInvariant, ThrottleIInv, Within
<1> USE DEF AttemptAt
<1>3. ASSUME NEW a \in Attempt, NEW ip \in Ip, Begin(a, ip) PROVE Within(i)'
  <2>1. /\ Pending(i)' = Pending(i)
        /\ Judging(i)' = Judging(i) + (IF ip = i THEN 1 ELSE 0)
    <3>1. PICK pc \in AttemptPC : pc = "check"
      BY <1>2
    <3>2. attempt' = [attempt EXCEPT ![a] = [pc |-> pc, ip |-> ip]]
      BY <1>3, <3>1 DEF Begin
    <3> HIDE <3>1
    <3>4. /\ Pending(i)' = Pending(i)
               + (IF pc = "bump" /\ ip = i THEN 1 ELSE 0)
               - (IF attempt[a].pc = "bump" /\ attempt[a].ip = i THEN 1 ELSE 0)
          /\ Judging(i)' = Judging(i)
               + (IF pc = "check" /\ ip = i THEN 1 ELSE 0)
               - (IF attempt[a].pc = "check" /\ attempt[a].ip = i THEN 1 ELSE 0)
      BY <1>2, <3>2, OneLoginMoves
    <3>3. attempt[a].pc = "idle"
      BY <1>3 DEF Begin
    <3> QED BY <3>1, <3>3, <3>4, LoginsAreFew
  <2>2. /\ hard' = hard /\ guesses' = guesses /\ uncounted' = uncounted
        /\ hard[ip] < LOGIN_HARD_LOCK
    BY <1>3 DEF Begin
  <2>3. Pending(i)' + Judging(i)' <= Cardinality(Attempt)
    BY PlacesAreFew DEF Pending, Judging
  <2> QED BY <2>1, <2>2, <2>3, Numbers DEF Within
<1>4. ASSUME NEW a \in Attempt, Wrong(a) PROVE Within(i)'
  <2>1. /\ Pending(i)' = Pending(i) + (IF attempt[a].ip = i THEN 1 ELSE 0)
        /\ Judging(i)' = Judging(i) - (IF attempt[a].ip = i THEN 1 ELSE 0)
    BY <1>2, <1>4, LoginGoes, LoginsAreFew DEF Wrong
  <2>2. /\ guesses'[i] = guesses[i] + (IF attempt[a].ip = i THEN 1 ELSE 0)
        /\ hard' = hard /\ uncounted' = uncounted
    BY <1>2, <1>4, Numbers DEF Wrong, ThrottleTypeOK
  <2> QED BY <2>1, <2>2, Numbers DEF Within
<1>5. ASSUME NEW a \in Attempt, Bump(a) PROVE Within(i)'
  <2>1. /\ Pending(i)' = Pending(i) - (IF attempt[a].ip = i THEN 1 ELSE 0)
        /\ Judging(i)' = Judging(i)
    BY <1>2, <1>5, LoginGoes, LoginsAreFew DEF Bump
  <2>2. /\ hard'[i] = hard[i] + (IF attempt[a].ip = i THEN 1 ELSE 0)
        /\ guesses' = guesses /\ uncounted' = uncounted
    BY <1>2, <1>5, Numbers DEF Bump, ThrottleTypeOK
  <2> QED BY <2>1, <2>2, Numbers DEF Within
<1>6. ASSUME NEW a \in Attempt, BumpLost(a) PROVE Within(i)'
  <2>1. /\ Pending(i)' = Pending(i) - (IF attempt[a].ip = i THEN 1 ELSE 0)
        /\ Judging(i)' = Judging(i)
    BY <1>2, <1>6, LoginGoes, LoginsAreFew DEF BumpLost
  <2>2. hard' = hard /\ guesses' = guesses /\ uncounted' = uncounted + 1
    BY <1>6 DEF BumpLost
  <2> QED BY <2>1, <2>2, Numbers DEF Within
<1>7. ASSUME NEW a \in Attempt, Undecided(a) \/ Right(a) \/ ResetLost(a) PROVE Within(i)'
  <2>1. Pending(i)' = Pending(i) /\ Judging(i)' <= Judging(i) /\ Judging(i)' \in Int
    BY <1>2, <1>7, LoginGoes, LoginsAreFew DEF Undecided, Right, ResetLost
  <2>2. hard' = hard /\ guesses' = guesses /\ uncounted' = uncounted
    BY <1>7 DEF Undecided, Right, ResetLost
  <2> QED BY <2>1, <2>2, Numbers DEF Within
<1>8. ASSUME NEW a \in Attempt, Reset(a) PROVE Within(i)'
  <2>1. Pending(i)' = Pending(i) /\ Judging(i)' = Judging(i) /\ attempt[a].ip \in Ip
    BY <1>2, <1>8, LoginGoes, LoginsAreFew DEF Reset
  <2>2. uncounted' = uncounted
    BY <1>8 DEF Reset
  <2>3. CASE i = attempt[a].ip
    <3>1. guesses'[i] = 0 /\ hard'[i] = 0
      BY <1>2, <1>8, <2>3 DEF Reset, Cleared, ThrottleTypeOK
    <3> QED BY <2>1, <2>2, <3>1, Numbers DEF Within
  <2>4. CASE i # attempt[a].ip
    <3>1. guesses'[i] = guesses[i] /\ hard'[i] = hard[i]
      BY <1>2, <1>8, <2>4 DEF Reset, Cleared, ThrottleTypeOK
    <3> QED BY <2>1, <2>2, <3>1, Numbers DEF Within
  <2> QED BY <2>3, <2>4
<1>9. ASSUME UNCHANGED <<hard, attempt, guesses, uncounted>> PROVE Within(i)'
  <2>1. Pending(i)' = Pending(i) /\ Judging(i)' = Judging(i)
    BY <1>9 DEF Pending, Judging
  <2> QED BY <1>9, <2>1, Numbers DEF Within
<1>10. ASSUME NEW ip \in Ip, UnlockNext(ip) \/ WindowEnds(ip) PROVE Within(i)'
  BY <1>10, ClearedKeeps DEF UnlockNext, WindowEnds
<1> QED BY <1>3, <1>4, <1>5, <1>6, <1>7, <1>8, <1>9, <1>10
        DEF ThrottleNext, throttleVars, Unlock

THEOREM ThrottleInvariance == ThrottleSpec => []ThrottleInvariant
BY ThrottleInitially, ThrottlePreserved, PTL DEF ThrottleSpec

\* For any number of addresses, logins in flight and failures before the lock: no more
\* wrong guesses from one address than the lock allows, one for each login in flight
\* and one for each failure Redis did not count (rateLimit.ts 26-86).
THEOREM HardLockAlways == ThrottleSpec => []HardLockHolds
<1>1. ThrottleInvariant => HardLockHolds
  <2> SUFFICES ASSUME ThrottleInvariant, NEW ip \in Ip
               PROVE  guesses[ip] <= LOGIN_HARD_LOCK - 1 + Cardinality(Attempt) + uncounted
    BY DEF HardLockHolds
  <2> QED BY Numbers DEF Within
<1> QED BY <1>1, ThrottleInvariance, PTL

-----------------------------------------------------------------------------
(* LiveStreams *)

Serves == {"connecting", "open"}
Serving == Cardinality({s \in Stream : stream[s] \in Serves})
StreamsIInv == StreamsTypeOK /\ SlotsCounted

\* The requests at certain places are finitely many, and no fewer at more places.
LEMMA PlacesAreFinite ==
  ASSUME NEW f, NEW Q
  PROVE  LET In(R) == {s \in Stream : f[s] \in R}
         IN  /\ IsFiniteSet(In(Q)) /\ Cardinality(In(Q)) \in Nat
             /\ \A R \in SUBSET Q : Cardinality(In(R)) <= Cardinality(In(Q))
<1> DEFINE In(R) == {s \in Stream : f[s] \in R}
<1>1. IsFiniteSet(Stream) /\ In(Q) \subseteq Stream
  BY LiveStreamsAssumption
<1>2. IsFiniteSet(In(Q))
  BY <1>1, FS_Subset
<1>3. Cardinality(In(Q)) \in Nat
  BY <1>2, FS_CardinalityType
<1>4. ASSUME NEW R \in SUBSET Q PROVE Cardinality(In(R)) <= Cardinality(In(Q))
  <2>1. In(R) \subseteq In(Q)
    OBVIOUS
  <2> QED BY <1>2, <2>1, FS_Subset
<1> QED BY <1>2, <1>3, <1>4

\* A request that moves is counted where it goes and no longer where it was.
LEMMA OneStreamMoves ==
  ASSUME stream \in [Stream -> StreamPC], NEW s \in Stream, NEW to \in StreamPC,
         stream' = [stream EXCEPT ![s] = to], NEW Q
  PROVE  Cardinality({t \in Stream : stream'[t] \in Q})
           = Cardinality({t \in Stream : stream[t] \in Q})
             + (IF to \in Q THEN 1 ELSE 0) - (IF stream[s] \in Q THEN 1 ELSE 0)
<1> DEFINE I == {t \in Stream : stream[t] \in Q}
           J == {t \in Stream : stream'[t] \in Q}
<1>1. J = IF to \in Q THEN I \cup {s} ELSE I \ {s}
  OBVIOUS
<1>2. s \in I <=> stream[s] \in Q
  OBVIOUS
<1>3. IsFiniteSet(I) /\ Cardinality(I) \in Nat
  BY PlacesAreFinite
<1>4. /\ Cardinality(I \cup {s}) = IF s \in I THEN Cardinality(I) ELSE Cardinality(I) + 1
      /\ Cardinality(I \ {s}) = IF s \in I THEN Cardinality(I) - 1 ELSE Cardinality(I)
  BY <1>3, FS_AddElement, FS_RemoveElement
<1> HIDE DEF I, J
<1>5. Cardinality(J) = Cardinality(I) + (IF to \in Q THEN 1 ELSE 0)
                         - (IF stream[s] \in Q THEN 1 ELSE 0)
  BY <1>1, <1>2, <1>3, <1>4
<1> QED BY <1>5 DEF I, J

\* What a move does to the slots held and the streams served.
LEMMA MoveCounts ==
  ASSUME StreamsTypeOK, NEW s \in Stream, NEW from, NEW to \in StreamPC, StreamTo(s, from, to)
  PROVE  /\ stream' \in [Stream -> StreamPC]
         /\ Held' = Held + (IF to \in HoldsSlot THEN 1 ELSE 0)
                         - (IF from \in HoldsSlot THEN 1 ELSE 0)
         /\ Serving' = Serving + (IF to \in Serves THEN 1 ELSE 0)
                               - (IF from \in Serves THEN 1 ELSE 0)
<1>1. stream \in [Stream -> StreamPC] /\ stream' = [stream EXCEPT ![s] = to] /\ stream[s] = from
  BY DEF StreamsTypeOK, StreamTo
<1>2. Held' = Held + (IF to \in HoldsSlot THEN 1 ELSE 0) - (IF from \in HoldsSlot THEN 1 ELSE 0)
  BY <1>1, OneStreamMoves DEF Held
<1>3. Serving' = Serving + (IF to \in Serves THEN 1 ELSE 0) - (IF from \in Serves THEN 1 ELSE 0)
  BY <1>1, OneStreamMoves DEF Serving
<1> QED BY <1>1, <1>2, <1>3

LEMMA SlotNumbers ==
  /\ Held \in Nat /\ Serving \in Nat /\ Serving <= Held
  /\ Held' \in Nat /\ Serving' \in Nat /\ Serving' <= Held'
  /\ SSE_CAP_PER_USER \in Nat /\ MaxRedisFaults \in Nat
<1>1. Serves \in SUBSET HoldsSlot
  BY DEF Serves, HoldsSlot
<1> QED BY <1>1, PlacesAreFinite, LiveStreamsAssumption DEF Held, Serving

\* SlotsCounted in numbers.
Counted == wiped \/ (slotCount = Held + leaks /\ Serving <= SSE_CAP_PER_USER)

LEMMA CountedIsIt == SlotsCounted <=> Counted
BY DEF SlotsCounted, Counted, Serving, Serves

LEMMA StreamsInitially == StreamsInit => StreamsIInv
<1> SUFFICES ASSUME StreamsInit PROVE StreamsIInv
  OBVIOUS
<1>1. StreamsTypeOK
  <2>1. stream \in [Stream -> StreamPC] /\ page \in [Stream -> StreamStatus]
    BY DEF StreamsInit, StreamPC, StreamStatus
  <2>2. slotCount = 0 /\ leaks = 0 /\ redisFaults = 0 /\ wiped = FALSE
    BY DEF StreamsInit
  <2>3. slotCount \in Int /\ leaks \in Nat
    BY <2>2
  <2>5. wiped \in BOOLEAN
    BY <2>2, Zenon
  <2>4. redisFaults \in 0..MaxRedisFaults
    BY <2>2, SlotNumbers
  <2> QED BY <2>1, <2>3, <2>4, <2>5 DEF StreamsTypeOK
<1>2. {s \in Stream : stream[s] \in HoldsSlot} = {}
  BY DEF StreamsInit, HoldsSlot
<1>3. Held = 0
  BY <1>2, FS_EmptySet DEF Held
<1>4. slotCount = 0 /\ leaks = 0
  BY DEF StreamsInit
<1> QED BY <1>1, <1>3, <1>4, SlotNumbers, CountedIsIt DEF StreamsIInv, Counted

\* A step that moves one request and the counter, and keeps the key.
LEMMA MoveKeeps ==
  ASSUME StreamsIInv, NEW s \in Stream, NEW from \in StreamPC, NEW to \in StreamPC,
         StreamTo(s, from, to),
         slotCount' \in Int, leaks' \in Nat, wiped' = wiped,
         slotCount' = slotCount + (IF to \in HoldsSlot THEN 1 ELSE 0)
                                - (IF from \in HoldsSlot THEN 1 ELSE 0) + (leaks' - leaks),
         (to \in Serves /\ from \notin Serves) => slotCount' <= SSE_CAP_PER_USER
  PROVE  Counted'
<1>1. slotCount \in Int /\ leaks \in Nat /\ Counted
  BY CountedIsIt DEF StreamsIInv, StreamsTypeOK
<1>2. /\ Held' = Held + (IF to \in HoldsSlot THEN 1 ELSE 0)
                         - (IF from \in HoldsSlot THEN 1 ELSE 0)
      /\ Serving' = Serving + (IF to \in Serves THEN 1 ELSE 0)
                               - (IF from \in Serves THEN 1 ELSE 0)
  BY MoveCounts DEF StreamsIInv
<1>3. CASE wiped
  BY <1>3 DEF Counted
<1>4. CASE ~wiped
  <2>1. slotCount = Held + leaks /\ Serving <= SSE_CAP_PER_USER
    BY <1>1, <1>4 DEF Counted
  <2>2. slotCount' = Held' + leaks'
    BY <1>1, <1>2, <2>1, SlotNumbers
  <2>3. Serving' <= SSE_CAP_PER_USER
    <3>1. CASE to \in Serves /\ from \notin Serves
      <4>1. slotCount' <= SSE_CAP_PER_USER
        BY <3>1
      <4>2. Held' \in Nat /\ Serving' \in Nat /\ Serving' <= Held' /\ SSE_CAP_PER_USER \in Nat
        BY SlotNumbers
      <4>3. Held' <= slotCount'
        <5>1. leaks' \in Nat /\ slotCount' = Held' + leaks'
          BY <2>2
        <5>2. \A h, l \in Nat : h <= h + l
          OBVIOUS
        <5>3. Held' <= Held' + leaks'
          BY <4>2, <5>1, <5>2
        <5> QED BY <5>1, <5>3
      <4> QED BY <4>1, <4>2, <4>3
    <3>2. CASE ~(to \in Serves /\ from \notin Serves)
      <4>1. Serving' <= Serving
        <5>1. CASE to \in Serves /\ from \in Serves
          BY <1>2, <5>1, SlotNumbers
        <5>2. CASE to \notin Serves /\ from \in Serves
          BY <1>2, <5>2, SlotNumbers
        <5>3. CASE to \notin Serves /\ from \notin Serves
          BY <1>2, <5>3, SlotNumbers
        <5> QED BY <3>2, <5>1, <5>2, <5>3
      <4> QED BY <2>1, <4>1, SlotNumbers
    <3> QED BY <3>1, <3>2
  <2> QED BY <1>4, <2>2, <2>3 DEF Counted
<1> QED BY <1>3, <1>4

\* The key goes, and what it counted with it.
LEMMA KeyGoneKeeps ==
  ASSUME StreamsIInv, KeyGone, Held' = Held, Serving' <= Serving
  PROVE  Counted' /\ slotCount' \in Int /\ leaks' \in Nat /\ wiped' \in BOOLEAN
<1>1. slotCount' = 0 /\ leaks' = 0
  BY DEF KeyGone
<1>2. wiped' = (Held # 0)
  BY Zenon DEF KeyGone
<1>3. CASE Held # 0
  <2>1. wiped' = TRUE
    BY <1>2, <1>3, Zenon
  <2> QED BY <1>1, <2>1 DEF Counted
<1>4. CASE Held = 0
  <2>1. (Held # 0) = FALSE
    BY <1>4
  <2>2. wiped' = FALSE
    BY <1>2, <2>1, Zenon
  <2>3. Held' = 0 /\ Serving' <= Serving /\ Serving <= 0
    BY <1>4, SlotNumbers
  <2>4. slotCount' = Held' + leaks'
    BY <1>1, <2>3
  <2>5. Serving' <= SSE_CAP_PER_USER
    BY <2>3, SlotNumbers
  <2>6. Counted'
    BY <2>4, <2>5 DEF Counted
  <2>7. wiped' \in BOOLEAN
    BY <2>2, Zenon
  <2> QED BY <1>1, <2>6, <2>7
<1> QED BY <1>3, <1>4

LEMMA StreamsPreserved == StreamsIInv /\ [StreamsNext]_streamVars => StreamsIInv'
<1> SUFFICES ASSUME StreamsIInv, [StreamsNext]_streamVars PROVE StreamsIInv'
  OBVIOUS
<1>1. /\ StreamsTypeOK /\ Counted
      /\ slotCount \in Int /\ leaks \in Nat /\ wiped \in BOOLEAN
      /\ stream \in [Stream -> StreamPC] /\ page \in [Stream -> StreamStatus]
      /\ redisFaults \in 0..MaxRedisFaults
  BY CountedIsIt DEF StreamsIInv, StreamsTypeOK
<1> SUFFICES StreamsTypeOK' /\ Counted'
  BY CountedIsIt DEF StreamsIInv, SlotsCounted, Counted, Serving, Serves
<1>2. RedisFault => redisFaults' \in 0..MaxRedisFaults
  BY <1>1, SlotNumbers DEF RedisFault
<1>3. ASSUME NEW s \in Stream, NEW shown \in StreamStatus, page' = [page EXCEPT ![s] = shown]
      PROVE  page' \in [Stream -> StreamStatus]
  BY <1>1, <1>3
<1>4. ASSUME UNCHANGED <<slotCount, stream, redisFaults, leaks, wiped>>,
             page' \in [Stream -> StreamStatus]
      PROVE  StreamsTypeOK' /\ Counted'
  BY <1>1, <1>4 DEF StreamsTypeOK, Counted, Held, Serving
<1>5. ASSUME NEW s \in Stream, PageOpens(s) \/ PageLeaves(s) \/ PageDrops(s)
      PROVE  StreamsTypeOK' /\ Counted'
  BY <1>1, <1>4, <1>5 DEF PageOpens, PageLeaves, PageDrops, StreamStatus
<1>6. ASSUME NEW s \in Stream, Acquire(s) PROVE StreamsTypeOK' /\ Counted'
  <2>1. slotCount' = slotCount + 1 /\ UNCHANGED <<redisFaults, leaks, wiped>>
    BY <1>6 DEF Acquire
  <2>2. CASE slotCount' > SSE_CAP_PER_USER
    <3>1. StreamTo(s, "off", "refuse") /\ page' = page
      BY <1>6, <2>2 DEF Acquire
    <3>2. stream' \in [Stream -> StreamPC] /\ Counted'
      BY <1>1, <2>1, <3>1, MoveKeeps, MoveCounts DEF StreamPC, HoldsSlot, Serves
    <3> QED BY <1>1, <2>1, <3>1, <3>2 DEF StreamsTypeOK
  <2>3. CASE ~(slotCount' > SSE_CAP_PER_USER)
    <3>1. StreamTo(s, "off", "connecting") /\ page' = [page EXCEPT ![s] = "connected"]
      BY <1>6, <2>3 DEF Acquire
    <3>2. slotCount' <= SSE_CAP_PER_USER
      BY <1>1, <2>1, <2>3, SlotNumbers
    <3>3. stream' \in [Stream -> StreamPC] /\ Counted'
      BY <1>1, <2>1, <3>1, <3>2, MoveKeeps, MoveCounts DEF StreamPC, HoldsSlot, Serves
    <3>4. page' \in [Stream -> StreamStatus]
      BY <1>1, <3>1 DEF StreamStatus
    <3> QED BY <1>1, <2>1, <3>3, <3>4 DEF StreamsTypeOK
  <2> QED BY <2>2, <2>3
<1>7. ASSUME NEW s \in Stream, AcquireLost(s) PROVE StreamsTypeOK' /\ Counted'
  <2>1. /\ slotCount' = slotCount + 1 /\ leaks' = leaks + 1 /\ UNCHANGED <<stream, wiped>>
        /\ RedisFault /\ page' = [page EXCEPT ![s] = "closed"]
    BY <1>7 DEF AcquireLost
  <2>2. slotCount' \in Int /\ leaks' \in Nat
    BY <1>1, <2>1
  <2>3. page' \in [Stream -> StreamStatus]
    BY <1>1, <2>1 DEF StreamStatus
  <2>4. Held' = Held /\ Serving' = Serving
    BY <2>1 DEF Held, Serving
  <2>5. Counted'
    BY <1>1, <2>1, <2>4, SlotNumbers DEF Counted
  <2> QED BY <1>1, <1>2, <2>1, <2>2, <2>3, <2>5 DEF StreamsTypeOK
<1>8. ASSUME NEW s \in Stream, Refuse(s) PROVE StreamsTypeOK' /\ Counted'
  <2>1. StreamTo(s, "refuse", "off") /\ UNCHANGED wiped
    BY <1>8 DEF Refuse
  <2>2. page' \in [Stream -> StreamStatus]
    <3>1. PICK shown \in StreamStatus : page' = [page EXCEPT ![s] = shown]
      BY <1>8 DEF Refuse, StreamStatus
    <3> QED BY <1>1, <3>1
  <2>3. /\ slotCount' \in Int /\ leaks' \in Nat /\ redisFaults' \in 0..MaxRedisFaults
        /\ slotCount' = slotCount - 1 + (leaks' - leaks)
    <3>1. CASE slotCount' = slotCount - 1 /\ UNCHANGED <<redisFaults, leaks>>
      BY <1>1, <3>1
    <3>2. CASE RedisFault /\ leaks' = leaks + 1 /\ UNCHANGED slotCount
      BY <1>1, <1>2, <3>2
    <3> QED BY <1>8, <3>1, <3>2 DEF Refuse
  <2>4. stream' \in [Stream -> StreamPC] /\ Counted'
    <3>1. /\ {"refuse", "off"} \subseteq StreamPC
          /\ "refuse" \in HoldsSlot /\ "off" \notin HoldsSlot /\ "off" \notin Serves
      BY DEF StreamPC, HoldsSlot, Serves
    <3>2. slotCount' = slotCount + 0 - 1 + (leaks' - leaks)
      BY <1>1, <2>3
    <3> QED BY <1>1, <2>1, <2>3, <3>1, <3>2, MoveKeeps, MoveCounts
  <2> QED BY <1>1, <2>1, <2>2, <2>3, <2>4 DEF StreamsTypeOK
<1>9. ASSUME NEW s \in Stream, Subscribed(s) \/ SubscribeFails(s) \/ Closed(s)
      PROVE  StreamsTypeOK' /\ Counted'
  <2>1. PICK from \in {"connecting", "open"}, to \in {"open", "release"} : StreamTo(s, from, to)
    BY <1>9 DEF Subscribed, SubscribeFails, Closed
  <2>2. UNCHANGED <<slotCount, redisFaults, leaks, wiped>>
    BY <1>9 DEF Subscribed, SubscribeFails, Closed
  <2>3. page' \in [Stream -> StreamStatus]
    BY <1>1, <1>9 DEF Subscribed, SubscribeFails, Closed, StreamStatus
  <2>4. stream' \in [Stream -> StreamPC] /\ Counted'
    <3>1. /\ from \in StreamPC /\ to \in StreamPC
          /\ from \in HoldsSlot /\ to \in HoldsSlot /\ from \in Serves
      BY DEF StreamPC, HoldsSlot, Serves
    <3>2. slotCount' = slotCount + 1 - 1 + (leaks' - leaks)
      BY <1>1, <2>2
    <3> QED BY <1>1, <2>1, <2>2, <3>1, <3>2, MoveKeeps, MoveCounts
  <2> QED BY <1>1, <2>2, <2>3, <2>4 DEF StreamsTypeOK
<1>10. ASSUME NEW s \in Stream, Release(s) PROVE StreamsTypeOK' /\ Counted'
  <2>1. slotCount' = slotCount - 1 /\ UNCHANGED <<page, redisFaults, leaks, wiped>>
    BY <1>10 DEF Release
  <2>2. PICK to \in {"del", "off"} : StreamTo(s, "release", to)
    BY <1>10 DEF Release
  <2>3. stream' \in [Stream -> StreamPC] /\ Counted'
    <3>1. /\ "release" \in StreamPC /\ to \in StreamPC
          /\ "release" \in HoldsSlot /\ to \notin HoldsSlot /\ to \notin Serves
      BY DEF StreamPC, HoldsSlot, Serves
    <3>2. slotCount' = slotCount + 0 - 1 + (leaks' - leaks) /\ slotCount' \in Int
      BY <1>1, <2>1
    <3> QED BY <1>1, <2>1, <2>2, <3>1, <3>2, MoveKeeps, MoveCounts
  <2> QED BY <1>1, <2>1, <2>3 DEF StreamsTypeOK
<1>11. ASSUME NEW s \in Stream, ReleaseFails(s) PROVE StreamsTypeOK' /\ Counted'
  <2>1. StreamTo(s, "release", "del") /\ RedisFault /\ UNCHANGED <<page, wiped>>
    BY <1>11 DEF ReleaseFails
  <2>2. /\ slotCount' \in Int /\ leaks' \in Nat
        /\ slotCount' = slotCount + 0 - 1 + (leaks' - leaks)
    <3>1. CASE slotCount' = slotCount - 1 /\ UNCHANGED leaks
      BY <1>1, <3>1
    <3>2. CASE leaks' = leaks + 1 /\ UNCHANGED slotCount
      BY <1>1, <3>2
    <3> QED BY <1>11, <3>1, <3>2 DEF ReleaseFails
  <2>3. stream' \in [Stream -> StreamPC] /\ Counted'
    <3>1. /\ "release" \in StreamPC /\ "del" \in StreamPC
          /\ "release" \in HoldsSlot /\ "del" \notin HoldsSlot /\ "del" \notin Serves
      BY DEF StreamPC, HoldsSlot, Serves
    <3> QED BY <1>1, <2>1, <2>2, <3>1, MoveKeeps, MoveCounts
  <2> QED BY <1>1, <1>2, <2>1, <2>2, <2>3 DEF StreamsTypeOK
<1>12. ASSUME NEW s \in Stream, Delete(s) PROVE StreamsTypeOK' /\ Counted'
  <2>1. StreamTo(s, "del", "off") /\ UNCHANGED page
    BY <1>12 DEF Delete
  <2>2. /\ {"del", "off"} \subseteq StreamPC
        /\ {"del", "off"} \cap HoldsSlot = {} /\ {"del", "off"} \cap Serves = {}
    BY DEF StreamPC, HoldsSlot, Serves
  <2>3. stream' \in [Stream -> StreamPC] /\ Held' = Held + 0 - 0 /\ Serving' = Serving + 0 - 0
    BY <1>1, <2>1, <2>2, MoveCounts
  <2>4. Held' = Held /\ Serving' = Serving /\ Serving' <= Serving
    BY <2>3, SlotNumbers
  <2>5. CASE KeyGone /\ UNCHANGED redisFaults
    <3>1. Counted' /\ slotCount' \in Int /\ leaks' \in Nat /\ wiped' \in BOOLEAN
      BY <2>4, <2>5, KeyGoneKeeps
    <3> QED BY <1>1, <2>1, <2>3, <2>5, <3>1 DEF StreamsTypeOK
  <2>6. CASE RedisFault /\ UNCHANGED <<slotCount, leaks, wiped>>
    <3>1. Counted'
      BY <1>1, <2>4, <2>6 DEF Counted
    <3> QED BY <1>1, <1>2, <2>1, <2>3, <2>6, <3>1 DEF StreamsTypeOK
  <2> QED BY <1>12, <2>5, <2>6 DEF Delete
<1>13. ASSUME Expires PROVE StreamsTypeOK' /\ Counted'
  <2>1. KeyGone /\ UNCHANGED <<stream, page, redisFaults>>
    BY <1>13 DEF Expires
  <2>2. Held' = Held /\ Serving' = Serving
    BY <2>1 DEF Held, Serving
  <2>3. Counted' /\ slotCount' \in Int /\ leaks' \in Nat /\ wiped' \in BOOLEAN
    BY <2>1, <2>2, SlotNumbers, KeyGoneKeeps
  <2> QED BY <1>1, <2>1, <2>3 DEF StreamsTypeOK
<1>14. ASSUME ServerDies PROVE StreamsTypeOK' /\ Counted'
  <2>1. /\ RedisFault /\ leaks' = leaks + Held /\ stream' = [s \in Stream |-> "off"]
        /\ UNCHANGED <<slotCount, wiped>>
    BY <1>14 DEF ServerDies
  <2>2. page' \in [Stream -> StreamStatus]
    <3>1. \A s \in Stream : (IF page[s] = "connected" THEN "reconnecting" ELSE page[s])
                               \in StreamStatus
      BY <1>1 DEF StreamStatus
    <3> QED BY <1>14, <3>1 DEF ServerDies
  <2>3. stream' \in [Stream -> StreamPC] /\ {s \in Stream : stream'[s] \in HoldsSlot} = {}
    BY <2>1 DEF StreamPC, HoldsSlot
  <2>4. Held' = 0
    BY <2>3, FS_EmptySet DEF Held
  <2>5. leaks' \in Nat
    BY <1>1, <2>1, SlotNumbers
  <2>6. Counted'
    BY <1>1, <2>1, <2>4, SlotNumbers DEF Counted
  <2> QED BY <1>1, <1>2, <2>1, <2>2, <2>3, <2>5, <2>6 DEF StreamsTypeOK
<1>15. CASE UNCHANGED streamVars
  BY <1>1, <1>4, <1>15 DEF streamVars
<1> QED
  BY <1>5, <1>6, <1>7, <1>8, <1>9, <1>10, <1>11, <1>12, <1>13, <1>14, <1>15 DEF StreamsNext

\* Type correctness of the live pages, and the counter's bookkeeping, for any number of
\* tabs, any cap and any number of faults.
THEOREM StreamsInvariance == StreamsSpec => []StreamsIInv
BY StreamsInitially, StreamsPreserved, PTL DEF StreamsSpec

\* As long as the key has not gone while slots were held, it counts the slots held and
\* leaked and no more streams are served than the cap: however acquire, refusal, release
\* and its second command interleave, and whichever of them fail or die.
THEOREM SlotsAlwaysCounted == StreamsSpec => []SlotsCounted
<1>1. StreamsIInv => SlotsCounted
  BY DEF StreamsIInv
<1> QED BY <1>1, StreamsInvariance, PTL

-----------------------------------------------------------------------------
(* ApiTokens *)

Requests == [pc: {"claim", "add", "release"}, job: TriggeredJob, key: IdemKey]
Claimed == [key: IdemKey, job: TriggeredJob]
Tokens == [ApiToken -> [hub: Tenant, state: {"none", "live", "revoked"}, list: SUBSET Address]]

\* A key is its job's tenant's, and its job's deal's if the sender chose none.
KeyFits(x) ==
  /\ x.key.hub = x.job.hub
  /\ x.key.header = NoHeader => x.key.deal = x.job.deal

ApiTyped ==
  /\ apiTokens \in Tokens
  /\ trigger \in [Trigger -> {NoTrigger} \cup Requests]
  /\ claims \subseteq Claimed /\ apiJobs \subseteq Claimed
  /\ duplicates \subseteq Claimed /\ unkept \subseteq Claimed

KeysFit ==
  /\ \A r \in Trigger : trigger[r] # NoTrigger => KeyFits(trigger[r])
  /\ \A x \in apiJobs \cup duplicates : KeyFits(x)

\* A key in use has a job, a request that will add one, or one that could not.
InJobs(key) == \E job \in apiJobs : job.key = key
InUnkept(key) == \E row \in unkept : row.key = key
Backed(key) == InJobs(key) \/ UnderWay(key) \/ InUnkept(key)
KeysBacked ==
  /\ \A row \in claims : Backed(row.key)
  /\ \A d \in duplicates : Backed(d.key)
  /\ \A r \in Trigger : trigger[r].pc = "release" => InUnkept(trigger[r].key)

ApiIInv == ApiTyped /\ KeysFit /\ KeysBacked

LEMMA Idle == NoTrigger.pc = "idle" /\ \A x \in Requests : x # NoTrigger /\ x.pc # "idle"
<1>1. NoTrigger.pc = "idle"
  BY DEF NoTrigger
<1>2. \A x \in Requests : x.pc # "idle"
  BY DEF Requests
<1> QED BY <1>1, <1>2

\* The backing of keys, when one request moves.
LEMMA BackingKept ==
  ASSUME ApiTyped, NEW r \in Trigger,
         \A q \in Trigger : q # r => trigger'[q] = trigger[q],
         apiJobs \subseteq apiJobs', unkept \subseteq unkept',
         NEW key, Backed(key),
         trigger[r].pc \in {"add", "release"} /\ trigger[r].key = key =>
           \/ InJobs(key)' \/ InUnkept(key)'
           \/ trigger'[r].pc \in {"add", "release"} /\ trigger'[r].key = key
  PROVE  Backed(key)'
<1>1. InJobs(key) => InJobs(key)'
  BY DEF InJobs
<1>2. InUnkept(key) => InUnkept(key)'
  BY DEF InUnkept
<1>3. UnderWay(key) => Backed(key)'
  <2>1. SUFFICES ASSUME UnderWay(key) PROVE Backed(key)'
    OBVIOUS
  <2>2. PICK q \in Trigger : trigger[q].pc \in {"add", "release"} /\ trigger[q].key = key
    BY <2>1 DEF UnderWay
  <2>3. CASE q = r
    BY <2>2, <2>3 DEF Backed, UnderWay
  <2>4. CASE q # r
    BY <2>2, <2>4 DEF Backed, UnderWay
  <2> QED BY <2>3, <2>4
<1> QED BY <1>1, <1>2, <1>3 DEF Backed

LEMMA ApiInitially == ApiInit => ApiIInv
<1> SUFFICES ASSUME ApiInit PROVE ApiIInv
  OBVIOUS
<1>1. trigger = [r \in Trigger |-> NoTrigger] /\ claims = {} /\ apiJobs = {} /\ duplicates = {}
      /\ unkept = {}
  BY DEF ApiInit
<1>2. apiTokens \in Tokens
  BY DEF ApiInit, Tokens
<1> QED BY <1>1, <1>2, Idle DEF ApiIInv, ApiTyped, KeysFit, KeysBacked

LEMMA ApiStep ==
  ASSUME ApiIInv, NEW r \in Trigger,
         \/ ClaimKey(r) \/ EnqueueProcessDeal(r) \/ EnqueueFails(r) \/ ReleaseKey(r)
  PROVE  ApiIInv'
<1>1. /\ apiTokens \in Tokens
      /\ trigger \in [Trigger -> {NoTrigger} \cup Requests]
      /\ claims \subseteq Claimed /\ apiJobs \subseteq Claimed
      /\ duplicates \subseteq Claimed /\ unkept \subseteq Claimed
      /\ ApiTyped /\ KeysFit /\ KeysBacked
  BY DEF ApiIInv, ApiTyped
<1>2. trigger[r].pc \in {"claim", "add", "release"} /\ apiTokens' = apiTokens
  BY DEF ClaimKey, EnqueueProcessDeal, EnqueueFails, ReleaseKey
<1>3. trigger[r] \in Requests /\ trigger[r] # NoTrigger /\ KeyFits(trigger[r])
  <2>1. trigger[r] # NoTrigger
    BY <1>2, Idle
  <2> QED BY <1>1, <2>1 DEF KeysFit
<1>4. PICK row : row = ClaimRow(r)
  OBVIOUS
<1>5. row \in Claimed /\ KeyFits(row) /\ row.key = trigger[r].key /\ row.job = trigger[r].job
  BY <1>3, <1>4 DEF ClaimRow, Claimed, Requests, KeyFits
<1>6. ASSUME TriggerEnds(r)
      PROVE  /\ trigger' \in [Trigger -> {NoTrigger} \cup Requests] /\ trigger'[r] = NoTrigger
             /\ \A q \in Trigger : q # r => trigger'[q] = trigger[q]
  BY <1>1, <1>6 DEF TriggerEnds
<1>7. ASSUME NEW pc \in {"add", "release"}, trigger' = [trigger EXCEPT ![r].pc = pc]
      PROVE  /\ trigger' \in [Trigger -> {NoTrigger} \cup Requests]
             /\ trigger'[r].pc = pc /\ trigger'[r].key = trigger[r].key
             /\ trigger'[r].job = trigger[r].job
             /\ \A q \in Trigger : q # r => trigger'[q] = trigger[q]
  <2>1. trigger' = [trigger EXCEPT ![r] = [trigger[r] EXCEPT !.pc = pc]]
    BY <1>7
  <2>2. /\ [trigger[r] EXCEPT !.pc = pc] \in Requests
        /\ [trigger[r] EXCEPT !.pc = pc].pc = pc
        /\ [trigger[r] EXCEPT !.pc = pc].key = trigger[r].key
        /\ [trigger[r] EXCEPT !.pc = pc].job = trigger[r].job
    BY <1>3 DEF Requests
  <2> QED BY <1>1, <2>1, <2>2
<1>8. CASE ClaimKey(r) /\ \E c \in claims : c.key = trigger[r].key
  <2>1. /\ TriggerEnds(r) /\ duplicates' = duplicates \cup {row}
        /\ UNCHANGED <<claims, apiJobs, unkept>> /\ trigger[r].pc = "claim"
    BY <1>4, <1>8 DEF ClaimKey
  <2>2. \A key : Backed(key) => Backed(key)'
    BY <1>1, <1>6, <2>1, BackingKept
  <2>3. Backed(row.key)
    BY <1>1, <1>5, <1>8 DEF KeysBacked
  <2>4. ApiTyped'
    BY <1>1, <1>2, <1>5, <1>6, <2>1 DEF ApiTyped
  <2>5. KeysFit'
    BY <1>1, <1>5, <1>6, <2>1, Idle DEF KeysFit, KeyFits
  <2>6. KeysBacked'
    BY <1>1, <1>6, <2>1, <2>2, <2>3, Idle DEF KeysBacked, InUnkept
  <2> QED BY <2>4, <2>5, <2>6 DEF ApiIInv
<1>9. CASE ClaimKey(r) /\ ~\E c \in claims : c.key = trigger[r].key
  <2>1. /\ trigger' = [trigger EXCEPT ![r].pc = "add"] /\ claims' = claims \cup {row}
        /\ UNCHANGED <<duplicates, apiJobs, unkept>> /\ trigger[r].pc = "claim"
    BY <1>4, <1>9 DEF ClaimKey
  <2>2. /\ trigger' \in [Trigger -> {NoTrigger} \cup Requests]
        /\ trigger'[r].pc = "add" /\ trigger'[r].key = trigger[r].key
        /\ trigger'[r].job = trigger[r].job
        /\ \A q \in Trigger : q # r => trigger'[q] = trigger[q]
    BY <1>7, <2>1
  <2>3. \A key : Backed(key) => Backed(key)'
    BY <1>1, <2>1, <2>2, BackingKept
  <2>4. Backed(row.key)'
    BY <1>5, <2>2 DEF Backed, UnderWay
  <2>5. ApiTyped'
    BY <1>1, <1>2, <1>5, <2>1, <2>2 DEF ApiTyped
  <2>6. KeysFit'
    BY <1>1, <1>3, <2>1, <2>2 DEF KeysFit, KeyFits
  <2>7. KeysBacked'
    BY <1>1, <2>1, <2>2, <2>3, <2>4 DEF KeysBacked, InUnkept
  <2> QED BY <2>5, <2>6, <2>7 DEF ApiIInv
<1>10. CASE EnqueueProcessDeal(r)
  <2>1. /\ TriggerEnds(r) /\ apiJobs' = apiJobs \cup {row}
        /\ UNCHANGED <<claims, duplicates, unkept>> /\ trigger[r].pc = "add"
    BY <1>4, <1>10 DEF EnqueueProcessDeal
  <2>2. InJobs(row.key)'
    BY <2>1 DEF InJobs
  <2>3. \A key : Backed(key) => Backed(key)'
    BY <1>1, <1>5, <1>6, <2>1, <2>2, BackingKept
  <2>4. ApiTyped'
    BY <1>1, <1>2, <1>5, <1>6, <2>1 DEF ApiTyped
  <2>5. KeysFit'
    BY <1>1, <1>5, <1>6, <2>1, Idle DEF KeysFit, KeyFits
  <2>6. KeysBacked'
    BY <1>1, <1>6, <2>1, <2>3, Idle DEF KeysBacked, InUnkept
  <2> QED BY <2>4, <2>5, <2>6 DEF ApiIInv
<1>11. CASE EnqueueFails(r)
  <2>1. /\ trigger' = [trigger EXCEPT ![r].pc = "release"] /\ unkept' = unkept \cup {row}
        /\ UNCHANGED <<claims, duplicates, apiJobs>>
    BY <1>4, <1>11 DEF EnqueueFails
  <2>2. /\ trigger' \in [Trigger -> {NoTrigger} \cup Requests]
        /\ trigger'[r].pc = "release" /\ trigger'[r].key = trigger[r].key
        /\ trigger'[r].job = trigger[r].job
        /\ \A q \in Trigger : q # r => trigger'[q] = trigger[q]
    BY <1>7, <2>1
  <2>3. \A key : Backed(key) => Backed(key)'
    BY <1>1, <2>1, <2>2, BackingKept
  <2>4. ApiTyped'
    BY <1>1, <1>2, <1>5, <2>1, <2>2 DEF ApiTyped
  <2>5. KeysFit'
    BY <1>1, <1>3, <2>1, <2>2 DEF KeysFit, KeyFits
  <2>6. KeysBacked'
    BY <1>1, <1>5, <2>1, <2>2, <2>3 DEF KeysBacked, InUnkept
  <2> QED BY <2>4, <2>5, <2>6 DEF ApiIInv
<1>12. CASE ReleaseKey(r)
  <2>1. /\ TriggerEnds(r) /\ claims' \subseteq claims
        /\ UNCHANGED <<duplicates, apiJobs, unkept>> /\ trigger[r].pc = "release"
    BY <1>12 DEF ReleaseKey
  <2>2. InUnkept(trigger[r].key)
    BY <1>1, <2>1 DEF KeysBacked
  <2>3. \A key : key = trigger[r].key => InUnkept(key)'
    BY <2>1, <2>2 DEF InUnkept
  <2>4. \A key : Backed(key) => Backed(key)'
    BY <1>1, <1>6, <2>1, <2>3, BackingKept
  <2>5. ApiTyped'
    BY <1>1, <1>2, <1>6, <2>1 DEF ApiTyped
  <2>6. KeysFit'
    BY <1>1, <1>6, <2>1 DEF KeysFit, KeyFits
  <2>7. KeysBacked'
    BY <1>1, <1>6, <2>1, <2>4, Idle DEF KeysBacked, InUnkept
  <2> QED BY <2>5, <2>6, <2>7 DEF ApiIInv
<1> QED BY <1>8, <1>9, <1>10, <1>11, <1>12

LEMMA ApiPreserved == ApiIInv /\ [ApiNext]_apiVars => ApiIInv'
<1> SUFFICES ASSUME ApiIInv, [ApiNext]_apiVars PROVE ApiIInv'
  OBVIOUS
<1>1. /\ apiTokens \in Tokens
      /\ trigger \in [Trigger -> {NoTrigger} \cup Requests]
      /\ claims \subseteq Claimed /\ apiJobs \subseteq Claimed
      /\ duplicates \subseteq Claimed /\ unkept \subseteq Claimed
      /\ ApiTyped /\ KeysFit /\ KeysBacked
  BY DEF ApiIInv, ApiTyped
<1>2. ASSUME UNCHANGED <<trigger, claims, apiJobs, duplicates, unkept>>, apiTokens' \in Tokens
      PROVE  ApiIInv'
  BY <1>1, <1>2
  DEF ApiIInv, ApiTyped, KeysFit, KeysBacked, Backed, InJobs, InUnkept, UnderWay
<1>3. ASSUME NEW t \in ApiToken, NEW list \in SUBSET Address,
             MintApiToken(t, list) \/ UpdateApiTokenAllowlist(t, list) \/ RevokeApiToken(t)
      PROVE  ApiIInv'
  <2>1. apiTokens' \in Tokens
    BY <1>1, <1>3 DEF MintApiToken, UpdateApiTokenAllowlist, RevokeApiToken, Tokens
  <2> QED BY <1>2, <1>3, <2>1 DEF MintApiToken, UpdateApiTokenAllowlist, RevokeApiToken
<1>4. ASSUME NEW r \in Trigger, NEW t \in ApiToken, NEW address \in Address, NEW deal \in Deal,
             NEW header \in Header \cup {NoHeader}, Present(r, t, address, deal, header)
      PROVE  ApiIInv'
  <2>1. PICK hub \in Tenant : hub = apiTokens[t].hub
    BY <1>1 DEF Tokens
  <2>2. PICK asked : asked = [pc |-> "claim", job |-> [hub |-> hub, deal |-> deal],
                                  key |-> KeyOf(hub, deal, header)]
    OBVIOUS
  <2>3. asked \in Requests /\ KeyFits(asked) /\ asked.pc = "claim"
    BY <2>2 DEF Requests, TriggeredJob, IdemKey, KeyOf, KeyFits
  <2>4. /\ trigger' = [trigger EXCEPT ![r] = asked] /\ trigger[r] = NoTrigger
        /\ UNCHANGED <<apiTokens, claims, apiJobs, duplicates, unkept>>
    BY <1>4, <2>1, <2>2 DEF Present
  <2>5. /\ trigger' \in [Trigger -> {NoTrigger} \cup Requests] /\ trigger'[r] = asked
        /\ \A q \in Trigger : q # r => trigger'[q] = trigger[q]
    BY <1>1, <2>3, <2>4
  <2>6. \A key : Backed(key) => Backed(key)'
    BY <1>1, <2>4, <2>5, Idle, BackingKept
  <2>7. ApiTyped'
    BY <1>1, <2>4, <2>5 DEF ApiTyped
  <2>8. KeysFit'
    BY <1>1, <2>3, <2>4, <2>5 DEF KeysFit, KeyFits
  <2>9. KeysBacked'
    BY <1>1, <2>3, <2>4, <2>5, <2>6 DEF KeysBacked, InUnkept
  <2> QED BY <2>7, <2>8, <2>9 DEF ApiIInv
<1>5. CASE PurgeKeys
  <2>1. claims' = {} /\ UNCHANGED <<apiTokens, trigger, apiJobs, duplicates, unkept>>
    BY <1>5 DEF PurgeKeys
  <2> QED
    BY <1>1, <2>1 DEF ApiIInv, ApiTyped, KeysFit, KeysBacked, Backed, InJobs, InUnkept, UnderWay
<1>6. CASE UNCHANGED apiVars
  BY <1>1, <1>2, <1>6 DEF apiVars
<1>7. CASE ApiNext
  <2>1. CASE \E t \in ApiToken :
               \/ \E list \in SUBSET Address :
                    MintApiToken(t, list) \/ UpdateApiTokenAllowlist(t, list)
               \/ RevokeApiToken(t)
    BY <1>3, <2>1
  <2>2. CASE \E r \in Trigger :
               \/ \E t \in ApiToken, address \in Address, deal \in Deal,
                    header \in Header \cup {NoHeader} : Present(r, t, address, deal, header)
               \/ ClaimKey(r) \/ EnqueueProcessDeal(r) \/ EnqueueFails(r) \/ ReleaseKey(r)
    BY <1>4, <2>2, ApiStep
  <2> QED BY <1>5, <1>7, <2>1, <2>2 DEF ApiNext
<1> QED BY <1>6, <1>7

LEMMA BackedAreDuplicates == ApiIInv => DuplicatesAreDuplicates
<1> SUFFICES ASSUME ApiIInv, NEW d \in duplicates, ~UnderWay(d.key),
                    ~\E row \in unkept : row.key = d.key
             PROVE  \/ d \in apiJobs
                    \/ /\ d.key.header # NoHeader
                       /\ \E job \in apiJobs : job.key = d.key /\ job.job.hub = d.job.hub
  BY DEF DuplicatesAreDuplicates
<1>1. PICK job \in apiJobs : job.key = d.key
  BY DEF ApiIInv, KeysBacked, Backed, InJobs, InUnkept
<1>2. KeyFits(job) /\ KeyFits(d) /\ job \in Claimed /\ d \in Claimed
  BY DEF ApiIInv, KeysFit, ApiTyped
<1>3. job.job.hub = d.job.hub
  BY <1>1, <1>2 DEF KeyFits
<1>4. CASE d.key.header = NoHeader
  <2>1. job.job.deal = d.job.deal
    BY <1>1, <1>2, <1>4 DEF KeyFits
  <2>2. job.job = d.job
    BY <1>2, <1>3, <2>1 DEF Claimed, TriggeredJob
  <2>3. job = d
    BY <1>1, <1>2, <2>2 DEF Claimed
  <2> QED BY <2>3
<1> QED BY <1>1, <1>3, <1>4

\* For any tokens, tenants, deals, keys and requests: a trigger answered as a duplicate has
\* a job of its own under that key, or one under way, unless the claiming request added
\* none or the sender used its header for another deal of the same tenant.
THEOREM DuplicatesHaveTheirJob == ApiSpec => []DuplicatesAreDuplicates
BY ApiInitially, ApiPreserved, BackedAreDuplicates, PTL DEF ApiSpec

-----------------------------------------------------------------------------
(* ConfigEditor *)

\* What a field of the form holds: what was typed, or else what the row holds, or nothing.
Agrees(held, typed, f, row) ==
  IF typed # Unset THEN held = typed ELSE held \in {Unset, row[f]} \/ row["main"] = Unset
FormAgrees(form, typed, row) == \A f \in ConfigField : Agrees(form[f], typed[f], f, row)

\* A page whose data, form or PUT are of the row's version has them from the row.
PageOK(p, row, n) ==
  /\ p \in EditorState
  /\ p.at <= n /\ p.base <= n /\ p.put.base <= n
  /\ p.query # "pending" /\ p.at = n => p.data = row
  /\ p.query = "missing" => p.data["main"] = Unset
  /\ ~p.hydrated => p.typed = NoFields /\ p.drawnTyped = Unset
  /\ p.hydrated /\ p.base = n => /\ FormAgrees(p.form, p.typed, row)
                                 /\ Agrees(p.drawn, p.drawnTyped, "days", row)
  /\ p.put.state # "none" /\ p.put.base = n => FormAgrees(p.put.body, p.put.typed, row)

PagesOK ==
  /\ configRow \in Fields /\ puts \in 0..MaxPuts /\ puts \in Nat
  /\ \A e \in Editor : PageOK(editor[e], configRow, puts)
  /\ editor \in [Editor -> EditorState]

LEMMA EditorBounds ==
  /\ MaxPuts \in Nat /\ 0 \in 0..MaxPuts
  /\ NoFields \in Fields /\ \A f \in ConfigField : NoFields[f] = Unset
  /\ NoPut \in [state: {"none", "sent", "ok"}, body: Fields, typed: Fields, base: 0..MaxPuts]
  /\ NoPut.state = "none" /\ NoPut.base = 0
  /\ {"main", "code", "days", "skips"} = ConfigField
<1>1. MaxPuts \in Nat /\ 0 \in 0..MaxPuts
  BY ConfigEditorAssumption
<1>2. NoFields \in Fields /\ \A f \in ConfigField : NoFields[f] = Unset
  BY DEF NoFields, Fields, Content
<1> QED BY <1>1, <1>2 DEF NoPut, ConfigField

LEMMA FillAgainKeeps ==
  ASSUME NEW row \in Fields, NEW n \in Nat, NEW p, PageOK(p, row, n), ~p.hydrated,
         p.query # "pending"
  PROVE  PageOK(FillAgain(p), row, n)
<1> DEFINE form == IF p.query = "missing" THEN NoFields ELSE [p.data EXCEPT !["code"] = Unset]
           q == FillAgain(p)
<1>1. /\ p \in EditorState /\ p.data \in Fields /\ p.at \in 0..MaxPuts
      /\ p.typed = NoFields /\ p.drawnTyped = Unset /\ p.at <= n /\ p.put.base <= n
      /\ p.at = n => p.data = row
      /\ p.query = "missing" => p.data["main"] = Unset
      /\ p.put.state # "none" /\ p.put.base = n => FormAgrees(p.put.body, p.put.typed, row)
  BY DEF PageOK, EditorState
<1>2. form \in Fields /\ form["days"] \in Content /\ "days" \in ConfigField
  BY <1>1, EditorBounds DEF Fields, Content
<1>3. q = [p EXCEPT !.hydrated = TRUE, !.form = form, !.drawn = form["days"], !.base = p.at]
  BY DEF FillAgain
<1> HIDE DEF q
<1>4. /\ q \in EditorState /\ q.hydrated = TRUE /\ q.form = form /\ q.drawn = form["days"]
      /\ q.base = p.at /\ q.at = p.at /\ q.put = p.put /\ q.query = p.query /\ q.data = p.data
      /\ q.typed = p.typed /\ q.drawnTyped = p.drawnTyped
  BY <1>1, <1>2, <1>3 DEF EditorState
<1>5. p.at = n => \A f \in ConfigField : Agrees(form[f], Unset, f, row)
  BY <1>1, EditorBounds DEF Agrees, Fields
<1>6. q.hydrated
  BY <1>4, Zenon
<1>7. q.base = n => FormAgrees(q.form, q.typed, row) /\ Agrees(q.drawn, q.drawnTyped, "days", row)
  BY <1>1, <1>2, <1>4, <1>5, EditorBounds DEF FormAgrees
<1>8. PageOK(q, row, n)
  BY <1>1, <1>4, <1>6, <1>7 DEF PageOK
<1> QED BY <1>8 DEF q

LEMMA FillKeeps ==
  ASSUME NEW row \in Fields, NEW n \in Nat, NEW p, PageOK(p, row, n)
  PROVE  PageOK(Fill(p), row, n)
<1>1. CASE p.hydrated
  BY <1>1 DEF Fill
<1>2. CASE ~p.hydrated /\ p.query = "pending"
  BY <1>2 DEF Fill, FillAgain
<1>3. CASE ~p.hydrated /\ p.query # "pending"
  BY <1>3, FillAgainKeeps DEF Fill
<1> QED BY <1>1, <1>2, <1>3

LEMMA FetchingKeeps ==
  ASSUME NEW row \in Fields, NEW n \in Nat, NEW p, PageOK(p, row, n)
  PROVE  PageOK(Fetching(p), row, n)
<1> DEFINE q == Fetching(p)
<1>1. q = [p EXCEPT !.fetching = TRUE, !.query = IF p.query = "data" THEN "data" ELSE "pending"]
  BY DEF Fetching, PageOK, EditorState
<1> HIDE DEF q
<1>2. /\ q \in EditorState
      /\ q.query = IF p.query = "data" THEN "data" ELSE "pending"
      /\ q.hydrated = p.hydrated /\ q.form = p.form /\ q.drawn = p.drawn
      /\ q.base = p.base /\ q.at = p.at /\ q.put = p.put /\ q.data = p.data
      /\ q.typed = p.typed /\ q.drawnTyped = p.drawnTyped
  BY <1>1 DEF PageOK, EditorState
<1>3. PageOK(q, row, n)
  BY <1>2 DEF PageOK
<1> QED BY <1>3 DEF q

\* One page changes and the row does not.
LEMMA OnePage ==
  ASSUME PagesOK, NEW e \in Editor, NEW p, PageOK(p, configRow, puts),
         editor' = [editor EXCEPT ![e] = p], UNCHANGED <<configRow, puts>>
  PROVE  PagesOK'
<1>1. p \in EditorState
  BY DEF PageOK
<1>2. editor' \in [Editor -> EditorState] /\ editor'[e] = p
      /\ \A d \in Editor : d # e => editor'[d] = editor[d]
  BY <1>1 DEF PagesOK
<1>3. \A d \in Editor : PageOK(editor'[d], configRow, puts)
  BY <1>2 DEF PagesOK
<1>4. \A d \in Editor : PageOK(editor[d], configRow, puts)'
  BY <1>3 DEF PageOK, FormAgrees, Agrees
<1> QED BY <1>2, <1>4 DEF PagesOK

LEMMA EditsKeep ==
  ASSUME PagesOK, NEW e \in Editor, NEW form \in Fields, NEW typed \in Fields,
         NEW drawn \in Content, NEW drawnTyped \in Content, Edits(e, form, typed, drawn, drawnTyped),
         editor[e].base = puts => /\ FormAgrees(form, typed, configRow)
                                  /\ Agrees(drawn, drawnTyped, "days", configRow)
  PROVE  PagesOK'
<1>1. PICK p \in EditorState : p = editor[e]
  BY DEF PagesOK
<1>2. PageOK(p, configRow, puts) /\ p.hydrated
  BY <1>1 DEF PagesOK, Edits
<1>3. PICK q : q = [p EXCEPT !.form = form, !.typed = typed, !.drawn = drawn,
                             !.drawnTyped = drawnTyped]
  OBVIOUS
<1>4. /\ q \in EditorState
      /\ q.form = form /\ q.typed = typed /\ q.drawn = drawn /\ q.drawnTyped = drawnTyped
      /\ q.query = p.query /\ q.hydrated = p.hydrated /\ q.base = p.base /\ q.at = p.at
      /\ q.put = p.put /\ q.data = p.data
  BY <1>3 DEF EditorState
<1>5. q.hydrated
  BY <1>2, <1>4
<1>6. PageOK(q, configRow, puts)
  BY <1>1, <1>2, <1>4, <1>5 DEF PageOK
<1>7. editor' = [editor EXCEPT ![e] = q] /\ UNCHANGED <<configRow, puts>>
  <2>1. /\ editor' = [editor EXCEPT ![e].form = form, ![e].typed = typed,
                                    ![e].drawn = drawn, ![e].drawnTyped = drawnTyped]
        /\ UNCHANGED <<configRow, puts>>
    BY DEF Edits
  <2>2. editor' = [editor EXCEPT ![e] = [editor[e] EXCEPT !.form = form, !.typed = typed,
                                           !.drawn = drawn, !.drawnTyped = drawnTyped]]
    BY <2>1 DEF PagesOK
  <2> QED BY <1>1, <1>3, <2>1, <2>2
<1> QED BY <1>6, <1>7, OnePage

LEMMA EditFieldsKeep ==
  ASSUME PagesOK, NEW e \in Editor, NEW v \in Value,
         \/ \E f \in ConfigField : EditField(e, f, v)
         \/ EditOverride(e, v) \/ AddCondition(e, v) \/ EditCondition(e, v)
  PROVE  PagesOK'
<1>1. PICK p \in EditorState : p = editor[e]
  BY DEF PagesOK
<1>2. /\ PageOK(p, configRow, puts)
      /\ p.form \in Fields /\ p.typed \in Fields /\ p.drawn \in Content /\ p.drawnTyped \in Content
      /\ v \in Content /\ v # Unset
  BY <1>1, ConfigEditorAssumption DEF PagesOK, EditorState, Content
<1>3. p.hydrated
  BY <1>1 DEF EditField, EditOverride, AddCondition, EditCondition, Edits
<1>4. p.base = puts => /\ \A f \in ConfigField : Agrees(p.form[f], p.typed[f], f, configRow)
                       /\ Agrees(p.drawn, p.drawnTyped, "days", configRow)
  BY <1>2, <1>3 DEF PageOK, FormAgrees
<1>5. ASSUME NEW f \in ConfigField
      PROVE  /\ [p.form EXCEPT ![f] = v] \in Fields /\ [p.typed EXCEPT ![f] = v] \in Fields
             /\ p.base = puts =>
                  FormAgrees([p.form EXCEPT ![f] = v], [p.typed EXCEPT ![f] = v], configRow)
  BY <1>2, <1>4 DEF Fields, FormAgrees, Agrees
<1>6. {"days", "skips"} \subseteq ConfigField
  BY DEF ConfigField
<1>7. CASE \E f \in ConfigField : EditField(e, f, v)
  <2>1. PICK f \in ConfigField : EditField(e, f, v)
    BY <1>7
  <2>2. Edits(e, [p.form EXCEPT ![f] = v], [p.typed EXCEPT ![f] = v], p.drawn, p.drawnTyped)
    BY <1>1, <2>1 DEF EditField
  <2> QED BY <1>1, <1>2, <1>4, <1>5, <2>2, EditsKeep
<1>8. CASE EditOverride(e, v)
  <2>1. Edits(e, [p.form EXCEPT !["days"] = v], [p.typed EXCEPT !["days"] = v],
              p.drawn, p.drawnTyped)
    BY <1>1, <1>8 DEF EditOverride
  <2> QED BY <1>1, <1>2, <1>4, <1>5, <1>6, <2>1, EditsKeep
<1>9. CASE AddCondition(e, v)
  <2>1. Edits(e, [p.form EXCEPT !["skips"] = v], [p.typed EXCEPT !["skips"] = v],
              p.form["days"], p.typed["days"])
    BY <1>1, <1>9 DEF AddCondition
  <2>2. p.form["days"] \in Content /\ p.typed["days"] \in Content
    BY <1>2, <1>6 DEF Fields
  <2> QED BY <1>1, <1>2, <1>4, <1>5, <1>6, <2>1, <2>2, EditsKeep
<1>10. CASE EditCondition(e, v)
  <2>1. PICK form, typed : /\ form = [p.form EXCEPT !["skips"] = v, !["days"] = p.drawn]
                           /\ typed = [p.typed EXCEPT !["skips"] = v, !["days"] = p.drawnTyped]
    OBVIOUS
  <2>2. Edits(e, form, typed, p.drawn, p.drawnTyped)
    BY <1>1, <1>10, <2>1 DEF EditCondition
  <2>3. form \in Fields /\ typed \in Fields
    BY <1>2, <2>1 DEF Fields
  <2>4. p.base = puts => FormAgrees(form, typed, configRow)
    BY <1>2, <1>4, <2>1 DEF FormAgrees, Agrees, Fields
  <2> QED BY <1>1, <1>2, <1>4, <2>2, <2>3, <2>4, EditsKeep
<1> QED BY <1>7, <1>8, <1>9, <1>10

LEMMA EditorInitially == EditorInit => PagesOK
<1> SUFFICES ASSUME EditorInit PROVE PagesOK
  OBVIOUS
<1>1. configRow \in Fields /\ puts = 0 /\ \A e \in Editor : editor[e] = Untouched
  BY EditorBounds DEF EditorInit, Fields, Content
<1>2. /\ Untouched \in EditorState
      /\ Untouched.query = "pending" /\ Untouched.at = 0 /\ Untouched.base = 0
      /\ Untouched.put = NoPut /\ Untouched.hydrated = FALSE
      /\ Untouched.typed = NoFields /\ Untouched.drawnTyped = Unset
  BY EditorBounds DEF Untouched, EditorState, Content
<1>3. ~Untouched.hydrated
  BY <1>2, Zenon
<1>4. PageOK(Untouched, configRow, 0)
  BY <1>2, <1>3, EditorBounds DEF PageOK
<1>5. editor \in [Editor -> EditorState]
  BY <1>2 DEF EditorInit
<1> QED BY <1>1, <1>4, <1>5, EditorBounds DEF PagesOK

LEMMA PutKeeps ==
  ASSUME PagesOK, NEW e \in Editor, PutRow(e)
  PROVE  PagesOK'
<1>1. /\ puts < MaxPuts /\ puts' = puts + 1 /\ puts \in Nat /\ puts' \in Nat
      /\ puts' \in 0..MaxPuts
  BY EditorBounds DEF PutRow, PagesOK
<1>2. PICK p \in EditorState : p = editor[e] /\ PageOK(p, configRow, puts)
  BY DEF PagesOK
<1>3. configRow' \in Fields
  <2>1. p.put.body \in Fields /\ configRow \in Fields
    BY <1>2 DEF EditorState, PagesOK
  <2>2. \A f \in ConfigField : (IF p.put.body[f] # Unset THEN p.put.body[f]
             ELSE IF configRow["main"] = Unset /\ f # "code" THEN DefaultValue
             ELSE configRow[f]) \in Content
    BY <2>1 DEF Fields, Content
  <2> QED BY <1>2, <2>2 DEF PutRow, Fields
<1>4. PICK q \in EditorState : /\ editor' = [editor EXCEPT ![e] = q]
                               /\ q.at = p.at /\ q.base = p.base /\ q.put.base <= puts
                               /\ q.query = p.query /\ q.data = p.data /\ q.hydrated = p.hydrated
                               /\ q.typed = p.typed /\ q.drawnTyped = p.drawnTyped
  <2>1. PICK put : put = IF configRow["main"] = Unset THEN NoPut ELSE [p.put EXCEPT !.state = "ok"]
    OBVIOUS
  <2>2. /\ put \in [state: {"none", "sent", "ok"}, body: Fields, typed: Fields, base: 0..MaxPuts]
        /\ put.base <= puts
    BY <1>1, <1>2, <2>1, EditorBounds DEF EditorState, PageOK
  <2>3. editor' = [editor EXCEPT ![e].put = put]
    BY <1>2, <2>1 DEF PutRow
  <2>4. PICK q : q = [p EXCEPT !.put = put]
    OBVIOUS
  <2>5. editor' = [editor EXCEPT ![e] = q]
    BY <1>2, <2>3, <2>4
  <2>6. /\ q \in EditorState /\ q.put = put
        /\ q.at = p.at /\ q.base = p.base
        /\ q.query = p.query /\ q.data = p.data /\ q.hydrated = p.hydrated
        /\ q.typed = p.typed /\ q.drawnTyped = p.drawnTyped
    BY <1>2, <2>2, <2>4 DEF EditorState
  <2> QED BY <2>2, <2>5, <2>6
<1>5. ASSUME NEW d \in Editor
      PROVE  /\ editor'[d] \in EditorState
             /\ editor'[d].at <= puts /\ editor'[d].base <= puts /\ editor'[d].put.base <= puts
             /\ editor'[d].query = "missing" => editor'[d].data["main"] = Unset
             /\ ~editor'[d].hydrated => editor'[d].typed = NoFields /\ editor'[d].drawnTyped = Unset
  <2>1. editor'[d] = IF d = e THEN q ELSE editor[d]
    BY <1>4 DEF PagesOK
  <2>2. PageOK(editor[d], configRow, puts)
    BY DEF PagesOK
  <2>3. CASE d = e
    BY <1>2, <1>4, <2>1, <2>3 DEF PageOK
  <2>4. CASE d # e
    BY <2>1, <2>2, <2>4 DEF PageOK
  <2> QED BY <2>3, <2>4
<1>6. ASSUME NEW d \in Editor PROVE PageOK(editor[d], configRow, puts)'
  <2>1. /\ editor'[d].at \in Nat /\ editor'[d].base \in Nat /\ editor'[d].put.base \in Nat
    BY <1>5 DEF EditorState
  <2>2. /\ editor'[d].at < puts' /\ editor'[d].base < puts' /\ editor'[d].put.base < puts'
    BY <1>1, <1>5, <2>1
  <2>3. /\ editor'[d].at <= puts' /\ editor'[d].base <= puts' /\ editor'[d].put.base <= puts'
        /\ editor'[d].at # puts' /\ editor'[d].base # puts' /\ editor'[d].put.base # puts'
    BY <1>1, <2>1, <2>2
  <2> QED BY <1>5, <2>3 DEF PageOK
<1>7. editor' \in [Editor -> EditorState]
  BY <1>4 DEF PagesOK
<1> QED BY <1>1, <1>3, <1>6, <1>7 DEF PagesOK

LEMMA EditorPreserved == PagesOK /\ [EditorNext]_editorVars => PagesOK'
<1> SUFFICES ASSUME PagesOK, [EditorNext]_editorVars PROVE PagesOK'
  OBVIOUS
<1>1. /\ configRow \in Fields /\ puts \in Nat /\ puts \in 0..MaxPuts
      /\ editor \in [Editor -> EditorState]
      /\ \A e \in Editor : PageOK(editor[e], configRow, puts)
  BY DEF PagesOK
<1>2. ASSUME NEW e \in Editor, NEW p, PageOK(p, configRow, puts), Becomes(e, p),
             UNCHANGED <<configRow, puts>>
      PROVE  PagesOK'
  BY <1>1, <1>2, FillKeeps, OnePage DEF Becomes
<1>3. ASSUME NEW e \in Editor, QueryAnswers(e) PROVE PagesOK'
  <2>1. PICK p \in EditorState : p = editor[e] /\ PageOK(p, configRow, puts)
    BY <1>1
  <2>2. PICK q : q = [p EXCEPT !.fetching = FALSE, !.data = configRow, !.at = puts,
                        !.query = IF configRow["main"] = Unset THEN "missing" ELSE "data"]
    OBVIOUS
  <2>3. /\ q \in EditorState /\ q.data = configRow /\ q.at = puts
        /\ q.query = (IF configRow["main"] = Unset THEN "missing" ELSE "data")
        /\ q.hydrated = p.hydrated /\ q.form = p.form /\ q.drawn = p.drawn /\ q.base = p.base
        /\ q.put = p.put /\ q.typed = p.typed /\ q.drawnTyped = p.drawnTyped
    BY <1>1, <2>1, <2>2 DEF EditorState
  <2>4. PageOK(q, configRow, puts)
    BY <1>1, <2>1, <2>3 DEF PageOK
  <2>5. Becomes(e, q) /\ UNCHANGED <<configRow, puts>>
    BY <1>3, <2>1, <2>2 DEF QueryAnswers
  <2> QED BY <1>2, <2>4, <2>5
<1>4. ASSUME NEW e \in Editor, PageReopens(e) PROVE PagesOK'
  <2>1. PICK p \in EditorState : p = editor[e] /\ PageOK(p, configRow, puts) /\ p.query # "pending"
    BY <1>1, <1>4 DEF PageReopens
  <2>2. PICK q : q = [Untouched EXCEPT !.query = p.query, !.data = p.data, !.at = p.at,
                                       !.fetching = p.fetching]
    OBVIOUS
  <2>3. q = [query |-> p.query, data |-> p.data, at |-> p.at, fetching |-> p.fetching,
             hydrated |-> FALSE, form |-> NoFields, drawn |-> Unset, drawnTyped |-> Unset,
             typed |-> NoFields, base |-> 0, put |-> NoPut]
    BY <2>2 DEF Untouched
  <2>4. q \in EditorState /\ ~q.hydrated
    BY <2>1, <2>3, EditorBounds DEF EditorState, Content
  <2>5. PageOK(q, configRow, puts)
    BY <1>1, <2>1, <2>3, <2>4, EditorBounds DEF PageOK
  <2>6. /\ Becomes(e, q) \/ Becomes(e, Fetching(q))
        /\ UNCHANGED <<configRow, puts>>
    BY <1>4, <2>1, <2>2 DEF PageReopens
  <2> QED BY <1>1, <1>2, <2>5, <2>6, FetchingKeeps
<1>5. ASSUME NEW e \in Editor, ClickSave(e) PROVE PagesOK'
  <2>1. PICK p \in EditorState : p = editor[e] /\ PageOK(p, configRow, puts) /\ p.hydrated
    BY <1>1, <1>5 DEF ClickSave
  <2>2. PICK put : put = [state |-> "sent", body |-> p.form, typed |-> p.typed, base |-> p.base]
    OBVIOUS
  <2>3. PICK q : q = [p EXCEPT !.put = put]
    OBVIOUS
  <2>4. /\ put \in [state: {"none", "sent", "ok"}, body: Fields, typed: Fields, base: 0..MaxPuts]
        /\ put.body = p.form /\ put.typed = p.typed /\ put.base = p.base
    BY <2>1, <2>2 DEF EditorState
  <2>5. /\ q \in EditorState /\ q.put = put
        /\ q.query = p.query /\ q.hydrated = p.hydrated /\ q.form = p.form /\ q.drawn = p.drawn
        /\ q.base = p.base /\ q.at = p.at /\ q.data = p.data
        /\ q.typed = p.typed /\ q.drawnTyped = p.drawnTyped
    BY <2>1, <2>3, <2>4 DEF EditorState
  <2>6. PageOK(q, configRow, puts)
    BY <2>1, <2>4, <2>5 DEF PageOK
  <2>7. editor' = [editor EXCEPT ![e] = q] /\ UNCHANGED <<configRow, puts>>
    <3>1. editor' = [editor EXCEPT ![e].put = put] /\ UNCHANGED <<configRow, puts>>
      BY <1>5, <2>1, <2>2 DEF ClickSave
    <3> QED BY <1>1, <2>1, <2>3, <3>1
  <2> QED BY <2>6, <2>7, OnePage
<1>6. ASSUME NEW e \in Editor, PutRefused(e) PROVE PagesOK'
  <2>1. PICK p \in EditorState : p = editor[e] /\ PageOK(p, configRow, puts)
    BY <1>1
  <2>2. PICK q : q = [p EXCEPT !.put = NoPut]
    OBVIOUS
  <2>3. /\ q \in EditorState /\ q.put = NoPut
        /\ q.query = p.query /\ q.hydrated = p.hydrated /\ q.form = p.form /\ q.drawn = p.drawn
        /\ q.base = p.base /\ q.at = p.at /\ q.data = p.data
        /\ q.typed = p.typed /\ q.drawnTyped = p.drawnTyped
    BY <2>1, <2>2, EditorBounds DEF EditorState
  <2>4. PageOK(q, configRow, puts)
    BY <1>1, <2>1, <2>3, EditorBounds DEF PageOK
  <2>5. editor' = [editor EXCEPT ![e] = q] /\ UNCHANGED <<configRow, puts>>
    BY <1>1, <1>6, <2>1, <2>2 DEF PutRefused
  <2> QED BY <2>4, <2>5, OnePage
<1>7. ASSUME NEW e \in Editor, SaveAnswered(e) PROVE PagesOK'
  <2>1. PICK p \in EditorState : p = editor[e] /\ PageOK(p, configRow, puts)
    BY <1>1
  <2>2. PICK q : q = [p EXCEPT !.put = NoPut, !.hydrated = FALSE, !.typed = NoFields,
                               !.drawnTyped = Unset]
    OBVIOUS
  <2>3. /\ q \in EditorState /\ q.put = NoPut /\ q.hydrated = FALSE
        /\ q.query = p.query /\ q.form = p.form /\ q.drawn = p.drawn
        /\ q.base = p.base /\ q.at = p.at /\ q.data = p.data
        /\ q.typed = NoFields /\ q.drawnTyped = Unset
    BY <2>1, <2>2, EditorBounds DEF EditorState, Content
  <2>4. ~q.hydrated
    BY <2>3, Zenon
  <2>5. PageOK(q, configRow, puts)
    BY <1>1, <2>1, <2>3, <2>4, EditorBounds DEF PageOK
  <2>6. Becomes(e, Fetching(q)) /\ UNCHANGED <<configRow, puts>>
    BY <1>7, <2>1, <2>2 DEF SaveAnswered
  <2> QED BY <1>1, <1>2, <2>5, <2>6, FetchingKeeps
<1>8. ASSUME NEW e \in Editor, RotateToken(e) PROVE PagesOK'
  BY <1>1, <1>2, <1>8, FetchingKeeps DEF RotateToken
<1>9. CASE UNCHANGED editorVars
  <2>1. UNCHANGED <<configRow, puts, editor>>
    BY <1>9 DEF editorVars
  <2> QED BY <1>1, <2>1 DEF PagesOK, PageOK, FormAgrees, Agrees
<1>10. CASE EditorNext
  <2>1. PICK e \in Editor :
          \/ QueryAnswers(e) \/ PageReopens(e) \/ ClickSave(e) \/ PutRow(e) \/ PutRefused(e)
          \/ SaveAnswered(e) \/ RotateToken(e)
          \/ \E v \in Value :
               \/ \E f \in ConfigField : EditField(e, f, v)
               \/ EditOverride(e, v) \/ AddCondition(e, v) \/ EditCondition(e, v)
    BY <1>10, Zenon DEF EditorNext
  <2> QED BY <1>3, <1>4, <1>5, <1>6, <1>7, <1>8, <2>1, PutKeeps, EditFieldsKeep
<1> QED BY <1>9, <1>10

\* What SavesWhatWasEdited says of a step.
Saves ==
  \A e \in Editor :
    LET put == editor[e].put
        typed(f) == put.typed[f] # Unset
    IN  /\ puts' # puts /\ editor'[e].put # put
        /\ put.base = puts
        => \A f \in ConfigField :
             IF typed(f) THEN configRow'[f] = put.typed[f]
             ELSE configRow'[f] = configRow[f] \/ configRow["main"] = Unset

LEMMA PutSaves ==
  ASSUME PagesOK, EditorNext
  PROVE  Saves
<1> SUFFICES ASSUME NEW d \in Editor, NEW put, put = editor[d].put, puts' # puts,
                    editor'[d].put # put, put.base = puts, NEW f \in ConfigField
             PROVE  IF put.typed[f] # Unset THEN configRow'[f] = put.typed[f]
                    ELSE configRow'[f] = configRow[f] \/ configRow["main"] = Unset
  BY DEF Saves
<1>1. PICK e \in Editor : PutRow(e)
  <2>1. ASSUME NEW e \in Editor,
               \/ QueryAnswers(e) \/ PageReopens(e) \/ ClickSave(e) \/ PutRefused(e)
               \/ SaveAnswered(e) \/ RotateToken(e)
        PROVE  puts' = puts
    BY <2>1, Zenon
    DEF QueryAnswers, PageReopens, ClickSave, PutRefused, SaveAnswered, RotateToken
  <2>2. ASSUME NEW e, NEW form, NEW typed, NEW drawn, NEW drawnTyped,
               Edits(e, form, typed, drawn, drawnTyped)
        PROVE  puts' = puts
    BY <2>2 DEF Edits
  <2>3. ASSUME NEW e \in Editor, NEW v \in Value,
               \/ \E g \in ConfigField : EditField(e, g, v)
               \/ EditOverride(e, v) \/ AddCondition(e, v) \/ EditCondition(e, v)
        PROVE  puts' = puts
    BY <2>2, <2>3, Zenon DEF EditField, EditOverride, AddCondition, EditCondition
  <2> QED BY <2>1, <2>3, Zenon DEF EditorNext
<1>2. editor \in [Editor -> EditorState] /\ PageOK(editor[d], configRow, puts)
  BY DEF PagesOK
<1>3. d = e
  <2>1. d # e => editor'[d] = editor[d]
    BY <1>1, <1>2 DEF PutRow
  <2> QED BY <2>1
<1>4. FormAgrees(put.body, put.typed, configRow)
  <2>1. put.state = "sent"
    BY <1>1, <1>3 DEF PutRow
  <2> QED BY <1>2, <2>1 DEF PageOK
<1>5. Agrees(put.body[f], put.typed[f], f, configRow)
  BY <1>4 DEF FormAgrees
<1>6. configRow'[f] = IF put.body[f] # Unset THEN put.body[f]
                      ELSE IF configRow["main"] = Unset /\ f # "code" THEN DefaultValue
                      ELSE configRow[f]
  BY <1>1, <1>3 DEF PutRow
<1> QED BY <1>5, <1>6 DEF Agrees

\* For any number of browsers, edits and saves: a save from the row as it still is changes
\* what was edited to what was typed, and nothing else.
THEOREM EditsAreSaved == EditorSpec => SavesWhatWasEdited
<1>1. PagesOK /\ [EditorNext]_editorVars => [Saves]_editorVars
  BY PutSaves
<1>2. EditorSpec => []PagesOK
  BY EditorInitially, EditorPreserved, PTL DEF EditorSpec
<1>3. EditorSpec => [][Saves]_editorVars
  BY <1>1, <1>2, PTL DEF EditorSpec
<1> QED BY <1>3 DEF SavesWhatWasEdited, Saves

-----------------------------------------------------------------------------
(* Erasure *)

\* A job is in one state, once.
Once ==
  \A s, t \in QueueState : \A i \in DOMAIN inState[s], k \in DOMAIN inState[t] :
    inState[s][i] = inState[t][k] => s = t /\ i = k

\* The jobs that the sweep knows as the deal's.
Found == IdJob \cup ManualJob

InPage(j) == \E k \in DOMAIN eraser.page : eraser.page[k] = j

\* The sweep is still to come upon the job at place i of state s.
Ahead(s, i) ==
  \/ eraser.pc \in Table
  \/ eraser.pc \in {"page", "look"} /\ \E n \in DOMAIN states : n > eraser.at /\ states[n] = s
  \/ eraser.pc = "page" /\ s = State /\ i > eraser.start
  \/ eraser.pc = "look" /\ s = State /\ InPage(inState[s][i])
  \/ eraser.pc = "look" /\ s = State /\ eraser.full /\ i > eraser.start + PAGE

\* It is in the queue for one of the reasons the property names.
Excused(s, j) == j \in moved \cup locked \/ s \in shifted

\* The rows of table t are still to be deleted.
RowsAhead(t) ==
  \/ eraser.pc = "job_steps"
  \/ eraser.pc = "audit_log" /\ t # "job_steps"
  \/ eraser.pc = "idempotency_keys" /\ t = "idempotency_keys"
  \/ eraser.pc = "failed"

\* A page goes on where a full one ended, or at the newest end.
PagesInOrder ==
  /\ eraser.pc = "page" => eraser.full \/ eraser.start = 0
  /\ eraser.pc \in Table => ~ eraser.full /\ eraser.at = 1 /\ eraser.start = 0

SweepOK ==
  eraser.pc # "failed" =>
    \A s \in QueueState : \A i \in DOMAIN inState[s] :
      inState[s][i] \in Found => Ahead(s, i) \/ Excused(s, inState[s][i])

RowsOK ==
  /\ \A j : Holds("active", j) => j \in ran
  /\ \A t \in Table : RowsAhead(t) \/ rows[t] \subseteq ran

ErasureIInv == ErasureTypeOK /\ Once /\ PagesInOrder /\ SweepOK /\ RowsOK

-----------------------------------------------------------------------------
\* The states are six, in this order.
LEMMA StatesAre ==
  /\ DOMAIN states = 1..6 /\ Len(states) = 6
  /\ states[1] = "completed" /\ states[2] = "failed" /\ states[3] = "delayed"
  /\ states[4] = "waiting" /\ states[5] = "active" /\ states[6] = "paused"
  /\ QueueState = {"completed", "failed", "delayed", "waiting", "active", "paused"}
<1>1. /\ DOMAIN states = 1..6 /\ Len(states) = 6
      /\ states[1] = "completed" /\ states[2] = "failed" /\ states[3] = "delayed"
      /\ states[4] = "waiting" /\ states[5] = "active" /\ states[6] = "paused"
  BY DEF states
<1>2. 1..6 = {1, 2, 3, 4, 5, 6}
  OBVIOUS
<1> HIDE DEF states
<1> QED BY <1>1, <1>2 DEF QueueState

LEMMA StateIsOne == ErasureTypeOK => State \in QueueState
BY DEF ErasureTypeOK, State, QueueState

\* What leaves a state leaves the others in their order, and none is left of it.
LEMMA WithoutJob ==
  ASSUME ErasureTypeOK, Once, NEW s \in QueueState, NEW j
  PROVE  /\ Without(s, j) \in Seq(Job)
         /\ ~ Holds(s, j) => Without(s, j) = inState[s]
         /\ \A i \in DOMAIN Without(s, j) :
              /\ Without(s, j)[i] # j
              /\ \E k \in DOMAIN inState[s] : k >= i /\ Without(s, j)[i] = inState[s][k]
         /\ \A i, k \in DOMAIN Without(s, j) : Without(s, j)[i] = Without(s, j)[k] => i = k
<1> DEFINE list == inState[s]
           at == CHOOSE i \in DOMAIN list : list[i] = j
           f == [i \in 1..(Len(list) - 1) |-> list[IF i < at THEN i ELSE i + 1]]
<1>1. list \in Seq(Job) /\ Len(list) \in Nat /\ DOMAIN list = 1..Len(list)
      /\ (\A i \in 1..Len(list) : list[i] \in Job)
      /\ \A i, k \in 1..Len(list) : list[i] = list[k] => i = k
  <2>1. list \in Seq(Job)
    BY DEF ErasureTypeOK
  <2>2. \A i, k \in DOMAIN list : list[i] = list[k] => i = k
    BY DEF Once
  <2> HIDE DEF list
  <2> QED BY <2>1, <2>2
<1>2. CASE ~ Holds(s, j)
  <2>1. Without(s, j) = list
    BY <1>2 DEF Without
  <2>2. \A i \in DOMAIN list : list[i] # j
    BY <1>2 DEF Holds
  <2> HIDE DEF list
  <2>3. \A i \in DOMAIN list : i >= i
    BY <1>1
  <2> QED BY <1>1, <2>1, <2>2, <2>3 DEF list
<1>3. CASE Holds(s, j)
  <2>1. Without(s, j) = f
    BY <1>3 DEF Without
  <2>2. at \in 1..Len(list) /\ list[at] = j
    <3>1. \E i \in DOMAIN list : list[i] = j
      BY <1>3 DEF Holds
    <3> QED BY <1>1, <3>1
  <2> HIDE DEF list, at
  <2>3. Len(list) - 1 \in Nat /\ DOMAIN f = 1..(Len(list) - 1)
    BY <1>1, <2>2
  <2>4. ASSUME NEW i \in 1..(Len(list) - 1)
        PROVE  /\ (IF i < at THEN i ELSE i + 1) \in 1..Len(list)
               /\ (IF i < at THEN i ELSE i + 1) # at
               /\ (IF i < at THEN i ELSE i + 1) >= i
    BY <1>1, <2>2
  <2>5. f \in Seq(Job)
    <3>1. f \in [1..(Len(list) - 1) -> Job]
      BY <1>1, <2>4
    <3> HIDE DEF f
    <3> QED BY <2>3, <3>1
  <2>6. \A i \in DOMAIN f : f[i] # j /\ \E k \in DOMAIN list : k >= i /\ f[i] = list[k]
    BY <1>1, <2>2, <2>3, <2>4
  <2>7. ASSUME NEW i \in 1..(Len(list) - 1), NEW k \in 1..(Len(list) - 1), f[i] = f[k]
        PROVE  i = k
    <3>1. (IF i < at THEN i ELSE i + 1) = (IF k < at THEN k ELSE k + 1)
      BY <1>1, <2>4, <2>7
    <3> QED BY <1>1, <2>2, <3>1
  <2> HIDE DEF f
  <2>8. \A i, k \in DOMAIN f : f[i] = f[k] => i = k
    BY <2>3, <2>7
  <2> QED BY <1>3, <2>1, <2>5, <2>6, <2>8 DEF list
<1> QED BY <1>2, <1>3

\* A job put at the newest end of a list moves the others down one.
LEMMA InFront ==
  ASSUME NEW S, NEW list \in Seq(S), NEW j \in S
  PROVE  /\ <<j>> \o list \in Seq(S)
         /\ DOMAIN (<<j>> \o list) = 1..(Len(list) + 1) /\ DOMAIN list = 1..Len(list)
         /\ Len(list) \in Nat
         /\ (<<j>> \o list)[1] = j
         /\ \A i \in 2..(Len(list) + 1) : i - 1 \in DOMAIN list /\ (<<j>> \o list)[i] = list[i - 1]
  OBVIOUS

-----------------------------------------------------------------------------
LEMMA ErasureInitially == ErasureInit => ErasureIInv
<1> SUFFICES ASSUME ErasureInit PROVE ErasureIInv
  OBVIOUS
<1>1. inState \in [QueueState -> Seq(Job)]
  BY ErasureAssumption DEF ErasureInit
<1>2. ErasureTypeOK
  <2>1. rows \in [RowKind -> SUBSET DealJob]
    BY DEF ErasureInit, DealJob, RowKind
  <2>2. eraser \in [pc: Table \cup {"page", "look", "audit", "done", "failed"},
                    at: DOMAIN states, start: Nat, page: Seq(Job), full: BOOLEAN]
    BY StatesAre DEF ErasureInit, Table
  <2>3. moves \in 0..MaxMoves /\ moved \subseteq Job /\ ran \subseteq Job
        /\ locked \subseteq DealJob /\ shifted \subseteq QueueState
    BY ErasureAssumption DEF ErasureInit, Job
  <2> QED BY <1>1, <2>1, <2>2, <2>3 DEF ErasureTypeOK
<1>3. Once
  BY ErasureAssumption DEF ErasureInit, Once
<1>4. eraser.pc = "job_steps" /\ eraser.at = 1 /\ eraser.start = 0 /\ ~ eraser.full
  BY DEF ErasureInit
<1>5. PagesInOrder /\ SweepOK
  BY <1>4 DEF PagesInOrder, SweepOK, Ahead, Table
<1>6. RowsOK
  <2>1. ASSUME NEW j, Holds("active", j) PROVE j \in ran
    <3>1. j \in Job
      BY <1>1, <2>1, StatesAre DEF Holds
    <3> QED BY <2>1, <3>1 DEF ErasureInit
  <2> QED BY <1>4, <2>1 DEF RowsOK, RowsAhead
<1> QED BY <1>2, <1>3, <1>5, <1>6 DEF ErasureIInv

\* The fields of the erasure's place.
LEMMA EraserFields ==
  ASSUME ErasureTypeOK
  PROVE  /\ eraser \in [pc: Table \cup {"page", "look", "audit", "done", "failed"},
                        at: DOMAIN states, start: Nat, page: Seq(Job), full: BOOLEAN]
         /\ eraser.at \in 1..6 /\ eraser.start \in Nat /\ eraser.page \in Seq(Job)
         /\ State \in QueueState /\ inState[State] \in Seq(Job)
         /\ PAGE \in Nat \ {0}
BY StatesAre, StateIsOne, ErasureAssumption DEF ErasureTypeOK

\* A step of the erasure that moves no job keeps the invariant if it passes over none.
LEMMA SweepGoes ==
  ASSUME ErasureIInv, UNCHANGED <<inState, moves, moved, ran, shifted>>,
         ErasureTypeOK', PagesInOrder',
         locked \subseteq locked',
         \A t \in Table : RowsAhead(t)' \/ rows'[t] \subseteq ran,
         eraser'.pc # "failed" =>
           /\ eraser.pc # "failed"
           /\ \A s \in QueueState : \A i \in DOMAIN inState[s] :
                Ahead(s, i) /\ inState[s][i] \in Found =>
                  Ahead(s, i)' \/ inState[s][i] \in locked'
  PROVE  ErasureIInv'
<1>1. Once' /\ RowsOK'
  BY DEF ErasureIInv, Once, RowsOK, Holds
<1>2. SweepOK'
  <2> SUFFICES ASSUME eraser'.pc # "failed", NEW s \in QueueState, NEW i \in DOMAIN inState[s],
                      inState[s][i] \in Found
               PROVE  Ahead(s, i)' \/ Excused(s, inState[s][i])'
    BY DEF SweepOK
  <2>1. Ahead(s, i) \/ Excused(s, inState[s][i])
    BY DEF ErasureIInv, SweepOK
  <2> QED BY <2>1 DEF Excused
<1> QED BY <1>1, <1>2 DEF ErasureIInv

LEMMA DeleteRowsKeeps == ErasureIInv /\ DeleteRows => ErasureIInv'
<1> SUFFICES ASSUME ErasureIInv, DeleteRows PROVE ErasureIInv'
  OBVIOUS
<1> DEFINE after == CASE eraser.pc = "job_steps" -> "audit_log"
                      [] eraser.pc = "audit_log" -> "idempotency_keys"
                      [] OTHER -> "page"
<1>1. /\ UNCHANGED <<inState, moves, moved, ran, locked, shifted>>
      /\ eraser.pc \in Table /\ rows' = [rows EXCEPT ![eraser.pc] = {}]
      /\ eraser' = [eraser EXCEPT !.pc = after]
  BY DEF DeleteRows
<1>2. /\ ErasureTypeOK /\ eraser.at = 1 /\ eraser.start = 0 /\ ~ eraser.full
      /\ eraser.pc \in {"job_steps", "audit_log", "idempotency_keys"}
  BY <1>1 DEF ErasureIInv, PagesInOrder, Table
<1>3. /\ eraser.pc = "job_steps" => after = "audit_log"
      /\ eraser.pc = "audit_log" => after = "idempotency_keys"
      /\ eraser.pc = "idempotency_keys" => after = "page"
  OBVIOUS
<1>4. after \in {"audit_log", "idempotency_keys", "page"}
  BY <1>2, <1>3
<1> HIDE DEF after
<1>5. eraser'.pc = after /\ eraser'.at = 1 /\ eraser'.start = 0 /\ ~ eraser'.full
  BY <1>1, <1>2, EraserFields
<1>6. ErasureTypeOK'
  <2>1. eraser' \in [pc: Table \cup {"page", "look", "audit", "done", "failed"},
                     at: DOMAIN states, start: Nat, page: Seq(Job), full: BOOLEAN]
    BY <1>1, <1>2, <1>4, EraserFields DEF Table
  <2> QED BY <1>1, <1>2, <2>1 DEF ErasureTypeOK
<1>7. PagesInOrder'
  BY <1>5 DEF PagesInOrder
<1>8. ASSUME NEW t \in Table PROVE RowsAhead(t)' \/ rows'[t] \subseteq ran
  <2>1. RowsAhead(t) \/ rows[t] \subseteq ran
    BY DEF ErasureIInv, RowsOK
  <2>2. CASE t = eraser.pc
    BY <1>1, <1>2, <2>2 DEF ErasureTypeOK, RowKind
  <2>3. CASE t # eraser.pc
    <3>1. rows'[t] = rows[t]
      BY <1>1, <1>2, <2>3 DEF ErasureTypeOK, RowKind
    <3>2. RowsAhead(t) => RowsAhead(t)'
      BY <1>2, <1>3, <1>5, <2>3 DEF RowsAhead, Table
    <3> QED BY <2>1, <3>1, <3>2
  <2> QED BY <2>2, <2>3
<1>9. ASSUME NEW s \in QueueState, NEW i \in DOMAIN inState[s] PROVE Ahead(s, i)'
  <2>1. CASE after \in Table
    BY <1>5, <2>1 DEF Ahead
  <2>2. CASE after = "page"
    <3>1. State' = "completed"
      BY <1>5, StatesAre DEF State
    <3>2. CASE s = "completed"
      <4>1. i > 0
        BY <1>2 DEF ErasureTypeOK
      <4> QED BY <1>5, <2>2, <3>1, <3>2, <4>1 DEF Ahead
    <3>3. CASE s # "completed"
      <4>1. PICK n \in 1..6 : n > 1 /\ states[n] = s
        BY <3>3, StatesAre
      <4> QED BY <1>5, <2>2, <4>1, StatesAre DEF Ahead
    <3> QED BY <3>2, <3>3
  <2> QED BY <1>4, <2>1, <2>2 DEF Table
<1> QED BY <1>1, <1>2, <1>6, <1>7, <1>8, <1>9, SweepGoes DEF Table

\* When a state is done with, none of the deal's jobs are ahead in it; what is ahead is in
\* a later one.
LEMMA StateDone ==
  ASSUME ErasureIInv, UNCHANGED <<inState, rows, moves, moved, ran, locked, shifted>>,
         eraser.pc \in {"page", "look"}, eraser' = NextState(eraser),
         \A i \in DOMAIN inState[State] : Ahead(State, i) /\ inState[State][i] \in Found =>
           \E n \in DOMAIN states : n > eraser.at /\ states[n] = State
  PROVE  ErasureIInv'
<1>1. eraser.at \in 1..6 /\ ErasureTypeOK /\ ~ (eraser.pc \in Table) /\ eraser.pc # "failed"
  BY EraserFields DEF ErasureIInv, Table
<1>2. CASE eraser.at = 6
  <2>1. eraser' = [eraser EXCEPT !.pc = "audit", !.full = FALSE]
    BY <1>2, StatesAre DEF NextState
  <2>2. eraser'.pc = "audit"
    BY <1>1, <2>1, EraserFields
  <2>3. ErasureTypeOK' /\ PagesInOrder'
    <3>1. eraser' \in [pc: Table \cup {"page", "look", "audit", "done", "failed"},
                       at: DOMAIN states, start: Nat, page: Seq(Job), full: BOOLEAN]
      BY <1>1, <2>1, EraserFields
    <3> QED BY <1>1, <2>2, <3>1 DEF ErasureTypeOK, PagesInOrder, Table
  <2>4. ASSUME NEW s \in QueueState, NEW i \in DOMAIN inState[s], Ahead(s, i),
               inState[s][i] \in Found
        PROVE  FALSE
    <3>1. ~ \E n \in DOMAIN states : n > eraser.at
      BY <1>2, StatesAre
    <3>2. s = State
      BY <1>1, <2>4, <3>1 DEF Ahead
    <3> QED BY <2>4, <3>1, <3>2
  <2>5. \A t \in Table : RowsAhead(t)' \/ rows'[t] \subseteq ran
    BY <1>1 DEF ErasureIInv, RowsOK, RowsAhead, Table
  <2> QED BY <1>1, <2>3, <2>4, <2>5, SweepGoes
<1>3. CASE eraser.at # 6
  <2>1. eraser' = [eraser EXCEPT !.pc = "page", !.at = @ + 1, !.start = 0, !.full = FALSE]
    BY <1>3, StatesAre DEF NextState
  <2>2. /\ eraser'.pc = "page" /\ eraser'.at = eraser.at + 1 /\ eraser'.start = 0
        /\ ~ eraser'.full /\ eraser'.at \in 1..6
    BY <1>1, <1>3, <2>1, EraserFields
  <2>3. ErasureTypeOK' /\ PagesInOrder'
    <3>1. eraser' \in [pc: Table \cup {"page", "look", "audit", "done", "failed"},
                       at: DOMAIN states, start: Nat, page: Seq(Job), full: BOOLEAN]
      <4>1. eraser.at + 1 \in DOMAIN states
        BY <1>1, <1>3, StatesAre
      <4>2. \A a \in DOMAIN states :
              [eraser EXCEPT !.pc = "page", !.at = a, !.start = 0, !.full = FALSE]
                \in [pc: Table \cup {"page", "look", "audit", "done", "failed"},
                    at: DOMAIN states, start: Nat, page: Seq(Job), full: BOOLEAN]
        BY <1>1, EraserFields
      <4> QED BY <2>1, <4>1, <4>2
    <3> QED BY <1>1, <2>2, <3>1 DEF ErasureTypeOK, PagesInOrder, Table
  <2>4. ASSUME NEW s \in QueueState, NEW i \in DOMAIN inState[s], Ahead(s, i),
               inState[s][i] \in Found
        PROVE  Ahead(s, i)'
    <3>1. PICK n \in 1..6 : n > eraser.at /\ states[n] = s
      BY <1>1, <2>4, StatesAre DEF Ahead
    <3>2. CASE n = eraser.at + 1
      <4>1. State' = s
        BY <2>2, <3>1, <3>2 DEF State
      <4>2. i > 0
        BY <1>1 DEF ErasureTypeOK
      <4> QED BY <2>2, <4>1, <4>2 DEF Ahead
    <3>3. CASE n # eraser.at + 1
      <4>1. n > eraser'.at
        BY <1>1, <2>2, <3>1, <3>3
      <4> QED BY <2>2, <3>1, <4>1, StatesAre DEF Ahead
    <3> QED BY <3>2, <3>3
  <2>5. \A t \in Table : RowsAhead(t)' \/ rows'[t] \subseteq ran
    BY <1>1 DEF ErasureIInv, RowsOK, RowsAhead, Table
  <2> QED BY <1>1, <2>3, <2>4, <2>5, SweepGoes
<1> QED BY <1>2, <1>3

\* What one page has of a list.
LEMMA PageOf ==
  ASSUME NEW S, NEW list \in Seq(S), NEW n \in Nat, NEW last \in Nat, last <= Len(list)
  PROVE  /\ SubSeq(list, n + 1, last) \in Seq(S)
         /\ Len(SubSeq(list, n + 1, last)) = IF n < last THEN last - n ELSE 0
         /\ \A k \in 1..Len(SubSeq(list, n + 1, last)) :
              k \in DOMAIN SubSeq(list, n + 1, last) /\ SubSeq(list, n + 1, last)[k] = list[n + k]
<1> DEFINE from == n + 1
           fetched == SubSeq(list, from, last)
<1>1. from \in Int /\ last \in Int /\ \A i \in from..last : list[i] \in S
  OBVIOUS
<1>2. /\ fetched \in Seq(S)
      /\ Len(fetched) = IF from <= last THEN last - from + 1 ELSE 0
      /\ \A i \in 1..(last - from + 1) : fetched[i] = list[from + i - 1]
  <2> HIDE DEF from
  <2> QED BY <1>1, SubSeqProperties
<1> HIDE DEF fetched
<1>3. Len(fetched) = IF n < last THEN last - n ELSE 0
  BY <1>2
<1>4. DOMAIN fetched = 1..Len(fetched)
  BY <1>2
<1>5. ASSUME NEW k \in 1..Len(fetched) PROVE k \in DOMAIN fetched /\ fetched[k] = list[n + k]
  <2>1. k \in 1..(last - from + 1) /\ from + k - 1 = n + k
    BY <1>3
  <2> QED BY <1>2, <1>4, <2>1
<1>6. fetched \in Seq(S)
  BY <1>2
<1> QED BY <1>3, <1>5, <1>6 DEF fetched

LEMMA FetchPageKeeps == ErasureIInv /\ FetchPage => ErasureIInv'
<1> SUFFICES ASSUME ErasureIInv, FetchPage PROVE ErasureIInv'
  OBVIOUS
<1> DEFINE list == inState[State]
<1>0. PICK upTo, last :
        /\ upTo = eraser.start + PAGE
        /\ last = IF upTo < Len(list) THEN upTo ELSE Len(list)
  OBVIOUS
<1>8. PICK fetched : fetched = SubSeq(list, eraser.start + 1, last)
  OBVIOUS
<1>1. /\ UNCHANGED <<inState, rows, moves, moved, ran, locked, shifted>>
      /\ eraser.pc = "page"
      /\ eraser' = IF fetched = <<>> THEN NextState(eraser)
                   ELSE [eraser EXCEPT !.pc = "look", !.page = fetched, !.full = Len(fetched) = PAGE]
  BY <1>0, <1>8 DEF FetchPage
<1>2. /\ ErasureTypeOK /\ list \in Seq(Job) /\ eraser.start \in Nat /\ eraser.at \in 1..6
      /\ PAGE \in Nat \ {0} /\ State \in QueueState
      /\ Len(list) \in Nat
  BY EraserFields DEF ErasureIInv
<1> HIDE DEF list
<1>7. \A i \in DOMAIN list : i \in 1..Len(list)
  BY <1>2
<1>3. last \in Nat /\ last <= Len(list) /\ last <= upTo /\ (last = upTo \/ last = Len(list))
      /\ upTo = eraser.start + PAGE
  BY <1>0, <1>2
<1>4. /\ fetched \in Seq(Job)
      /\ Len(fetched) = IF eraser.start < last THEN last - eraser.start ELSE 0
      /\ \A k \in 1..Len(fetched) : k \in DOMAIN fetched /\ fetched[k] = list[eraser.start + k]
  <2> DEFINE from == eraser.start
  <2>1. from \in Nat /\ last \in Nat /\ last <= Len(list) /\ list \in Seq(Job)
        /\ fetched = SubSeq(list, from + 1, last)
    BY <1>2, <1>3, <1>8
  <2> HIDE DEF from
  <2>2. /\ fetched \in Seq(Job)
        /\ Len(fetched) = IF from < last THEN last - from ELSE 0
        /\ \A k \in 1..Len(fetched) : k \in DOMAIN fetched /\ fetched[k] = list[from + k]
    BY <2>1, PageOf, Zenon
  <2> QED BY <2>2 DEF from
<1>5. CASE fetched = <<>>
  <2>1. ~ (eraser.start < last)
    <3>1. Len(fetched) = 0
      BY <1>5
    <3> QED BY <1>2, <1>3, <1>4, <3>1
  <2>2. \A i \in DOMAIN list : ~ (i > eraser.start)
    BY <1>2, <1>3, <1>7, <2>1
  <2>3. \A i \in DOMAIN list : Ahead(State, i) =>
          \E n \in DOMAIN states : n > eraser.at /\ states[n] = State
    BY <1>1, <2>2 DEF Ahead, Table
  <2> QED BY <1>1, <1>5, <2>3, StateDone DEF list
<1>6. CASE fetched # <<>>
  <2>1. eraser' = [eraser EXCEPT !.pc = "look", !.page = fetched, !.full = Len(fetched) = PAGE]
    BY <1>1, <1>6
  <2>2. /\ eraser'.pc = "look" /\ eraser'.page = fetched /\ (eraser'.full <=> Len(fetched) = PAGE)
        /\ eraser'.at = eraser.at /\ eraser'.start = eraser.start
    BY <1>2, <2>1, EraserFields
  <2>3. ErasureTypeOK' /\ PagesInOrder'
    <3>1. eraser' \in [pc: Table \cup {"page", "look", "audit", "done", "failed"},
                       at: DOMAIN states, start: Nat, page: Seq(Job), full: BOOLEAN]
      BY <1>2, <1>4, <2>1, EraserFields
    <3> QED BY <1>1, <1>2, <2>2, <3>1 DEF ErasureTypeOK, PagesInOrder, Table
  <2>4. State' = State
    BY <2>2 DEF State
  <2>5. ASSUME NEW s \in QueueState, NEW i \in DOMAIN inState[s], Ahead(s, i) PROVE Ahead(s, i)'
    <3>1. CASE \E n \in DOMAIN states : n > eraser.at /\ states[n] = s
      BY <2>2, <3>1 DEF Ahead
    <3>2. CASE s = State /\ i > eraser.start
      <4>1. i \in 1..Len(list) /\ eraser.start < i
        BY <1>2, <1>7, <3>2 DEF list
      <4>2. CASE i <= last
        <5>1. i - eraser.start \in 1..Len(fetched) /\ eraser.start + (i - eraser.start) = i
          <6>1. eraser.start < last /\ Len(fetched) = last - eraser.start
            BY <1>2, <1>3, <1>4, <4>1, <4>2
          <6> QED BY <1>2, <1>3, <4>1, <4>2, <6>1
        <5>2. fetched[i - eraser.start] = list[i]
          BY <1>4, <5>1
        <5>3. InPage(inState[s][i])'
          BY <1>1, <1>4, <2>2, <3>2, <5>1, <5>2 DEF InPage, list
        <5> QED BY <2>2, <2>4, <3>2, <5>3, <1>1 DEF Ahead
      <4>3. CASE ~ (i <= last)
        <5>1. last = upTo /\ i > eraser.start + PAGE
          BY <1>2, <1>3, <4>1, <4>3
        <5>2. Len(fetched) = PAGE
          BY <1>2, <1>3, <1>4, <5>1
        <5> QED BY <2>2, <2>4, <3>2, <5>1, <5>2 DEF Ahead
      <4> QED BY <4>2, <4>3
    <3> QED BY <1>1, <2>5, <3>1, <3>2 DEF Ahead, Table
  <2>6. \A t \in Table : RowsAhead(t)' \/ rows'[t] \subseteq ran
    BY <1>1 DEF ErasureIInv, RowsOK, RowsAhead, Table
  <2> QED BY <1>1, <2>3, <2>5, <2>6, SweepGoes
<1> QED BY <1>5, <1>6

LEMMA PageDoneKeeps == ErasureIInv /\ PageDone => ErasureIInv'
<1> SUFFICES ASSUME ErasureIInv, PageDone PROVE ErasureIInv'
  OBVIOUS
<1>1. /\ UNCHANGED <<inState, rows, moves, moved, ran, locked, shifted>>
      /\ eraser.pc = "look" /\ eraser.page = <<>>
      /\ eraser' = IF eraser.full THEN [eraser EXCEPT !.pc = "page", !.start = @ + PAGE]
                   ELSE NextState(eraser)
  BY DEF PageDone
<1>2. /\ ErasureTypeOK /\ eraser.start \in Nat /\ PAGE \in Nat \ {0}
      /\ \A j : ~ InPage(j)
  BY <1>1, EraserFields DEF ErasureIInv, InPage
<1>3. CASE eraser.full
  <2>1. eraser' = [eraser EXCEPT !.pc = "page", !.start = @ + PAGE]
    BY <1>1, <1>3
  <2>2. /\ eraser'.pc = "page" /\ eraser'.start = eraser.start + PAGE /\ eraser'.full
        /\ eraser'.at = eraser.at
    BY <1>2, <1>3, <2>1, EraserFields
  <2>3. ErasureTypeOK' /\ PagesInOrder'
    <3>1. eraser' \in [pc: Table \cup {"page", "look", "audit", "done", "failed"},
                       at: DOMAIN states, start: Nat, page: Seq(Job), full: BOOLEAN]
      <4>1. eraser.start + PAGE \in Nat
        BY <1>2
      <4> QED BY <1>2, <2>1, <4>1, EraserFields
    <3> QED BY <1>1, <1>2, <2>2, <3>1 DEF ErasureTypeOK, PagesInOrder, Table
  <2>4. State' = State
    BY <2>2 DEF State
  <2>5. \A s \in QueueState : \A i \in DOMAIN inState[s] : Ahead(s, i) => Ahead(s, i)'
    BY <1>1, <1>2, <2>2, <2>4 DEF Ahead, Table
  <2>6. \A t \in Table : RowsAhead(t)' \/ rows'[t] \subseteq ran
    BY <1>1 DEF ErasureIInv, RowsOK, RowsAhead, Table
  <2> QED BY <1>1, <2>3, <2>5, <2>6, SweepGoes
<1>4. CASE ~ eraser.full
  <2>1. \A i \in DOMAIN inState[State] : Ahead(State, i) =>
          \E n \in DOMAIN states : n > eraser.at /\ states[n] = State
    BY <1>1, <1>2, <1>4 DEF Ahead, Table
  <2> QED BY <1>1, <1>4, <2>1, StateDone
<1> QED BY <1>3, <1>4

LEMMA EndKeeps == ErasureIInv /\ (AuditErasure \/ EraseFails) => ErasureIInv'
<1> SUFFICES ASSUME ErasureIInv, AuditErasure \/ EraseFails PROVE ErasureIInv'
  OBVIOUS
<1>1. /\ UNCHANGED <<inState, rows, moves, moved, ran, locked, shifted>>
      /\ \/ eraser.pc = "audit" /\ eraser' = [eraser EXCEPT !.pc = "done"]
         \/ eraser' = [eraser EXCEPT !.pc = "failed", !.page = <<>>]
  BY DEF AuditErasure, EraseFails
<1>2. /\ ErasureTypeOK
      /\ \/ eraser.pc = "audit" /\ eraser'.pc = "done"
         \/ eraser'.pc = "failed"
  BY <1>1, EraserFields DEF ErasureIInv
<1>3. ErasureTypeOK' /\ PagesInOrder'
  <2>1. eraser' \in [pc: Table \cup {"page", "look", "audit", "done", "failed"},
                     at: DOMAIN states, start: Nat, page: Seq(Job), full: BOOLEAN]
    <3>1. <<>> \in Seq(Job)
      OBVIOUS
    <3>2. CASE eraser' = [eraser EXCEPT !.pc = "done"]
      BY <1>2, <3>2, EraserFields
    <3>3. CASE eraser' = [eraser EXCEPT !.pc = "failed", !.page = <<>>]
      BY <1>2, <3>1, <3>3, EraserFields
    <3> QED BY <1>1, <3>2, <3>3
  <2> QED BY <1>1, <1>2, <2>1 DEF ErasureTypeOK, PagesInOrder, Table
<1>4. \A t \in Table : RowsAhead(t)' \/ rows'[t] \subseteq ran
  BY <1>1, <1>2 DEF ErasureIInv, RowsOK, RowsAhead, Table
<1>5. eraser'.pc # "failed" =>
        eraser.pc # "failed" /\ \A s \in QueueState : \A i \in DOMAIN inState[s] : ~ Ahead(s, i)
  BY <1>2 DEF Ahead, Table
<1> QED BY <1>1, <1>3, <1>4, <1>5, SweepGoes

-----------------------------------------------------------------------------
(* Jobs move. *)

\* The jobs of a state are those it had but j, no older end passed over without a reason,
\* behind j where it comes to.
Rearranged(j, to) ==
  \A s \in QueueState : \A i \in DOMAIN inState'[s] :
    \/ s = to /\ i = 1 /\ inState'[s][i] = j
    \/ /\ inState'[s][i] # j
       /\ \E k \in DOMAIN inState[s] :
            /\ inState[s][k] = inState'[s][i]
            /\ k <= i \/ (s = State /\ eraser.full => s \in shifted')

\* j comes to the newest end of to, from another state or from outside.
Put(j, from, to) ==
  \A s \in QueueState :
    inState'[s] = IF s = to THEN <<j>> \o inState[to]
                  ELSE IF s = from THEN Without(from, j) ELSE inState[s]

\* When one job leaves where it was, and perhaps comes to the newest end of a state, the
\* others keep their order, and none is passed over without a reason: those of a state
\* that goes through a full page are, and so is one that came under the sweep.
LEMMA QueueKeeps ==
  ASSUME ErasureIInv, inState' \in [QueueState -> Seq(Job)], NEW j, NEW to,
         Rearranged(j, to),
         \A s \in QueueState : \A i, k \in DOMAIN inState'[s] :
           inState'[s][i] = inState'[s][k] => i = k,
         eraser'.pc = eraser.pc, eraser'.at = eraser.at, eraser'.start = eraser.start,
         eraser'.full = eraser.full,
         \A x : x # j /\ InPage(x) => InPage(x)',
         moved \subseteq moved', locked \subseteq locked', shifted \subseteq shifted',
         j \in moved' \/ to \notin QueueState \/ eraser.pc \in Table
  PROVE  Once' /\ PagesInOrder' /\ SweepOK'
<1>1. State' = State /\ PagesInOrder'
  BY DEF State, ErasureIInv, PagesInOrder
<1>2. Once'
  <2> SUFFICES ASSUME NEW s \in QueueState, NEW t \in QueueState,
                      NEW i \in DOMAIN inState'[s], NEW k \in DOMAIN inState'[t],
                      inState'[s][i] = inState'[t][k]
               PROVE  s = t /\ i = k
    BY DEF Once
  <2>1. s = t
    <3>1. CASE inState'[s][i] = j
      BY <3>1 DEF Rearranged
    <3>2. CASE inState'[s][i] # j
      <4>1. PICK m \in DOMAIN inState[s] : inState[s][m] = inState'[s][i]
        BY <3>2 DEF Rearranged
      <4>2. PICK n \in DOMAIN inState[t] : inState[t][n] = inState'[t][k]
        BY <3>2 DEF Rearranged
      <4> QED BY <4>1, <4>2 DEF ErasureIInv, Once
    <3> QED BY <3>1, <3>2
  <2> QED BY <2>1
<1>3. SweepOK'
  <2> SUFFICES ASSUME eraser'.pc # "failed", NEW s \in QueueState, NEW i \in DOMAIN inState'[s],
                      (inState[s][i] \in Found)'
               PROVE  Ahead(s, i)' \/ Excused(s, inState[s][i])'
    BY DEF SweepOK
  <2>0. PICK x : x = inState'[s][i]
    OBVIOUS
  <2>1. CASE s = to /\ i = 1 /\ x = j
    BY <2>0, <2>1 DEF Ahead, Excused
  <2>2. CASE ~ (s = to /\ i = 1 /\ x = j)
    <3>1. PICK k \in DOMAIN inState[s] :
            /\ inState[s][k] = x
            /\ k <= i \/ (s = State /\ eraser.full => s \in shifted')
      BY <2>0, <2>2 DEF Rearranged
    <3>2. x # j
      BY <2>0, <2>2 DEF Rearranged
    <3>3. Ahead(s, k) \/ Excused(s, x)
      <4>1. inState[s][k] \in Found
        BY <2>0, <3>1 DEF Found
      <4> QED BY <3>1, <4>1 DEF ErasureIInv, SweepOK
    <3>4. /\ eraser.start \in Nat /\ PAGE \in Nat /\ i \in Nat \ {0} /\ k \in Nat
      <4>1. eraser.start \in Nat /\ PAGE \in Nat
        BY EraserFields DEF ErasureIInv
      <4>2. inState[s] \in Seq(Job) /\ inState'[s] \in Seq(Job)
        BY DEF ErasureIInv, ErasureTypeOK
      <4>3. i \in Nat \ {0} /\ k \in Nat
        BY <4>2
      <4> QED BY <4>1, <4>3
    <3>5. CASE Excused(s, x)
      BY <2>0, <3>5 DEF Excused
    <3>6. CASE Ahead(s, k)
      <4>1. CASE \/ eraser.pc \in Table
                 \/ eraser.pc \in {"page", "look"} /\ \E n \in DOMAIN states : n > eraser.at /\ states[n] = s
        BY <4>1 DEF Ahead
      <4>2. CASE eraser.pc = "page" /\ s = State /\ k > eraser.start
        <5>1. CASE k <= i \/ ~ eraser.full
          <6>1. i > eraser.start
            BY <3>4, <4>2, <5>1 DEF ErasureIInv, PagesInOrder
          <6> QED BY <1>1, <4>2, <6>1 DEF Ahead
        <5>2. CASE ~ (k <= i) /\ eraser.full
          BY <2>0, <3>1, <4>2, <5>2 DEF Excused
        <5> QED BY <5>1, <5>2
      <4>3. CASE eraser.pc = "look" /\ s = State /\ InPage(x)
        <5>1. InPage(x)'
          BY <3>2, <4>3
        <5>2. InPage(inState[s][i])'
          BY <2>0, <5>1 DEF InPage
        <5> QED BY <1>1, <4>3, <5>2 DEF Ahead
      <4>4. CASE eraser.pc = "look" /\ s = State /\ eraser.full /\ k > eraser.start + PAGE
        <5>1. CASE k <= i
          <6>1. i > eraser.start + PAGE
            BY <3>4, <4>4, <5>1
          <6> QED BY <1>1, <4>4, <6>1 DEF Ahead
        <5>2. CASE ~ (k <= i)
          BY <2>0, <3>1, <4>4, <5>2 DEF Excused
        <5> QED BY <5>1, <5>2
      <4> QED BY <3>1, <3>6, <4>1, <4>2, <4>3, <4>4 DEF Ahead
    <3> QED BY <3>3, <3>5, <3>6
  <2> QED BY <2>1, <2>2
<1> QED BY <1>1, <1>2, <1>3

\* A page without its first job.
LEMMA PageGoesOn ==
  ASSUME ErasureTypeOK, eraser.page # <<>>, eraser' = [eraser EXCEPT !.page = Tail(@)]
  PROVE  /\ eraser' \in [pc: Table \cup {"page", "look", "audit", "done", "failed"},
                         at: DOMAIN states, start: Nat, page: Seq(Job), full: BOOLEAN]
         /\ eraser'.pc = eraser.pc /\ eraser'.at = eraser.at /\ eraser'.start = eraser.start
         /\ eraser'.full = eraser.full
         /\ Head(eraser.page) \in Job
         /\ \A x : x # Head(eraser.page) /\ InPage(x) => InPage(x)'
<1> DEFINE fetched == eraser.page
<1>1. fetched \in Seq(Job) /\ fetched # <<>>
  BY EraserFields
<1>2. /\ Head(fetched) \in Job /\ Tail(fetched) \in Seq(Job) /\ Head(fetched) = fetched[1]
      /\ Len(Tail(fetched)) = Len(fetched) - 1 /\ Len(fetched) \in Nat
      /\ \A i \in 1..Len(Tail(fetched)) : Tail(fetched)[i] = fetched[i + 1]
  <2> HIDE DEF fetched
  <2> QED BY <1>1, HeadTailProperties
<1>3. /\ eraser' \in [pc: Table \cup {"page", "look", "audit", "done", "failed"},
                      at: DOMAIN states, start: Nat, page: Seq(Job), full: BOOLEAN]
      /\ eraser'.pc = eraser.pc /\ eraser'.at = eraser.at /\ eraser'.start = eraser.start
      /\ eraser'.full = eraser.full /\ eraser'.page = Tail(fetched)
  BY <1>2, EraserFields
<1>4. ASSUME NEW x, x # Head(fetched), InPage(x) PROVE InPage(x)'
  <2>1. PICK k \in DOMAIN fetched : fetched[k] = x
    BY <1>4 DEF InPage
  <2> HIDE DEF fetched
  <2>2. k \in 1..Len(fetched) /\ k # 1
    BY <1>1, <1>2, <1>4, <2>1
  <2>3. k - 1 \in 1..Len(Tail(fetched)) /\ (k - 1) + 1 = k
    <3>1. Len(Tail(fetched)) = Len(fetched) - 1 /\ Len(fetched) \in Nat
      BY <1>2
    <3> QED BY <2>2, <3>1
  <2>4. k - 1 \in DOMAIN Tail(fetched) /\ Tail(fetched)[k - 1] = x
    BY <1>2, <2>1, <2>3
  <2> QED BY <1>3, <2>4 DEF InPage
<1> QED BY <1>2, <1>3, <1>4

\* A job is removed, as the sweep's own or by an admin.
LEMMA RemovalTyped ==
  ASSUME ErasureIInv, NEW j, Remove(j)
  PROVE  /\ inState' \in [QueueState -> Seq(Job)] /\ shifted' \subseteq QueueState
         /\ \A s \in QueueState :
              /\ inState'[s] = Without(s, j)
              /\ ~ Holds(s, j) => inState'[s] = inState[s]
              /\ \A i \in DOMAIN inState'[s] :
                   /\ inState'[s][i] # j
                   /\ \E k \in DOMAIN inState[s] : k >= i /\ inState[s][k] = inState'[s][i]
              /\ \A i, k \in DOMAIN inState'[s] : inState'[s][i] = inState'[s][k] => i = k
<1>1. ErasureTypeOK /\ Once /\ State \in QueueState
  BY EraserFields DEF ErasureIInv
<1>2. \A s \in QueueState : inState'[s] = Without(s, j)
  BY DEF Remove
<1>3. inState' \in [QueueState -> Seq(Job)]
  BY <1>1, WithoutJob DEF Remove
<1>4. shifted' \subseteq QueueState
  BY <1>1 DEF Remove, ErasureTypeOK
<1> QED BY <1>1, <1>2, <1>3, <1>4, WithoutJob

LEMMA RemovalKeeps ==
  ASSUME ErasureIInv, NEW j, Remove(j), UNCHANGED <<rows, moved, ran>>,
         locked \subseteq locked',
         eraser'.pc = eraser.pc, eraser'.at = eraser.at, eraser'.start = eraser.start,
         eraser'.full = eraser.full,
         \A x : x # j /\ InPage(x) => InPage(x)'
  PROVE  Once' /\ PagesInOrder' /\ SweepOK' /\ RowsOK'
<1>1. /\ ErasureTypeOK /\ State \in QueueState
      /\ shifted' = IF Holds(State, j) /\ eraser.full THEN shifted \cup {State} ELSE shifted
  BY EraserFields DEF ErasureIInv, Remove
<1>2. /\ inState' \in [QueueState -> Seq(Job)]
      /\ \A s \in QueueState :
           /\ ~ Holds(s, j) => inState'[s] = inState[s]
           /\ \A i \in DOMAIN inState'[s] :
                /\ inState'[s][i] # j
                /\ \E k \in DOMAIN inState[s] : k >= i /\ inState[s][k] = inState'[s][i]
           /\ \A i, k \in DOMAIN inState'[s] : inState'[s][i] = inState'[s][k] => i = k
  BY RemovalTyped
<1>3. Rearranged(j, "none")
  <2> SUFFICES ASSUME NEW s \in QueueState, NEW i \in DOMAIN inState'[s]
               PROVE  /\ inState'[s][i] # j
                      /\ \E k \in DOMAIN inState[s] :
                           /\ inState[s][k] = inState'[s][i]
                           /\ k <= i \/ (s = State /\ eraser.full => s \in shifted')
    BY DEF Rearranged
  <2>1. CASE Holds(s, j)
    BY <1>1, <1>2, <2>1
  <2>2. CASE ~ Holds(s, j)
    <3>1. inState'[s] = inState[s] /\ inState[s] \in Seq(Job)
      BY <1>1, <1>2, <2>2 DEF ErasureTypeOK
    <3>2. i \in DOMAIN inState[s] /\ i <= i
      BY <3>1
    <3> QED BY <1>2, <3>1, <3>2
  <2> QED BY <2>1, <2>2
<1>4. Once' /\ PagesInOrder' /\ SweepOK'
  <2>1. "none" \notin QueueState /\ moved \subseteq moved' /\ shifted \subseteq shifted'
    BY <1>1, StatesAre
  <2> QED BY <1>2, <1>3, <2>1, QueueKeeps
<1>5. RowsOK'
  <2>1. \A x : Holds("active", x)' => Holds("active", x)
    BY <1>2, StatesAre DEF Holds
  <2>2. \A t \in Table : RowsAhead(t)' <=> RowsAhead(t)
    BY DEF RowsAhead
  <2> QED BY <2>1, <2>2 DEF ErasureIInv, RowsOK
<1> QED BY <1>4, <1>5

LEMMA LookKeeps == ErasureIInv /\ Look => ErasureIInv'
<1> SUFFICES ASSUME ErasureIInv, Look PROVE ErasureIInv'
  OBVIOUS
<1> DEFINE j == Head(eraser.page)
<1>1. /\ UNCHANGED <<rows, moves, moved, ran>>
      /\ eraser.pc = "look" /\ eraser' = [eraser EXCEPT !.page = Tail(@)]
      /\ \/ /\ j \notin Found /\ UNCHANGED <<inState, locked, shifted>>
         \/ /\ j \in Found /\ Holds("active", j)
            /\ locked' = locked \cup {j} /\ UNCHANGED <<inState, shifted>>
         \/ Remove(j) /\ locked' = locked
  BY DEF Look, Matches, Found
<1>2. /\ ErasureTypeOK /\ eraser.page # <<>> /\ State \in QueueState
      /\ eraser' \in [pc: Table \cup {"page", "look", "audit", "done", "failed"},
                      at: DOMAIN states, start: Nat, page: Seq(Job), full: BOOLEAN]
      /\ eraser'.pc = eraser.pc /\ eraser'.at = eraser.at /\ eraser'.start = eraser.start
      /\ eraser'.full = eraser.full
      /\ \A x : x # j /\ InPage(x) => InPage(x)'
  BY <1>1, PageGoesOn, EraserFields DEF ErasureIInv, Look
<1> HIDE DEF j
<1>3. \A t \in Table : RowsAhead(t)' \/ rows'[t] \subseteq ran
  BY <1>1, <1>2 DEF ErasureIInv, RowsOK, RowsAhead
<1>4. CASE \/ j \notin Found /\ UNCHANGED <<inState, locked, shifted>>
           \/ j \in Found /\ locked' = locked \cup {j} /\ UNCHANGED <<inState, shifted>>
  <2>1. ErasureTypeOK' /\ PagesInOrder'
    BY <1>1, <1>2, <1>4 DEF ErasureTypeOK, ErasureIInv, PagesInOrder, Found, DealJob
  <2>2. ASSUME NEW s \in QueueState, NEW i \in DOMAIN inState[s], Ahead(s, i),
               inState[s][i] \in Found
        PROVE  Ahead(s, i)' \/ inState[s][i] \in locked'
    <3>1. State' = State
      BY <1>2 DEF State
    <3>2. CASE inState[s][i] = j
      BY <1>4, <2>2, <3>2
    <3>3. CASE inState[s][i] # j
      <4>1. InPage(inState[s][i]) => InPage(inState[s][i])'
        <5>1. PICK x : x = inState[s][i]
          OBVIOUS
        <5>2. InPage(x) => InPage(x)'
          BY <1>2, <3>3, <5>1
        <5> QED BY <1>4, <5>1, <5>2 DEF InPage
      <4> QED BY <1>2, <2>2, <3>1, <4>1 DEF Ahead
    <3> QED BY <3>2, <3>3
  <2> QED BY <1>1, <1>2, <1>3, <1>4, <2>1, <2>2, SweepGoes
<1>5. CASE Remove(j) /\ locked' = locked
  <2>1. Once' /\ PagesInOrder' /\ SweepOK' /\ RowsOK'
    BY <1>1, <1>2, <1>5, RemovalKeeps
  <2>2. inState' \in [QueueState -> Seq(Job)] /\ shifted' \subseteq QueueState
    BY <1>2, <1>5, RemovalTyped DEF ErasureIInv
  <2>3. ErasureTypeOK'
    BY <1>1, <1>2, <1>5, <2>2 DEF ErasureTypeOK
  <2> QED BY <2>1, <2>3 DEF ErasureIInv
<1> QED BY <1>1, <1>4, <1>5

LEMMA DiscardKeeps ==
  ASSUME ErasureIInv, NEW j, Discard(j)
  PROVE  ErasureIInv'
<1>1. Remove(j) /\ Meanwhile /\ UNCHANGED <<rows, eraser, moved, ran, locked>> /\ ErasureTypeOK
  BY DEF Discard, ErasureIInv
<1>2. Once' /\ PagesInOrder' /\ SweepOK' /\ RowsOK'
  BY <1>1, RemovalKeeps DEF InPage
<1>3. inState' \in [QueueState -> Seq(Job)] /\ shifted' \subseteq QueueState
  BY <1>1, RemovalTyped
<1>4. moves' \in 0..MaxMoves
  BY <1>1, ErasureAssumption DEF ErasureTypeOK, Meanwhile
<1>5. ErasureTypeOK'
  BY <1>1, <1>3, <1>4 DEF ErasureTypeOK
<1> QED BY <1>2, <1>5 DEF ErasureIInv

\* A job of the deal or another comes to the newest end of a state, from another or from
\* outside.
LEMMA ArrivalKeeps ==
  ASSUME ErasureIInv, NEW j \in Job, NEW from, NEW to \in QueueState, from # to,
         \A s \in QueueState : s # from => ~ Holds(s, j),
         Put(j, from, to),
         inState' \in [QueueState -> Seq(Job)],
         UNCHANGED <<eraser, locked>>, moved \subseteq moved', shifted \subseteq shifted',
         j \in moved' \/ eraser.pc \in Table,
         from = State /\ eraser.full => from \in shifted'
  PROVE  Once' /\ PagesInOrder' /\ SweepOK'
<1>1. ErasureTypeOK /\ Once
  BY DEF ErasureIInv
<1>2. ASSUME NEW s \in QueueState
      PROVE  /\ \A i \in DOMAIN inState'[s] :
                  \/ s = to /\ i = 1 /\ inState'[s][i] = j
                  \/ /\ inState'[s][i] # j
                     /\ \E k \in DOMAIN inState[s] :
                          inState[s][k] = inState'[s][i] /\ (k <= i \/ s = from)
             /\ \A i, k \in DOMAIN inState'[s] : inState'[s][i] = inState'[s][k] => i = k
  <2>1. inState[s] \in Seq(Job) /\ \A i, k \in DOMAIN inState[s] : inState[s][i] = inState[s][k] => i = k
    BY <1>1 DEF ErasureTypeOK, Once
  <2>2. CASE s = to
    <3> DEFINE list == inState[s]
               next == <<j>> \o list
    <3>1. inState'[s] = next
      BY <2>2 DEF Put
    <3>2. /\ DOMAIN next = 1..(Len(list) + 1) /\ Len(list) \in Nat /\ next[1] = j
          /\ \A i \in 2..(Len(list) + 1) : i - 1 \in DOMAIN list /\ next[i] = list[i - 1]
      BY <2>1, InFront
    <3>3. \A k \in DOMAIN list : list[k] # j
      BY <2>2 DEF Holds
    <3>4. ASSUME NEW i \in DOMAIN next
          PROVE  \/ i = 1 /\ next[i] = j
                 \/ /\ i # 1 /\ next[i] # j /\ i - 1 \in DOMAIN list
                    /\ list[i - 1] = next[i] /\ i - 1 <= i /\ i \in Nat
      <4> HIDE DEF next, list
      <4>1. i = 1 \/ i \in 2..(Len(list) + 1)
        BY <3>2
      <4>2. i - 1 <= i /\ i \in Nat
        BY <3>2
      <4> QED BY <3>2, <3>3, <4>1, <4>2
    <3>5. \A i, k \in DOMAIN list : list[i] = list[k] => i = k
      BY <2>1
    <3> HIDE DEF next, list
    <3>6. ASSUME NEW i \in DOMAIN next, NEW k \in DOMAIN next, next[i] = next[k]
          PROVE  i = k
      <4>1. CASE i = 1 \/ k = 1
        BY <3>4, <3>6, <4>1
      <4>2. CASE i # 1 /\ k # 1
        <5>1. i - 1 = k - 1 /\ i \in Nat /\ k \in Nat
          BY <3>4, <3>5, <3>6, <4>2
        <5> QED BY <5>1
      <4> QED BY <4>1, <4>2
    <3> QED BY <2>2, <3>1, <3>4, <3>6 DEF list
  <2>3. CASE s = from
    <3>1. inState'[s] = Without(s, j)
      BY <2>3 DEF Put
    <3>2. /\ \A i \in DOMAIN Without(s, j) :
               /\ Without(s, j)[i] # j
               /\ \E k \in DOMAIN inState[s] : k >= i /\ Without(s, j)[i] = inState[s][k]
          /\ \A i, k \in DOMAIN Without(s, j) : Without(s, j)[i] = Without(s, j)[k] => i = k
      BY <1>1, WithoutJob
    <3> HIDE DEF Without
    <3> QED BY <2>3, <3>1, <3>2
  <2>4. CASE s # from /\ s # to
    <3>1. inState'[s] = inState[s]
      BY <2>4 DEF Put
    <3>2. \A i \in DOMAIN inState[s] : inState[s][i] # j /\ i <= i
      BY <2>1, <2>4 DEF Holds
    <3> QED BY <2>1, <3>1, <3>2
  <2> QED BY <2>2, <2>3, <2>4
<1>3. \A x : x # j /\ InPage(x) => InPage(x)'
  BY DEF InPage
<1>4. Rearranged(j, to)
  <2> SUFFICES ASSUME NEW s \in QueueState, NEW i \in DOMAIN inState'[s],
                      ~ (s = to /\ i = 1 /\ inState'[s][i] = j)
               PROVE  /\ inState'[s][i] # j
                      /\ \E k \in DOMAIN inState[s] :
                           /\ inState[s][k] = inState'[s][i]
                           /\ k <= i \/ (s = State /\ eraser.full => s \in shifted')
    BY DEF Rearranged
  <2>1. /\ inState'[s][i] # j
        /\ \E k \in DOMAIN inState[s] :
             inState[s][k] = inState'[s][i] /\ (k <= i \/ s = from)
    BY <1>2
  <2> QED BY <2>1
<1>5. \A s \in QueueState : \A i, k \in DOMAIN inState'[s] :
        inState'[s][i] = inState'[s][k] => i = k
  BY <1>2
<1>6. /\ eraser'.pc = eraser.pc /\ eraser'.at = eraser.at /\ eraser'.start = eraser.start
      /\ eraser'.full = eraser.full /\ locked \subseteq locked'
      /\ j \in moved' \/ to \notin QueueState \/ eraser.pc \in Table
  OBVIOUS
<1> QED BY <1>3, <1>4, <1>5, <1>6, QueueKeeps

LEMMA MoveKeepsErasure ==
  ASSUME ErasureIInv, NEW j \in Job, NEW from, NEW to, Move(j, from, to)
  PROVE  ErasureIInv'
<1>1. /\ Meanwhile /\ from \in QueueState /\ to \in QueueState /\ from # to
      /\ Holds(from, j) /\ UNCHANGED <<rows, eraser, locked>>
      /\ inState' = [inState EXCEPT ![from] = Without(from, j), ![to] = <<j>> \o @]
      /\ moved' = IF Sweeping THEN moved \cup {j} ELSE moved
      /\ shifted' = IF from = State /\ eraser.full THEN shifted \cup {from} ELSE shifted
      /\ ran' = IF to = "active" THEN ran \cup {j} ELSE ran
  <2>1. from \in QueueState /\ to \in QueueState /\ from # to
    BY StatesAre DEF Move, Transition
  <2> QED BY <2>1 DEF Move
<1>2. /\ ErasureTypeOK /\ Once /\ inState[to] \in Seq(Job) /\ <<j>> \o inState[to] \in Seq(Job)
      /\ Without(from, j) \in Seq(Job)
  BY <1>1, WithoutJob DEF ErasureIInv, ErasureTypeOK
<1>3. \A s \in QueueState : s # from => ~ Holds(s, j)
  BY <1>1, <1>2 DEF Holds, Once
<1>4. inState' \in [QueueState -> Seq(Job)]
  BY <1>1, <1>2 DEF ErasureTypeOK
<1>5. Put(j, from, to)
  BY <1>1, <1>2 DEF ErasureTypeOK, Put
<1>6. j \in moved' \/ eraser.pc \in Table
  BY <1>1, <1>2 DEF Sweeping, Meanwhile, ErasureTypeOK
<1>7. Once' /\ PagesInOrder' /\ SweepOK'
  <2>1. /\ moved \subseteq moved' /\ shifted \subseteq shifted' /\ UNCHANGED <<eraser, locked>>
        /\ from = State /\ eraser.full => from \in shifted'
    BY <1>1
  <2>2. to \in QueueState /\ from # to
    BY <1>1
  <2> QED BY <1>3, <1>4, <1>5, <1>6, <2>1, <2>2, ArrivalKeeps
<1>8. ErasureTypeOK'
  <2>1. moves' \in 0..MaxMoves
    BY <1>1, ErasureAssumption DEF ErasureIInv, ErasureTypeOK, Meanwhile
  <2>2. moved' \subseteq Job /\ ran' \subseteq Job /\ shifted' \subseteq QueueState
    BY <1>1, <1>2 DEF ErasureTypeOK
  <2> QED BY <1>1, <1>2, <1>4, <2>1, <2>2 DEF ErasureTypeOK
<1>9. RowsOK'
  <2>1. ASSUME NEW x, Holds("active", x)' PROVE x \in ran'
    <3>1. CASE to = "active" /\ x = j
      BY <1>1, <3>1
    <3>2. CASE ~ (to = "active" /\ x = j)
      <4>1. Holds("active", x)
        <5>1. PICK i \in DOMAIN inState'["active"] : inState'["active"][i] = x
          BY <2>1 DEF Holds
        <5>2. CASE to = "active"
          <6>1. inState'["active"] = <<j>> \o inState["active"]
            BY <1>1, <1>5, <5>2 DEF Put
          <6>2. i # 1 /\ i - 1 \in DOMAIN inState["active"] /\ inState["active"][i - 1] = x
            <7> DEFINE list == inState["active"]
            <7>1. list \in Seq(Job)
              BY <1>2, <5>2
            <7>2. /\ DOMAIN (<<j>> \o list) = 1..(Len(list) + 1) /\ Len(list) \in Nat
                  /\ (<<j>> \o list)[1] = j
                  /\ \A m \in 2..(Len(list) + 1) :
                       m - 1 \in DOMAIN list /\ (<<j>> \o list)[m] = list[m - 1]
              BY <7>1, InFront
            <7>3. i # 1 /\ i \in 1..(Len(list) + 1)
              BY <3>2, <5>1, <5>2, <6>1, <7>2
            <7>4. i \in 2..(Len(list) + 1)
              BY <7>2, <7>3
            <7> QED BY <5>1, <6>1, <7>2, <7>3, <7>4
          <6> QED BY <6>2 DEF Holds
        <5>3. CASE to # "active" /\ from = "active"
          <6>1. inState'["active"] = Without("active", j)
            BY <1>1, <1>5, <5>3 DEF Put
          <6> QED BY <1>1, <1>2, <5>1, <5>3, <6>1, WithoutJob DEF Holds
        <5>4. CASE to # "active" /\ from # "active"
          BY <1>5, <5>1, <5>4, StatesAre DEF Holds, Put
        <5> QED BY <5>2, <5>3, <5>4
      <4> QED BY <1>1, <4>1 DEF ErasureIInv, RowsOK
    <3> QED BY <3>1, <3>2
  <2>2. \A t \in Table : RowsAhead(t)' \/ rows'[t] \subseteq ran'
    BY <1>1 DEF ErasureIInv, RowsOK, RowsAhead
  <2> QED BY <2>1, <2>2 DEF RowsOK
<1> QED BY <1>7, <1>8, <1>9 DEF ErasureIInv

LEMMA ComesKeeps ==
  ASSUME ErasureIInv, NEW j, Comes(j)
  PROVE  ErasureIInv'
<1>1. /\ Meanwhile /\ j \in DealJob /\ j \in Job /\ ~ Queued(j)
      /\ UNCHANGED <<eraser, locked, shifted>>
      /\ inState' = [inState EXCEPT !["waiting"] = <<j>> \o @]
      /\ rows' = [rows EXCEPT !["idempotency_keys"] = @ \cup {j}]
      /\ moved' = IF Sweeping THEN moved \cup {j} ELSE moved
      /\ ran' = ran \cup {j}
  BY DEF Comes, DealJob, Job
<1>2. /\ ErasureTypeOK /\ "waiting" \in QueueState /\ "none" \notin QueueState
      /\ inState["waiting"] \in Seq(Job) /\ <<j>> \o inState["waiting"] \in Seq(Job)
  BY <1>1, StatesAre DEF ErasureIInv, ErasureTypeOK
<1>3. \A s \in QueueState : ~ Holds(s, j)
  BY <1>1 DEF Queued
<1>4. inState' \in [QueueState -> Seq(Job)]
  BY <1>1, <1>2 DEF ErasureTypeOK
<1>5. Put(j, "none", "waiting")
  BY <1>1, <1>2 DEF ErasureTypeOK, Put
<1>6. j \in moved' \/ eraser.pc \in Table
  BY <1>1, <1>2 DEF Sweeping, Meanwhile, ErasureTypeOK
<1>7. State \in QueueState
  BY <1>2, StateIsOne
<1>8. Once' /\ PagesInOrder' /\ SweepOK'
  <2>1. /\ moved \subseteq moved' /\ shifted \subseteq shifted' /\ UNCHANGED <<eraser, locked>>
        /\ "none" = State /\ eraser.full => "none" \in shifted'
    BY <1>1, <1>2, <1>7
  <2>2. "waiting" \in QueueState /\ "none" # "waiting" /\ j \in Job
        /\ \A s \in QueueState : s # "none" => ~ Holds(s, j)
    BY <1>1, <1>2, <1>3
  <2> QED BY <1>4, <1>5, <1>6, <2>1, <2>2, ArrivalKeeps
<1>9. ErasureTypeOK'
  <2>1. moves' \in 0..MaxMoves
    BY <1>1, ErasureAssumption DEF ErasureIInv, ErasureTypeOK, Meanwhile
  <2>2. rows' \in [RowKind -> SUBSET DealJob]
    BY <1>1, <1>2 DEF ErasureTypeOK
  <2>3. moved' \subseteq Job /\ ran' \subseteq Job
    BY <1>1, <1>2 DEF ErasureTypeOK
  <2> QED BY <1>1, <1>2, <1>4, <2>1, <2>2, <2>3 DEF ErasureTypeOK
<1>10. RowsOK'
  <2>1. inState'["active"] = inState["active"]
    BY <1>5, StatesAre DEF Put
  <2>2. \A x : Holds("active", x)' => x \in ran'
    BY <1>1, <2>1 DEF ErasureIInv, RowsOK, Holds
  <2>3. \A t \in Table : RowsAhead(t)' \/ rows'[t] \subseteq ran'
    BY <1>1, <1>2 DEF ErasureIInv, RowsOK, RowsAhead, ErasureTypeOK, RowKind
  <2> QED BY <2>2, <2>3 DEF RowsOK
<1> QED BY <1>8, <1>9, <1>10 DEF ErasureIInv

LEMMA WriteRowsKeeps ==
  ASSUME ErasureIInv, NEW j, WriteRows(j)
  PROVE  ErasureIInv'
<1>1. /\ j \in DealJob /\ j \in ran /\ Meanwhile
      /\ rows' = [t \in RowKind |-> IF t = "idempotency_keys" THEN rows[t] ELSE rows[t] \cup {j}]
      /\ UNCHANGED <<inState, eraser, moved, ran, locked, shifted>>
  BY DEF WriteRows
<1>2. ErasureTypeOK
  BY DEF ErasureIInv
<1>3. Once' /\ PagesInOrder'
  BY <1>1 DEF ErasureIInv, Once, PagesInOrder
<1>4. SweepOK'
  BY <1>1 DEF ErasureIInv, SweepOK, Ahead, Excused, State, InPage
<1>5. ErasureTypeOK'
  <2>1. moves' \in 0..MaxMoves
    BY <1>1, ErasureAssumption DEF ErasureIInv, ErasureTypeOK, Meanwhile
  <2>2. rows' \in [RowKind -> SUBSET DealJob]
    BY <1>1, <1>2 DEF ErasureTypeOK
  <2> QED BY <1>1, <1>2, <2>1, <2>2 DEF ErasureTypeOK
<1>6. RowsOK'
  BY <1>1 DEF ErasureIInv, RowsOK, RowsAhead, Holds, RowKind
<1> QED BY <1>3, <1>4, <1>5, <1>6 DEF ErasureIInv

-----------------------------------------------------------------------------
\* ErasureIInv is an inductive invariant of the erasure beside live jobs.
THEOREM ErasureInvariance == ErasureSpec => []ErasureIInv
<1>1. ErasureIInv /\ [ErasureNext]_erasureVars => ErasureIInv'
  <2> SUFFICES ASSUME ErasureIInv, [ErasureNext]_erasureVars PROVE ErasureIInv'
    OBVIOUS
  <2>1. CASE DeleteRows \/ FetchPage \/ Look \/ PageDone \/ AuditErasure \/ EraseFails
    BY <2>1, DeleteRowsKeeps, FetchPageKeeps, LookKeeps, PageDoneKeeps, EndKeeps
  <2>2. ASSUME NEW j \in Job, NEW t \in Transition, Move(j, t[1], t[2]) PROVE ErasureIInv'
    BY <2>2, MoveKeepsErasure
  <2>3. ASSUME NEW j \in Job, Discard(j) PROVE ErasureIInv'
    BY <2>3, DiscardKeeps
  <2>4. ASSUME NEW j \in DealJob, Comes(j) \/ WriteRows(j) PROVE ErasureIInv'
    BY <2>4, ComesKeeps, WriteRowsKeeps
  <2>5. CASE UNCHANGED erasureVars
    BY <2>5 DEF erasureVars, ErasureIInv, ErasureTypeOK, Once, PagesInOrder, SweepOK, RowsOK,
       Ahead, Excused, RowsAhead, State, InPage, Holds
  <2> QED BY <2>1, <2>2, <2>3, <2>4, <2>5 DEF ErasureNext
<1> QED BY <1>1, ErasureInitially, PTL DEF ErasureSpec

\* An erasure that reports success has passed over no job that its id or hs_object_id names
\* and left no row under the deal's id without one of the causes named: whatever the queue,
\* the page size and what runs, comes or is discarded meanwhile (eraseDeal.ts 47-112).
THEOREM NothingLeftBehind == ErasureSpec => []ErasureLeavesNothing
<1>1. ErasureIInv => ErasureLeavesNothing
  <2> SUFFICES ASSUME ErasureIInv, eraser.pc = "done"
               PROVE  /\ \A j \in DealJob : Queued(j) =>
                           \/ j \in MappedJob \cup moved \cup locked
                           \/ \E s \in shifted : Holds(s, j)
                      /\ \A t \in Table : rows[t] \subseteq ran
    BY DEF ErasureLeavesNothing
  <2>1. \A s \in QueueState : \A i \in DOMAIN inState[s] : ~ Ahead(s, i)
    BY DEF Ahead, Table
  <2>2. ASSUME NEW j \in Found, NEW s \in QueueState, Holds(s, j)
        PROVE  j \in moved \cup locked \/ \E t \in shifted : Holds(t, j)
    BY <2>1, <2>2 DEF ErasureIInv, SweepOK, Excused, Holds
  <2>3. \A t \in Table : ~ RowsAhead(t)
    BY DEF RowsAhead, Table
  <2> QED BY <2>2, <2>3 DEF Queued, ErasureIInv, RowsOK, Found, DealJob
<1> QED BY <1>1, ErasureInvariance, PTL

\* The variables of the erasure keep their types.
THEOREM ErasureTypeCorrect == ErasureSpec => []ErasureTypeOK
<1>1. ErasureIInv => ErasureTypeOK
  BY DEF ErasureIInv
<1> QED BY <1>1, ErasureInvariance, PTL

-----------------------------------------------------------------------------
(* StandaloneTools *)

\* The places up to i in the order of the sort.
UpTo(response, places, i) == {j \in places : j = i \/ Before(response, j, i)}

\* The sort puts each of the places at one position, the cheaper first.
LEMMA SortIsAnOrder ==
  ASSUME NEW response \in Seq(OfferRow), NEW places, places \subseteq DOMAIN response
  PROVE  /\ IsFiniteSet(places) /\ Cardinality(places) \in Nat
         /\ \A i \in places : Rank(response, places, i) \in 1..Cardinality(places)
         /\ \A i, j \in places :
              Before(response, i, j) => Rank(response, places, i) < Rank(response, places, j)
         /\ \A k \in 1..Cardinality(places) : \E i \in places : Rank(response, places, i) = k
<1> DEFINE n == Cardinality(places)
           U(i) == UpTo(response, places, i)
           R(i) == Rank(response, places, i)
<1>1. /\ DOMAIN response = 1..Len(response) /\ Len(response) \in Nat
      /\ \A i \in places : i \in Nat /\ response[i].price \in Nat
  <2>1. DOMAIN response = 1..Len(response) /\ Len(response) \in Nat
    OBVIOUS
  <2>2. ASSUME NEW i \in places PROVE i \in Nat /\ response[i] \in OfferRow
    <3>1. i \in 1..Len(response)
      BY <2>1
    <3> QED BY <3>1, ElementOfSeq
  <2> QED BY <2>1, <2>2 DEF OfferRow
<1>2. IsFiniteSet(places) /\ n \in Nat
  <2>1. IsFiniteSet(1..Len(response))
    BY <1>1, FS_Interval
  <2> QED BY <1>1, <2>1, FS_Subset, FS_CardinalityType
<1>3. ASSUME NEW i \in places
      PROVE  /\ U(i) \subseteq places /\ i \in U(i) /\ IsFiniteSet(U(i))
             /\ R(i) = Cardinality(U(i)) /\ R(i) \in 1..n
  <2>1. U(i) \subseteq places /\ i \in U(i)
    BY DEF UpTo
  <2>2. IsFiniteSet(U(i)) /\ Cardinality(U(i)) <= n /\ Cardinality(U(i)) \in Nat
    BY <1>2, <2>1, FS_Subset, FS_CardinalityType
  <2>3. Cardinality(U(i)) # 0
    BY <2>1, <2>2, FS_EmptySet
  <2>4. R(i) = Cardinality(U(i))
    BY DEF Rank, UpTo
  <2> QED BY <1>2, <2>1, <2>2, <2>3, <2>4
<1>4. ASSUME NEW i \in places, NEW j \in places, Before(response, i, j) PROVE R(i) < R(j)
  <2>1. U(i) \subseteq U(j) /\ j \notin U(i)
    BY <1>1, <1>4 DEF UpTo, Before
  <2>2. Cardinality(U(i)) <= Cardinality(U(j)) /\ U(j) # U(i)
    BY <1>3, <2>1, FS_Subset
  <2>3. Cardinality(U(i)) # Cardinality(U(j))
    BY <1>3, <2>1, <2>2, FS_Subset
  <2>4. R(i) = Cardinality(U(i)) /\ R(j) = Cardinality(U(j)) /\ R(i) \in 1..n /\ R(j) \in 1..n
    BY <1>3
  <2> HIDE DEF R, U
  <2> QED BY <1>2, <2>2, <2>3, <2>4
<1>5. ASSUME NEW k \in 1..n PROVE \E i \in places : R(i) = k
  <2> DEFINE f == [i \in places |-> R(i)]
  <2>1. f \in [places -> 1..n]
    BY <1>3
  <2>2. ASSUME NEW i \in places, NEW j \in places, f[i] = f[j] PROVE i = j
    <3>1. R(i) = R(j) /\ R(i) \in Nat
      BY <1>2, <1>3, <2>2
    <3>2. i = j \/ Before(response, i, j) \/ Before(response, j, i)
      BY <1>1 DEF Before
    <3> HIDE DEF R
    <3> QED BY <1>4, <3>1, <3>2
  <2>3. f \in Injection(places, 1..n)
    BY <2>1, <2>2 DEF Injection, IsInjective
  <2>4. IsFiniteSet(1..n) /\ Cardinality(1..n) = n
    BY <1>2, FS_Interval
  <2>5. f \in Surjection(places, 1..n)
    BY <2>3, <2>4, FS_Injection
  <2>6. \E i \in places : f[i] = k
    BY <2>5 DEF Surjection
  <2> QED BY <2>6
<1> QED BY <1>2, <1>3, <1>4, <1>5

\* The offers at those places, each once and the cheaper first.
LEMMA ByPriceIsSorted ==
  ASSUME NEW response \in Seq(OfferRow), NEW places, places \subseteq DOMAIN response
  PROVE  /\ IsFiniteSet(places) /\ Cardinality(places) \in Nat
         /\ ByPrice(response, places) \in Seq(OfferRow)
         /\ Len(ByPrice(response, places)) = Cardinality(places)
         /\ \A i \in places :
              \E k \in 1..Cardinality(places) : ByPrice(response, places)[k] = response[i]
         /\ \A k, l \in 1..Cardinality(places) :
              k < l => ByPrice(response, places)[k].price <= ByPrice(response, places)[l].price
<1> DEFINE n == Cardinality(places)
           R(i) == Rank(response, places, i)
           place(k) == CHOOSE i \in places : R(i) = k
           list == ByPrice(response, places)
<1>1. /\ IsFiniteSet(places) /\ n \in Nat
      /\ \A i \in places : R(i) \in 1..n
      /\ \A i, j \in places : Before(response, i, j) => R(i) < R(j)
      /\ \A k \in 1..n : \E i \in places : R(i) = k
  BY SortIsAnOrder
<1>2. ASSUME NEW i \in places PROVE i \in Nat /\ response[i] \in OfferRow /\ response[i].price \in Nat
  <2>1. i \in 1..Len(response) /\ Len(response) \in Nat
    OBVIOUS
  <2>2. response[i] \in OfferRow
    BY <2>1, ElementOfSeq
  <2> QED BY <2>1, <2>2 DEF OfferRow
<1>3. ASSUME NEW k \in 1..n PROVE place(k) \in places /\ R(place(k)) = k
  <2>1. \E i \in places : R(i) = k
    BY <1>1
  <2> HIDE DEF R
  <2> QED BY <2>1
<1>4. list = [k \in 1..n |-> response[place(k)]]
  BY DEF ByPrice
<1> HIDE DEF R, place, list
<1>5. /\ list \in Seq(OfferRow) /\ Len(list) = n
      /\ \A k \in 1..n : list[k] = response[place(k)]
  <2>1. list \in [1..n -> OfferRow]
    BY <1>2, <1>3, <1>4
  <2> QED BY <1>1, <1>4, <2>1
<1>6. ASSUME NEW i \in places, NEW j \in places, R(i) = R(j) PROVE i = j
  <2>1. i = j \/ Before(response, i, j) \/ Before(response, j, i)
    BY <1>2 DEF Before
  <2>2. R(i) \in Nat /\ R(j) \in Nat
    BY <1>1
  <2> QED BY <1>1, <1>6, <2>1, <2>2
<1>7. ASSUME NEW i \in places PROVE \E k \in 1..n : list[k] = response[i]
  <2>1. R(i) \in 1..n
    BY <1>1
  <2>2. place(R(i)) \in places /\ R(place(R(i))) = R(i)
    BY <1>3, <2>1
  <2>3. place(R(i)) = i
    BY <1>6, <2>2
  <2> QED BY <1>5, <2>1, <2>3
<1>8. ASSUME NEW k \in 1..n, NEW l \in 1..n, k < l PROVE list[k].price <= list[l].price
  <2>1. /\ place(k) \in places /\ place(l) \in places
        /\ R(place(k)) = k /\ R(place(l)) = l
    BY <1>3
  <2>2. ~ Before(response, place(l), place(k))
    <3>1. SUFFICES ASSUME Before(response, place(l), place(k)) PROVE FALSE
      OBVIOUS
    <3>2. R(place(l)) < R(place(k))
      BY <1>1, <2>1, <3>1
    <3> QED BY <1>1, <1>8, <2>1, <3>2
  <2>3. response[place(k)].price <= response[place(l)].price
    BY <1>2, <2>1, <2>2 DEF Before
  <2> QED BY <1>5, <2>3
<1> QED BY <1>1, <1>5, <1>7, <1>8 DEF list

\* A list holds the cheapest offers of a response, as many as the request may have.
Cheapest(list, response, max) ==
  LET offered == Selling(response)
      most == IF max = 0 \/ max > Cardinality(offered) THEN Cardinality(offered) ELSE max
  IN /\ list \in Seq(OfferRow) /\ Len(list) = most
     /\ \A i \in offered :
          \/ \E k \in DOMAIN list : list[k] = response[i]
          \/ \A k \in DOMAIN list : list[k].price <= response[i].price
     /\ \A k \in 1..(Len(list) - 1) : list[k].price <= list[k + 1].price

LEMMA SelectedAreTheCheapest ==
  ASSUME NEW response \in Seq(OfferRow), NEW max \in Nat
  PROVE  Cheapest(SelectOffers(response, max), response, max)
<1> DEFINE offered == Selling(response)
           n == Cardinality(offered)
           list == ByPrice(response, offered)
           sel == SelectOffers(response, max)
           most == IF max = 0 \/ max > n THEN n ELSE max
<1>1. /\ n \in Nat /\ list \in Seq(OfferRow) /\ Len(list) = n
      /\ \A i \in offered : \E k \in 1..n : list[k] = response[i]
      /\ \A k, l \in 1..n : k < l => list[k].price <= list[l].price
  BY ByPriceIsSorted DEF Selling
<1>2. sel = IF max = 0 \/ max >= Len(list) THEN list ELSE [k \in 1..max |-> list[k]]
  BY DEF SelectOffers, Capped
<1>3. ASSUME NEW k \in 1..n PROVE list[k] \in OfferRow /\ list[k].price \in Nat
  <2>1. list[k] \in OfferRow
    BY <1>1, ElementOfSeq
  <2> QED BY <2>1 DEF OfferRow
<1> HIDE DEF list, n, offered
<1>4. most \in 0..n
  BY <1>1
<1>5. /\ sel \in Seq(OfferRow) /\ Len(sel) = most
      /\ \A k \in 1..most : sel[k] = list[k]
  <2>1. CASE max = 0 \/ max >= n
    <3>1. sel = list /\ most = n
      BY <1>1, <1>2, <2>1
    <3> QED BY <1>1, <3>1
  <2>2. CASE ~ (max = 0 \/ max >= n)
    <3>1. sel = [k \in 1..max |-> list[k]] /\ most = max /\ max \in 1..n
      BY <1>1, <1>2, <2>2
    <3>2. sel \in [1..max -> OfferRow]
      BY <1>1, <1>3, <3>1
    <3> QED BY <3>1, <3>2
  <2> QED BY <2>1, <2>2
<1>6. DOMAIN sel = 1..most
  BY <1>5
<1> HIDE DEF sel, most
<1>7. ASSUME NEW i \in offered
      PROVE  \/ \E k \in 1..most : sel[k] = response[i]
             \/ \A k \in 1..most : sel[k].price <= response[i].price
  <2>1. PICK k \in 1..n : list[k] = response[i]
    BY <1>1
  <2>2. CASE k \in 1..most
    BY <1>5, <2>1, <2>2
  <2>3. CASE k \notin 1..most
    <3>1. ASSUME NEW l \in 1..most PROVE sel[l].price <= response[i].price
      <4>1. l \in 1..n /\ l < k
        BY <1>1, <1>4, <2>3
      <4>2. list[l].price <= list[k].price
        BY <1>1, <4>1
      <4> QED BY <1>5, <2>1, <4>2
    <3> QED BY <3>1
  <2> QED BY <2>2, <2>3
<1>8. ASSUME NEW k \in 1..(most - 1) PROVE sel[k].price <= sel[k + 1].price
  <2>1. k \in 1..n /\ k + 1 \in 1..n /\ k < k + 1 /\ k \in 1..most /\ k + 1 \in 1..most
    BY <1>1, <1>4
  <2>2. list[k].price <= list[k + 1].price
    BY <1>1, <2>1
  <2> QED BY <1>5, <2>1, <2>2
<1> QED BY <1>5, <1>6, <1>7, <1>8 DEF Cheapest, sel, most, n, offered

\* The tools' inductive invariant.  A list is the start of another.
Starts(list, whole) ==
  Len(list) <= Len(whole) /\ \A k \in 1..Len(list) : list[k] = whole[k]

\* What a request is to make is what its response and its cap say; before the response
\* there is nothing.
SelectsFromResponse ==
  /\ request.tool # "check" /\ request.pc \notin {"idle", "phobs", "error", "cut"} =>
       request.response \in Response /\ request.selected = SelectOffers(request.response, request.max)
  /\ request.pc \in {"idle", "phobs"} => request.items = <<>> /\ request.at = 1
  /\ request.tool = "check" => request.pc \in {"idle", "phobs", "ok", "error", "cut"}

\* A request that goes on knows each line item that was made.
KnowsWhatItMade == request.pc \notin {"error", "cut"} => request.items = made /\ ~lost

\* The line items are the first of the selected offers, at their places; the runner makes
\* none before it has all products.
MakesInOrder ==
  /\ request.pc \in {"search", "product"} =>
       /\ request.at \in 1..Len(request.selected)
       /\ request.tool = "runner" => request.items = <<>>
  /\ request.pc = "item" \/ (request.pc \in {"search", "product"} /\ request.tool # "runner") =>
       /\ request.at = Len(request.items) + 1 /\ request.at <= Len(request.selected)
       /\ Starts(request.items, request.selected)
  /\ request.pc \in {"quote", "approve", "poll", "status"} => request.items = request.selected
  /\ request.pc = "ok" /\ request.tool # "check" =>
       request.items = request.selected /\ request.answer = request.items

\* The runner's quote is of the line items, and approved before the answer.
QuotesThem ==
  request.tool = "runner" =>
    /\ request.pc \in {"search", "product", "item", "quote"} => request.selected # <<>>
    /\ request.pc = "approve" => quote.items = made /\ request.selected # <<>>
    /\ request.pc \in {"poll", "status", "ok"} /\ request.selected # <<>> =>
         quote.items = made /\ quote.approved

\* Only the runner makes a quote.
OthersMakeNone == request.pc \in {"quote", "approve", "poll"} => request.tool = "runner"

ErrorsTell ==
  request.pc = "error" /\ request.tool # "runner" =>
    made = request.answer \/ (lost /\ made = Append(request.answer, made[Len(made)]))

ToolsIInv ==
  /\ ToolsTypeOK
  /\ SelectsFromResponse
  /\ KnowsWhatItMade
  /\ MakesInOrder
  /\ QuotesThem
  /\ OthersMakeNone
  /\ ErrorsTell

\* A request's fields.
RequestType ==
  [pc: ToolPC, tool: Tool, max: MaxResults \cup {0}, response: Response \cup {<<>>},
   selected: Seq(OfferRow), at: Nat, items: Seq(OfferRow), answer: Seq(OfferRow)]

LEMMA SelectedOfResponse ==
  ASSUME NEW response \in Response, NEW max \in MaxResults \cup {0}
  PROVE  /\ max \in Nat /\ response \in Seq(OfferRow)
         /\ SelectOffers(response, max) \in Seq(OfferRow)
         /\ Cheapest(SelectOffers(response, max), response, max)
<1>1. max \in Nat /\ response \in Seq(OfferRow)
  BY ToolsAssumption
<1> QED BY <1>1, SelectedAreTheCheapest DEF Cheapest

\* A request that begins.
LEMMA ArriveKeeps ==
  ASSUME ToolsIInv, Arrives, NEW tool \in Tool, NEW max \in MaxResults \cup {0},
         \/ request' = [NoRequest EXCEPT !.pc = "error", !.tool = tool]
         \/ request' = [NoRequest EXCEPT !.pc = "phobs", !.tool = tool, !.max = max]
  PROVE  ToolsIInv'
<1>1. /\ request' \in RequestType /\ request'.pc \in {"error", "phobs"} /\ request'.at = 1
      /\ request'.items = <<>> /\ request'.answer = <<>> /\ request'.selected = <<>>
  <2>1. <<>> \in Seq(OfferRow)
    OBVIOUS
  <2>2. NoRequest \in RequestType
    BY <2>1 DEF NoRequest, RequestType, ToolPC, Tool
  <2>3. /\ NoRequest.at = 1 /\ NoRequest.items = <<>> /\ NoRequest.answer = <<>>
        /\ NoRequest.selected = <<>>
    BY DEF NoRequest
  <2>4. CASE request' = [NoRequest EXCEPT !.pc = "error", !.tool = tool]
    BY <2>2, <2>3, <2>4 DEF RequestType, ToolPC
  <2>5. CASE request' = [NoRequest EXCEPT !.pc = "phobs", !.tool = tool, !.max = max]
    BY <2>2, <2>3, <2>5 DEF RequestType, ToolPC
  <2> QED BY <2>4, <2>5
<1>2. /\ requests' \in 0..MaxRequests /\ made' = <<>> /\ made' \in Seq(OfferRow)
      /\ quote' = NoQuote /\ lost' = FALSE /\ products' = products /\ status' = status
  BY ToolsAssumption DEF Arrives, ToolsIInv, ToolsTypeOK
<1>3. /\ quote' \in [items: Seq(OfferRow), approved: BOOLEAN] /\ quote'.items = <<>>
      /\ Len(<<>>) = 0
  BY <1>2 DEF NoQuote
<1>4. ToolsTypeOK'
  <2>1. /\ Len(request'.items) = 0 /\ Len(request'.answer) = 0 /\ Len(request'.selected) = 0
        /\ Len(made') = 0 /\ Len(quote'.items) = 0
    BY <1>1, <1>2, <1>3
  <2>2. /\ request'.at \in 1..(Len(request'.selected) + 1)
        /\ Len(request'.items) <= Len(made') /\ Len(request'.answer) <= Len(made')
        /\ Len(quote'.items) <= Len(made')
    BY <1>1, <2>1
  <2>3. products' \subseteq Sku /\ status' \in {"none", "no_availability", "available"}
    BY <1>2 DEF ToolsIInv, ToolsTypeOK
  <2> QED BY <1>1, <1>2, <1>3, <2>2, <2>3 DEF ToolsTypeOK, RequestType
<1> QED BY <1>1, <1>2, <1>4 DEF ToolsIInv, SelectsFromResponse, KnowsWhatItMade, MakesInOrder,
          QuotesThem, OthersMakeNone, ErrorsTell

LEMMA AvailabilityKeeps ==
  ASSUME ToolsIInv, NEW response \in Response, Availability(response)
  PROVE  ToolsIInv'
<1> DEFINE selected == SelectOffers(response, request.max)
<1>1. request \in RequestType /\ request.pc = "phobs" /\ request.tool # "check"
  BY DEF Availability, RequestAt, ToolsIInv, ToolsTypeOK, RequestType
<1>2. selected \in Seq(OfferRow)
  BY <1>1, SelectedOfResponse DEF RequestType
<1>3. request' = [request EXCEPT !.pc = IF selected = <<>> THEN "status" ELSE "search",
                                 !.response = response, !.selected = selected]
  BY DEF Availability
<1> HIDE DEF selected
<1>4. /\ request' \in RequestType /\ request'.pc = (IF selected = <<>> THEN "status" ELSE "search")
      /\ request'.tool = request.tool /\ request'.max = request.max
      /\ request'.response = response /\ request'.selected = selected
      /\ request'.at = request.at /\ request'.items = request.items
      /\ request'.answer = request.answer
  BY <1>1, <1>2, <1>3 DEF RequestType, ToolPC
<1>5. /\ request.items = <<>> /\ request.at = 1 /\ made = <<>> /\ ~lost
      /\ UNCHANGED <<products, made, quote, status, lost, requests>>
  BY <1>1 DEF Availability, ToolsIInv, SelectsFromResponse, KnowsWhatItMade
<1>6. ToolsTypeOK'
  <2>1. Len(selected) \in Nat
    BY <1>2
  <2> QED BY <1>1, <1>4, <1>5, <2>1 DEF ToolsIInv, ToolsTypeOK, RequestType
<1>7. SelectsFromResponse' /\ KnowsWhatItMade'
  BY <1>1, <1>4, <1>5 DEF SelectsFromResponse, KnowsWhatItMade, selected
<1>8. MakesInOrder'
  <2>1. selected # <<>> => Len(selected) \in Nat \ {0}
    BY <1>2, EmptySeq
  <2> QED BY <1>1, <1>4, <1>5, <2>1 DEF MakesInOrder, Starts
<1>9. QuotesThem' /\ OthersMakeNone' /\ ErrorsTell'
  BY <1>1, <1>4, <1>5 DEF QuotesThem, OthersMakeNone, ErrorsTell
<1> QED BY <1>6, <1>7, <1>8, <1>9 DEF ToolsIInv

LEMMA CheckKeeps ==
  ASSUME ToolsIInv, NEW response \in Response, Check(response)
  PROVE  ToolsIInv'
<1>1. request \in RequestType /\ request.pc = "phobs" /\ request.tool = "check"
  BY DEF Check, RequestAt, ToolsIInv, ToolsTypeOK, RequestType
<1>2. response \in Seq(OfferRow)
  BY ToolsAssumption
<1>3. /\ request' \in RequestType /\ request'.pc = "ok" /\ request'.tool = "check"
      /\ request'.at = request.at /\ request'.items = request.items
      /\ request'.selected = request.selected
  BY <1>1, <1>2 DEF Check, RequestType, ToolPC
<1>4. UNCHANGED <<products, made, quote, status, lost, requests>>
  BY DEF Check
<1>5. ToolsTypeOK'
  BY <1>1, <1>3, <1>4 DEF ToolsIInv, ToolsTypeOK, RequestType
<1> QED BY <1>1, <1>3, <1>4, <1>5 DEF ToolsIInv, SelectsFromResponse, KnowsWhatItMade,
          MakesInOrder, QuotesThem, OthersMakeNone, ErrorsTell

\* A product is known: on to the line item, or to the runner's next product.
LEMMA ProductKeeps ==
  ASSUME ToolsIInv, request.pc \in {"search", "product"}, ProductKnown \/ RequestTo("product"),
         products' \subseteq Sku, UNCHANGED <<made, quote, status, lost, requests>>
  PROVE  ToolsIInv'
<1>1. /\ request \in RequestType /\ request.tool # "check"
      /\ request.at \in 1..Len(request.selected) /\ Len(request.selected) \in Nat
      /\ request.at \in Nat
  BY DEF ToolsIInv, ToolsTypeOK, RequestType, SelectsFromResponse, MakesInOrder
<1>2. /\ "item" \in ToolPC /\ "search" \in ToolPC /\ "product" \in ToolPC
  BY DEF ToolPC
<1>3. /\ request' \in RequestType /\ request'.pc \in {"item", "search", "product"}
      /\ request'.at \in 1..Len(request.selected)
      /\ request.tool # "runner" => request'.at = request.at /\ request'.pc # "search"
      /\ request.tool = "runner" /\ request'.pc = "item" => request'.at = 1
      /\ request'.tool = request.tool /\ request'.max = request.max
      /\ request'.response = request.response /\ request'.selected = request.selected
      /\ request'.items = request.items /\ request'.answer = request.answer
  <2>1. CASE RequestTo("product")
    BY <1>1, <1>2, <2>1 DEF RequestTo, RequestType
  <2>2. CASE ProductKnown /\ request.tool # "runner"
    BY <1>1, <1>2, <2>2 DEF ProductKnown, RequestType
  <2>3. CASE ProductKnown /\ request.tool = "runner" /\ AtLast
    <3>1. 1 \in 1..Len(request.selected) /\ 1 \in Nat
      BY <1>1
    <3>2. request' = [request EXCEPT !.pc = "item", !.at = 1]
      BY <2>3 DEF ProductKnown
    <3> QED BY <1>1, <1>2, <2>3, <3>1, <3>2 DEF RequestType
  <2>4. CASE ProductKnown /\ request.tool = "runner" /\ ~AtLast
    <3>1. request.at + 1 \in 1..Len(request.selected) /\ request.at + 1 \in Nat
      BY <1>1, <2>4 DEF AtLast
    <3>2. request' = [request EXCEPT !.pc = "search", !.at = request.at + 1]
      BY <2>4 DEF ProductKnown
    <3> QED BY <1>1, <1>2, <2>4, <3>1, <3>2 DEF RequestType
  <2> QED BY <2>1, <2>2, <2>3, <2>4
<1>4. ToolsTypeOK'
  BY <1>1, <1>3 DEF ToolsIInv, ToolsTypeOK, RequestType
<1>5. SelectsFromResponse' /\ KnowsWhatItMade'
  BY <1>1, <1>3 DEF ToolsIInv, SelectsFromResponse, KnowsWhatItMade
<1>6. MakesInOrder'
  <2>1. CASE request.tool = "runner"
    <3>1. request.items = <<>> /\ Len(<<>>) = 0
      BY <2>1 DEF ToolsIInv, MakesInOrder
    <3> QED BY <1>1, <1>3, <2>1, <3>1 DEF MakesInOrder, Starts
  <2>2. CASE request.tool # "runner"
    BY <1>1, <1>3, <2>2 DEF ToolsIInv, MakesInOrder, Starts
  <2> QED BY <2>1, <2>2
<1>7. QuotesThem' /\ OthersMakeNone' /\ ErrorsTell'
  BY <1>1, <1>3 DEF ToolsIInv, QuotesThem, OthersMakeNone, ErrorsTell
<1> QED BY <1>4, <1>5, <1>6, <1>7 DEF ToolsIInv

LEMMA LineItemKeeps ==
  ASSUME ToolsIInv, MakeLineItem
  PROVE  ToolsIInv'
<1> DEFINE pc == IF ~AtLast THEN (IF request.tool = "runner" THEN "item" ELSE "search")
                 ELSE IF request.tool = "runner" THEN "quote" ELSE "status"
           sel == request.selected
           items == Append(request.items, Offer)
<1>1. /\ request \in RequestType /\ request.tool # "check" /\ request.pc = "item"
      /\ request.at = Len(request.items) + 1 /\ request.at <= Len(sel)
      /\ Starts(request.items, sel) /\ Len(sel) \in Nat /\ Len(request.items) \in Nat
      /\ sel \in Seq(OfferRow) /\ request.items \in Seq(OfferRow)
      /\ request.items = made /\ ~lost
  BY DEF MakeLineItem, RequestAt, ToolsIInv, ToolsTypeOK, RequestType, SelectsFromResponse,
         MakesInOrder, KnowsWhatItMade
<1>2. Offer = sel[request.at] /\ Offer \in OfferRow
  <2>1. request.at \in 1..Len(sel)
    BY <1>1
  <2> QED BY <1>1, <2>1, ElementOfSeq DEF Offer
<1>3. /\ items \in Seq(OfferRow) /\ Len(items) = Len(request.items) + 1
      /\ \A k \in 1..Len(request.items) : items[k] = request.items[k]
      /\ items[Len(request.items) + 1] = Offer
  BY <1>1, <1>2, AppendProperties
<1>4. Starts(items, sel)
  <2>1. ASSUME NEW k \in 1..(Len(request.items) + 1) PROVE items[k] = sel[k]
    <3>1. CASE k \in 1..Len(request.items)
      BY <1>1, <1>3, <3>1 DEF Starts
    <3>2. CASE k = Len(request.items) + 1
      BY <1>1, <1>2, <1>3, <3>2
    <3> QED BY <1>1, <3>1, <3>2
  <2> QED BY <1>1, <1>3, <2>1 DEF Starts
<1>5. AtLast => items = sel
  <2>1. SUFFICES ASSUME AtLast PROVE items = sel
    OBVIOUS
  <2>2. Len(items) = Len(sel)
    BY <1>1, <1>3, <2>1 DEF AtLast
  <2> HIDE DEF items
  <2> QED BY <1>1, <1>3, <1>4, <2>2, SeqEqual DEF Starts
<1>6. /\ request' = [request EXCEPT !.pc = pc, !.at = @ + 1, !.items = items]
      /\ made' = items /\ UNCHANGED <<products, quote, status, lost, requests>>
  BY <1>1 DEF MakeLineItem
<1>7. /\ pc \in ToolPC /\ request.at + 1 \in Nat
      /\ request' = [request EXCEPT !.pc = pc, !.at = request.at + 1, !.items = items]
  <2>1. pc \in ToolPC
    BY DEF ToolPC
  <2>2. request.at + 1 \in Nat
    BY <1>1
  <2> HIDE DEF pc, items
  <2> QED BY <1>6, <2>1, <2>2
<1>8. /\ AtLast => pc = IF request.tool = "runner" THEN "quote" ELSE "status"
      /\ ~AtLast => pc = IF request.tool = "runner" THEN "item" ELSE "search"
  OBVIOUS
<1> HIDE DEF items, sel, pc
<1>9. /\ request' \in RequestType /\ request'.pc = pc /\ request'.at = request.at + 1
      /\ request'.tool = request.tool /\ request'.max = request.max
      /\ request'.response = request.response /\ request'.selected = request.selected
      /\ request'.items = items /\ request'.answer = request.answer
  BY <1>1, <1>3, <1>7 DEF RequestType
<1>10. ToolsTypeOK'
  <2>1. /\ request'.at \in 1..(Len(request'.selected) + 1)
        /\ Len(made') = Len(made) + 1 /\ Len(made) \in Nat
    BY <1>1, <1>3, <1>6, <1>9 DEF sel
  <2>2. /\ Len(request'.items) <= Len(made')
        /\ request'.tool # "check" => Len(request'.answer) <= Len(made')
        /\ Len(quote'.items) <= Len(made')
    <3>1. /\ request.tool # "check" => Len(request.answer) <= Len(made)
          /\ Len(quote.items) <= Len(made)
          /\ Len(request.answer) \in Nat /\ Len(quote.items) \in Nat
      BY <1>1 DEF ToolsIInv, ToolsTypeOK, RequestType
    <3> QED BY <1>3, <1>6, <1>9, <2>1, <3>1
  <2> QED BY <1>3, <1>6, <1>9, <2>1, <2>2 DEF ToolsIInv, ToolsTypeOK, RequestType
<1>11. SelectsFromResponse' /\ KnowsWhatItMade'
  BY <1>1, <1>6, <1>9, <1>8 DEF ToolsIInv, SelectsFromResponse, KnowsWhatItMade
<1>12. MakesInOrder'
  BY <1>1, <1>3, <1>4, <1>5, <1>9, <1>8 DEF MakesInOrder, AtLast, sel
<1>13. QuotesThem' /\ OthersMakeNone' /\ ErrorsTell'
  BY <1>1, <1>6, <1>9, <1>8 DEF ToolsIInv, QuotesThem, OthersMakeNone, ErrorsTell
<1> QED BY <1>10, <1>11, <1>12, <1>13 DEF ToolsIInv

\* An error names what was made.
LEMMA FailureKeeps ==
  ASSUME ToolsIInv, PhobsFails \/ HubSpotFails
  PROVE  ToolsIInv'
<1>1. /\ request \in RequestType /\ request.pc \notin {"idle", "ok", "error", "cut"}
      /\ request.tool # "check" \/ request.items = <<>>
      /\ request.items = made /\ ~lost /\ made \in Seq(OfferRow) /\ Len(made) \in Nat
      /\ request.pc \in {"item", "quote", "approve"} => request.tool # "check"
      /\ quote \in [items: Seq(OfferRow), approved: BOOLEAN] /\ Len(quote.items) <= Len(made)
      /\ Len(quote.items) \in Nat
  BY DEF ToolsIInv, ToolsTypeOK, RequestType, SelectsFromResponse, KnowsWhatItMade,
         PhobsFails, HubSpotFails, RequestAt
<1>2. PICK answer \in {<<>>, request.items} :
        /\ request' = [request EXCEPT !.pc = "error", !.answer = answer]
        /\ request.tool # "runner" => answer = request.items
  BY DEF PhobsFails, HubSpotFails, Failed
<1>3. answer \in Seq(OfferRow) /\ Len(answer) \in Nat /\ Len(answer) <= Len(made)
  <2>1. <<>> \in Seq(OfferRow) /\ Len(<<>>) = 0
    BY EmptySeq
  <2>2. answer = <<>> \/ answer = made
    BY <1>1
  <2>3. CASE answer = <<>>
    BY <1>1, <2>1, <2>3
  <2>4. CASE answer = made
    BY <1>1, <2>4
  <2> QED BY <2>2, <2>3, <2>4
<1>4. /\ request' \in RequestType /\ request'.pc = "error" /\ request'.tool = request.tool
      /\ request'.at = request.at /\ request'.selected = request.selected
      /\ request'.items = request.items /\ request'.answer = answer
  <2>1. "error" \in ToolPC
    BY DEF ToolPC
  <2> QED BY <1>1, <1>2, <1>3, <2>1 DEF RequestType
<1>5. /\ \/ made' = made
         \/ lost' = TRUE /\ \E offer \in OfferRow : made' = Append(made, offer)
      /\ \/ quote' = quote
         \/ request.pc = "quote" /\ quote' = [items |-> request.items, approved |-> FALSE]
         \/ quote' = [quote EXCEPT !.approved = TRUE]
      /\ products' \subseteq Sku /\ lost' \in BOOLEAN /\ UNCHANGED <<status, requests>>
  <2>1. request.pc \in {"product", "item"} => Offer \in OfferRow
    <3>1. SUFFICES ASSUME request.pc \in {"product", "item"} PROVE Offer \in OfferRow
      OBVIOUS
    <3>2. request.at \in 1..Len(request.selected) /\ request.selected \in Seq(OfferRow)
      BY <1>1, <3>1 DEF ToolsIInv, MakesInOrder, RequestType, ToolsTypeOK
    <3> QED BY <3>2, ElementOfSeq DEF Offer
  <2>2. products \subseteq Sku /\ lost \in BOOLEAN
    BY DEF ToolsIInv, ToolsTypeOK
  <2>3. CASE PhobsFails
    BY <2>2, <2>3 DEF PhobsFails
  <2>4. CASE HubSpotFails
    BY <1>1, <2>1, <2>2, <2>4 DEF HubSpotFails, RequestAt, OfferRow
  <2> QED BY <2>3, <2>4
<1>6. /\ made' \in Seq(OfferRow) /\ Len(made') \in Nat /\ Len(made') >= Len(made)
      /\ made' # made =>
           lost' /\ made' = Append(made, made'[Len(made')])
  <2>1. CASE made' = made
    BY <1>1, <2>1
  <2>2. ASSUME NEW offer \in OfferRow, made' = Append(made, offer), lost'
        PROVE  /\ made' \in Seq(OfferRow) /\ Len(made') \in Nat /\ Len(made') >= Len(made)
               /\ made' = Append(made, made'[Len(made')])
    BY <1>1, <2>2, AppendProperties
  <2> QED BY <1>5, <2>1, <2>2
<1>7. quote' \in [items: Seq(OfferRow), approved: BOOLEAN] /\ Len(quote'.items) <= Len(made')
  <2>1. CASE quote' = quote \/ quote' = [quote EXCEPT !.approved = TRUE]
    <3>1. quote' \in [items: Seq(OfferRow), approved: BOOLEAN] /\ quote'.items = quote.items
      BY <1>1, <2>1
    <3> QED BY <1>1, <1>6, <3>1
  <2>2. CASE quote' = [items |-> request.items, approved |-> FALSE]
    <3>1. quote' \in [items: Seq(OfferRow), approved: BOOLEAN] /\ quote'.items = made
      BY <1>1, <2>2
    <3> QED BY <1>1, <1>6, <3>1
  <2> QED BY <1>5, <2>1, <2>2
<1>8. ToolsTypeOK'
  <2>1. /\ Len(request'.items) <= Len(made') /\ Len(request'.answer) <= Len(made')
        /\ request'.at \in 1..(Len(request'.selected) + 1)
    <3>1. request.at \in 1..(Len(request.selected) + 1)
      BY DEF ToolsIInv, ToolsTypeOK
    <3> QED BY <1>1, <1>3, <1>4, <1>6, <3>1
  <2> QED BY <1>4, <1>5, <1>6, <1>7, <2>1 DEF ToolsIInv, ToolsTypeOK, RequestType
<1>9. ErrorsTell'
  BY <1>1, <1>2, <1>4, <1>6 DEF ErrorsTell
<1>10. SelectsFromResponse' /\ KnowsWhatItMade' /\ MakesInOrder' /\ QuotesThem' /\ OthersMakeNone'
  BY <1>4 DEF SelectsFromResponse, KnowsWhatItMade, MakesInOrder, QuotesThem, OthersMakeNone
<1> QED BY <1>8, <1>9, <1>10 DEF ToolsIInv

\* The runner's quote and the answer.
LEMMA AnswerKeeps ==
  ASSUME ToolsIInv, MakeQuote \/ Approve \/ PollLink \/ WriteStatus \/ Cut
  PROVE  ToolsIInv'
<1>1. /\ request \in RequestType /\ Len(made) \in Nat /\ made \in Seq(OfferRow)
      /\ request.items = made /\ ~lost
      /\ quote \in [items: Seq(OfferRow), approved: BOOLEAN] /\ Len(quote.items) <= Len(made)
  BY DEF ToolsIInv, ToolsTypeOK, RequestType, KnowsWhatItMade, MakeQuote, Approve, PollLink,
         WriteStatus, Cut, RequestAt
<1>2. /\ {"approve", "poll", "status", "ok", "cut"} \subseteq ToolPC
      /\ request.items \in Seq(OfferRow) /\ request.answer \in Seq(OfferRow)
  BY <1>1 DEF ToolPC, RequestType
<1>3. /\ request' \in RequestType /\ request'.at = request.at
      /\ request'.tool = request.tool /\ request'.max = request.max
      /\ request'.response = request.response /\ request'.selected = request.selected
      /\ request'.items = request.items
      /\ \/ request'.answer = request.answer
         \/ request'.pc = "ok" /\ request'.answer = request.items
      /\ \/ request.pc = "quote" /\ request'.pc = "approve"
         \/ request.pc = "approve" /\ request'.pc = "poll"
         \/ request.pc = "poll" /\ request'.pc = "status"
         \/ request.pc = "status" /\ request'.pc = "ok" /\ request'.answer = request.items
         \/ request'.pc = "cut"
  <2>1. CASE MakeQuote
    BY <1>1, <1>2, <2>1 DEF MakeQuote, RequestAt, RequestTo, RequestType
  <2>2. CASE Approve
    BY <1>1, <1>2, <2>2 DEF Approve, RequestAt, RequestTo, RequestType
  <2>3. CASE PollLink
    BY <1>1, <1>2, <2>3 DEF PollLink, RequestAt, RequestTo, RequestType
  <2>4. CASE WriteStatus
    BY <1>1, <1>2, <2>4 DEF WriteStatus, RequestAt, RequestTo, RequestType
  <2>5. CASE Cut
    BY <1>1, <1>2, <2>5 DEF Cut, RequestTo, RequestType
  <2> QED BY <2>1, <2>2, <2>3, <2>4, <2>5
<1>4. /\ UNCHANGED <<products, made, lost, requests>>
      /\ status' \in {"none", "no_availability", "available"}
      /\ \/ quote' = quote /\ request.pc \notin {"quote", "approve"}
         \/ quote' = quote /\ request'.pc = "cut"
         \/ request.pc = "quote" /\ quote' = [items |-> made, approved |-> FALSE]
         \/ request.pc = "approve" /\ quote' = [quote EXCEPT !.approved = TRUE]
  <2>1. status \in {"none", "no_availability", "available"}
    BY DEF ToolsIInv, ToolsTypeOK
  <2>2. CASE MakeQuote \/ Approve
    BY <1>1, <2>1, <2>2 DEF MakeQuote, Approve, RequestAt
  <2>3. CASE PollLink \/ WriteStatus
    BY <1>1, <2>1, <2>3 DEF PollLink, WriteStatus, RequestAt
  <2>4. CASE Cut
    BY <1>1, <1>2, <2>1, <2>4 DEF Cut, RequestTo, RequestType
  <2> QED BY <2>2, <2>3, <2>4
<1>5. /\ quote' \in [items: Seq(OfferRow), approved: BOOLEAN] /\ Len(quote'.items) <= Len(made)
      /\ request.pc = "approve" /\ request'.pc = "poll" =>
           quote'.items = quote.items /\ quote'.approved
      /\ request.pc = "quote" /\ request'.pc = "approve" => quote'.items = made
  <2>1. CASE quote' = quote /\ (request'.pc = "cut" \/ request.pc \notin {"quote", "approve"})
    BY <1>1, <2>1
  <2>2. CASE request.pc = "quote" /\ quote' = [items |-> made, approved |-> FALSE]
    <3>1. quote' \in [items: Seq(OfferRow), approved: BOOLEAN] /\ quote'.items = made
      BY <1>1, <2>2
    <3> QED BY <1>1, <2>2, <3>1
  <2>3. CASE request.pc = "approve" /\ quote' = [quote EXCEPT !.approved = TRUE]
    <3>1. /\ quote' \in [items: Seq(OfferRow), approved: BOOLEAN] /\ quote'.items = quote.items
          /\ quote'.approved
      BY <1>1, <2>3
    <3> QED BY <1>1, <2>3, <3>1
  <2> QED BY <1>4, <2>1, <2>2, <2>3
<1>6. ToolsTypeOK'
  <2>1. request'.tool # "check" => Len(request'.answer) <= Len(made)
    BY <1>1, <1>3 DEF ToolsIInv, ToolsTypeOK
  <2> QED BY <1>1, <1>3, <1>4, <1>5, <2>1 DEF ToolsIInv, ToolsTypeOK, RequestType
<1>7. SelectsFromResponse' /\ KnowsWhatItMade'
  BY <1>1, <1>3, <1>4 DEF ToolsIInv, SelectsFromResponse, KnowsWhatItMade
<1>8. MakesInOrder'
  BY <1>1, <1>3, <1>4 DEF ToolsIInv, MakesInOrder
<1>9. QuotesThem' /\ OthersMakeNone' /\ ErrorsTell'
  BY <1>1, <1>3, <1>4, <1>5 DEF ToolsIInv, QuotesThem, OthersMakeNone, ErrorsTell
<1> QED BY <1>6, <1>7, <1>8, <1>9 DEF ToolsIInv

LEMMA ToolsStepKeeps ==
  ASSUME ToolsIInv, [ToolsNext]_toolVars
  PROVE  ToolsIInv'
<1>1. ASSUME NEW tool \in Tool, RefuseRequest(tool) PROVE ToolsIInv'
  BY <1>1, ArriveKeeps DEF RefuseRequest
<1>2. ASSUME NEW tool \in Tool, NEW max \in MaxResults \cup {0}, Invoke(tool, max) PROVE ToolsIInv'
  BY <1>2, ArriveKeeps DEF Invoke
<1>3. ASSUME NEW response \in Response, Availability(response) \/ Check(response) PROVE ToolsIInv'
  BY <1>3, AvailabilityKeeps, CheckKeeps
<1>4. ASSUME NEW sku \in Sku, OtherProduct(sku) PROVE ToolsIInv'
  BY <1>4 DEF OtherProduct, ToolsIInv, ToolsTypeOK, SelectsFromResponse, KnowsWhatItMade,
              MakesInOrder, QuotesThem, OthersMakeNone, ErrorsTell
<1>5. CASE SearchProduct
  <2>1. request.pc \in {"search", "product"} /\ products' \subseteq Sku
    BY <1>5 DEF SearchProduct, RequestAt, ToolsIInv, ToolsTypeOK
  <2> QED BY <1>5, <2>1, ProductKeeps DEF SearchProduct
<1>6. CASE MakeProduct
  <2>1. request.pc = "product" /\ request.at \in 1..Len(request.selected)
        /\ request.selected \in Seq(OfferRow)
    BY <1>6 DEF MakeProduct, RequestAt, ToolsIInv, ToolsTypeOK, MakesInOrder
  <2>2. Offer.sku \in Sku
    <3>1. Offer \in OfferRow
      BY <2>1, ElementOfSeq DEF Offer
    <3> QED BY <3>1 DEF OfferRow
  <2>3. products' \subseteq Sku
    BY <1>6, <2>2 DEF MakeProduct, ToolsIInv, ToolsTypeOK
  <2> QED BY <1>6, <2>1, <2>3, ProductKeeps DEF MakeProduct
<1>7. CASE UNCHANGED toolVars
  BY <1>7 DEF toolVars, ToolsIInv, ToolsTypeOK, SelectsFromResponse, KnowsWhatItMade,
              MakesInOrder, QuotesThem, OthersMakeNone, ErrorsTell
<1>8. CASE PhobsFails \/ HubSpotFails
  BY <1>8, FailureKeeps
<1>9. CASE MakeLineItem
  BY <1>9, LineItemKeeps
<1>10. CASE MakeQuote \/ Approve \/ PollLink \/ WriteStatus \/ Cut
  BY <1>10, AnswerKeeps
<1> QED BY <1>1, <1>2, <1>3, <1>4, <1>5, <1>6, <1>7, <1>8, <1>9, <1>10 DEF ToolsNext

\* The inductive invariant of the tools, for any responses, caps and number of requests.
THEOREM ToolsInvariance == ToolsSpec => []ToolsIInv
<1>1. ToolsInit => ToolsIInv
  <2>1. SUFFICES ASSUME ToolsInit PROVE ToolsIInv
    OBVIOUS
  <2>2. /\ NoRequest \in RequestType /\ NoRequest.pc = "idle" /\ NoRequest.at = 1
        /\ NoRequest.items = <<>> /\ NoRequest.answer = <<>> /\ NoRequest.selected = <<>>
        /\ NoRequest.tool = "mcp"
    <3>1. <<>> \in Seq(OfferRow)
      OBVIOUS
    <3> QED BY <3>1 DEF NoRequest, RequestType, ToolPC, Tool
  <2>3. /\ NoQuote \in [items: Seq(OfferRow), approved: BOOLEAN] /\ NoQuote.items = <<>>
        /\ <<>> \in Seq(OfferRow) /\ Len(<<>>) = 0
    BY EmptySeq DEF NoQuote
  <2>4. ToolsTypeOK
    <3>1. 1 \in 1..(Len(<<>>) + 1) /\ 0 \in 0..MaxRequests /\ Len(<<>>) <= Len(<<>>)
      BY <2>3, ToolsAssumption
    <3> QED BY <2>1, <2>2, <2>3, <3>1 DEF ToolsInit, ToolsTypeOK, RequestType
  <2> QED BY <2>1, <2>2, <2>4 DEF ToolsInit, ToolsIInv, SelectsFromResponse, KnowsWhatItMade,
            MakesInOrder, QuotesThem, OthersMakeNone, ErrorsTell
<1>2. ToolsIInv /\ [ToolsNext]_toolVars => ToolsIInv'
  BY ToolsStepKeeps
<1> QED BY <1>1, <1>2, PTL DEF ToolsSpec

\* Every variable of the tools keeps its type, and a request never names more line items
\* than were made.
THEOREM ToolsTypeCorrect == ToolsSpec => []ToolsTypeOK
<1>1. ToolsIInv => ToolsTypeOK
  BY DEF ToolsIInv
<1> QED BY <1>1, ToolsInvariance, PTL

\* An answer of success has the cheapest offers as line items and in the runner's quote, and
\* an error of the others names each line item but one whose answer was lost.
THEOREM AnswersAlwaysAddUp == ToolsSpec => []AnswersAddUp
<1>1. ToolsIInv => AnswersAddUp
  <2>1. SUFFICES ASSUME ToolsIInv PROVE AnswersAddUp
    OBVIOUS
  <2>2. ASSUME request.pc = "ok", request.tool # "check"
        PROVE  /\ request.answer = made
               /\ Cheapest(made, request.response, request.max)
               /\ request.tool = "runner" /\ made # <<>> =>
                    quote = [items |-> made, approved |-> TRUE]
    <3>1. /\ request.selected = made /\ request.answer = made
          /\ request.response \in Response
          /\ request.selected = SelectOffers(request.response, request.max)
      BY <2>1, <2>2 DEF ToolsIInv, SelectsFromResponse, MakesInOrder, KnowsWhatItMade
    <3>2. request.max \in MaxResults \cup {0}
      BY <2>1 DEF ToolsIInv, ToolsTypeOK
    <3>3. Cheapest(SelectOffers(request.response, request.max), request.response, request.max)
      BY <3>1, <3>2, SelectedOfResponse
    <3>4. quote \in [items: Seq(OfferRow), approved: BOOLEAN]
      BY <2>1 DEF ToolsIInv, ToolsTypeOK
    <3>5. request.tool = "runner" /\ made # <<>> => quote.items = made /\ quote.approved
      BY <2>1, <2>2, <3>1 DEF ToolsIInv, QuotesThem
    <3> QED BY <3>1, <3>3, <3>4, <3>5
  <2>3. ErrorsTell
    BY <2>1 DEF ToolsIInv
  <2>4. ASSUME request.pc = "ok", request.tool # "check"
        PROVE  LET offered == Selling(request.response)
                   most == IF request.max = 0 \/ request.max > Cardinality(offered)
                           THEN Cardinality(offered) ELSE request.max
               IN  request.tool = "runner" /\ most > 0 =>
                     quote = [items |-> made, approved |-> TRUE]
    <3>1. Len(<<>>) = 0
      OBVIOUS
    <3> QED BY <2>2, <2>4, <3>1 DEF Cheapest
  <2> QED BY <2>2, <2>3, <2>4 DEF AnswersAddUp, Cheapest, ErrorsTell
<1> QED BY <1>1, ToolsInvariance, PTL

-----------------------------------------------------------------------------
(* The types of the other parts. *)

\* Type correctness of the stored tokens, the calls and the installations.
THEOREM TokensTypeCorrect == TokensSpec => []TokensTypeOK
<1>1. TokensIInv => TokensTypeOK
  BY DEF TokensIInv
<1> QED BY <1>1, TokensInvariance, PTL

\* Type correctness of the counters and the logins.
THEOREM ThrottleTypeCorrect == ThrottleSpec => []ThrottleTypeOK
<1>1. ThrottleInvariant => ThrottleTypeOK
  BY DEF ThrottleInvariant
<1> QED BY <1>1, ThrottleInvariance, PTL

\* Type correctness of the tabs and the counter of their streams.
THEOREM StreamsTypeCorrect == StreamsSpec => []StreamsTypeOK
<1>1. StreamsIInv => StreamsTypeOK
  BY DEF StreamsIInv
<1> QED BY <1>1, StreamsInvariance, PTL

ApiCounted == triggers \in 0..MaxTriggers /\ apiFaults \in 0..MaxApiFaults

\* Type correctness of the API tokens, the triggers and what they leave.
THEOREM ApiTypeCorrect == ApiSpec => []ApiTokensTypeOK
<1>1. ApiInit => ApiCounted
  BY ApiTokensAssumption DEF ApiInit, ApiCounted
<1>2. ApiCounted /\ [ApiNext]_apiVars => ApiCounted'
  <2> SUFFICES ASSUME ApiCounted, [ApiNext]_apiVars PROVE ApiCounted'
    OBVIOUS
  <2> USE ApiTokensAssumption DEF ApiCounted
  <2>1. ASSUME NEW t \in ApiToken, NEW list \in SUBSET Address,
               MintApiToken(t, list) \/ UpdateApiTokenAllowlist(t, list) \/ RevokeApiToken(t)
        PROVE  ApiCounted'
    BY <2>1 DEF MintApiToken, UpdateApiTokenAllowlist, RevokeApiToken
  <2>2. ASSUME NEW r \in Trigger,
               \/ \E t \in ApiToken, address \in Address, deal \in Deal,
                    header \in Header \cup {NoHeader} : Present(r, t, address, deal, header)
               \/ ClaimKey(r) \/ EnqueueProcessDeal(r) \/ EnqueueFails(r) \/ ReleaseKey(r)
        PROVE  ApiCounted'
    BY <2>2 DEF Present, ClaimKey, EnqueueProcessDeal, EnqueueFails, ReleaseKey, ApiFault
  <2>3. CASE PurgeKeys \/ UNCHANGED apiVars
    BY <2>3 DEF PurgeKeys, apiVars
  <2>4. CASE \E t \in ApiToken : \/ \E list \in SUBSET Address :
                                     MintApiToken(t, list) \/ UpdateApiTokenAllowlist(t, list)
                                 \/ RevokeApiToken(t)
    BY <2>1, <2>4
  <2> QED BY <2>2, <2>3, <2>4 DEF ApiNext
<1>3. ApiIInv /\ ApiCounted => ApiTokensTypeOK
  BY DEF ApiIInv, ApiTyped, ApiCounted, ApiTokensTypeOK, Tokens, Requests, Claimed
<1> QED BY <1>1, <1>2, <1>3, ApiInitially, ApiPreserved, PTL DEF ApiSpec

\* Type correctness of the row, the pages and their PUTs.
THEOREM EditorTypeCorrect == EditorSpec => []EditorTypeOK
<1> DEFINE InBound == edits \in 0..MaxEdits
<1>1. EditorInit => InBound
  BY ConfigEditorAssumption DEF EditorInit
<1>2. InBound /\ [EditorNext]_editorVars => InBound'
  <2> SUFFICES ASSUME InBound, [EditorNext]_editorVars PROVE InBound'
    OBVIOUS
  <2>1. ASSUME NEW e, NEW form, NEW typed, NEW drawn, NEW drawnTyped,
               Edits(e, form, typed, drawn, drawnTyped)
        PROVE  InBound'
    BY <2>1, ConfigEditorAssumption DEF Edits
  <2>2. ASSUME NEW e \in Editor, NEW v \in Value,
               \/ \E g \in ConfigField : EditField(e, g, v)
               \/ EditOverride(e, v) \/ AddCondition(e, v) \/ EditCondition(e, v)
        PROVE  InBound'
    <3> HIDE DEF InBound
    <3> QED BY <2>1, <2>2, Zenon DEF EditField, EditOverride, AddCondition, EditCondition
  <2>3. ASSUME NEW e \in Editor,
               \/ QueryAnswers(e) \/ PageReopens(e) \/ ClickSave(e) \/ PutRow(e) \/ PutRefused(e)
               \/ SaveAnswered(e) \/ RotateToken(e)
        PROVE  edits' = edits
    BY <2>3, Zenon
    DEF QueryAnswers, PageReopens, ClickSave, PutRow, PutRefused, SaveAnswered, RotateToken
  <2>4. CASE UNCHANGED editorVars
    BY <2>4 DEF editorVars
  <2>5. CASE \E e \in Editor : \/ QueryAnswers(e) \/ PageReopens(e) \/ ClickSave(e) \/ PutRow(e)
                               \/ PutRefused(e) \/ SaveAnswered(e) \/ RotateToken(e)
    BY <2>3, <2>5
  <2>6. CASE \E e \in Editor, v \in Value :
               \/ \E g \in ConfigField : EditField(e, g, v)
               \/ EditOverride(e, v) \/ AddCondition(e, v) \/ EditCondition(e, v)
    BY <2>2, <2>6
  <2> HIDE DEF InBound
  <2> QED BY <2>4, <2>5, <2>6, Zenon DEF EditorNext
<1>3. PagesOK /\ InBound => EditorTypeOK
  BY DEF PagesOK, EditorTypeOK
<1> QED BY <1>1, <1>2, <1>3, EditorInitially, EditorPreserved, PTL DEF EditorSpec

-----------------------------------------------------------------------------
(* MCBackOffice *)

\* In the runs that check the parts one beside the other, each takes only steps of its own:
\* what is proved of a part's specification holds there.
LEMMA StepsOfTheParts ==
  ASSUME [Next]_allVars
  PROVE  /\ [AccountsNext]_accountVars /\ [ThrottleNext]_throttleVars
         /\ [StreamsNext]_streamVars /\ [TokensNext]_tokenVars
         /\ [ErasureNext]_erasureVars /\ [ToolsNext]_toolVars
         /\ [ApiNext]_apiVars /\ [EditorNext]_editorVars
         /\ UNCHANGED part
<1>1. CASE UNCHANGED allVars
  BY <1>1 DEF allVars
<1>2. CASE Next
  <2>1. CASE Others("accounts") /\ AccountsNext
    BY <2>1 DEF Others
  <2>2. CASE Others("throttle") /\ ThrottleNext
    BY <2>2 DEF Others
  <2>3. CASE Others("streams") /\ StreamsNext
    BY <2>3 DEF Others
  <2>4. CASE Others("tokens") /\ TokensNext
    BY <2>4 DEF Others
  <2>5. CASE Others("erasure") /\ ErasureNext
    BY <2>5 DEF Others
  <2>6. CASE Others("tools") /\ ToolsNext
    BY <2>6 DEF Others
  <2>7. CASE Others("api") /\ ApiNext
    BY <2>7 DEF Others
  <2>8. CASE Others("editor") /\ EditorNext
    BY <2>8 DEF Others
  <2> QED BY <1>2, <2>1, <2>2, <2>3, <2>4, <2>5, <2>6, <2>7, <2>8 DEF Next
<1> QED BY <1>1, <1>2

\* A behaviour of these runs is one of each part's specification: part by part, the runs
\* check what the theorems are about.
THEOREM RunsAreOfTheParts ==
  Spec => /\ AccountsSpec /\ ThrottleSpec /\ StreamsSpec /\ TokensSpec
          /\ ErasureSpec /\ ToolsSpec /\ ApiSpec /\ EditorSpec
<1>1. Init => /\ AccountsInit /\ ThrottleInit /\ StreamsInit /\ TokensInit
              /\ ErasureInit /\ ToolsInit /\ ApiInit /\ EditorInit
  BY DEF Init
<1> QED BY <1>1, StepsOfTheParts, PTL
        DEF Spec, AccountsSpec, ThrottleSpec, StreamsSpec, TokensSpec, ErasureSpec, ToolsSpec,
            ApiSpec, EditorSpec

\* Type correctness of all parts in these runs.
THEOREM TypesCorrect == Spec => []TypesOK
<1>1. Spec => [](part \in Parts)
  <2>1. Init => part \in Parts
    BY DEF Init
  <2>2. part \in Parts /\ [Next]_allVars => (part \in Parts)'
    BY StepsOfTheParts DEF Parts
  <2> QED BY <2>1, <2>2, PTL DEF Spec
<1>2. /\ part \in Parts /\ AccountsTypeOK /\ ThrottleTypeOK /\ StreamsTypeOK /\ TokensTypeOK
      /\ ErasureTypeOK /\ ToolsTypeOK /\ ApiTokensTypeOK /\ EditorTypeOK
      => TypesOK
  BY DEF Parts, TypesOK
<1> QED BY <1>1, <1>2, RunsAreOfTheParts, AccountsTypeCorrect, ThrottleTypeCorrect,
           StreamsTypeCorrect, TokensTypeCorrect, ErasureTypeCorrect, ToolsTypeCorrect,
           ApiTypeCorrect, EditorTypeCorrect, PTL
=============================================================================
